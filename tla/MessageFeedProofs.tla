------------------------- MODULE MessageFeedProofs -------------------------
(***************************************************************************)
(* Proofs about the page synchronisation, for any number of messages and   *)
(* revisions, any page size, and any number of lost streams, failed        *)
(* requests and deaths of the process.                                     *)
(*                                                                         *)
(* None of the three properties is inductive: whether the page is complete *)
(* depends on what the batches under way bring.  FeedInv says that every   *)
(* view of a message, saved, shown or under way, has a place in one order  *)
(* of revisions (ViewsOrdered), that no cursor is ahead of the table       *)
(* (CursorInv), what each kind of batch holds of what its cursor covers    *)
(* (CoverInv), and that a status or a cancellable set is only wrong about  *)
(* a message whose event is queued or whose change the cursor has not      *)
(* reached (StatusInv, CancelInv).  ServerInv keeps the model's bound on   *)
(* revisions from meeting a queued event.                                  *)
(***************************************************************************)
EXTENDS MessageFeed, FiniteSetTheorems, WellFoundedInduction, TLAPS

\* What travels in a request.
Pages == UNION { [P -> Row] : P \in SUBSET Messages }
Batch == [stage: Stages, wait: Nat, fresh: BOOLEAN, rows: Pages, cursor: Nat, before: Nat,
          more: BOOLEAN, cancellable: SUBSET Messages]

ServerTypes ==
  /\ sequence \in [Messages -> 0..Cardinality(Messages)] /\ revision \in [Messages -> 0..MaxRevision]
  /\ replied \in [Messages -> BOOLEAN] /\ live \in [Messages -> Statuses]
  /\ touches \in Seq(Messages)
PageTypes ==
  /\ loaded \in BOOLEAN /\ hasMore \in BOOLEAN /\ cursor \in Nat /\ before \in Nat
  /\ shown \in [Messages -> Row] /\ cancellable \in SUBSET Messages
FeedTypes ==
  /\ ServerTypes /\ PageTypes
  /\ request \in [Channels -> Batch] /\ restarts \in Nat

\* A request that carries rows, and one that carries a row of m.
Carries(c) == request[c].stage \in {"paged", "ready"}
Carried(c, m) == Carries(c) /\ m \in DOMAIN request[c].rows

\* The store's columns agree with the engine, and the revisions suffice.
ServerInv ==
  /\ Taken =< MaxRevision
  /\ \A m \in Messages : /\ sequence[m] = 0 <=> revision[m] = 0
                         /\ live[m] # "absent" => sequence[m] # 0
                         /\ replied[m] => live[m] \in Ended
  /\ \A k \in DOMAIN touches : sequence[touches[k]] # 0

\* Cursors never run ahead, and nothing is shown before the first batch.
CursorInv ==
  /\ cursor =< Latest
  /\ \A c \in Channels : Carries(c) => request[c].cursor =< Latest
  /\ hasMore => loaded
  /\ request["older"].stage \notin {"idle", "lost"} => loaded
  /\ ~loaded => \A m \in Messages : shown[m].revision = 0

\* Whatever is saved, shown or under way of a message: a reply, once there, stays.
Views(m) ==
  {<<revision[m], replied[m]>>, <<shown[m].revision, shown[m].replied>>}
  \union { <<request[c].rows[m].revision, request[c].rows[m].replied>> :
             c \in { d \in Channels : Carried(d, m) } }
ViewsOrdered ==
  \A m \in Messages :
    /\ \A a \in Views(m) : a[1] =< revision[m]
    /\ \A a, b \in Views(m) : a[1] =< b[1] /\ a[2] => b[2]

\* What a step does to a request: nothing that matters, or it carries nothing after it.
Kept(c) ==
  /\ request'[c].stage = request[c].stage /\ request'[c].rows = request[c].rows
  /\ request'[c].cursor = request[c].cursor /\ request'[c].before = request[c].before
  /\ request'[c].more = request[c].more /\ request'[c].cancellable = request[c].cancellable
Dropped(c) ==
  /\ request'[c].stage \in {"idle", "sent", "lost"}
  /\ c = "older" /\ request'[c].stage = "sent" => hasMore

\* Steps of the wire, of the store, and of the page.
Quiet == UNCHANGED <<server, page, restarts>> /\ \A c \in Channels : Kept(c) \/ Dropped(c)
Stored == UNCHANGED <<page, restarts>> /\ \A c \in Channels : Kept(c)
Merged(c) ==
  \A m \in Messages :
    shown'[m] = IF Carried(c, m) /\ request[c].rows[m].revision >= shown[m].revision
                THEN request[c].rows[m] ELSE shown[m]

-----------------------------------------------------------------------------
(* Numbers: a set of naturals has a least element, a bounded one a greatest.*)
LEMMA Least ==
  ASSUME NEW T, T \subseteq Nat, T # {}
  PROVE  \E x \in T : \A y \in T : x =< y
<1> DEFINE Below == { 0..x : x \in T }
<1>1. Below \subseteq FiniteSubsetsOf(Nat) /\ Below # {}
  <2>1. ASSUME NEW x \in T PROVE 0..x \in SUBSET Nat /\ IsFiniteSet(0..x)
    BY FS_Interval
  <2> QED BY <2>1 DEF FiniteSubsetsOf
<1>2. PICK s \in Below : \A t \in Below : <<t, s>> \notin StrictSubsetOrdering(Nat)
  <2> HIDE DEF Below
  <2> QED BY <1>1, WFMin, FS_StrictSubsetOrderingWellFounded
<1>3. PICK x \in T : s = 0..x
  BY <1>2
<1>4. ASSUME NEW y \in T, y < x PROVE FALSE
  <2>1. 0..y \subseteq 0..x /\ 0..y # 0..x
    <3>1. x \in 0..x /\ x \notin 0..y
      BY <1>4
    <3> QED BY <1>4, <3>1
  <2>2. <<0..y, 0..x>> \in StrictSubsetOrdering(Nat)
    BY <2>1 DEF StrictSubsetOrdering
  <2> QED BY <1>2, <1>3, <2>2
<1> QED BY <1>4

(* The greatest, by the least distance to the bound.                       *)
LEMMA Greatest ==
  ASSUME NEW k \in Nat, NEW T, T \subseteq 0..k, T # {}
  PROVE  \E x \in T : \A y \in T : y =< x
<1> DEFINE Distances == { k - x : x \in T }
<1>1. Distances \subseteq Nat /\ Distances # {}
  OBVIOUS
<1>2. PICK d \in Distances : \A e \in Distances : d =< e
  <2> HIDE DEF Distances
  <2> QED BY <1>1, Least
<1>3. PICK x \in T : d = k - x
  BY <1>2
<1>4. \A y \in T : k - x =< k - y
  BY <1>2, <1>3
<1> QED BY <1>4

(* The greatest revision, as Latest chooses it.                             *)
LEMMA Chosen ==
  ASSUME NEW k \in Nat, NEW f \in [Messages -> 0..k]
  PROVE  LET top == CHOOSE r \in 0..k : /\ \A m \in Messages : f[m] =< r
                                        /\ r = 0 \/ \E m \in Messages : f[m] = r
         IN  /\ top \in 0..k
             /\ \A m \in Messages : f[m] =< top
             /\ top = 0 \/ \E m \in Messages : f[m] = top
<1> DEFINE T == {0} \union { f[m] : m \in Messages }
<1>1. T \subseteq 0..k /\ T # {}
  OBVIOUS
<1>2. PICK x \in T : \A y \in T : y =< x
  <2> HIDE DEF T
  <2> QED BY <1>1, Greatest
<1>3. /\ x \in 0..k
      /\ \A m \in Messages : f[m] =< x
      /\ x = 0 \/ \E m \in Messages : f[m] = x
  BY <1>1, <1>2
<1> QED BY <1>3

(* A page: the first rows by some key.  It reaches downwards without a gap, *)
(* and is empty only when there is nothing to read.                         *)
LEMMA FirstRows ==
  ASSUME NEW S \in SUBSET Messages, NEW key, NEW low \in Int,
         \A m \in S : key[m] \in Int /\ low =< key[m]
  PROVE  /\ FirstBy(S, key) \subseteq S
         /\ S # {} => FirstBy(S, key) # {}
         /\ \A m \in S, p \in FirstBy(S, key) : key[m] =< key[p] => m \in FirstBy(S, key)
<1> DEFINE Before(m) == { n \in S : key[n] < key[m] }
<1>1. \A m \in S : IsFiniteSet(Before(m)) /\ Cardinality(Before(m)) \in Nat
  <2>1. IsFiniteSet(S)
    BY FeedAssumption, FS_Subset
  <2> QED BY <2>1, FS_Subset, FS_CardinalityType
<1>2. FirstBy(S, key) = { m \in S : Cardinality(Before(m)) < PageSize }
  BY DEF FirstBy
<1>3. ASSUME S # {} PROVE FirstBy(S, key) # {}
  <2> DEFINE T == { key[m] - low : m \in S }
  <2>1. T \subseteq Nat /\ T # {}
    BY <1>3
  <2>2. PICK d \in T : \A e \in T : d =< e
    <3> HIDE DEF T
    <3> QED BY <2>1, Least
  <2>3. PICK m \in S : d = key[m] - low
    BY <2>2
  <2>4. \A n \in S : key[m] =< key[n]
    <3>1. \A n \in S : key[m] - low =< key[n] - low
      BY <2>2, <2>3
    <3> QED BY <3>1
  <2>5. Before(m) = {}
    BY <2>4
  <2> QED BY <1>2, <2>5, FS_EmptySet, FeedAssumption
<1>4. ASSUME NEW m \in S, NEW p \in FirstBy(S, key), key[m] =< key[p]
      PROVE  m \in FirstBy(S, key)
  <2>1. p \in S /\ Cardinality(Before(p)) < PageSize
    BY <1>2
  <2>2. Before(m) \subseteq Before(p)
    BY <1>4, <2>1
  <2>3. Cardinality(Before(m)) =< Cardinality(Before(p))
    BY <1>1, <2>1, <2>2, FS_Subset
  <2>4. Cardinality(Before(m)) < PageSize
    BY <1>1, <2>1, <2>3, FeedAssumption
  <2> QED BY <1>2, <2>4
<1> QED BY <1>2, <1>3, <1>4
-----------------------------------------------------------------------------
(* Latest is the greatest revision.                                        *)
LEMMA LatestRevision ==
  ASSUME ServerTypes
  PROVE  /\ Latest \in 0..MaxRevision
         /\ \A m \in Messages : revision[m] =< Latest
         /\ Latest = 0 \/ \E m \in Messages : revision[m] = Latest
  BY Chosen, FeedAssumption DEF Latest, ServerTypes

(* A revised message has the latest revision.                               *)
LEMMA Revised ==
  ASSUME ServerTypes, NEW m \in Messages, Revise(m), Latest < MaxRevision
  PROVE  /\ revision' \in [Messages -> 0..MaxRevision]
         /\ revision'[m] = Latest + 1 /\ Latest' = Latest + 1
         /\ \A n \in Messages \ {m} : revision'[n] = revision[n]
<1>1. /\ Latest \in 0..MaxRevision /\ MaxRevision \in Nat
      /\ \A n \in Messages : revision[n] =< Latest /\ revision[n] \in 0..MaxRevision
  BY LatestRevision, FeedAssumption DEF ServerTypes
<1>2. /\ revision' \in [Messages -> 0..MaxRevision]
      /\ revision'[m] = Latest + 1
      /\ \A n \in Messages \ {m} : revision'[n] = revision[n]
  BY <1>1 DEF Revise, ServerTypes
<1>3. /\ Latest' \in 0..MaxRevision
      /\ \A n \in Messages : revision'[n] =< Latest'
      /\ Latest' = 0 \/ \E n \in Messages : revision'[n] = Latest'
  BY <1>1, <1>2, Chosen DEF Latest
<1>4. Latest' = Latest + 1
  <2> HIDE DEF Latest
  <2> QED BY <1>1, <1>2, <1>3
<1> QED BY <1>2, <1>4

(* A page of changes: everything its cursor covers is in it.                *)
LEMMA ChangesPage ==
  ASSUME ServerTypes, cursor \in Nat, cursor =< Latest
  PROVE  /\ ChangePage \subseteq Newer
         /\ NextCursor(ChangePage) \in Nat /\ NextCursor(ChangePage) =< Latest
         /\ \A m \in Newer : revision[m] =< NextCursor(ChangePage) => m \in ChangePage
<1> DEFINE P == ChangePage
<1>1. /\ Latest \in Nat /\ Newer \subseteq Messages
      /\ \A m \in Messages : revision[m] \in 0..MaxRevision /\ revision[m] \in Int /\ 0 =< revision[m]
      /\ \A m \in Messages : revision[m] =< Latest
  BY LatestRevision, FeedAssumption DEF ServerTypes, Newer, Saved
<1>2. /\ P \subseteq Newer /\ (Newer # {} => P # {})
      /\ \A m \in Newer, p \in P : revision[m] =< revision[p] => m \in P
  BY <1>1, FirstRows DEF ChangePage
<1>3. CASE P = Newer
  BY <1>1, <1>3 DEF NextCursor
<1>4. CASE P # Newer
  <2> DEFINE T == { revision[m] : m \in P }
  <2>1. T \subseteq 0..MaxRevision /\ T # {}
    BY <1>1, <1>2, <1>4
  <2>2. \E r \in T : \A y \in T : y =< r
    <3> HIDE DEF T
    <3> QED BY <2>1, Greatest, FeedAssumption
  <2>3. /\ NewestRevision(P) \in T
        /\ \A m \in P : revision[m] =< NewestRevision(P)
    <3>1. \E r \in T : \A m \in P : revision[m] =< r
      BY <2>2
    <3> HIDE DEF P
    <3> QED BY <3>1 DEF NewestRevision
  <2>4. PICK p \in P : NewestRevision(P) = revision[p]
    BY <2>3
  <2> QED BY <1>1, <1>2, <1>4, <2>4 DEF NextCursor
<1> QED BY <1>3, <1>4

(* A page of history: everything from its oldest row on is in it.           *)
LEMMA HistoryPages ==
  ASSUME ServerTypes, NEW S \in SUBSET Saved
  PROVE  /\ HistoryPage(S) \subseteq S /\ OldestOf(HistoryPage(S)) \in Nat
         /\ \A m \in S : (HistoryPage(S) # S => sequence[m] >= OldestOf(HistoryPage(S)))
                         => m \in HistoryPage(S)
<1> DEFINE P == HistoryPage(S)
           key == [m \in S |-> Cardinality(Saved) - sequence[m]]
<1>1. /\ S \in SUBSET Messages /\ \A m \in Messages : sequence[m] \in 0..Cardinality(Messages)
      /\ Cardinality(Saved) \in Nat /\ Cardinality(Messages) \in Nat
  <2>1. Saved \subseteq Messages
    BY DEF Saved
  <2> QED BY <2>1, FeedAssumption, FS_Subset, FS_CardinalityType DEF ServerTypes
<1>2. \A m \in S : key[m] = Cardinality(Saved) - sequence[m]
  OBVIOUS
<1>3. \A m \in S : key[m] \in Int /\ Cardinality(Saved) - Cardinality(Messages) =< key[m]
  BY <1>1
<1>4. /\ P \subseteq S /\ (S # {} => P # {})
      /\ \A m \in S, p \in P : key[m] =< key[p] => m \in P
  <2>1. P = FirstBy(S, key)
    BY DEF HistoryPage
  <2> HIDE DEF P, key
  <2> QED BY <1>1, <1>3, <2>1, FirstRows
<1>5. \A m \in S, p \in P : sequence[p] =< sequence[m] => m \in P
  <2> HIDE DEF P, key
  <2>1. ASSUME NEW m \in S, NEW p \in P, sequence[p] =< sequence[m] PROVE key[m] =< key[p]
    BY <1>1, <1>2, <1>4, <2>1
  <2> QED BY <1>4, <2>1
<1> HIDE DEF P
<1>6. CASE P = {}
  BY <1>4, <1>6 DEF OldestOf, P
<1>7. CASE P # {}
  <2> DEFINE T == { sequence[m] : m \in P }
  <2>1. T \subseteq Nat /\ T # {}
    BY <1>1, <1>4, <1>7
  <2>2. \E r \in T : \A y \in T : r =< y
    <3> HIDE DEF T
    <3> QED BY <2>1, Least
  <2>3. OldestOf(P) \in T
    <3>1. \E r \in T : \A m \in P : r =< sequence[m]
      BY <2>2
    <3> QED BY <1>7, <3>1 DEF OldestOf
  <2>4. PICK p \in P : OldestOf(P) = sequence[p]
    BY <2>3
  <2> QED BY <1>1, <1>4, <1>5, <2>4 DEF P
<1> QED BY <1>6, <1>7
-----------------------------------------------------------------------------
(* The two requests there are.                                              *)
LEMMA Channel == Channels = {"refresh", "older"} /\ "refresh" \in Channels /\ "older" \in Channels
  BY DEF Channels

(* The types of a request at rest, sent, and lost with the process.         *)
LEMMA IdleType == Idle \in Batch /\ Idle.stage = "idle"
<1>1. <<>> \in Pages
  <2>1. <<>> \in [{} -> Row]
    OBVIOUS
  <2> QED BY <2>1 DEF Pages
<1> QED BY <1>1 DEF Idle, Batch, Stages

(* A request that was just sent.                                            *)
LEMMA SentType ==
  ASSUME ServerTypes, NEW f \in BOOLEAN
  PROVE  Sent(f) \in Batch /\ Sent(f).stage = "sent"
<1>1. Len(touches) \in Nat
  BY DEF ServerTypes
<1> QED BY <1>1, IdleType DEF Sent, Batch, Stages

(* A request whose server died.                                             *)
LEMMA LostType ==
  ASSUME NEW f \in BOOLEAN
  PROVE  /\ [Idle EXCEPT !.stage = "lost", !.fresh = f] \in Batch
         /\ [Idle EXCEPT !.stage = "lost", !.fresh = f].stage = "lost"
  BY IdleType DEF Batch, Stages

(* The rows of a page are those of the store.                               *)
LEMMA RowsType ==
  ASSUME ServerTypes, NEW P \in SUBSET Messages
  PROVE  /\ RowsOf(P) \in Pages /\ DOMAIN RowsOf(P) = P
         /\ \A m \in P : RowsOf(P)[m].revision = revision[m] /\ RowsOf(P)[m].replied = replied[m]
<1> DEFINE row(m) == [revision |-> revision[m], replied |-> replied[m], status |-> "absent"]
<1>1. \A m \in Messages : row(m) \in Row
  BY FeedAssumption DEF ServerTypes, Row, Statuses
<1>2. RowsOf(P) = [m \in P |-> row(m)]
  BY DEF RowsOf
<1>3. RowsOf(P) \in [P -> Row]
  <2> HIDE DEF row
  <2> QED BY <1>1, <1>2
<1> QED BY <1>2, <1>3 DEF Pages

(* A page of changes, as a request carries it.                              *)
LEMMA ChangesType ==
  ASSUME ServerTypes, request \in [Channels -> Batch], cursor \in Nat, cursor =< Latest
  PROVE  /\ ChangesRead \in Batch /\ ChangesRead.stage = "paged"
         /\ ChangesRead.rows = RowsOf(ChangePage) /\ ChangesRead.cursor = NextCursor(ChangePage)
<1>1. request["refresh"] \in Batch /\ RowsOf(ChangePage) \in Pages
  BY Channel, ChangesPage, RowsType DEF Newer, Saved
<1>2. NextCursor(ChangePage) \in Nat
  BY ChangesPage
<1> DEFINE P == ChangePage
<1> HIDE DEF P
<1>3. ChangesRead = [request["refresh"] EXCEPT !.stage = "paged", !.rows = RowsOf(P),
                       !.more = (P # Newer), !.cursor = NextCursor(P)]
  BY DEF ChangesRead, P
<1> QED BY <1>1, <1>2, <1>3 DEF Batch, Stages, P

(* A page of history, as a request carries it.                              *)
LEMMA HistoryType ==
  ASSUME ServerTypes, request \in [Channels -> Batch], NEW c \in Channels, NEW S \in SUBSET Saved
  PROVE  LET P == HistoryPage(S)
             b == HistoryRead(c, S)
         IN  /\ b \in Batch /\ b.stage = "paged" /\ b.rows = RowsOf(P)
             /\ b.more = (P # S) /\ b.cursor = Latest /\ b.before = OldestOf(P)
<1> DEFINE P == HistoryPage(S)
<1>1. /\ request[c] \in Batch /\ RowsOf(P) \in Pages
      /\ Latest \in Nat /\ OldestOf(P) \in Nat
  BY HistoryPages, RowsType, LatestRevision, FeedAssumption DEF Saved
<1> HIDE DEF P
<1>2. HistoryRead(c, S) = [request[c] EXCEPT !.stage = "paged", !.rows = RowsOf(P),
                             !.more = (P # S), !.cursor = Latest, !.before = OldestOf(P)]
  BY DEF HistoryRead, P
<1> QED BY <1>1, <1>2 DEF Batch, Stages, P

(* The stored status of a row is read last.                                 *)
LEMMA StatusRows ==
  ASSUME ServerTypes, NEW r \in Pages
  PROVE  LET s == [m \in DOMAIN r |-> [r[m] EXCEPT !.status = StatusOf(m)]]
         IN  /\ DOMAIN r \subseteq Messages /\ s \in Pages /\ DOMAIN s = DOMAIN r
             /\ \A m \in DOMAIN r : /\ s[m].revision = r[m].revision /\ s[m].replied = r[m].replied
                                    /\ s[m].status = StatusOf(m)
<1>1. PICK P \in SUBSET Messages : r \in [P -> Row]
  BY DEF Pages
<1> DEFINE row(m) == [r[m] EXCEPT !.status = StatusOf(m)]
<1>2. \A m \in P : /\ row(m) \in Row /\ row(m).revision = r[m].revision
                   /\ row(m).replied = r[m].replied /\ row(m).status = StatusOf(m)
  <2>1. \A m \in P : StatusOf(m) \in Statuses
    BY DEF ServerTypes, StatusOf, Statuses
  <2> QED BY <1>1, <2>1 DEF Row
<1>3. DOMAIN r = P
  BY <1>1
<1> HIDE DEF row
<1>4. [m \in DOMAIN r |-> row(m)] \in [P -> Row]
  BY <1>2, <1>3
<1> QED BY <1>2, <1>3, <1>4 DEF Pages, row

(* Reading the status completes a batch and leaves what its rows say.       *)
LEMMA StatusRead ==
  ASSUME FeedTypes, NEW c \in Channels, ReadStatus(c)
  PROVE  /\ request[c].stage = "paged" /\ request'[c] \in Batch /\ request'[c].stage = "ready"
         /\ request'[c].cancellable = Cancellable
         /\ request'[c].cursor = request[c].cursor /\ request'[c].before = request[c].before
         /\ request'[c].more = request[c].more
         /\ DOMAIN request[c].rows \subseteq Messages
         /\ DOMAIN request'[c].rows = DOMAIN request[c].rows
         /\ \A m \in DOMAIN request[c].rows :
              /\ request'[c].rows[m].revision = request[c].rows[m].revision
              /\ request'[c].rows[m].replied = request[c].rows[m].replied
              /\ request'[c].rows[m].status = StatusOf(m)
         /\ \A d \in Channels \ {c} : request'[d] = request[d]
         /\ request' \in [Channels -> Batch]
<1> DEFINE r == request[c].rows
           s == [m \in DOMAIN r |-> [r[m] EXCEPT !.status = StatusOf(m)]]
<1>1. request[c] \in Batch /\ r \in Pages /\ request \in [Channels -> Batch]
  BY DEF FeedTypes, Batch
<1>2. /\ DOMAIN r \subseteq Messages /\ s \in Pages /\ DOMAIN s = DOMAIN r
      /\ \A m \in DOMAIN r : /\ s[m].revision = r[m].revision /\ s[m].replied = r[m].replied
                             /\ s[m].status = StatusOf(m)
  <2> HIDE DEF r
  <2> QED BY <1>1, StatusRows DEF FeedTypes
<1>3. request' = [request EXCEPT ![c].stage = "ready", ![c].cancellable = Cancellable, ![c].rows = s]
  BY DEF ReadStatus
<1>4. Cancellable \subseteq Messages /\ request[c].stage = "paged"
  BY DEF Cancellable, ReadStatus
<1> HIDE DEF s, Cancellable
<1>5. /\ request'[c] = [request[c] EXCEPT !.stage = "ready", !.cancellable = Cancellable, !.rows = s]
      /\ \A d \in Channels \ {c} : request'[d] = request[d]
      /\ DOMAIN request' = Channels
  BY <1>1, <1>3
<1>6. /\ request'[c] \in Batch /\ request'[c].stage = "ready"
      /\ request'[c].cancellable = Cancellable /\ request'[c].rows = s
      /\ request'[c].cursor = request[c].cursor /\ request'[c].before = request[c].before
      /\ request'[c].more = request[c].more
  BY <1>1, <1>2, <1>4, <1>5 DEF Batch, Stages
<1>7. request' \in [Channels -> Batch]
  <2>1. request' = [d \in Channels |-> request'[d]]
    BY <1>1, <1>3
  <2>2. \A d \in Channels : request'[d] \in Batch
    BY <1>1, <1>5, <1>6
  <2> QED BY <2>1, <2>2
<1> QED BY <1>2, <1>4, <1>5, <1>6, <1>7

(* refresh(): the request is replaced, or stays as it is.                   *)
LEMMA Refreshed ==
  ASSUME FeedTypes, NEW q \in [Channels -> Batch], Refresh(q)
  PROVE  /\ request' \in [Channels -> Batch]
         /\ request' = q \/ (request'["refresh"].stage = "sent" /\ request'["older"] = q["older"])
  BY SentType, Channel DEF Refresh, FeedTypes

(* A request that fails is over.                                            *)
LEMMA Failed ==
  ASSUME FeedTypes, NEW c \in Channels, FailsIn(c)
  PROVE  /\ request' \in [Channels -> Batch]
         /\ \A d \in Channels : Kept(d) \/ Dropped(d)
<1>1. request' = [request EXCEPT ![c] = Idle]
  BY Channel DEF FailsIn, RefreshFails, OlderFails
<1> QED BY <1>1, IdleType DEF FeedTypes, Kept, Dropped
-----------------------------------------------------------------------------
(* Every step of the wire is quiet: the store and the page are as they were *)
(* and no request carries anything new.                                     *)
LEMMA WireStep ==
  ASSUME FeedTypes,
         Connect \/ Wake \/ LoadOlder \/ Break \/ UNCHANGED vars
         \/ \E c \in Channels : Lost(c) \/ Fail(c)
  PROVE  Quiet /\ request' \in [Channels -> Batch]
<1> USE DEF server, page, window, bounds, loop, wire
<1>1. request \in [Channels -> Batch] /\ \A c \in Channels : request[c] \in Batch
  BY DEF FeedTypes
<1>2. CASE Connect
  <2> DEFINE q == [c \in Channels |-> [request[c] EXCEPT !.fresh = FALSE]]
  <2>1. \A c \in Channels : /\ [request[c] EXCEPT !.fresh = FALSE] \in Batch
                            /\ q[c] = [request[c] EXCEPT !.fresh = FALSE]
    BY <1>1 DEF Batch
  <2>2. q \in [Channels -> Batch] /\ Refresh(q)
    BY <1>2, <2>1 DEF Connect
  <2>3. \A c \in Channels : /\ q[c].stage = request[c].stage /\ q[c].rows = request[c].rows
                            /\ q[c].cursor = request[c].cursor /\ q[c].before = request[c].before
                            /\ q[c].more = request[c].more
                            /\ q[c].cancellable = request[c].cancellable
    BY <1>1, <2>1 DEF Batch
  <2> HIDE DEF q
  <2>4. /\ request' \in [Channels -> Batch]
        /\ request' = q \/ (request'["refresh"].stage = "sent" /\ request'["older"] = q["older"])
    BY <2>2, Refreshed
  <2>5. \A c \in Channels : Kept(c) \/ Dropped(c)
    BY <2>3, <2>4, Channel DEF Kept, Dropped
  <2> QED BY <1>2, <2>4, <2>5 DEF Connect, Quiet
<1>3. CASE Wake
  <2>1. /\ request' \in [Channels -> Batch]
        /\ request' = request
           \/ (request'["refresh"].stage = "sent" /\ request'["older"] = request["older"])
    BY <1>1, <1>3, Refreshed DEF Wake
  <2>2. \A c \in Channels : Kept(c) \/ Dropped(c)
    BY <2>1, Channel DEF Kept, Dropped
  <2> QED BY <1>3, <2>1, <2>2 DEF Wake, Quiet
<1>4. CASE LoadOlder
  <2>1. request' = [request EXCEPT !["older"] = Sent(FALSE)] /\ hasMore
    BY <1>4 DEF LoadOlder
  <2>2. Sent(FALSE) \in Batch /\ Sent(FALSE).stage = "sent"
    BY SentType DEF FeedTypes
  <2>3. /\ request' \in [Channels -> Batch]
        /\ \A c \in Channels : Kept(c) \/ Dropped(c)
    BY <1>1, <2>1, <2>2, Channel DEF Kept, Dropped
  <2> QED BY <1>4, <2>3 DEF LoadOlder, Quiet
<1>5. CASE Break \/ UNCHANGED vars
  BY <1>1, <1>5 DEF Break, vars, Quiet, Kept
<1>6. ASSUME NEW c \in Channels, Lost(c) \/ Fail(c)
      PROVE  Quiet /\ request' \in [Channels -> Batch]
  BY <1>6, Failed DEF Lost, Fail, Quiet
<1> QED BY <1>2, <1>3, <1>4, <1>5, <1>6

(* The steps of the store leave what the page and the requests carry.       *)
LEMMA StoreStep ==
  ASSUME FeedTypes,
         Touch \/ \E m \in Messages : Admit(m) \/ Accept(m) \/ Finish(m)
                                     \/ \E status \in Statuses : EngineMoves(m, status)
  PROVE  Stored /\ request' \in [Channels -> Batch]
<1> USE DEF page, window, bounds
<1>1. request \in [Channels -> Batch] /\ \A c \in Channels : request[c] \in Batch
  BY DEF FeedTypes
<1>2. CASE Touch
  <2>1. request' = [c \in Channels |->
          IF request[c].wait = 0 THEN request[c] ELSE [request[c] EXCEPT !.wait = @ - 1]]
    BY <1>2 DEF Touch
  <2>2. ASSUME NEW c \in Channels PROVE Kept(c) /\ request'[c] \in Batch
    <3> DEFINE next == [request[c] EXCEPT !.wait = request[c].wait - 1]
    <3>1. request[c].wait \in Nat /\ request'[c] = IF request[c].wait = 0 THEN request[c] ELSE next
      BY <1>1, <2>1 DEF Batch
    <3>2. CASE request[c].wait = 0
      BY <1>1, <3>1, <3>2 DEF Kept
    <3>3. CASE request[c].wait # 0
      <4>1. request[c].wait - 1 \in Nat
        BY <3>1, <3>3
      <4>2. /\ next \in Batch /\ next.stage = request[c].stage /\ next.rows = request[c].rows
            /\ next.cursor = request[c].cursor /\ next.before = request[c].before
            /\ next.more = request[c].more /\ next.cancellable = request[c].cancellable
        BY <1>1, <4>1 DEF Batch
      <4> QED BY <3>1, <3>3, <4>2 DEF Kept
    <3> QED BY <3>2, <3>3
  <2> QED BY <1>2, <2>1, <2>2 DEF Touch, Stored
<1>3. ASSUME NEW m \in Messages, Admit(m) \/ Accept(m) \/ Finish(m)
                                 \/ \E status \in Statuses : EngineMoves(m, status)
      PROVE  Stored /\ request' \in [Channels -> Batch]
  BY <1>1, <1>3 DEF Admit, Accept, Finish, EngineMoves, Stored, Kept
<1> QED BY <1>2, <1>3

(* A death of the process takes every request and every event with it.      *)
LEMMA RestartStep ==
  ASSUME FeedTypes, Restart
  PROVE  /\ UNCHANGED <<sequence, revision, replied, live, page>>
         /\ touches' = <<>> /\ restarts' = restarts + 1
         /\ \A c \in Channels : Dropped(c)
         /\ request' \in [Channels -> Batch]
<1>1. \A c \in Channels : request[c] \in Batch
  BY DEF FeedTypes
<1>2. request' = [c \in Channels |->
        IF request[c].stage = "idle" THEN Idle
        ELSE [Idle EXCEPT !.stage = "lost", !.fresh = request[c].fresh]]
  BY DEF Restart
<1>3. \A c \in Channels : request[c].fresh \in BOOLEAN
  BY <1>1 DEF Batch
<1>4. \A c \in Channels : request'[c] \in Batch /\ request'[c].stage \in {"idle", "lost"}
  BY <1>2, <1>3, IdleType, LostType
<1> QED BY <1>2, <1>4 DEF Restart, Dropped, page, window

(* A batch of changes, or a page of history, is merged into what is shown.  *)
LEMMA ArrivalStep ==
  ASSUME FeedTypes, NEW c \in Channels, (c = "refresh" /\ Arrive) \/ (c = "older" /\ OlderArrives)
  PROVE  /\ request[c].stage = "ready" /\ Merged(c)
         /\ UNCHANGED <<server, restarts>>
         /\ Dropped(c) /\ \A d \in Channels \ {c} : Kept(d)
         /\ request' \in [Channels -> Batch] /\ shown' \in [Messages -> Row]
<1> USE DEF server, bounds, window
<1>1. request \in [Channels -> Batch] /\ request[c] \in Batch /\ shown \in [Messages -> Row]
  BY DEF FeedTypes, PageTypes
<1>2. request[c].stage = "ready" /\ Merge(request[c].rows) /\ UNCHANGED <<server, restarts>>
  BY DEF Arrive, OlderArrives
<1>3. \E b \in Batch : /\ b.stage \in {"idle", "sent"} /\ (c = "older" => b.stage = "idle")
                       /\ request' = [request EXCEPT ![c] = b]
  <2>1. Sent(TRUE) \in Batch /\ Sent(TRUE).stage = "sent"
    BY SentType DEF FeedTypes
  <2>2. CASE c = "older" /\ OlderArrives
    BY <2>2, IdleType DEF OlderArrives
  <2>3. CASE c = "refresh" /\ Arrive
    <3>1. \E again \in BOOLEAN :
            request' = [request EXCEPT !["refresh"] = IF again THEN Sent(TRUE) ELSE Idle]
      BY <2>3 DEF Arrive
    <3> QED BY <2>1, <2>3, <3>1, IdleType
  <2> QED BY <2>2, <2>3
<1>4. /\ Dropped(c) /\ \A d \in Channels \ {c} : Kept(d)
      /\ request' \in [Channels -> Batch]
  BY <1>1, <1>3 DEF Dropped, Kept
<1>5. Merged(c) /\ shown' \in [Messages -> Row]
  <2> DEFINE r == request[c].rows
  <2>1. PICK P \in SUBSET Messages : r \in [P -> Row]
    BY <1>1 DEF Batch, Pages
  <2>2. shown' = [m \in Messages |->
          IF m \in DOMAIN r /\ r[m].revision >= shown[m].revision THEN r[m] ELSE shown[m]]
    BY <1>2 DEF Merge
  <2>3. Carries(c) /\ DOMAIN r = P
    BY <1>2, <2>1 DEF Carries
  <2>4. Merged(c)
    BY <2>2, <2>3 DEF Merged, Carried
  <2>5. \A m \in Messages : shown'[m] \in Row
    BY <1>1, <2>1, <2>2
  <2> QED BY <2>2, <2>4, <2>5
<1> QED BY <1>2, <1>4, <1>5

(* A page is read: its rows are the store's, and nothing its cursor, or its *)
(* oldest row, speaks for is left out.                                      *)
LEMMA PageRead ==
  ASSUME FeedTypes, cursor =< Latest, NEW c \in Channels, ReadPage(c)
  PROVE  /\ request[c].stage = "sent" /\ UNCHANGED <<server, page, restarts>>
         /\ request' \in [Channels -> Batch] /\ \A d \in Channels \ {c} : request'[d] = request[d]
         /\ request'[c].stage = "paged" /\ request'[c].cursor =< Latest
         /\ DOMAIN request'[c].rows \subseteq Saved
         /\ \A m \in DOMAIN request'[c].rows : /\ request'[c].rows[m].revision = revision[m]
                                               /\ request'[c].rows[m].replied = replied[m]
         /\ c = "refresh" /\ loaded =>
              /\ \A m \in DOMAIN request'[c].rows : revision[m] > cursor
              /\ \A m \in Saved : cursor < revision[m] /\ revision[m] =< request'[c].cursor
                                  => m \in DOMAIN request'[c].rows
         /\ c = "refresh" /\ ~loaded =>
              \A m \in Saved : (request'[c].more => sequence[m] >= request'[c].before)
                               => m \in DOMAIN request'[c].rows
         /\ c = "older" =>
              \A m \in Older : (request'[c].more => sequence[m] >= request'[c].before)
                               => m \in DOMAIN request'[c].rows
<1>1. /\ ServerTypes /\ request \in [Channels -> Batch] /\ cursor \in Nat
      /\ Saved \subseteq Messages /\ Older \subseteq Saved
  BY DEF FeedTypes, PageTypes, Saved, Older
<1>2. request[c].stage = "sent" /\ UNCHANGED <<server, page, restarts>>
  BY DEF ReadPage, bounds
<1>3. CASE c = "refresh" /\ loaded
  <2>1. request' = [request EXCEPT ![c] = ChangesRead]
    BY <1>3 DEF ReadPage
  <2>2. /\ ChangesRead \in Batch /\ ChangesRead.stage = "paged"
        /\ ChangesRead.rows = RowsOf(ChangePage) /\ ChangesRead.cursor = NextCursor(ChangePage)
    BY <1>1, ChangesType
  <2>3. /\ ChangePage \subseteq Newer /\ NextCursor(ChangePage) =< Latest
        /\ \A m \in Newer : revision[m] =< NextCursor(ChangePage) => m \in ChangePage
    BY <1>1, ChangesPage
  <2>4. /\ Newer \subseteq Saved
        /\ \A m \in Newer : revision[m] > cursor
        /\ \A m \in Saved : cursor < revision[m] => m \in Newer
    BY <1>1 DEF Newer, ServerTypes
  <2> DEFINE P == ChangePage
  <2>5. /\ P \subseteq Messages /\ DOMAIN RowsOf(P) = P
        /\ \A m \in P : RowsOf(P)[m].revision = revision[m] /\ RowsOf(P)[m].replied = replied[m]
    <3>1. P \subseteq Messages
      BY <1>1, <2>3, <2>4
    <3> HIDE DEF P
    <3> QED BY <1>1, <3>1, RowsType
  <2>6. request'[c] = ChangesRead /\ request' \in [Channels -> Batch]
        /\ \A d \in Channels \ {c} : request'[d] = request[d]
    BY <1>1, <2>1, <2>2
  <2> HIDE DEF P
  <2>7. /\ request'[c].stage = "paged" /\ request'[c].rows = RowsOf(P)
        /\ request'[c].cursor = NextCursor(P)
    BY <2>2, <2>6 DEF P
  <2> QED BY <1>2, <1>3, <2>3, <2>4, <2>5, <2>6, <2>7 DEF P
<1> DEFINE HistoryFrom(S) ==
      /\ request' \in [Channels -> Batch] /\ \A d \in Channels \ {c} : request'[d] = request[d]
      /\ request'[c].stage = "paged" /\ request'[c].cursor = Latest
      /\ DOMAIN request'[c].rows \subseteq Saved
      /\ \A m \in DOMAIN request'[c].rows : /\ request'[c].rows[m].revision = revision[m]
                                            /\ request'[c].rows[m].replied = replied[m]
      /\ \A m \in S : (request'[c].more => sequence[m] >= request'[c].before)
                      => m \in DOMAIN request'[c].rows
<1>4. ASSUME NEW S \in SUBSET Saved, request' = [request EXCEPT ![c] = HistoryRead(c, S)]
      PROVE  HistoryFrom(S)
  <2> DEFINE P == HistoryPage(S)
             b == HistoryRead(c, S)
  <2>1. /\ b \in Batch /\ b.stage = "paged" /\ b.rows = RowsOf(P)
        /\ b.more = (P # S) /\ b.cursor = Latest /\ b.before = OldestOf(P)
    BY <1>1, HistoryType
  <2>2. /\ P \subseteq S
        /\ \A m \in S : (P # S => sequence[m] >= OldestOf(P)) => m \in P
    BY <1>1, HistoryPages
  <2> HIDE DEF P, b
  <2>3. /\ P \subseteq Messages /\ DOMAIN RowsOf(P) = P
        /\ \A m \in P : RowsOf(P)[m].revision = revision[m] /\ RowsOf(P)[m].replied = replied[m]
    <3>1. P \subseteq Messages
      BY <1>1, <2>2
    <3> QED BY <1>1, <3>1, RowsType
  <2>4. request'[c] = b /\ request' \in [Channels -> Batch]
        /\ \A d \in Channels \ {c} : request'[d] = request[d]
    BY <1>1, <1>4, <2>1 DEF b
  <2> QED BY <2>1, <2>2, <2>3, <2>4
<1>5. Latest \in Nat
  BY <1>1, LatestRevision, FeedAssumption
<1>6. CASE c = "refresh" /\ ~loaded
  <2>1. request' = [request EXCEPT ![c] = HistoryRead(c, Saved)]
    BY <1>6 DEF ReadPage
  <2>2. HistoryFrom(Saved)
    <3> HIDE DEF HistoryFrom
    <3> QED BY <1>4, <2>1
  <2> QED BY <1>2, <1>5, <1>6, <2>2
<1>7. CASE c = "older"
  <2>1. request' = [request EXCEPT ![c] = HistoryRead(c, Older)]
    BY <1>7 DEF ReadPage
  <2>2. HistoryFrom(Older)
    <3> HIDE DEF HistoryFrom
    <3> QED BY <1>1, <1>4, <2>1
  <2> QED BY <1>2, <1>5, <1>7, <2>2
<1> QED BY <1>3, <1>6, <1>7, Channel

-----------------------------------------------------------------------------
\* The steps of the store and of the engine.
StoreMoves ==
  Touch \/ \E m \in Messages : Admit(m) \/ Accept(m) \/ Finish(m)
                               \/ \E status \in Statuses : EngineMoves(m, status)

(* The kinds of steps there are.                                            *)
LEMMA FeedCases ==
  ASSUME FeedTypes, [Next]_vars
  PROVE  \/ (Quiet /\ request' \in [Channels -> Batch]) \/ StoreMoves \/ Restart
         \/ \E c \in Channels : ReadPage(c) \/ ReadStatus(c)
         \/ \E c \in Channels : (c = "refresh" /\ Arrive) \/ (c = "older" /\ OlderArrives)
<1>1. \/ Connect \/ Wake \/ LoadOlder \/ Break \/ UNCHANGED vars
      \/ \E c \in Channels : Lost(c) \/ Fail(c)
      => Quiet /\ request' \in [Channels -> Batch]
  BY WireStep
<1> QED BY <1>1, Channel DEF Next, StoreMoves
-----------------------------------------------------------------------------
(* What is counted is finite.                                               *)
LEMMA Sizes ==
  ASSUME ServerTypes
  PROVE  /\ Latest \in Nat /\ Len(touches) \in Nat /\ Cardinality(Unprompted) \in Nat
         /\ IsFiniteSet(Unprompted) /\ IsFiniteSet(Saved)
         /\ Saved \subseteq Messages /\ Unprompted \subseteq Messages
         /\ MaxRevision \in Nat /\ Taken = Latest + Len(touches) + Cardinality(Unprompted)
<1>1. Saved \subseteq Messages /\ Unprompted \subseteq Messages
  BY DEF Saved, Unprompted
<1> QED BY <1>1, LatestRevision, FeedAssumption, FS_Subset, FS_CardinalityType DEF ServerTypes, Taken

(* There is always a revision left for a queued event.                      *)
LEMMA Revising ==
  ASSUME ServerTypes, Taken =< MaxRevision, NEW m \in Messages, Revise(m),
         touches # <<>> \/ Taken < MaxRevision
  PROVE  /\ revision' \in [Messages -> 0..MaxRevision]
         /\ revision'[m] = Latest + 1 /\ Latest' = Latest + 1
         /\ \A n \in Messages \ {m} : revision'[n] = revision[n]
<1>1. touches # <<>> => Len(touches) > 0
  BY DEF ServerTypes
<1>2. Latest < MaxRevision
  BY <1>1, Sizes
<1> QED BY <1>2, Revised

(* The store stays consistent, and the bound on revisions is never met by   *)
(* an event still to be handled.                                            *)
LEMMA ServerStep ==
  ASSUME FeedTypes, ServerInv, [Next]_vars
  PROVE  ServerTypes' /\ ServerInv'
<1> DEFINE Goal == ServerTypes /\ ServerInv
           Columns ==
             /\ \A m \in Messages : /\ sequence[m] = 0 <=> revision[m] = 0
                                    /\ live[m] # "absent" => sequence[m] # 0
                                    /\ replied[m] => live[m] \in Ended
             /\ \A k \in DOMAIN touches : sequence[touches[k]] # 0
<1>1. /\ ServerTypes /\ ServerInv /\ Columns /\ Taken =< MaxRevision
      /\ MaxRevision \in Nat /\ Latest \in Nat /\ Len(touches) \in Nat
      /\ Cardinality(Unprompted) \in Nat /\ IsFiniteSet(Unprompted)
      /\ Taken = Latest + Len(touches) + Cardinality(Unprompted)
      /\ Saved \subseteq Messages /\ IsFiniteSet(Saved)
  BY Sizes DEF FeedTypes, ServerInv
<1>2. CASE UNCHANGED server
  BY <1>1, <1>2 DEF server, ServerTypes, ServerInv, Taken, Latest, Unprompted, Saved
<1>3. ASSUME NEW m \in Messages, Admit(m) PROVE Goal'
  <2>1. /\ sequence[m] = 0 /\ sequence' = [sequence EXCEPT ![m] = Cardinality(Saved) + 1]
        /\ Revise(m) /\ UNCHANGED <<replied, live, touches>> /\ Taken + 1 < MaxRevision
    BY <1>3 DEF Admit
  <2>2. /\ revision' \in [Messages -> 0..MaxRevision]
        /\ revision'[m] = Latest + 1 /\ Latest' = Latest + 1
        /\ \A n \in Messages \ {m} : revision'[n] = revision[n]
    <3>1. Taken < MaxRevision
      BY <1>1, <2>1
    <3> QED BY <1>1, <2>1, <3>1, Revising
  <2>3. Cardinality(Saved) + 1 \in 0..Cardinality(Messages)
    <3>1. m \notin Saved /\ Saved \union {m} \subseteq Messages
      BY <1>1, <2>1 DEF Saved
    <3>2. Cardinality(Saved \union {m}) = Cardinality(Saved) + 1
      BY <1>1, <3>1, FS_AddElement
    <3> QED BY <1>1, <3>1, <3>2, FeedAssumption, FS_Subset, FS_CardinalityType
  <2>4. sequence'[m] # 0 /\ \A n \in Messages \ {m} : sequence'[n] = sequence[n]
    <3>1. Cardinality(Saved) \in Nat
      BY <1>1, FS_CardinalityType
    <3> QED BY <1>1, <2>1, <3>1 DEF ServerTypes
  <2>5. Taken' =< MaxRevision
    <3>1. Unprompted' = Unprompted \union {m}
      BY <1>1, <2>1, <2>4 DEF Unprompted, Saved
    <3>2. /\ Cardinality(Unprompted \union {m}) = IF m \in Unprompted THEN Cardinality(Unprompted)
                                                  ELSE Cardinality(Unprompted) + 1
          /\ Cardinality(Unprompted') = Cardinality(Unprompted \union {m})
      BY <1>1, <3>1, FS_AddElement
    <3>3. Taken' = Latest' + Len(touches') + Cardinality(Unprompted')
      BY DEF Taken
    <3> QED BY <1>1, <2>1, <2>2, <3>2, <3>3
  <2>6. ServerTypes'
    BY <1>1, <2>1, <2>2, <2>3 DEF ServerTypes
  <2>7. Columns'
    <3>1. \A k \in DOMAIN touches : touches[k] \in Messages
      BY <1>1 DEF ServerTypes
    <3> QED BY <1>1, <2>1, <2>2, <2>4, <3>1
  <2> QED BY <2>5, <2>6, <2>7 DEF ServerInv
<1>4. ASSUME NEW m \in Messages, NEW s \in Statuses,
             live' = [live EXCEPT ![m] = s], touches' = Append(touches, m),
             UNCHANGED <<sequence, revision, replied>>, sequence[m] # 0, s # "absent",
             live[m] \notin Ended, live[m] = "absent" \/ Taken < MaxRevision
      PROVE  Goal'
  <2>1. Latest' = Latest /\ Len(touches') = Len(touches) + 1 /\ touches' \in Seq(Messages)
    BY <1>1, <1>4 DEF Latest, ServerTypes
  <2>2. live'[m] = s /\ \A n \in Messages \ {m} : live'[n] = live[n]
    BY <1>1, <1>4 DEF ServerTypes
  <2>3. Taken' =< MaxRevision
    <3>1. Taken' = Latest' + Len(touches') + Cardinality(Unprompted')
      BY DEF Taken
    <3>2. CASE live[m] = "absent"
      <4>1. m \in Unprompted /\ Unprompted' = Unprompted \ {m}
        BY <1>1, <1>4, <2>2, <3>2 DEF Unprompted, Saved
      <4>2. Cardinality(Unprompted') = Cardinality(Unprompted) - 1
        BY <1>1, <4>1, FS_RemoveElement
      <4> QED BY <1>1, <2>1, <3>1, <4>2
    <3>3. CASE live[m] # "absent"
      <4>1. Unprompted' = Unprompted
        BY <1>1, <1>4, <2>2, <3>3 DEF Unprompted, Saved
      <4> QED BY <1>1, <1>4, <2>1, <3>1, <3>3, <4>1
    <3> QED BY <3>2, <3>3
  <2>4. ServerTypes'
    BY <1>1, <1>4, <2>1 DEF ServerTypes
  <2>5. Columns'
    <3>1. \A k \in DOMAIN touches' :
            touches'[k] = m \/ (k \in DOMAIN touches /\ touches'[k] = touches[k])
      BY <1>1, <1>4 DEF ServerTypes
    <3> QED BY <1>1, <1>4, <2>2, <3>1
  <2> QED BY <2>3, <2>4, <2>5 DEF ServerInv
<1>5. ASSUME NEW m \in Messages, Accept(m) PROVE Goal'
  BY <1>4, <1>5 DEF Accept, Statuses, Ended
<1>6. ASSUME NEW m \in Messages, NEW s \in Statuses, EngineMoves(m, s) PROVE Goal'
  <2>1. live[m] \in {"pending", "active"} /\ s # "absent" /\ live[m] \notin Ended
    BY <1>6 DEF EngineMoves, Advance, Ended
  <2>2. sequence[m] # 0
    BY <1>1, <2>1
  <2> QED BY <1>4, <1>6, <2>1, <2>2 DEF EngineMoves
<1>7. ASSUME NEW m \in Messages, Revise(m), sequence[m] # 0,
             UNCHANGED <<sequence, live>>,
             \/ touches # <<>> /\ touches' = Tail(touches) /\ UNCHANGED replied
             \/ /\ Taken < MaxRevision /\ UNCHANGED touches /\ live[m] \in Ended
                /\ replied' = [replied EXCEPT ![m] = TRUE]
      PROVE  Goal'
  <2>1. /\ revision' \in [Messages -> 0..MaxRevision]
        /\ revision'[m] = Latest + 1 /\ Latest' = Latest + 1
        /\ \A n \in Messages \ {m} : revision'[n] = revision[n]
    BY <1>1, <1>7, Revising
  <2>2. Unprompted' = Unprompted
    BY <1>7 DEF Unprompted, Saved
  <2>3. /\ touches' \in Seq(Messages)
        /\ Len(touches') = Len(touches) \/ Len(touches') = Len(touches) - 1
        /\ Len(touches') = Len(touches) => Taken < MaxRevision
        /\ \A k \in DOMAIN touches' : \E l \in DOMAIN touches : touches'[k] = touches[l]
    <3>1. CASE touches # <<>> /\ touches' = Tail(touches)
      <4>1. /\ touches' \in Seq(Messages) /\ Len(touches') = Len(touches) - 1
            /\ \A k \in DOMAIN touches' : k + 1 \in DOMAIN touches /\ touches'[k] = touches[k + 1]
        BY <1>1, <3>1 DEF ServerTypes
      <4> QED BY <1>1, <4>1
    <3>2. CASE Taken < MaxRevision /\ UNCHANGED touches
      BY <1>1, <3>2 DEF ServerTypes
    <3> QED BY <1>7, <3>1, <3>2
  <2>4. Taken' =< MaxRevision
    <3>1. Taken' = Latest' + Len(touches') + Cardinality(Unprompted')
      BY DEF Taken
    <3> QED BY <1>1, <2>1, <2>2, <2>3, <3>1
  <2>5. replied' \in [Messages -> BOOLEAN]
    BY <1>1, <1>7 DEF ServerTypes
  <2>6. \A n \in Messages : replied'[n] => replied[n] \/ live[n] \in Ended
    BY <1>1, <1>7 DEF ServerTypes
  <2>7. ServerTypes'
    BY <1>1, <1>7, <2>1, <2>3, <2>5 DEF ServerTypes
  <2>8. Columns'
    <3>1. \A k \in DOMAIN touches' : sequence'[touches'[k]] # 0
      BY <1>1, <1>7, <2>3
    <3>2. \A n \in Messages : (sequence[n] = 0) <=> (revision'[n] = 0)
      BY <1>1, <1>7, <2>1
    <3>3. \A n \in Messages : replied'[n] => live[n] \in Ended
      BY <1>1, <2>6
    <3> QED BY <1>1, <1>7, <3>1, <3>2, <3>3
  <2> QED BY <2>4, <2>7, <2>8 DEF ServerInv
<1>8. ASSUME NEW m \in Messages, Finish(m) PROVE Goal'
  <2>1. sequence[m] # 0
    BY <1>1, <1>8 DEF Finish, Ended
  <2> QED BY <1>7, <1>8, <2>1 DEF Finish
<1>9. CASE Touch
  <2>1. Head(touches) \in Messages /\ sequence[Head(touches)] # 0
    <3>1. 1 \in DOMAIN touches /\ Head(touches) = touches[1] /\ touches[1] \in Messages
      BY <1>1, <1>9 DEF Touch, ServerTypes
    <3> QED BY <1>1, <3>1
  <2> QED BY <1>7, <1>9, <2>1 DEF Touch
<1>10. CASE Restart
  <2>1. touches' = <<>> /\ UNCHANGED <<sequence, revision, replied, live>>
    BY <1>10 DEF Restart
  <2>2. Latest' = Latest /\ Unprompted' = Unprompted /\ Len(touches') = 0
    BY <2>1 DEF Latest, Unprompted, Saved
  <2>3. Taken' =< MaxRevision
    <3>1. Taken' = Latest' + Len(touches') + Cardinality(Unprompted')
      BY DEF Taken
    <3> QED BY <1>1, <2>2, <3>1
  <2>4. touches' \in Seq(Messages) /\ DOMAIN touches' = {}
    BY <2>1
  <2> QED BY <1>1, <2>1, <2>3, <2>4 DEF ServerTypes, ServerInv
<1>11. Quiet \/ Arrive \/ OlderArrives \/ (\E c \in Channels : ReadPage(c) \/ ReadStatus(c))
       => UNCHANGED server
  BY DEF Quiet, Arrive, OlderArrives, ReadPage, ReadStatus
<1> QED BY <1>2, <1>3, <1>5, <1>6, <1>8, <1>9, <1>10, <1>11, FeedCases DEF StoreMoves
-----------------------------------------------------------------------------
(* A request keeps what it carries; a message keeps its row, or takes a     *)
(* revision no cursor has reached.                                          *)
Keeps(c) ==
  /\ Carries(c)
  /\ request'[c].cursor = request[c].cursor /\ request'[c].before = request[c].before
  /\ request'[c].more = request[c].more
  /\ DOMAIN request'[c].rows = DOMAIN request[c].rows
  /\ \A m \in DOMAIN request[c].rows :
       /\ request'[c].rows[m].revision = request[c].rows[m].revision
       /\ request'[c].rows[m].replied = request[c].rows[m].replied
Settled(m) ==
  sequence'[m] = sequence[m] /\ revision'[m] = revision[m] /\ replied'[m] = replied[m]
Newest(m) ==
  revision'[m] > Latest /\ (replied[m] => replied'[m])

(* A step of the store revises one message, if any.                         *)
LEMMA StoreMoved ==
  ASSUME FeedTypes, ServerInv, StoreMoves
  PROVE  /\ Stored /\ request' \in [Channels -> Batch]
         /\ Latest' >= Latest /\ \A n \in Messages : Settled(n) \/ Newest(n)
<1> DEFINE Goal == Latest' >= Latest /\ \A n \in Messages : Settled(n) \/ Newest(n)
<1>1. Stored /\ request' \in [Channels -> Batch]
  BY StoreStep DEF StoreMoves
<1>2. /\ ServerTypes /\ Taken =< MaxRevision /\ Latest \in Nat /\ Len(touches) \in Nat
      /\ MaxRevision \in Nat /\ Taken = Latest + Len(touches) + Cardinality(Unprompted)
      /\ Cardinality(Unprompted) \in Nat
  BY Sizes DEF FeedTypes, ServerInv
<1>3. ASSUME UNCHANGED <<sequence, revision, replied>> PROVE Goal
  BY <1>2, <1>3 DEF Latest, Settled
<1>4. ASSUME NEW m \in Messages, Revise(m), touches # <<>> \/ Taken < MaxRevision,
             \A n \in Messages \ {m} : sequence'[n] = sequence[n] /\ replied'[n] = replied[n],
             replied[m] => replied'[m]
      PROVE  Goal
  <2>1. /\ revision'[m] = Latest + 1 /\ Latest' = Latest + 1
        /\ \A n \in Messages \ {m} : revision'[n] = revision[n]
    BY <1>2, <1>4, Revising
  <2> QED BY <1>2, <1>4, <2>1 DEF Settled, Newest
<1>5. ASSUME NEW m \in Messages, Admit(m) PROVE Goal
  <2>1. Taken < MaxRevision
    BY <1>2, <1>5 DEF Admit
  <2>2. /\ Revise(m) /\ replied' = replied
        /\ \A n \in Messages \ {m} : sequence'[n] = sequence[n]
    BY <1>2, <1>5 DEF Admit, ServerTypes
  <2> QED BY <1>4, <2>1, <2>2
<1>6. ASSUME NEW m \in Messages, Finish(m) PROVE Goal
  <2>1. /\ Revise(m) /\ sequence' = sequence /\ Taken < MaxRevision
        /\ replied'[m] /\ \A n \in Messages \ {m} : replied'[n] = replied[n]
    BY <1>2, <1>6 DEF Finish, ServerTypes
  <2> QED BY <1>4, <2>1
<1>7. CASE Touch
  <2>1. Head(touches) \in Messages
    BY <1>2, <1>7 DEF Touch, ServerTypes
  <2>2. /\ Revise(Head(touches)) /\ touches # <<>>
        /\ sequence' = sequence /\ replied' = replied
    BY <1>7 DEF Touch
  <2> QED BY <1>1, <1>4, <2>1, <2>2
<1>8. ASSUME NEW m \in Messages, Accept(m) \/ \E status \in Statuses : EngineMoves(m, status)
      PROVE  Goal
  BY <1>3, <1>8 DEF Accept, EngineMoves
<1> QED BY <1>1, <1>5, <1>6, <1>7, <1>8 DEF StoreMoves

(* The status of a page's rows is read last; nothing else of it changes.    *)
LEMMA ReadKeeps ==
  ASSUME FeedTypes, NEW c \in Channels, ReadStatus(c)
  PROVE  /\ Keeps(c) /\ \A d \in Channels \ {c} : request'[d] = request[d]
         /\ UNCHANGED <<server, page, restarts>>
<1>1. UNCHANGED <<server, page, restarts>>
  BY DEF ReadStatus, bounds
<1> QED BY <1>1, StatusRead DEF Keeps, Carries

(* A step either keeps the page, or the store, and never invents a row.     *)
LEMMA StepKinds ==
  ASSUME FeedTypes, ServerInv, cursor =< Latest, [Next]_vars
  PROVE  /\ Latest' >= Latest /\ \A n \in Messages : Settled(n) \/ Newest(n)
         /\ \A c \in Channels : Carries(c)' => Keeps(c) \/ ReadPage(c)
         /\ \/ UNCHANGED page
            \/ UNCHANGED server /\ \E c \in Channels :
                 (c = "refresh" /\ Arrive) \/ (c = "older" /\ OlderArrives)
<1>1. Latest \in Nat
  BY Sizes DEF FeedTypes
<1>2. ASSUME UNCHANGED <<sequence, revision, replied>>
      PROVE  Latest' >= Latest /\ \A n \in Messages : Settled(n)
  BY <1>1, <1>2 DEF Latest, Settled
<1>3. \A c \in Channels : Kept(c) /\ Carries(c)' => Keeps(c)
  BY DEF Kept, Carries, Keeps
<1>4. \A c \in Channels : Dropped(c) => ~Carries(c)'
  BY DEF Dropped, Carries
<1>5. CASE Quiet
  BY <1>2, <1>3, <1>4, <1>5 DEF Quiet, server
<1>6. CASE StoreMoves
  BY <1>3, <1>6, StoreMoved DEF Stored
<1>7. CASE Restart
  BY <1>2, <1>4, <1>7, RestartStep
<1>8. ASSUME NEW c \in Channels, ReadPage(c)
      PROVE  /\ UNCHANGED <<server, page>>
             /\ \A d \in Channels \ {c} : Carries(d)' => Keeps(d)
  BY <1>8, PageRead DEF Carries, Keeps
<1>9. ASSUME NEW c \in Channels, ReadStatus(c)
      PROVE  /\ UNCHANGED <<server, page>>
             /\ \A d \in Channels : Carries(d)' => Keeps(d)
  BY <1>9, ReadKeeps DEF Carries, Keeps
<1>10. ASSUME NEW c \in Channels, (c = "refresh" /\ Arrive) \/ (c = "older" /\ OlderArrives)
       PROVE  /\ UNCHANGED server
              /\ \A d \in Channels : Carries(d)' => Keeps(d)
  BY <1>3, <1>4, <1>10, ArrivalStep
<1> QED BY <1>2, <1>5, <1>6, <1>7, <1>8, <1>9, <1>10, FeedCases DEF server
-----------------------------------------------------------------------------
(* Types.                                                                   *)
LEMMA TypesStep ==
  ASSUME FeedTypes, ServerInv, CursorInv, [Next]_vars
  PROVE  FeedTypes'
<1>1. ServerTypes'
  BY ServerStep
<1>2. request' \in [Channels -> Batch]
  BY FeedCases, StoreMoved, RestartStep, PageRead, StatusRead, ArrivalStep DEF CursorInv
<1>3. restarts' \in Nat
  <2>1. UNCHANGED restarts \/ restarts' = restarts + 1
    BY FeedCases, StoreMoved, RestartStep, PageRead, ReadKeeps, ArrivalStep
       DEF CursorInv, Quiet, Stored
  <2> QED BY <2>1 DEF FeedTypes
<1>4. ASSUME UNCHANGED page PROVE PageTypes'
  BY <1>4 DEF FeedTypes, PageTypes, page, window
<1>5. ASSUME NEW c \in Channels, (c = "refresh" /\ Arrive) \/ (c = "older" /\ OlderArrives)
      PROVE  PageTypes'
  <2>1. shown' \in [Messages -> Row] /\ request[c] \in Batch /\ PageTypes
    BY <1>5, ArrivalStep DEF FeedTypes
  <2>2. /\ request[c].cursor \in Nat /\ request[c].before \in Nat /\ request[c].more \in BOOLEAN
        /\ request[c].cancellable \in SUBSET Messages
    BY <2>1 DEF Batch
  <2>3. CASE c = "refresh" /\ Arrive
    <3>1. /\ loaded' = TRUE /\ cursor' = request[c].cursor /\ cancellable' = request[c].cancellable
          /\ \/ before' = before /\ hasMore' = hasMore
             \/ before' = request[c].before /\ hasMore' = request[c].more
      BY <2>3 DEF Arrive, window
    <3> QED BY <2>1, <2>2, <3>1 DEF PageTypes
  <2>4. CASE c = "older" /\ OlderArrives
    <3>1. /\ UNCHANGED <<loaded, cursor, cancellable>>
          /\ before' = request[c].before /\ hasMore' = request[c].more
      BY <2>4 DEF OlderArrives
    <3> QED BY <2>1, <2>2, <3>1 DEF PageTypes
  <2> QED BY <1>5, <2>3, <2>4
<1> QED BY <1>1, <1>2, <1>3, <1>4, <1>5, StepKinds DEF FeedTypes, CursorInv

(* A page asks for older history only when there is some, and a batch's     *)
(* cursor is one the table had.                                             *)
LEMMA CursorStep ==
  ASSUME FeedTypes, ServerInv, CursorInv, [Next]_vars
  PROVE  CursorInv'
<1>1. /\ Latest' >= Latest /\ Latest \in Nat /\ Latest' \in Nat /\ cursor \in Nat
      /\ \A c \in Channels : request[c].cursor \in Nat
  <2>1. Latest' \in Nat /\ Latest \in Nat
    <3>1. revision' \in [Messages -> 0..MaxRevision] /\ revision \in [Messages -> 0..MaxRevision]
      BY ServerStep DEF ServerTypes, FeedTypes
    <3>2. Latest' \in 0..MaxRevision /\ Latest \in 0..MaxRevision
      BY <3>1, Chosen, FeedAssumption DEF Latest
    <3> QED BY <3>2, FeedAssumption
  <2>2. \A c \in Channels : request[c] \in Batch /\ request[c].cursor \in Nat
    BY DEF FeedTypes, Batch
  <2>3. cursor \in Nat /\ cursor =< Latest
    BY DEF FeedTypes, PageTypes, CursorInv
  <2> QED BY <2>1, <2>2, <2>3, StepKinds
<1>2. \A c \in Channels : Carries(c)' => request'[c].cursor =< Latest'
  <2>1. ASSUME NEW c \in Channels, Keeps(c) PROVE request'[c].cursor =< Latest'
    BY <1>1, <2>1 DEF Keeps, CursorInv
  <2>2. ASSUME NEW c \in Channels, ReadPage(c) PROVE request'[c].cursor =< Latest'
    <3>1. request'[c].cursor =< Latest /\ UNCHANGED server
      BY <2>2, PageRead DEF CursorInv
    <3>2. Latest' = Latest
      BY <3>1 DEF Latest, server
    <3> QED BY <3>1, <3>2
  <2> QED BY <2>1, <2>2, StepKinds DEF CursorInv
<1>3. CASE UNCHANGED page
  <2>1. cursor' =< Latest' /\ (hasMore' => loaded')
    BY <1>1, <1>3 DEF page, window, CursorInv
  <2>2. ~loaded' => \A m \in Messages : shown'[m].revision = 0
    BY <1>3 DEF page, CursorInv
  <2>3. request'["older"].stage \in {"idle", "lost"} \/ loaded
    <3>1. request["older"].stage \in {"idle", "lost"} \/ loaded
      BY DEF CursorInv
    <3>2. Kept("older") => request'["older"].stage = request["older"].stage
      BY DEF Kept
    <3>3. Dropped("older") => request'["older"].stage \in {"idle", "lost"} \/ loaded
      BY DEF Dropped, CursorInv
    <3>4. ASSUME NEW c \in Channels, ReadPage(c) \/ ReadStatus(c)
          PROVE  loaded \/ request'["older"].stage \in {"idle", "lost"}
      <4>1. /\ request[c].stage \in {"sent", "paged"}
            /\ \A d \in Channels \ {c} : request'[d] = request[d]
        BY <3>4, PageRead, StatusRead DEF CursorInv
      <4> QED BY <3>1, <4>1, Channel
    <3> QED BY <3>1, <3>2, <3>3, <3>4, FeedCases, StoreMoved, RestartStep, ArrivalStep, Channel
            DEF Quiet, Stored
  <2> QED BY <1>2, <1>3, <2>1, <2>2, <2>3 DEF CursorInv, page
<1>4. ASSUME NEW c \in Channels, (c = "refresh" /\ Arrive) \/ (c = "older" /\ OlderArrives)
      PROVE  CursorInv'
  <2>1. /\ request[c].stage = "ready" /\ Carries(c) /\ UNCHANGED server
        /\ Dropped(c) /\ \A d \in Channels \ {c} : Kept(d)
    BY <1>4, ArrivalStep DEF Carries
  <2>2. Latest' = Latest
    BY <2>1 DEF server, Latest
  <2>3. CASE c = "refresh" /\ Arrive
    <3>1. loaded' = TRUE /\ cursor' = request[c].cursor
      BY <2>3 DEF Arrive
    <3>2. cursor' =< Latest'
      BY <2>1, <2>2, <3>1 DEF CursorInv
    <3> QED BY <1>2, <3>1, <3>2 DEF CursorInv
  <2>4. CASE c = "older" /\ OlderArrives
    <3>1. loaded
      BY <2>1, <2>4 DEF CursorInv
    <3>2. UNCHANGED <<loaded, cursor>>
      BY <2>4 DEF OlderArrives
    <3>3. cursor' =< Latest'
      BY <2>2, <3>2 DEF CursorInv
    <3> QED BY <1>2, <3>1, <3>2, <3>3 DEF CursorInv
  <2> QED BY <1>4, <2>3, <2>4
<1> QED BY <1>3, <1>4, StepKinds DEF CursorInv
-----------------------------------------------------------------------------
(* What is seen of a message after a step was seen before it, or is what    *)
(* the store has now.                                                       *)
LEMMA Seen ==
  ASSUME FeedTypes, ServerInv, cursor =< Latest, [Next]_vars, NEW m \in Messages,
         NEW a \in Views(m)'
  PROVE  a \in Views(m) \/ a = <<revision'[m], replied'[m]>>
<1> DEFINE shownView == <<shown[m].revision, shown[m].replied>>
           rowView(c) == <<request[c].rows[m].revision, request[c].rows[m].replied>>
<1>1. /\ <<revision[m], replied[m]>> \in Views(m) /\ shownView \in Views(m)
      /\ \A c \in Channels : Carried(c, m) => rowView(c) \in Views(m)
  BY DEF Views
<1>2. \/ a = <<revision'[m], replied'[m]>>
      \/ a = shownView'
      \/ \E c \in Channels : Carried(c, m)' /\ a = rowView(c)'
  BY DEF Views
<1>3. CASE a = shownView'
  <2>1. CASE UNCHANGED page
    BY <1>1, <1>3, <2>1 DEF page
  <2>2. ASSUME NEW c \in Channels, (c = "refresh" /\ Arrive) \/ (c = "older" /\ OlderArrives)
        PROVE  a \in Views(m)
    <3>1. shown'[m] = shown[m] \/ (Carried(c, m) /\ shown'[m] = request[c].rows[m])
      BY <2>2, ArrivalStep DEF Merged
    <3> QED BY <1>1, <1>3, <3>1
  <2> QED BY <2>1, <2>2, StepKinds
<1>4. ASSUME NEW c \in Channels, Carried(c, m)', a = rowView(c)'
      PROVE  a \in Views(m)
  <2>1. Keeps(c) \/ ReadPage(c)
    BY <1>4, StepKinds DEF Carried
  <2>2. CASE Keeps(c)
    <3>1. Carried(c, m) /\ rowView(c)' = rowView(c)
      BY <1>4, <2>2 DEF Keeps, Carried
    <3> QED BY <1>1, <1>4, <3>1
  <2>3. CASE ReadPage(c)
    <3>1. rowView(c)' = <<revision[m], replied[m]>>
      BY <1>4, <2>3, PageRead DEF Carried
    <3> QED BY <1>1, <1>4, <3>1
  <2> QED BY <2>1, <2>2, <2>3
<1> QED BY <1>2, <1>3, <1>4

(* A view is a revision and whether there is a reply.                       *)
LEMMA ViewType ==
  ASSUME FeedTypes, NEW m \in Messages, NEW a \in Views(m)
  PROVE  a[1] \in Nat /\ a[2] \in BOOLEAN
<1>1. /\ revision[m] \in Nat /\ replied[m] \in BOOLEAN
      /\ shown[m].revision \in Nat /\ shown[m].replied \in BOOLEAN
  BY FeedAssumption DEF FeedTypes, ServerTypes, PageTypes, Row
<1>2. ASSUME NEW c \in Channels, Carried(c, m)
      PROVE  /\ request[c].rows[m].revision \in Nat /\ request[c].rows[m].replied \in BOOLEAN
  <2>1. PICK P \in SUBSET Messages : request[c].rows \in [P -> Row]
    BY DEF FeedTypes, Batch, Pages
  <2>2. request[c].rows[m] \in Row
    BY <1>2, <2>1 DEF Carried
  <2> QED BY <2>2 DEF Row
<1> QED BY <1>1, <1>2 DEF Views

(* The views of a message stay in the order of its revisions.               *)
LEMMA ViewsStep ==
  ASSUME FeedTypes, ServerInv, CursorInv, ViewsOrdered, [Next]_vars
  PROVE  ViewsOrdered'
<1> SUFFICES ASSUME NEW m \in Messages
             PROVE  /\ \A a \in Views(m)' : a[1] =< revision'[m]
                    /\ \A a, b \in Views(m)' : a[1] =< b[1] /\ a[2] => b[2]
  BY DEF ViewsOrdered
<1> DEFINE now == <<revision[m], replied[m]>>
           next == <<revision'[m], replied'[m]>>
<1>1. /\ \A a \in Views(m) : a[1] \in Nat /\ a[1] =< revision[m]
      /\ \A a, b \in Views(m) : a[1] =< b[1] /\ a[2] => b[2]
      /\ now \in Views(m) /\ now[1] = revision[m] /\ now[2] = replied[m]
      /\ next[1] = revision'[m] /\ next[2] = replied'[m]
  BY ViewType DEF ViewsOrdered, Views
<1>2. \A a \in Views(m)' : a \in Views(m) \/ a = next
  BY Seen DEF CursorInv
<1>3. Settled(m) \/ Newest(m)
  BY StepKinds DEF CursorInv
<1>4. revision[m] =< Latest /\ Latest \in Nat /\ revision[m] \in Nat /\ revision'[m] \in Nat
  BY LatestRevision, ServerStep, FeedAssumption DEF FeedTypes, ServerTypes
<1>5. CASE Settled(m)
  <2>1. next \in Views(m) /\ revision'[m] = revision[m]
    BY <1>1, <1>5 DEF Settled
  <2> HIDE DEF next
  <2> QED BY <1>1, <1>2, <2>1
<1>6. CASE Newest(m)
  <2>1. \A a \in Views(m) : a[1] < next[1] /\ (a[2] => next[2])
    <3>1. revision'[m] > Latest /\ (replied[m] => replied'[m])
      BY <1>6 DEF Newest
    <3> HIDE DEF now, next
    <3> QED BY <1>1, <1>4, <3>1
  <2> HIDE DEF now, next
  <2> QED BY <1>1, <1>2, <1>4, <2>1
<1> QED BY <1>3, <1>5, <1>6
-----------------------------------------------------------------------------
(* Which messages the page, and each request, hold as they are saved.       *)
Has(c, m) == Carried(c, m) /\ request[c].rows[m].revision = revision[m]
Shows(m) == shown[m].revision = revision[m]
Reaches(c, m) ==
  (request[c].more => sequence[m] >= request[c].before) \/ m \in DOMAIN request[c].rows

\* The window is complete up to the cursor, and so is what is shown outside it.
Covered ==
  loaded => \A m \in Saved :
    revision[m] =< cursor /\ (InWindow(m) \/ shown[m].revision # 0) => Shows(m)
\* A change batch has every change its cursor covers, and no other.
ChangesCovered ==
  Carries("refresh") /\ loaded =>
    /\ \A m \in DOMAIN request["refresh"].rows : request["refresh"].rows[m].revision > cursor
    /\ \A m \in Saved : cursor < revision[m] /\ revision[m] =< request["refresh"].cursor
                        => Has("refresh", m)
\* The first batch has every message from its oldest row on.
FirstCovered ==
  Carries("refresh") /\ ~loaded =>
    \A m \in Saved : revision[m] =< request["refresh"].cursor /\ Reaches("refresh", m)
                     => Has("refresh", m)
\* So has a page of history; what changed since it was read, the page was told.
OlderCovered ==
  Carries("older") =>
    \A m \in Saved : revision[m] =< cursor /\ Reaches("older", m) => Shows(m) \/ Has("older", m)

CoverInv == Covered /\ ChangesCovered /\ FirstCovered /\ OlderCovered
PageInv == FeedTypes /\ ServerInv /\ CursorInv /\ ViewsOrdered /\ CoverInv

(* What a request brings of a message is merged, unless the page knew more. *)
LEMMA MergedShows ==
  ASSUME FeedTypes, ViewsOrdered, UNCHANGED revision, NEW c \in Channels, Merged(c),
         NEW m \in Messages
  PROVE  /\ Shows(m) \/ Has(c, m) => Shows(m)'
         /\ shown'[m].revision # 0 => shown[m].revision # 0 \/ Carried(c, m)
<1> DEFINE row == request[c].rows[m]
<1>1. /\ shown[m].revision \in Nat /\ revision[m] \in Nat
      /\ shown[m].revision =< revision[m]
      /\ Carried(c, m) => row.revision \in Nat /\ row.revision =< revision[m]
  <2>1. \A a \in Views(m) : a[1] \in Nat /\ a[1] =< revision[m]
    BY ViewType DEF ViewsOrdered
  <2>2. /\ <<revision[m], replied[m]>> \in Views(m)
        /\ <<shown[m].revision, shown[m].replied>> \in Views(m)
        /\ Carried(c, m) => <<row.revision, row.replied>> \in Views(m)
    BY DEF Views
  <2> HIDE DEF row
  <2> QED BY <2>1, <2>2
<1>2. shown'[m] = IF Carried(c, m) /\ row.revision >= shown[m].revision THEN row ELSE shown[m]
  BY DEF Merged
<1> QED BY <1>1, <1>2 DEF Shows, Has

(* A message that keeps its row is held by whatever held it.                *)
LEMMA StillHeld ==
  ASSUME NEW m \in Messages, Settled(m), NEW c \in Channels, Keeps(c)
  PROVE  /\ Reaches(c, m)' <=> Reaches(c, m)
         /\ Carries(c)' /\ Has(c, m) => Has(c, m)'
<1>1. /\ sequence'[m] = sequence[m] /\ revision'[m] = revision[m]
      /\ request'[c].before = request[c].before /\ request'[c].more = request[c].more
      /\ DOMAIN request'[c].rows = DOMAIN request[c].rows
      /\ m \in DOMAIN request[c].rows =>
           request'[c].rows[m].revision = request[c].rows[m].revision
  BY DEF Settled, Keeps
<1>2. Reaches(c, m)' <=> Reaches(c, m)
  BY <1>1 DEF Reaches
<1> QED BY <1>1, <1>2 DEF Has, Carried

(* A revision that a cursor may have reached is an old one.                 *)
LEMMA OldRevision ==
  ASSUME PageInv, [Next]_vars, NEW m \in Messages, revision'[m] =< Latest
  PROVE  Settled(m) /\ (m \in Saved' => m \in Saved)
<1>1. Settled(m) \/ Newest(m)
  BY StepKinds DEF PageInv, CursorInv
<1>2. revision'[m] \in Nat /\ Latest \in Nat
  BY ServerStep, LatestRevision, FeedAssumption DEF PageInv, FeedTypes, ServerTypes
<1> QED BY <1>1, <1>2 DEF Newest, Settled, Saved

(* What a page that was just read brings.                                   *)
LEMMA ReadHas ==
  ASSUME PageInv, NEW c \in Channels, ReadPage(c)
  PROVE  /\ UNCHANGED <<server, page>> /\ Carries(c)'
         /\ \A m \in DOMAIN request'[c].rows :
              m \in Saved /\ Has(c, m)' /\ request'[c].rows[m].revision = revision[m]
<1>1. /\ UNCHANGED <<server, page>> /\ Carries(c)' /\ DOMAIN request'[c].rows \subseteq Saved
      /\ \A m \in DOMAIN request'[c].rows : request'[c].rows[m].revision = revision[m]
  BY PageRead DEF PageInv, CursorInv, Carries
<1> QED BY <1>1 DEF Has, Carried, server

(* Until something is merged, what was held is held, and changed messages   *)
(* are beyond every cursor.                                                 *)
LEMMA CoverKept ==
  ASSUME PageInv, [Next]_vars, UNCHANGED page
  PROVE  CoverInv'
<1>1. /\ FeedTypes /\ cursor \in Nat /\ cursor =< Latest /\ Latest \in Nat
      /\ \A c \in Channels : Carries(c) => request[c].cursor =< Latest
      /\ \A m \in Messages : revision'[m] \in Nat
      /\ Saved' \subseteq Messages
  BY ServerStep, LatestRevision, FeedAssumption
     DEF PageInv, FeedTypes, ServerTypes, PageTypes, CursorInv, Saved
<1>2. /\ UNCHANGED <<loaded, cursor, before, hasMore, shown>>
  BY DEF page, window
<1>3. \A c \in Channels : Carries(c)' => Keeps(c) \/ ReadPage(c)
  BY StepKinds DEF PageInv, CursorInv
<1>4. \A c \in Channels : request[c].cursor \in Nat
  BY <1>1 DEF FeedTypes, Batch
<1>5. \A m \in Messages : revision'[m] =< Latest => Settled(m) /\ (m \in Saved' => m \in Saved)
  BY OldRevision
<1>6. Covered'
  <2> SUFFICES ASSUME loaded', NEW m \in Saved', revision'[m] =< cursor',
                      InWindow(m)' \/ shown'[m].revision # 0
               PROVE  Shows(m)'
    BY DEF Covered
  <2>1. Settled(m) /\ m \in Saved /\ revision[m] =< cursor
    <3>1. revision'[m] =< Latest
      BY <1>1, <1>2
    <3> QED BY <1>1, <1>2, <1>5, <3>1 DEF Settled
  <2>2. InWindow(m) \/ shown[m].revision # 0
    BY <1>2, <2>1 DEF InWindow, Settled
  <2>3. Shows(m)
    BY <1>2, <2>1, <2>2 DEF PageInv, CoverInv, Covered
  <2> QED BY <1>2, <2>1, <2>3 DEF Shows, Settled
<1>7. ChangesCovered'
  <2> SUFFICES ASSUME Carries("refresh")', loaded'
               PROVE  /\ \A m \in DOMAIN request'["refresh"].rows :
                           request'["refresh"].rows[m].revision > cursor
                      /\ \A m \in Saved' :
                           cursor < revision'[m] /\ revision'[m] =< request'["refresh"].cursor
                           => Has("refresh", m)'
    BY <1>2 DEF ChangesCovered
  <2>1. CASE Keeps("refresh")
    <3>1. /\ \A m \in DOMAIN request["refresh"].rows :
               request["refresh"].rows[m].revision > cursor
          /\ \A m \in Saved : cursor < revision[m] /\ revision[m] =< request["refresh"].cursor
                              => Has("refresh", m)
      BY <1>2, <2>1 DEF Keeps, PageInv, CoverInv, ChangesCovered
    <3>2. ASSUME NEW m \in Saved', cursor < revision'[m],
                 revision'[m] =< request'["refresh"].cursor
          PROVE  Has("refresh", m)'
      <4>1. revision'[m] =< request["refresh"].cursor /\ request["refresh"].cursor =< Latest
        BY <1>1, <2>1, <3>2, Channel DEF Keeps
      <4>2. revision'[m] =< Latest
        BY <1>1, <1>4, <4>1, Channel
      <4>3. Settled(m) /\ m \in Saved
        BY <1>1, <1>5, <4>2
      <4>4. Has("refresh", m)
        BY <3>1, <3>2, <4>1, <4>3 DEF Settled
      <4> QED BY <1>1, <2>1, <4>3, <4>4, StillHeld, Channel
    <3> QED BY <2>1, <3>1, <3>2 DEF Keeps
  <2>2. CASE ReadPage("refresh")
    <3>1. /\ \A m \in DOMAIN request'["refresh"].rows : revision[m] > cursor
          /\ \A m \in Saved : cursor < revision[m] /\ revision[m] =< request'["refresh"].cursor
                              => m \in DOMAIN request'["refresh"].rows
      BY <1>1, <1>2, <2>2, PageRead, Channel
    <3>2. /\ UNCHANGED server
          /\ \A m \in DOMAIN request'["refresh"].rows :
               Has("refresh", m)' /\ request'["refresh"].rows[m].revision = revision[m]
      BY <2>2, ReadHas, Channel
    <3> QED BY <3>1, <3>2 DEF server, Saved
  <2> QED BY <1>3, <2>1, <2>2, Channel
<1>8. FirstCovered'
  <2> SUFFICES ASSUME Carries("refresh")', ~loaded', NEW m \in Saved',
                      revision'[m] =< request'["refresh"].cursor, Reaches("refresh", m)'
               PROVE  Has("refresh", m)'
    BY DEF FirstCovered
  <2>1. CASE Keeps("refresh")
    <3>1. revision'[m] =< request["refresh"].cursor /\ request["refresh"].cursor =< Latest
      BY <1>1, <2>1, Channel DEF Keeps
    <3>2. revision'[m] =< Latest
      BY <1>1, <1>4, <3>1, Channel
    <3>3. Settled(m) /\ m \in Saved
      BY <1>1, <1>5, <3>2
    <3>4. Reaches("refresh", m)
      BY <1>1, <2>1, <3>3, StillHeld, Channel
    <3>5. Has("refresh", m)
      BY <1>2, <2>1, <3>1, <3>3, <3>4 DEF Settled, Keeps, PageInv, CoverInv, FirstCovered
    <3> QED BY <1>1, <2>1, <3>3, <3>5, StillHeld, Channel
  <2>2. CASE ReadPage("refresh")
    <3>1. /\ UNCHANGED server
          /\ \A n \in DOMAIN request'["refresh"].rows : Has("refresh", n)'
      BY <2>2, ReadHas, Channel
    <3>2. \A n \in Saved : (request'["refresh"].more => sequence[n] >= request'["refresh"].before)
                           => n \in DOMAIN request'["refresh"].rows
      BY <1>1, <1>2, <2>2, PageRead, Channel
    <3> QED BY <3>1, <3>2 DEF server, Saved, Reaches
  <2> QED BY <1>3, <2>1, <2>2, Channel
<1>9. OlderCovered'
  <2> SUFFICES ASSUME Carries("older")', NEW m \in Saved', revision'[m] =< cursor',
                      Reaches("older", m)'
               PROVE  Shows(m)' \/ Has("older", m)'
    BY DEF OlderCovered
  <2>1. Settled(m) /\ m \in Saved /\ revision[m] =< cursor
    <3>1. revision'[m] =< Latest
      BY <1>1, <1>2
    <3> QED BY <1>1, <1>2, <1>5, <3>1 DEF Settled
  <2>2. Shows(m) => Shows(m)'
    BY <1>2, <2>1 DEF Shows, Settled
  <2>3. CASE Keeps("older")
    <3>1. Reaches("older", m)
      BY <1>1, <2>1, <2>3, StillHeld, Channel
    <3>2. Shows(m) \/ Has("older", m)
      BY <2>1, <2>3, <3>1 DEF Keeps, PageInv, CoverInv, OlderCovered
    <3> QED BY <1>1, <2>1, <2>2, <2>3, <3>2, StillHeld, Channel
  <2>4. CASE ReadPage("older")
    <3>1. /\ UNCHANGED server
          /\ \A n \in DOMAIN request'["older"].rows : Has("older", n)'
      BY <2>4, ReadHas, Channel
    <3>2. CASE m \in DOMAIN request'["older"].rows
      BY <3>1, <3>2
    <3>3. CASE m \notin DOMAIN request'["older"].rows
      <4>1. m \notin Older
        <5>1. \A n \in Older : (request'["older"].more => sequence[n] >= request'["older"].before)
                               => n \in DOMAIN request'["older"].rows
          BY <1>1, <2>4, PageRead, Channel
        <5> QED BY <3>1, <3>3, <5>1 DEF Reaches, server
      <4>2. InWindow(m)
        <5>1. before \in Nat /\ sequence[m] \in Nat
          BY <1>1, <2>1, FeedAssumption, FS_CardinalityType
             DEF FeedTypes, PageTypes, ServerTypes, Saved
        <5>2. ~(sequence[m] < before)
          BY <2>1, <4>1 DEF Older
        <5> QED BY <5>1, <5>2 DEF InWindow
      <4>3. loaded
        <5>1. request["older"].stage = "sent"
          BY <1>1, <2>4, PageRead, Channel
        <5> QED BY <5>1 DEF PageInv, CursorInv
      <4>4. Shows(m)
        BY <2>1, <4>2, <4>3 DEF PageInv, CoverInv, Covered
      <4> QED BY <2>2, <4>4
    <3> QED BY <3>2, <3>3
  <2> QED BY <1>3, <2>3, <2>4, Channel
<1> QED BY <1>6, <1>7, <1>8, <1>9 DEF CoverInv

(* A batch that arrives: the first one opens the window, the others extend  *)
(* what the cursor covers.                                                  *)
LEMMA CoverBatch ==
  ASSUME PageInv, [Next]_vars, Arrive
  PROVE  CoverInv'
<1> DEFINE R == request["refresh"]
<1>1. /\ FeedTypes /\ ViewsOrdered /\ Carries("refresh") /\ Merged("refresh")
      /\ UNCHANGED <<sequence, revision>> /\ ~Carries("refresh")'
      /\ Kept("older")
  BY ArrivalStep, Channel DEF PageInv, Carries, Dropped, server
<1>2. /\ loaded' /\ cursor' = R.cursor
      /\ loaded => UNCHANGED <<before, hasMore>>
      /\ ~loaded => before' = R.before /\ hasMore' = R.more
  BY DEF Arrive, window
<1>3. \A m \in Messages :
        /\ Shows(m) \/ Has("refresh", m) => Shows(m)'
        /\ shown'[m].revision # 0 => shown[m].revision # 0 \/ Carried("refresh", m)
  BY <1>1, MergedShows, Channel
<1>4. /\ Saved' = Saved /\ Saved \subseteq Messages
      /\ cursor \in Nat /\ R.cursor \in Nat /\ \A m \in Messages : revision[m] \in Nat
  BY <1>1, FeedAssumption, Channel DEF FeedTypes, ServerTypes, PageTypes, Batch, Saved
<1>5. ASSUME NEW m \in Saved, revision[m] =< R.cursor,
             (hasMore' => sequence[m] >= before') \/ shown'[m].revision # 0
      PROVE  Shows(m)'
  <2>1. CASE ~loaded
    <3>1. m \in Messages /\ shown[m].revision = 0
      BY <1>4, <2>1 DEF PageInv, CursorInv
    <3>2. Reaches("refresh", m)
      BY <1>2, <1>3, <1>5, <2>1, <3>1 DEF Reaches, Carried
    <3>3. Has("refresh", m)
      BY <1>1, <1>5, <2>1, <3>2 DEF PageInv, CoverInv, FirstCovered
    <3> QED BY <1>3, <3>1, <3>3
  <2>2. CASE loaded /\ cursor < revision[m]
    <3>1. Has("refresh", m)
      BY <1>1, <1>5, <2>2 DEF PageInv, CoverInv, ChangesCovered
    <3> QED BY <1>3, <1>4, <3>1
  <2>3. CASE loaded /\ revision[m] =< cursor
    <3>1. ~Carried("refresh", m)
      <4>1. ASSUME Carried("refresh", m) PROVE FALSE
        <5>1. R.rows[m].revision > cursor
          BY <1>1, <2>3, <4>1 DEF PageInv, CoverInv, ChangesCovered, Carried
        <5>2. <<R.rows[m].revision, R.rows[m].replied>> \in Views(m)
          BY <4>1, Channel DEF Views
        <5>3. R.rows[m].revision \in Nat /\ R.rows[m].revision =< revision[m]
          BY <1>1, <1>4, <5>2, ViewType DEF ViewsOrdered
        <5> HIDE DEF R
        <5> QED BY <1>4, <2>3, <5>1, <5>3
      <4> QED BY <4>1
    <3>2. InWindow(m) \/ shown[m].revision # 0
      BY <1>2, <1>3, <1>4, <1>5, <2>3, <3>1 DEF InWindow
    <3>3. Shows(m)
      BY <2>3, <3>2 DEF PageInv, CoverInv, Covered
    <3> QED BY <1>3, <1>4, <3>3
  <2> QED BY <1>4, <2>1, <2>2, <2>3
<1>6. Covered'
  BY <1>1, <1>2, <1>4, <1>5 DEF Covered, InWindow
<1>7. ASSUME Carries("older")', NEW m \in Saved, revision[m] =< R.cursor, Reaches("older", m)'
      PROVE  Shows(m)' \/ Has("older", m)'
  <2>1. Carries("older") /\ Reaches("older", m) /\ (Has("older", m) => Has("older", m)')
    BY <1>1, <1>7 DEF Kept, Carries, Reaches, Has, Carried
  <2>2. loaded
    BY <2>1 DEF PageInv, CursorInv, Carries
  <2>3. CASE cursor < revision[m]
    <3>1. Has("refresh", m)
      BY <1>1, <1>7, <2>2, <2>3 DEF PageInv, CoverInv, ChangesCovered
    <3> QED BY <1>3, <1>4, <3>1
  <2>4. CASE revision[m] =< cursor
    <3>1. Shows(m) \/ Has("older", m)
      BY <2>1, <2>4 DEF PageInv, CoverInv, OlderCovered
    <3> QED BY <1>3, <1>4, <2>1, <3>1
  <2> QED BY <1>4, <2>3, <2>4
<1>8. OlderCovered'
  BY <1>1, <1>2, <1>4, <1>7 DEF OlderCovered
<1> QED BY <1>1, <1>6, <1>8 DEF CoverInv, ChangesCovered, FirstCovered

(* A page of history that arrives extends the window.                       *)
LEMMA CoverHistory ==
  ASSUME PageInv, [Next]_vars, OlderArrives
  PROVE  CoverInv'
<1> DEFINE O == request["older"]
<1>1. /\ FeedTypes /\ ViewsOrdered /\ Carries("older") /\ Merged("older")
      /\ UNCHANGED <<sequence, revision>> /\ ~Carries("older")'
      /\ Kept("refresh") /\ O.stage = "ready"
  BY ArrivalStep, Channel DEF PageInv, Carries, Dropped, server
<1>2. /\ UNCHANGED <<loaded, cursor>> /\ before' = O.before /\ hasMore' = O.more
  BY DEF OlderArrives
<1>3. \A m \in Messages :
        /\ Shows(m) \/ Has("older", m) => Shows(m)'
        /\ shown'[m].revision # 0 => shown[m].revision # 0 \/ Carried("older", m)
  BY <1>1, MergedShows, Channel
<1>4. Saved' = Saved /\ Saved \subseteq Messages /\ loaded
  BY <1>1 DEF Saved, PageInv, CursorInv
<1>5. ASSUME NEW m \in Saved, revision[m] =< cursor,
             (O.more => sequence[m] >= O.before) \/ shown'[m].revision # 0
      PROVE  Shows(m)'
  <2>1. CASE shown[m].revision # 0
    <3>1. Shows(m)
      BY <1>4, <1>5, <2>1 DEF PageInv, CoverInv, Covered
    <3> QED BY <1>3, <1>4, <3>1
  <2>2. CASE shown[m].revision = 0
    <3>1. Reaches("older", m)
      BY <1>3, <1>4, <1>5, <2>2 DEF Reaches, Carried
    <3>2. Shows(m) \/ Has("older", m)
      BY <1>1, <1>5, <3>1 DEF PageInv, CoverInv, OlderCovered
    <3> QED BY <1>3, <1>4, <3>2
  <2> QED BY <2>1, <2>2
<1>6. Covered'
  BY <1>1, <1>2, <1>4, <1>5 DEF Covered, InWindow
<1>7. ChangesCovered'
  <2> SUFFICES ASSUME Carries("refresh")'
               PROVE  /\ \A m \in DOMAIN request'["refresh"].rows :
                           request'["refresh"].rows[m].revision > cursor
                      /\ \A m \in Saved :
                           cursor < revision[m] /\ revision[m] =< request'["refresh"].cursor
                           => Has("refresh", m)'
    BY <1>1, <1>2, <1>4 DEF ChangesCovered
  <2>1. Carries("refresh") /\ (\A m \in Saved : Has("refresh", m) => Has("refresh", m)')
    BY <1>1 DEF Kept, Carries, Has, Carried
  <2> QED BY <1>1, <1>4, <2>1 DEF Kept, PageInv, CoverInv, ChangesCovered
<1> QED BY <1>1, <1>2, <1>4, <1>6, <1>7 DEF CoverInv, FirstCovered, OlderCovered

(* What the page and the batches cover, over every step.                    *)
LEMMA CoverStep ==
  ASSUME PageInv, [Next]_vars
  PROVE  CoverInv'
  BY CoverKept, CoverBatch, CoverHistory, StepKinds DEF PageInv, CursorInv
-----------------------------------------------------------------------------
(* What no revision records.  An event still queued tells of a message, and *)
(* until it is handled its row's status may be old.                         *)
Pending(m) == \E k \in DOMAIN touches : touches[k] = m
Reads(row, m) ==
  /\ row.replied => row.status = live[m] /\ live[m] \in Ended
  /\ restarts = 0 /\ row.revision = revision[m] /\ row.revision # 0
     => row.status = StatusOf(m) \/ Pending(m)
StatusInv ==
  \A m \in Messages :
    /\ Reads(shown[m], m)
    /\ \A c \in Channels : request[c].stage = "ready" /\ m \in DOMAIN request[c].rows
                           => Reads(request[c].rows[m], m)

\* What S says can be cancelled is so, but for changes beyond upto.
Knows(S, upto) ==
  \A m \in Messages :
    /\ m \in S => sequence[m] # 0
    /\ m \in S /\ replied[m] => revision[m] > upto
    /\ restarts = 0 /\ (m \in S <=> m \notin Cancellable) => Pending(m) \/ revision[m] > upto
CancelInv ==
  /\ loaded => Knows(cancellable, cursor)
  /\ request["refresh"].stage = "ready"
     => Knows(request["refresh"].cancellable, request["refresh"].cursor)

FeedInv == PageInv /\ StatusInv /\ CancelInv

(* A step of the engine queues an event; handling it revises the message.   *)
LEMMA Queues ==
  ASSUME ServerTypes, NEW m \in Messages, NEW n \in Messages
  PROVE  /\ touches' = Append(touches, m) => Pending(m)' /\ (Pending(n) => Pending(n)')
         /\ touches # <<>> /\ touches' = Tail(touches)
              => (Pending(n) => n = Head(touches) \/ Pending(n)')
<1>1. touches \in Seq(Messages)
  BY DEF ServerTypes
<1>2. ASSUME touches' = Append(touches, m) PROVE Pending(m)' /\ (Pending(n) => Pending(n)')
  <2>1. /\ Len(touches) + 1 \in DOMAIN touches' /\ touches'[Len(touches) + 1] = m
        /\ \A k \in DOMAIN touches : k \in DOMAIN touches' /\ touches'[k] = touches[k]
    BY <1>1, <1>2
  <2> QED BY <2>1 DEF Pending
<1>3. ASSUME touches # <<>>, touches' = Tail(touches), Pending(n)
      PROVE  n = Head(touches) \/ Pending(n)'
  <2>1. PICK k \in DOMAIN touches : touches[k] = n
    BY <1>3 DEF Pending
  <2>2. CASE k = 1
    BY <1>1, <2>1, <2>2
  <2>3. CASE k # 1
    <3>1. k - 1 \in DOMAIN touches' /\ touches'[k - 1] = touches[k]
      BY <1>1, <1>3, <2>1, <2>3
    <3> QED BY <2>1, <3>1 DEF Pending
  <2> QED BY <2>2, <2>3
<1> QED BY <1>2, <1>3

\* What a step does to the status of n: the page will hear of any change.
Noticed(n) ==
  /\ live[n] \in Ended => live'[n] = live[n]
  /\ \/ Pending(n)' \/ revision'[n] > Latest \/ restarts' # 0
     \/ restarts' = restarts /\ Settled(n) /\ live'[n] = live[n] /\ (Pending(n) => Pending(n)')

(* No step changes a status silently, unless the process dies.              *)
LEMMA EngineNoticed ==
  ASSUME PageInv, [Next]_vars
  PROVE  \A n \in Messages : Noticed(n)
<1>1. /\ ServerTypes /\ ServerInv /\ restarts \in Nat
      /\ Latest \in Nat /\ Taken =< MaxRevision
  BY Sizes DEF PageInv, FeedTypes, ServerInv
<1>2. \A n \in Messages : Settled(n) \/ revision'[n] > Latest
  BY StepKinds DEF PageInv, CursorInv, Newest
<1>3. ASSUME UNCHANGED <<live, touches, restarts>> PROVE \A n \in Messages : Noticed(n)
  BY <1>2, <1>3 DEF Noticed, Pending
<1>4. ASSUME NEW m \in Messages, NEW status \in Statuses, live[m] \notin Ended,
             live' = [live EXCEPT ![m] = status], touches' = Append(touches, m),
             restarts' = restarts
      PROVE  \A n \in Messages : Noticed(n)
  <2>1. \A n \in Messages \ {m} : live'[n] = live[n]
    BY <1>1, <1>4 DEF ServerTypes
  <2> QED BY <1>1, <1>2, <1>4, <2>1, Queues DEF Noticed
<1>5. ASSUME NEW m \in Messages, Accept(m) \/ \E status \in Statuses : EngineMoves(m, status)
      PROVE  \A n \in Messages : Noticed(n)
  <2>1. restarts' = restarts
    BY <1>5 DEF Accept, EngineMoves, bounds
  <2>2. CASE Accept(m)
    BY <1>4, <2>1, <2>2 DEF Accept, Statuses, Ended
  <2>3. ASSUME NEW status \in Statuses, EngineMoves(m, status)
        PROVE  \A n \in Messages : Noticed(n)
    BY <1>4, <2>1, <2>3 DEF EngineMoves, Advance, Ended
  <2> QED BY <1>5, <2>2, <2>3
<1>6. CASE Touch
  <2>1. /\ touches # <<>> /\ touches' = Tail(touches) /\ live' = live /\ restarts' = restarts
        /\ Revise(Head(touches)) /\ Head(touches) \in Messages
    BY <1>1, <1>6 DEF Touch, ServerTypes, bounds
  <2>2. revision'[Head(touches)] > Latest
    <3>1. PICK h \in Messages : h = Head(touches)
      BY <2>1
    <3>2. Revise(h)
      BY <2>1, <3>1 DEF Revise
    <3>3. revision'[h] = Latest + 1
      BY <1>1, <2>1, <3>2, Revising
    <3> QED BY <1>1, <3>1, <3>3
  <2> QED BY <1>1, <1>2, <2>1, <2>2, Queues DEF Noticed
<1>7. CASE Restart
  <2>1. restarts' = restarts + 1 /\ live' = live
    BY <1>7, RestartStep DEF PageInv
  <2>2. restarts' # 0
    BY <1>1, <2>1
  <2> QED BY <2>1, <2>2 DEF Noticed
<1>8. ASSUME NEW m \in Messages, Admit(m) \/ Finish(m)
      PROVE  \A n \in Messages : Noticed(n)
  BY <1>3, <1>8 DEF Admit, Finish, bounds
<1>9. ASSUME NEW c \in Channels, ReadPage(c) \/ ReadStatus(c)
                                 \/ (c = "refresh" /\ Arrive) \/ (c = "older" /\ OlderArrives)
      PROVE  \A n \in Messages : Noticed(n)
  BY <1>3, <1>9 DEF ReadPage, ReadStatus, Arrive, OlderArrives, bounds, server
<1>10. CASE Quiet
  BY <1>3, <1>10 DEF Quiet, server
<1> QED BY <1>5, <1>6, <1>7, <1>8, <1>9, <1>10, FeedCases DEF PageInv, StoreMoves

(* A row, once read, is as right about its status after a step as before.   *)
LEMMA ReadsKept ==
  ASSUME PageInv, [Next]_vars, NEW m \in Messages, NEW x \in Row,
         <<x.revision, x.replied>> \in Views(m), Reads(x, m)
  PROVE  Reads(x, m)'
<1>1. x.revision \in Nat /\ x.revision =< revision[m] /\ revision[m] =< Latest
      /\ revision[m] \in Nat /\ revision'[m] \in Nat /\ Latest \in Nat
  <2>1. x.revision \in Nat /\ x.revision =< revision[m]
    BY ViewType DEF PageInv, ViewsOrdered
  <2> QED BY <2>1, ServerStep, LatestRevision, FeedAssumption DEF PageInv, FeedTypes, ServerTypes
<1>2. Noticed(m)
  BY EngineNoticed
<1>3. x.replied => x.status = live'[m] /\ live'[m] \in Ended
  BY <1>2 DEF Noticed, Reads
<1>4. CASE Pending(m)' \/ restarts' # 0
  BY <1>4, <1>3 DEF Reads
<1>5. CASE revision'[m] > Latest
  <2>1. x.revision # revision'[m]
    BY <1>1, <1>5
  <2> QED BY <1>3, <2>1 DEF Reads
<1>6. CASE restarts' = restarts /\ Settled(m) /\ live'[m] = live[m] /\ (Pending(m) => Pending(m)')
  <2>1. StatusOf(m)' = StatusOf(m) /\ revision'[m] = revision[m]
    BY <1>6 DEF StatusOf, Settled
  <2> QED BY <1>6, <1>3, <2>1 DEF Reads
<1> QED BY <1>2, <1>4, <1>5, <1>6 DEF Noticed

(* A batch that is ready was so before, or its status was just read.        *)
LEMMA ReadySince ==
  ASSUME PageInv, [Next]_vars, NEW c \in Channels, request'[c].stage = "ready"
  PROVE  ReadStatus(c) \/ (request[c].stage = "ready" /\ Kept(c))
<1>1. ~Dropped(c) /\ ~ReadPage(c)
  BY PageRead DEF Dropped, PageInv, CursorInv
<1>2. Kept(c) => request[c].stage = "ready"
  BY DEF Kept
<1>3. request'[c] = request[c] => Kept(c)
  BY DEF Kept
<1>4. FeedTypes /\ cursor =< Latest
  BY DEF PageInv, CursorInv
<1>5. ASSUME NEW d \in Channels, d # c, ReadPage(d) \/ ReadStatus(d) PROVE Kept(c)
  BY <1>3, <1>4, <1>5, PageRead, StatusRead
<1> QED BY <1>1, <1>2, <1>4, <1>5, FeedCases, StoreMoved, RestartStep, ArrivalStep
        DEF Quiet, Stored, PageInv

(* A status is only wrong while an event of its message is queued.          *)
LEMMA StatusStep ==
  ASSUME PageInv, StatusInv, [Next]_vars
  PROVE  StatusInv'
<1> SUFFICES ASSUME NEW m \in Messages
             PROVE  /\ Reads(shown[m], m)'
                    /\ \A c \in Channels :
                         request'[c].stage = "ready" /\ m \in DOMAIN request'[c].rows
                         => Reads(request[c].rows[m], m)'
  BY DEF StatusInv
<1>1. FeedTypes /\ ServerInv /\ cursor =< Latest
  BY DEF PageInv, CursorInv
<1>2. /\ shown[m] \in Row /\ Reads(shown[m], m)
      /\ <<shown[m].revision, shown[m].replied>> \in Views(m)
  BY <1>1 DEF FeedTypes, PageTypes, StatusInv, Views
<1>3. ASSUME NEW c \in Channels, request[c].stage = "ready", m \in DOMAIN request[c].rows
      PROVE  /\ request[c].rows[m] \in Row /\ Reads(request[c].rows[m], m)
             /\ <<request[c].rows[m].revision, request[c].rows[m].replied>> \in Views(m)
  <2>1. PICK P \in SUBSET Messages : request[c].rows \in [P -> Row]
    BY <1>1 DEF FeedTypes, Batch, Pages
  <2>2. request[c].rows[m] \in Row
    BY <1>3, <2>1
  <2> QED BY <1>3, <2>2 DEF StatusInv, Views, Carried, Carries
<1>4. Reads(shown[m], m)'
  <2>1. \/ shown'[m] = shown[m]
        \/ \E c \in Channels : /\ request[c].stage = "ready" /\ m \in DOMAIN request[c].rows
                               /\ shown'[m] = request[c].rows[m]
    BY <1>1, StepKinds, ArrivalStep DEF page, Merged, Carried
  <2>2. PICK x \in Row : /\ <<x.revision, x.replied>> \in Views(m) /\ Reads(x, m)
                         /\ shown'[m] = x
    BY <1>2, <1>3, <2>1
  <2>3. Reads(x, m)'
    BY <2>2, ReadsKept
  <2> QED BY <2>2, <2>3 DEF Reads
<1>5. ASSUME NEW c \in Channels, request'[c].stage = "ready", m \in DOMAIN request'[c].rows
      PROVE  Reads(request[c].rows[m], m)'
  <2>1. CASE request[c].stage = "ready" /\ Kept(c)
    <3>1. request'[c].rows = request[c].rows
      BY <2>1 DEF Kept
    <3>2. PICK x \in Row : /\ <<x.revision, x.replied>> \in Views(m) /\ Reads(x, m)
                           /\ request'[c].rows[m] = x
      BY <1>3, <1>5, <2>1, <3>1
    <3>3. Reads(x, m)'
      BY <3>2, ReadsKept
    <3> QED BY <3>2, <3>3 DEF Reads
  <2>2. CASE ReadStatus(c)
    <3>1. /\ m \in DOMAIN request[c].rows /\ Carried(c, m) /\ UNCHANGED <<server, restarts>>
          /\ request'[c].rows[m].replied = request[c].rows[m].replied
          /\ request'[c].rows[m].status = StatusOf(m)
      BY <1>1, <1>5, <2>2, StatusRead, ReadKeeps DEF Carried, Carries
    <3>2. request[c].rows[m].replied => replied[m]
      <4> DEFINE a == <<request[c].rows[m].revision, request[c].rows[m].replied>>
                 b == <<revision[m], replied[m]>>
      <4>1. a \in Views(m) /\ b \in Views(m) /\ b[1] = revision[m]
        BY <3>1 DEF Views
      <4>2. a[1] =< b[1] /\ a[2] => b[2]
        BY <4>1 DEF PageInv, ViewsOrdered
      <4>3. a[1] =< revision[m]
        BY <4>1 DEF PageInv, ViewsOrdered
      <4> QED BY <4>1, <4>2, <4>3
    <3>3. replied[m] => live[m] \in Ended /\ StatusOf(m) = live[m]
      BY <1>1 DEF ServerInv, StatusOf, Ended
    <3>4. StatusOf(m)' = StatusOf(m) /\ live'[m] = live[m]
      BY <3>1 DEF StatusOf, server
    <3> QED BY <3>1, <3>2, <3>3, <3>4 DEF Reads
  <2> QED BY <1>5, <2>1, <2>2, ReadySince
<1> QED BY <1>4, <1>5

(* What is known of the cancellable messages stays known.                   *)
LEMMA KnowsKept ==
  ASSUME PageInv, [Next]_vars, NEW S \in SUBSET Messages, NEW upto \in Nat, upto =< Latest,
         Knows(S, upto)
  PROVE  Knows(S, upto)'
<1> SUFFICES ASSUME NEW m \in Messages
             PROVE  /\ m \in S => sequence'[m] # 0
                    /\ m \in S /\ replied'[m] => revision'[m] > upto
                    /\ restarts' = 0 /\ (m \in S <=> m \notin Cancellable')
                       => Pending(m)' \/ revision'[m] > upto
  BY DEF Knows
<1>1. /\ Latest \in Nat /\ revision'[m] \in Nat /\ restarts \in Nat
      /\ sequence'[m] = 0 <=> revision'[m] = 0
  BY ServerStep, LatestRevision, FeedAssumption DEF PageInv, FeedTypes, ServerTypes, ServerInv
<1>2. revision'[m] > Latest => revision'[m] > upto /\ sequence'[m] # 0
  BY <1>1
<1>3. Settled(m) \/ revision'[m] > Latest
  BY StepKinds DEF PageInv, CursorInv, Newest
<1>4. Noticed(m)
  BY EngineNoticed
<1>5. /\ m \in S => sequence'[m] # 0
      /\ m \in S /\ replied'[m] => revision'[m] > upto
  BY <1>2, <1>3 DEF Settled, Knows
<1>6. CASE /\ restarts' = restarts /\ Settled(m) /\ live'[m] = live[m]
           /\ Pending(m) => Pending(m)'
  <2>1. m \in Cancellable' <=> m \in Cancellable
    BY <1>6 DEF Cancellable
  <2>2. revision'[m] = revision[m]
    BY <1>6 DEF Settled
  <2>3. restarts = 0 /\ (m \in S <=> m \notin Cancellable) => Pending(m) \/ revision[m] > upto
    BY DEF Knows
  <2> QED BY <1>5, <1>6, <2>1, <2>2, <2>3
<1> QED BY <1>2, <1>4, <1>5, <1>6 DEF Noticed

(* So is what can be cancelled, or a change the cursor has not reached.     *)
LEMMA CancelStep ==
  ASSUME PageInv, CancelInv, [Next]_vars
  PROVE  CancelInv'
<1> DEFINE R == request["refresh"]
<1>1. /\ FeedTypes /\ ServerInv /\ cursor =< Latest /\ cursor \in Nat
      /\ cancellable \in SUBSET Messages /\ R \in Batch
      /\ R.stage = "ready" => R.cursor =< Latest
  BY Channel DEF PageInv, CursorInv, FeedTypes, PageTypes, Carries
<1>2. R.cursor \in Nat /\ R.cancellable \in SUBSET Messages
  BY <1>1 DEF Batch
<1> HIDE DEF R
<1>3. ASSUME loaded' PROVE Knows(cancellable, cursor)'
  <2>1. CASE UNCHANGED <<loaded, cancellable, cursor>>
    <3>1. PICK S \in SUBSET Messages, n \in Nat :
            S = cancellable /\ n = cursor /\ n =< Latest /\ Knows(S, n)
      BY <1>1, <1>3, <2>1 DEF CancelInv
    <3>2. Knows(S, n)' /\ cancellable' = S /\ cursor' = n
      BY <2>1, <3>1, KnowsKept
    <3> QED BY <3>2 DEF Knows
  <2>2. CASE Arrive
    <3>1. PICK S \in SUBSET Messages, n \in Nat :
            S = R.cancellable /\ n = R.cursor /\ n =< Latest /\ Knows(S, n)
      BY <1>1, <1>2, <2>2 DEF CancelInv, Arrive, R
    <3>2. cancellable' = S /\ cursor' = n
      BY <2>2, <3>1 DEF Arrive, R
    <3>3. Knows(S, n)'
      BY <3>1, KnowsKept
    <3> QED BY <3>2, <3>3 DEF Knows
  <2>3. OlderArrives => UNCHANGED <<loaded, cancellable, cursor>>
    BY DEF OlderArrives
  <2> QED BY <1>1, <2>1, <2>2, <2>3, StepKinds DEF page
<1>4. ASSUME R'.stage = "ready" PROVE Knows(R.cancellable, R.cursor)'
  <2>1. CASE ReadStatus("refresh")
    <3>1. /\ R'.cancellable = Cancellable /\ UNCHANGED <<server, restarts>>
      BY <1>1, <2>1, StatusRead, ReadKeeps, Channel DEF R
    <3>2. Cancellable' = Cancellable
      BY <3>1 DEF Cancellable, server
    <3>3. ASSUME NEW m \in Cancellable, m \in Messages
          PROVE  sequence[m] # 0 /\ ~replied[m]
      BY <1>1, <3>3 DEF Cancellable, ServerInv, Ended
    <3> QED BY <3>1, <3>2, <3>3 DEF Knows, server
  <2>2. CASE R.stage = "ready" /\ Kept("refresh")
    <3>1. PICK S \in SUBSET Messages, n \in Nat :
            S = R.cancellable /\ n = R.cursor /\ n =< Latest /\ Knows(S, n)
      BY <1>1, <1>2, <2>2 DEF CancelInv, R
    <3>2. R'.cancellable = S /\ R'.cursor = n
      BY <2>2, <3>1 DEF Kept, R
    <3>3. Knows(S, n)'
      BY <3>1, KnowsKept
    <3> QED BY <3>2, <3>3 DEF Knows
  <2> QED BY <1>4, <2>1, <2>2, ReadySince, Channel DEF R
<1> QED BY <1>3, <1>4 DEF CancelInv, R

-----------------------------------------------------------------------------
(* The invariant holds at first, and every step preserves it.               *)
LEMMA FeedInit == Init => FeedInv
<1> SUFFICES ASSUME Init PROVE FeedInv
  OBVIOUS
<1>1. /\ Upgraded /\ touches = <<>> /\ request = [c \in Channels |-> Idle]
      /\ loaded = FALSE /\ cursor = 0 /\ before = 0 /\ hasMore = FALSE
      /\ shown = [m \in Messages |-> Unseen] /\ cancellable = {} /\ restarts = 0
  BY DEF Init
<1>2. /\ sequence \in [Messages -> 0..History] /\ revision = sequence
      /\ replied = [m \in Messages |-> sequence[m] # 0]
      /\ live \in [Messages -> Ended \union {"absent"}]
      /\ \A m \in Messages : live[m] = "absent" <=> sequence[m] = 0
  BY <1>1 DEF Upgraded
<1>3. /\ History \in Nat /\ Cardinality(Messages) \in Nat /\ MaxRevision \in Nat
      /\ History =< Cardinality(Messages) /\ History =< MaxRevision
  BY FeedAssumption, FS_CardinalityType
<1>4. ServerTypes
  <2>1. 0..History \subseteq 0..Cardinality(Messages) /\ 0..History \subseteq 0..MaxRevision
    BY <1>3
  <2>2. /\ sequence \in [Messages -> 0..Cardinality(Messages)]
        /\ revision \in [Messages -> 0..MaxRevision]
    BY <1>2, <2>1
  <2> QED BY <1>1, <1>2, <2>2 DEF ServerTypes, Statuses
<1>5. \A m \in Messages : shown[m] = Unseen /\ Unseen \in Row /\ Unseen.revision = 0
                          /\ Unseen.replied = FALSE
  BY <1>1 DEF Unseen, Row, Statuses
<1>6. /\ request \in [Channels -> Batch]
      /\ \A c \in Channels : request[c].stage = "idle" /\ ~Carries(c)
  BY <1>1, IdleType DEF Carries
<1>7. FeedTypes
  BY <1>1, <1>4, <1>5, <1>6 DEF FeedTypes, PageTypes
<1>8. ServerInv
  <2>1. Unprompted = {}
    BY <1>2 DEF Unprompted, Saved
  <2>2. Cardinality(Unprompted) = 0 /\ Len(touches) = 0
    BY <1>1, <2>1, FS_EmptySet
  <2>3. Latest \in 0..MaxRevision
    BY <1>4, LatestRevision
  <2>4. Taken =< MaxRevision
    BY <1>3, <2>2, <2>3 DEF Taken
  <2>5. \A m \in Messages : /\ sequence[m] = 0 <=> revision[m] = 0
                            /\ live[m] # "absent" => sequence[m] # 0
                            /\ replied[m] => live[m] \in Ended
    BY <1>2
  <2>6. DOMAIN touches = {}
    BY <1>1
  <2> QED BY <2>4, <2>5, <2>6 DEF ServerInv
<1>9. CursorInv
  <2>1. 0 =< Latest
    BY <1>3, <1>4, LatestRevision
  <2> QED BY <1>1, <1>5, <1>6, <2>1, Channel DEF CursorInv
<1>10. ViewsOrdered
  <2> SUFFICES ASSUME NEW m \in Messages
               PROVE  /\ \A a \in Views(m) : a[1] =< revision[m]
                      /\ \A a, b \in Views(m) : a[1] =< b[1] /\ a[2] => b[2]
    BY DEF ViewsOrdered
  <2>1. \A a \in Views(m) : a = <<revision[m], replied[m]>> \/ a = <<0, FALSE>>
    <3>1. shown[m].revision = 0 /\ shown[m].replied = FALSE
      BY <1>5
    <3>2. \A c \in Channels : ~Carried(c, m)
      BY <1>6 DEF Carried
    <3> QED BY <3>1, <3>2 DEF Views
  <2>2. revision[m] \in Nat /\ replied[m] \in BOOLEAN /\ (replied[m] => revision[m] # 0)
    <3>1. /\ revision[m] = sequence[m] /\ sequence[m] \in Nat
          /\ replied[m] = (sequence[m] # 0)
      BY <1>2, <1>3
    <3> QED BY <3>1
  <2>3. \A a \in Views(m) : a[1] =< revision[m]
    <3>1. 0 =< revision[m] /\ revision[m] =< revision[m]
      BY <2>2
    <3>2. <<0, FALSE>>[1] = 0 /\ <<revision[m], replied[m]>>[1] = revision[m]
      OBVIOUS
    <3> QED BY <2>1, <3>1, <3>2
  <2>4. ASSUME NEW a \in Views(m), NEW b \in Views(m) PROVE a[1] =< b[1] /\ a[2] => b[2]
    <3>1. CASE a = <<0, FALSE>>
      <4>1. a[2] = FALSE
        BY <3>1
      <4> QED BY <4>1
    <3>2. CASE a = <<revision[m], replied[m]>> /\ b = <<0, FALSE>>
      <4>1. revision[m] =< 0 => ~replied[m]
        BY <2>2
      <4> QED BY <3>2, <4>1
    <3>3. CASE a = b
      BY <3>3
    <3> QED BY <2>1, <3>1, <3>2, <3>3
  <2> QED BY <2>3, <2>4
<1>11. CoverInv
  BY <1>1, <1>6, Channel DEF CoverInv, Covered, ChangesCovered, FirstCovered, OlderCovered
<1>12. StatusInv /\ CancelInv
  BY <1>1, <1>5, <1>6, Channel DEF StatusInv, CancelInv, Reads
<1> QED BY <1>7, <1>8, <1>9, <1>10, <1>11, <1>12 DEF FeedInv, PageInv

(* Every step preserves the invariant.                                      *)
LEMMA FeedStep == FeedInv /\ [Next]_vars => FeedInv'
  BY TypesStep, ServerStep, CursorStep, ViewsStep, CoverStep, StatusStep, CancelStep
     DEF FeedInv, PageInv

(* The invariant of the specification.                                      *)
LEMMA FeedInvariant == Safety => []FeedInv
  BY FeedInit, FeedStep, PTL DEF Safety

(* The page misses nothing it has moved past: every message in the loaded   *)
(* window whose last change the cursor covers is shown as it is saved, for  *)
(* any number of messages and any page size (docs/partner-runtime.md,       *)
(* store.ts, message-pages.ts).                                             *)
THEOREM WindowComplete == Safety => []Complete
<1>1. FeedInv => Complete
  <2> SUFFICES ASSUME FeedInv, loaded, NEW m \in Saved, revision[m] =< cursor, InWindow(m)
               PROVE  shown[m].revision = revision[m] /\ shown[m].replied = replied[m]
    BY DEF Complete
  <2> DEFINE a == <<revision[m], replied[m]>>
             b == <<shown[m].revision, shown[m].replied>>
  <2>1. m \in Messages /\ FeedTypes
    BY DEF Saved, FeedInv, PageInv
  <2>2. shown[m].revision = revision[m]
    BY DEF FeedInv, PageInv, CoverInv, Covered, Shows
  <2>3. a \in Views(m) /\ b \in Views(m)
    BY DEF Views
  <2>4. /\ a[1] \in Nat /\ a[2] \in BOOLEAN /\ b[1] \in Nat /\ b[2] \in BOOLEAN
        /\ a[1] =< b[1] /\ a[2] => b[2]
        /\ b[1] =< a[1] /\ b[2] => a[2]
    BY <2>1, <2>3, ViewType DEF FeedInv, PageInv, ViewsOrdered
  <2> QED BY <2>2, <2>4
<1> QED BY <1>1, FeedInvariant, PTL

(* Nothing shown ever goes back, whatever the order in which batches and    *)
(* pages of history arrive (mergeMessages, message-pages.ts).               *)
THEOREM ShownOnward == Safety => NeverRegresses
<1> DEFINE Onward == \A m \in Messages : /\ shown'[m].revision >= shown[m].revision
                                         /\ shown[m].replied => shown'[m].replied
<1>1. FeedInv /\ [Next]_vars => [Onward]_shown
  <2> SUFFICES ASSUME FeedInv, [Next]_vars, shown' # shown, NEW m \in Messages
               PROVE  /\ shown'[m].revision >= shown[m].revision
                      /\ shown[m].replied => shown'[m].replied
    OBVIOUS
  <2>1. FeedTypes /\ ServerInv /\ cursor =< Latest /\ ViewsOrdered
    BY DEF FeedInv, PageInv, CursorInv
  <2>2. PICK c \in Channels : (c = "refresh" /\ Arrive) \/ (c = "older" /\ OlderArrives)
    BY <2>1, StepKinds DEF page
  <2> DEFINE row == request[c].rows[m]
  <2>3. shown'[m] = IF Carried(c, m) /\ row.revision >= shown[m].revision THEN row ELSE shown[m]
    BY <2>1, <2>2, ArrivalStep DEF Merged
  <2>4. shown[m].revision \in Nat
    BY <2>1 DEF FeedTypes, PageTypes, Row
  <2>5. CASE Carried(c, m) /\ row.revision >= shown[m].revision
    <3> DEFINE a == <<shown[m].revision, shown[m].replied>>
               b == <<row.revision, row.replied>>
    <3>1. a \in Views(m) /\ b \in Views(m)
      BY <2>5 DEF Views
    <3>2. a[1] \in Nat /\ b[1] \in Nat /\ (a[1] =< b[1] /\ a[2] => b[2])
      BY <2>1, <3>1, ViewType DEF ViewsOrdered
    <3>3. row.replied \/ ~shown[m].replied
      BY <2>5, <3>2
    <3> QED BY <2>3, <2>5, <3>3
  <2>6. CASE ~(Carried(c, m) /\ row.revision >= shown[m].revision)
    BY <2>3, <2>4, <2>6
  <2> QED BY <2>5, <2>6
<1> QED BY <1>1, FeedInvariant, PTL DEF Safety, NeverRegresses

(* Once the page has caught up, each status and what can be cancelled are   *)
(* the engine's, although no revision records them                          *)
(* (partner.ts, +page.svelte).                                              *)
THEOREM CaughtUpIsCurrent == Safety => []CurrentWhenCaughtUp
<1>1. FeedInv => CurrentWhenCaughtUp
  <2> SUFFICES ASSUME FeedInv, CaughtUp, restarts = 0 \/ \A m \in Saved : replied[m]
               PROVE  /\ cancellable = Cancellable
                      /\ \A m \in Messages :
                           shown[m].revision # 0 => shown[m].status = StatusOf(m)
    BY DEF CurrentWhenCaughtUp
  <2>1. /\ FeedTypes /\ ServerInv /\ loaded /\ cursor = Latest /\ Latest \in Nat
        /\ \A m \in Messages : ~Pending(m)
        /\ Knows(cancellable, cursor) /\ cancellable \subseteq Messages
    BY LatestRevision, FeedAssumption
       DEF FeedInv, PageInv, CaughtUp, Pending, CancelInv, FeedTypes, PageTypes
  <2>2. \A m \in Messages : revision[m] \in Nat /\ revision[m] =< cursor
    BY <2>1, LatestRevision DEF FeedTypes, ServerTypes
  <2>3. \A m \in Messages : replied[m] => live[m] \in Ended /\ StatusOf(m) = live[m]
    BY <2>1 DEF ServerInv, StatusOf, Ended
  <2>4. ASSUME NEW m \in Messages PROVE m \in cancellable <=> m \in Cancellable
    <3>1. ~(revision[m] > cursor)
      BY <2>1, <2>2
    <3>2. CASE restarts = 0
      BY <2>1, <3>1, <3>2 DEF Knows
    <3>3. CASE \A n \in Saved : replied[n]
      <4>1. m \notin cancellable
        BY <2>1, <3>1, <3>3 DEF Knows, Saved
      <4>2. m \notin Cancellable
        <5>1. ASSUME m \in Cancellable PROVE FALSE
          <6>1. live[m] \in {"pending", "active"} /\ live[m] \notin Ended
            BY <5>1 DEF Cancellable, Ended
          <6>2. m \in Saved
            BY <2>1, <6>1 DEF ServerInv, Saved
          <6> QED BY <2>3, <3>3, <6>1, <6>2
        <5> QED BY <5>1
      <4> QED BY <4>1, <4>2
    <3> QED BY <3>2, <3>3
  <2>5. ASSUME NEW m \in Messages, shown[m].revision # 0
        PROVE  shown[m].status = StatusOf(m)
    <3> DEFINE a == <<revision[m], replied[m]>>
               b == <<shown[m].revision, shown[m].replied>>
    <3>1. /\ a \in Views(m) /\ b \in Views(m) /\ shown[m].revision \in Nat
      BY <2>1 DEF Views, FeedTypes, PageTypes, Row
    <3>2. b[1] =< revision[m] /\ (a[1] =< b[1] /\ a[2] => b[2])
      BY <3>1 DEF FeedInv, PageInv, ViewsOrdered
    <3>3. m \in Saved
      <4>1. revision[m] # 0
        BY <2>2, <2>5, <3>1, <3>2
      <4> QED BY <2>1, <4>1 DEF ServerInv, Saved
    <3>4. shown[m].revision = revision[m]
      BY <2>1, <2>2, <2>5, <3>3 DEF FeedInv, PageInv, CoverInv, Covered, Shows
    <3>5. replied[m] => shown[m].replied
      BY <2>2, <3>2, <3>4
    <3>6. Reads(shown[m], m)
      BY DEF FeedInv, StatusInv
    <3>7. CASE restarts = 0
      BY <2>1, <2>5, <3>4, <3>6, <3>7 DEF Reads
    <3>8. CASE \A n \in Saved : replied[n]
      BY <2>3, <3>3, <3>5, <3>6, <3>8 DEF Reads
    <3> QED BY <3>7, <3>8
  <2> QED BY <2>1, <2>4, <2>5 DEF Cancellable
<1> QED BY <1>1, FeedInvariant, PTL
=============================================================================
