------------------------- MODULE QueueAndPlanProofs -------------------------
\* What is proved of the polling, the waiting list, the submission and the Plan page with its
\* timeline, each widget for itself and then as parts of Dashboard.
EXTENDS Dashboard, Integers, FiniteSetTheorems, SequenceTheorems, WellFoundedInduction,
        NaturalsInduction, TLAPS

-----------------------------------------------------------------------------
\* The polling: LivePolling.

AliveInv == P!TypeOK /\ P!PollingAlive /\ P!BannerCounts

\* A request that is sent is on its way.
LEMMA SentIsPolled ==
  ASSUME P!TypeOK
  PROVE  /\ P!Sent(polls) \in [P!Versions -> Nat] /\ P!Sent(alls) \in [P!Versions -> Nat]
         /\ server.version \in P!Versions /\ P!Sent(polls)[server.version] > 0
  BY DEF P!TypeOK, P!Sent

\* An answer is of a version that the server has had.
LEMMA SnapshotsAreVersions ==
  ASSUME P!PollingAssumption, P!TypeOK, NEW v \in P!Versions, NEW s \in v..server.version
  PROVE  s \in P!Versions
  BY DEF P!TypeOK, P!Versions, P!PollingAssumption

\* fetchStatus re-arms itself on every path, and no timer is lost on another one: a
\* mounted page has a timer armed or a status request on its way. The banner is up exactly
\* while the failures have reached their limit.
THEOREM PollingNeverDies == P!Spec => [](P!TypeOK /\ P!PollingAlive /\ P!BannerCounts)
  <1> P!PollingAssumption
    BY DashboardAssumption DEF DashboardAssumption
  <1>1. P!Init => AliveInv
    <2> SUFFICES ASSUME P!Init PROVE AliveInv
      OBVIOUS
    <2>1. 0 \in P!Versions /\ BaseInterval \in Nat /\ BaseInterval \in Intervals
      BY P!PollingAssumption DEF P!PollingAssumption, P!Versions
    <2>2. 0 \in 0..FailureLimit /\ 0 # FailureLimit
      BY P!PollingAssumption DEF P!PollingAssumption
    <2>3. QED
      BY <2>1, <2>2 DEF P!Init, AliveInv, P!TypeOK, P!PollingAlive, P!BannerCounts
  <1>2. AliveInv /\ [P!Next]_(P!vars) => AliveInv'
    <2> SUFFICES ASSUME AliveInv, [P!Next]_(P!vars) PROVE AliveInv'
      OBVIOUS
    <2> USE DEF AliveInv, P!TypeOK, P!PollingAlive, P!BannerCounts, P!shown, P!chains,
       P!bank
    <2>1. CASE P!StartPolling
      BY <2>1, SentIsPolled DEF P!StartPolling, P!FetchAll, P!SetTimer
    <2>2. CASE P!StopPolling
      BY <2>2 DEF P!StopPolling
    <2>3. CASE P!TabVisible
      BY <2>3, SentIsPolled DEF P!TabVisible, P!FetchAll
    <2>4. CASE P!NamedTimerFires
      BY <2>4, SentIsPolled DEF P!NamedTimerFires
    <2>5. CASE P!StrayTimerFires
      BY <2>5, SentIsPolled DEF P!StrayTimerFires
    <2>6. ASSUME NEW v \in P!Versions, P!StatusAnswered(v) PROVE AliveInv'
      <3>1. P!Answered(polls, v) \in [P!Versions -> Nat]
        BY <2>6 DEF P!StatusAnswered, P!Answered
      <3>2. /\ pollTimer' = "pending" /\ strays' \in Nat /\ polls' \in [P!Versions -> Nat]
            /\ UNCHANGED <<server, net, mounted, alls, interval, charts, opened>>
        BY <2>6, <3>1 DEF P!StatusAnswered, P!SetTimer
      <3>3. \/ \E s \in v..server.version : P!StatusOk(v, s)
            \/ P!StatusRefused
            \/ P!StatusFailed
        BY <2>6 DEF P!StatusAnswered
      <3>4. CASE \E s \in v..server.version : P!StatusOk(v, s)
        <4>1. PICK s \in v..server.version : P!StatusOk(v, s)
          BY <3>4
        <4>2. s \in P!Versions
          BY SnapshotsAreVersions
        <4>3. pollCount' \in Nat
          BY <4>1, P!PollingAssumption DEF P!PollingAssumption, P!StatusOk
        <4>4. slows' \subseteq P!Versions
          BY <4>1 DEF P!StatusOk
        <4>5. QED
          BY <3>2, <4>1, <4>2, <4>3, <4>4, P!PollingAssumption
             DEF P!PollingAssumption, P!StatusOk
      <3>5. CASE P!StatusRefused
        BY <3>2, <3>5 DEF P!StatusRefused
      <3>6. CASE P!StatusFailed
        <4>1. pollFailures' \in 0..FailureLimit /\ P!BannerCounts'
          BY <3>6, P!PollingAssumption DEF P!PollingAssumption, P!StatusFailed, P!Lesser
        <4>2. backoff' \in Nat /\ connectionStatus' \in {"ok", "disconnected"}
          BY <3>6, P!PollingAssumption DEF P!PollingAssumption, P!StatusFailed, P!Lesser
        <4>3. QED
          BY <3>2, <3>6, <4>1, <4>2 DEF P!StatusFailed
      <3>7. QED
        BY <3>3, <3>4, <3>5, <3>6
    <2>7. ASSUME NEW v \in P!Versions, P!AllAnswered(v) PROVE AliveInv'
      <3>1. /\ P!Answered(alls, v) \in [P!Versions -> Nat]
            /\ alls' = P!Answered(alls, v)
            /\ UNCHANGED <<server, net, mounted, strays, polls, slows, P!bank, opened>>
        BY <2>7 DEF P!AllAnswered, P!Answered
      <3>2. CASE net = "up"
        <4>1. PICK s \in v..server.version :
                /\ polledQueue' = s /\ charts' = s /\ interval' = server.interval
                /\ pollTimer' = IF interval' # interval /\ pollTimer = "fired"
                                  THEN "pending" ELSE pollTimer
          BY <2>7, <3>2 DEF P!AllAnswered
        <4>2. s \in P!Versions
          BY SnapshotsAreVersions
        <4>3. interval' \in Nat
          BY <4>1, P!PollingAssumption DEF P!PollingAssumption
        <4>4. QED
          BY <3>1, <4>1, <4>2, <4>3
      <3>3. CASE net # "up"
        BY <2>7, <3>1, <3>3 DEF P!AllAnswered
      <3>4. QED
        BY <3>2, <3>3
    <2>8. ASSUME NEW v \in P!Versions, P!SlowAnswered(v) PROVE AliveInv'
      <3>1. charts' \in P!Versions
        BY <2>8, SnapshotsAreVersions DEF P!SlowAnswered
      <3>2. QED
        BY <2>8, <3>1 DEF P!SlowAnswered
    <2>9. CASE P!ServerMoves
      <3>1. server.version \in P!Versions /\ server.version < MaxVersion
        BY <2>9 DEF P!ServerMoves
      <3>2. server.version + 1 \in P!Versions
        BY ONLY <3>1, P!PollingAssumption DEF P!PollingAssumption, P!Versions
      <3>3. QED
        BY <2>9, <3>2 DEF P!ServerMoves
    <2>10. CASE P!IntervalRaised \/ P!NetworkChanges
      BY <2>10 DEF P!IntervalRaised, P!NetworkChanges
    <2>11. CASE UNCHANGED P!vars
      BY <2>11 DEF P!vars
    <2>12. QED
      BY <2>1, <2>2, <2>3, <2>4, <2>5, <2>6, <2>7, <2>8, <2>9, <2>10, <2>11 DEF P!Next
  <1>3. QED
    BY <1>1, <1>2, PTL DEF P!Spec, AliveInv

-----------------------------------------------------------------------------
\* The waiting list: QueueBoard.

\* A finite set that a total order Ord orders has a last element.
LEMMA LastOfFinite ==
  ASSUME NEW Whole, IsFiniteSet(Whole), Whole # {}, NEW Ord,
         \A x, y, z \in Whole : <<x, y>> \in Ord /\ <<y, z>> \in Ord => <<x, z>> \in Ord,
         \A x, y \in Whole : x # y => <<x, y>> \in Ord \/ <<y, x>> \in Ord
  PROVE  \E x \in Whole : \A y \in Whole : y # x => <<y, x>> \in Ord
  <1> DEFINE Ends(W, x) == x \in W /\ \A y \in W : y # x => <<y, x>> \in Ord
             Endless == {W \in FiniteSubsetsOf(Whole) : W # {} /\ ~ \E x \in W : Ends(W, x)}
  <1> SUFFICES ASSUME Endless # {}
               PROVE  FALSE
    <2>1. Whole \in FiniteSubsetsOf(Whole)
      BY FS_FiniteSubsetsOfFinite
    <2>2. Whole \notin Endless
      OBVIOUS
    <2>3. QED
      BY <2>1, <2>2
  <1>1. PICK W \in Endless : \A Less \in Endless : <<Less, W>> \notin StrictSubsetOrdering(Whole)
    BY FS_StrictSubsetOrderingWellFounded, WFMin
  <1>2. W \in SUBSET Whole /\ IsFiniteSet(W) /\ W # {}
    BY <1>1, FS_FiniteSubsetsOfFinite, FS_Subset
  <1>3. PICK x \in W : TRUE
    BY <1>2
  <1> DEFINE Less == W \ {x}
  <1>4. Less \in SUBSET Whole /\ IsFiniteSet(Less) /\ Less # W
    BY <1>2, <1>3, FS_RemoveElement
  <1>5. Less \notin Endless
    BY <1>1, <1>2, <1>4 DEF StrictSubsetOrdering
  <1>6. CASE Less = {}
    <2>1. Ends(W, x)
      BY <1>3, <1>6
    <2>2. QED
      BY <1>1, <1>3, <2>1
  <1>7. CASE Less # {}
    <2>0. Less \in FiniteSubsetsOf(Whole)
      BY <1>4, FS_FiniteSubsetsOfFinite
    <2>1. PICK m \in Less : Ends(Less, m)
      BY <1>5, <1>7, <2>0
    <2>2. m \in Whole /\ x \in Whole /\ m # x /\ m \in W
      BY <1>2, <1>3, <2>1
    <2>3. CASE <<x, m>> \in Ord
      <3>1. Ends(W, m)
        BY <1>3, <2>1, <2>2, <2>3
      <3>2. QED
        BY <1>1, <2>2, <3>1
    <2>4. CASE <<m, x>> \in Ord
      <3>1. Ends(W, x)
        BY <1>2, <1>3, <2>1, <2>2, <2>4
      <3>2. QED
        BY <1>1, <1>3, <3>1
    <2>5. QED
      BY <2>2, <2>3, <2>4
  <1>8. QED
    BY <1>6, <1>7

\* The sequences that list the elements of a set, each once.
Listings(Whole) == {s \in [1..Cardinality(Whole) -> Whole] :
                  \A i, j \in 1..Cardinality(Whole) : i # j => s[i] # s[j]}

\* A finite set that a total order orders is the range of a sequence in that order, with each
\* element once.
LEMMA FiniteInOrder ==
  ASSUME NEW Whole, IsFiniteSet(Whole), NEW Ord,
         \A x, y, z \in Whole : <<x, y>> \in Ord /\ <<y, z>> \in Ord => <<x, z>> \in Ord,
         \A x, y \in Whole : x # y => <<x, y>> \in Ord \/ <<y, x>> \in Ord
  PROVE  \E s \in Listings(Whole) : \A m, n \in DOMAIN s : m < n => <<s[m], s[n]>> \in Ord
  <1> DEFINE Goes(s) == \A m, n \in DOMAIN s : m < n => <<s[m], s[n]>> \in Ord
             Unlisted == {W \in FiniteSubsetsOf(Whole) : ~ \E s \in Listings(W) : Goes(s)}
  <1> SUFFICES ASSUME Unlisted # {}
               PROVE  FALSE
    <2>1. Whole \in FiniteSubsetsOf(Whole)
      BY FS_FiniteSubsetsOfFinite
    <2>2. Whole \notin Unlisted
      OBVIOUS
    <2>3. QED
      BY <2>1, <2>2
  <1>1. PICK W \in Unlisted : \A Less \in Unlisted :
               <<Less, W>> \notin StrictSubsetOrdering(Whole)
    BY FS_StrictSubsetOrderingWellFounded, WFMin
  <1>2. W \in SUBSET Whole /\ IsFiniteSet(W)
    BY <1>1, FS_FiniteSubsetsOfFinite, FS_Subset
  <1>3. CASE W = {}
    <2>1. Cardinality(W) = 0
      BY <1>3, FS_EmptySet
    <2> DEFINE e == [i \in 1..0 |-> 0]
    <2>2. e \in [1..Cardinality(W) -> W] /\ DOMAIN e = {}
      BY <2>1
    <2>3. e \in Listings(W) /\ Goes(e)
      BY <2>1, <2>2 DEF Listings
    <2>4. QED
      BY <1>1, <2>3
  <1>4. CASE W # {}
    <2>1. PICK x \in W : \A y \in W : y # x => <<y, x>> \in Ord
      <3>1. /\ \A a, b, c \in W : <<a, b>> \in Ord /\ <<b, c>> \in Ord => <<a, c>> \in Ord
            /\ \A a, b \in W : a # b => <<a, b>> \in Ord \/ <<b, a>> \in Ord
        BY <1>2
      <3>2. \E y \in W : \A z \in W : z # y => <<z, y>> \in Ord
        BY ONLY <1>2, <1>4, <3>1, LastOfFinite
      <3>3. QED
        BY <3>2
    <2> DEFINE Less == W \ {x}
               k == Cardinality(Less)
    <2>2. Less \in SUBSET Whole /\ IsFiniteSet(Less) /\ Less # W /\ Cardinality(W) = k + 1
          /\ k \in Nat
      <3>1. Less \in SUBSET Whole /\ Less # W /\ x \in W
        BY <1>2, <2>1
      <3>2. IsFiniteSet(Less) /\ k = Cardinality(W) - 1
        BY <1>2, <3>1, FS_RemoveElement
      <3>3. k \in Nat /\ Cardinality(W) \in Nat
        BY <1>2, <3>2, FS_CardinalityType
      <3>4. QED
        BY <3>1, <3>2, <3>3
    <2>3. Less \notin Unlisted
      BY <1>1, <1>2, <2>2 DEF StrictSubsetOrdering
    <2>4. PICK s \in Listings(Less) : Goes(s)
      BY <2>2, <2>3, FS_FiniteSubsetsOfFinite
    <2> DEFINE Dom == 1..k
               t == [i \in 1..(k + 1) |-> IF i = k + 1 THEN x ELSE s[i]]
    <2>5. s \in [Dom -> Less] /\ \A i, j \in Dom : i # j => s[i] # s[j]
      BY <2>4 DEF Listings
    <2> HIDE DEF k
    <2>6. t \in [1..(k + 1) -> W]
      BY <2>1, <2>2, <2>5
    <2>7. \A i, j \in 1..(k + 1) : i # j => t[i] # t[j]
      BY <2>2, <2>5
    <2>8. t \in Listings(W)
      BY <2>2, <2>6, <2>7 DEF Listings
    <2>9. Goes(t)
      <3> SUFFICES ASSUME NEW m \in 1..(k + 1), NEW n \in 1..(k + 1), m < n
                   PROVE  <<t[m], t[n]>> \in Ord
        BY <2>6
      <3>1. m \in Dom /\ t[m] = s[m] /\ s[m] \in W /\ s[m] # x
        BY <2>2, <2>5
      <3>2. CASE n = k + 1
        BY <2>1, <3>1, <3>2
      <3>3. CASE n # k + 1
        <4>1. n \in Dom /\ t[n] = s[n] /\ DOMAIN s = Dom
          BY <2>2, <2>5, <3>3
        <4>2. QED
          BY <2>4, <3>1, <4>1
      <3>4. QED
        BY <3>2, <3>3
    <2>10. QED
      BY <1>1, <2>8, <2>9
  <1>5. QED
    BY <1>3, <1>4

\* Rows as the list has them; a drop from past the end puts in one without an id.
QueueRows == [id : Jobs \union {None}, prio : Nat]

\* A list names a job once, and only jobs that were submitted.
Listed(rows) ==
    /\ rows \in Seq(QueueRows)
    /\ \A i \in DOMAIN rows : rows[i].id \in Jobs => jobStatus[rows[i].id] # "unsubmitted"
    /\ \A i, j \in DOMAIN rows : i # j /\ rows[i].id \in Jobs => rows[i].id # rows[j].id

ListsTyped ==
    /\ jobStatus \in [Jobs -> {"unsubmitted", "pending", "gone"}]
    /\ prio \in [Jobs -> 0..MaxPriority]
    /\ IsFiniteSet(B!Pending)
    /\ Listed(queue) /\ \A r \in replies : Listed(r)
    /\ puts \subseteq QueueRows
    /\ dragIdx \in Nat /\ drops \in 0..MaxDrops

\* While the last drop stands, each of its waiting rows has its place as its priority or
\* has it on its way, and no PUT is out that would give it another.
GoalStands ==
    /\ goal \in Seq(Jobs \union {None})
    /\ Len(goal) <= MaxPriority
    /\ \A m, n \in DOMAIN goal : m # n /\ goal[m] \in Jobs => goal[m] # goal[n]
    /\ \A m \in DOMAIN goal :
         goal[m] \in Jobs =>
           /\ jobStatus[goal[m]] # "unsubmitted"
           /\ goal[m] \in B!Pending => prio[goal[m]] = m \/ [id |-> goal[m], prio |-> m] \in puts
           /\ \A p \in puts : p.id = goal[m] => p.prio = m

BoardInv == ListsTyped /\ GoalStands

\* What /api/queue answers names each waiting job once.
LEMMA SnapshotListed ==
  ASSUME B!BoardAssumption, ListsTyped
  PROVE  Listed(B!Snapshot)
  <1> DEFINE Ord == {e \in B!Pending \X B!Pending : B!Before(e[1], e[2])}
             Goes(s) == \A m, n \in DOMAIN s : m < n => B!Before(s[m], s[n])
  <1>1. B!Pending \subseteq Jobs /\ B!Pending \subseteq Nat
        /\ \A j \in B!Pending : prio[j] \in Nat
    <2>1. B!Pending \subseteq Jobs
      BY DEF B!Pending
    <2>2. QED
      BY <2>1 DEF B!BoardAssumption, ListsTyped
  <1>2. \A j, k \in B!Pending : <<j, k>> \in Ord <=> B!Before(j, k)
    OBVIOUS
  <1>3. \A x, y, z \in B!Pending : <<x, y>> \in Ord /\ <<y, z>> \in Ord => <<x, z>> \in Ord
    BY <1>1, <1>2 DEF B!Before
  <1>4. \A x, y \in B!Pending : x # y => <<x, y>> \in Ord \/ <<y, x>> \in Ord
    BY <1>1, <1>2 DEF B!Before
  <1> HIDE DEF Ord
  <1>5. \E s \in Listings(B!Pending) : \A m, n \in DOMAIN s : m < n => <<s[m], s[n]>> \in Ord
    BY <1>3, <1>4, FiniteInOrder DEF ListsTyped
  <1>6. Listings(B!Pending) = B!SetToSeqs(B!Pending)
    BY DEF Listings, B!SetToSeqs, B!Cardinality, Cardinality
  <1>7. \E s \in B!SetToSeqs(B!Pending) : Goes(s)
    <2>1. PICK s \in Listings(B!Pending) : \A m, n \in DOMAIN s : m < n => <<s[m], s[n]>> \in Ord
      BY <1>5
    <2>2. \A m \in DOMAIN s : s[m] \in B!Pending
      BY <2>1 DEF Listings
    <2>3. Goes(s)
      BY <1>2, <2>1, <2>2
    <2>4. QED
      BY <1>6, <2>1, <2>3
  <1>8. B!ServerOrder \in B!SetToSeqs(B!Pending)
    BY <1>7 DEF B!ServerOrder
  <1>9. PICK k \in Nat : /\ B!ServerOrder \in [1..k -> B!Pending]
                         /\ \A i, j \in 1..k : i # j => B!ServerOrder[i] # B!ServerOrder[j]
    BY <1>8, FS_CardinalityType DEF B!SetToSeqs, B!Cardinality, Cardinality, ListsTyped
  <1>10. Len(B!ServerOrder) = k
    BY <1>9
  <1>11. \A i \in 1..k : /\ B!Snapshot[i] =
                              [id |-> B!ServerOrder[i], prio |-> prio[B!ServerOrder[i]]]
                         /\ B!ServerOrder[i] \in B!Pending
    BY <1>9, <1>10 DEF B!Snapshot, B!Row
  <1>12. B!Snapshot \in Seq(QueueRows) /\ DOMAIN B!Snapshot = 1..k
    <2>1. \A i \in 1..k : B!Snapshot[i] \in QueueRows
      <3>1. TAKE i \in 1..k
      <3>2. B!ServerOrder[i] \in Jobs \union {None} /\ prio[B!ServerOrder[i]] \in Nat
        BY <1>1, <1>11
      <3>3. B!Snapshot[i] = [id |-> B!ServerOrder[i], prio |-> prio[B!ServerOrder[i]]]
        BY <1>11
      <3>4. QED
        BY <3>2, <3>3 DEF QueueRows
    <2>2. B!Snapshot = [i \in 1..k |-> B!Row(B!ServerOrder[i])]
      BY <1>10 DEF B!Snapshot
    <2>3. QED
      BY <1>9, <2>1, <2>2
  <1>13. QED
    BY <1>9, <1>11, <1>12 DEF Listed, B!Pending

\* The rows that the filter keeps, in the order of the list.
LEMMA ItemsListed ==
  ASSUME ListsTyped
  PROVE  Listed(B!Items)
  <1> DEFINE Top == Len(queue)
             Ord == {e \in Nat \X Nat : e[1] < e[2]}
             Goes(s) == \A m, n \in DOMAIN s : m < n => s[m] < s[n]
  <1>1. queue \in Seq(QueueRows) /\ Top \in Nat /\ DOMAIN queue = 1..Top
    BY DEF ListsTyped, Listed
  <1>2. B!Kept \subseteq 1..Top /\ B!Kept \subseteq Nat
    BY <1>1 DEF B!Kept
  <1>3. IsFiniteSet(B!Kept)
    <2>1. IsFiniteSet(1..Top)
      BY <1>1, FS_Interval
    <2>2. QED
      BY <1>2, <2>1, FS_Subset
  <1>4. \A x, y \in Nat : <<x, y>> \in Ord <=> x < y
    OBVIOUS
  <1>5. /\ \A x, y, z \in B!Kept : <<x, y>> \in Ord /\ <<y, z>> \in Ord => <<x, z>> \in Ord
        /\ \A x, y \in B!Kept : x # y => <<x, y>> \in Ord \/ <<y, x>> \in Ord
    BY <1>2, <1>4
  <1> HIDE DEF Ord
  <1>6. PICK s \in Listings(B!Kept) : \A m, n \in DOMAIN s : m < n => <<s[m], s[n]>> \in Ord
    BY <1>3, <1>5, FiniteInOrder
  <1>7. s \in B!SetToSeqs(B!Kept) /\ Goes(s)
    <2>1. \A m \in DOMAIN s : s[m] \in Nat
      BY <1>2, <1>6 DEF Listings
    <2>2. QED
      BY <1>4, <1>6, <2>1 DEF Listings, B!SetToSeqs, B!Cardinality, Cardinality
  <1>8. B!Places \in B!SetToSeqs(B!Kept)
    BY <1>7 DEF B!Places
  <1>9. PICK k \in Nat : /\ B!Places \in [1..k -> B!Kept]
                         /\ \A i, j \in 1..k : i # j => B!Places[i] # B!Places[j]
    BY <1>3, <1>8, FS_CardinalityType DEF B!SetToSeqs, B!Cardinality, Cardinality
  <1>10. \A i \in 1..k : B!Items[i] = queue[B!Places[i]] /\ B!Places[i] \in DOMAIN queue
    BY <1>1, <1>2, <1>9 DEF B!Items
  <1>11. B!Items \in Seq(QueueRows) /\ DOMAIN B!Items = 1..k
    <2>1. \A i \in 1..k : B!Items[i] \in QueueRows
      BY <1>1, <1>10
    <2>2. B!Items = [i \in 1..k |-> queue[B!Places[i]]]
      BY <1>9 DEF B!Items
    <2>3. QED
      BY <1>9, <2>1, <2>2
  <1>12. QED
    BY <1>9, <1>10, <1>11 DEF ListsTyped, Listed

\* What is left of a sequence when an element is taken out (Array.prototype.splice).
LEMMA Removed ==
  ASSUME NEW Elems, NEW s \in Seq(Elems), NEW i \in 1..Len(s)
  PROVE  /\ B!RemoveAt(s, i) \in Seq(Elems) /\ Len(B!RemoveAt(s, i)) = Len(s) - 1
         /\ \A j \in 1..(Len(s) - 1) : B!RemoveAt(s, i)[j] = IF j < i THEN s[j] ELSE s[j + 1]
  <1> DEFINE a == SubSeq(s, 1, i - 1)
             b == SubSeq(s, i + 1, Len(s))
  <1>1. a \in Seq(Elems) /\ Len(a) = i - 1 /\ \A j \in 1..(i - 1) : a[j] = s[j]
    OBVIOUS
  <1>2. b \in Seq(Elems) /\ Len(b) = Len(s) - i /\ \A j \in 1..(Len(s) - i) : b[j] = s[i + j]
    OBVIOUS
  <1> HIDE DEF a, b
  <1>3. B!RemoveAt(s, i) = a \o b
    BY DEF B!RemoveAt, a, b
  <1>4. a \o b \in Seq(Elems) /\ Len(a \o b) = Len(s) - 1
    <2>1. a \o b \in Seq(Elems) /\ Len(a \o b) = Len(a) + Len(b)
      BY ONLY <1>1, <1>2, ConcatProperties
    <2>2. Len(s) \in Nat /\ Len(a) = i - 1 /\ Len(b) = Len(s) - i
      BY <1>1, <1>2
    <2>3. QED
      BY <2>1, <2>2
  <1>5. ASSUME NEW j \in 1..(Len(s) - 1) PROVE (a \o b)[j] = IF j < i THEN s[j] ELSE s[j + 1]
    <2>1. CASE j < i
      BY <1>1, <1>2, <2>1
    <2>2. CASE ~(j < i)
      <3>1. (a \o b)[j] = b[j - (i - 1)] /\ j - (i - 1) \in 1..(Len(s) - i)
        BY <1>1, <1>2, <2>2
      <3>2. b[j - (i - 1)] = s[i + (j - (i - 1))] /\ i + (j - (i - 1)) = j + 1
        BY <1>2, <3>1
      <3>3. QED
        BY <2>2, <3>1, <3>2
    <2>3. QED
      BY <2>1, <2>2
  <1>6. QED
    BY <1>3, <1>4, <1>5

\* The same of an element that is put in.
LEMMA Inserted ==
  ASSUME NEW Elems, NEW s \in Seq(Elems), NEW i \in 1..(Len(s) + 1), NEW e \in Elems
  PROVE  /\ B!InsertAt(s, i, e) \in Seq(Elems) /\ Len(B!InsertAt(s, i, e)) = Len(s) + 1
         /\ B!InsertAt(s, i, e) = [j \in 1..(Len(s) + 1) |->
                                  IF j < i THEN s[j] ELSE IF j = i THEN e ELSE s[j - 1]]
  <1> DEFINE a == SubSeq(s, 1, i - 1)
             b == SubSeq(s, i, Len(s))
             c == a \o <<e>>
  <1>1. a \in Seq(Elems) /\ Len(a) = i - 1 /\ \A j \in 1..(i - 1) : a[j] = s[j]
    OBVIOUS
  <1>2. /\ b \in Seq(Elems) /\ Len(b) = Len(s) - i + 1
        /\ \A j \in 1..(Len(s) - i + 1) : b[j] = s[i + j - 1]
    OBVIOUS
  <1>3. B!InsertAt(s, i, e) = c \o b
    BY DEF B!InsertAt
  <1> HIDE DEF a, b
  <1>4. /\ c \in Seq(Elems) /\ Len(c) = i /\ c[i] = e
        /\ \A j \in 1..(i - 1) : c[j] = s[j]
    BY <1>1
  <1> HIDE DEF c
  <1>5. c \o b \in Seq(Elems) /\ Len(c \o b) = Len(s) + 1
    <2>1. c \o b \in Seq(Elems) /\ Len(c \o b) = Len(c) + Len(b)
      BY ONLY <1>2, <1>4, ConcatProperties
    <2>2. Len(s) \in Nat /\ Len(c) = i /\ Len(b) = Len(s) - i + 1
      BY <1>2, <1>4
    <2>3. QED
      BY <2>1, <2>2
  <1>6. ASSUME NEW j \in 1..(Len(s) + 1)
        PROVE  (c \o b)[j] = IF j < i THEN s[j] ELSE IF j = i THEN e ELSE s[j - 1]
    <2>1. CASE j <= i
      BY <1>2, <1>4, <2>1
    <2>2. CASE ~(j <= i)
      <3>1. (c \o b)[j] = b[j - i] /\ j - i \in 1..(Len(s) - i + 1)
        BY <1>2, <1>4, <2>2
      <3>2. b[j - i] = s[i + (j - i) - 1] /\ i + (j - i) - 1 = j - 1
        BY <1>2, <3>1
      <3>3. QED
        BY <2>2, <3>1, <3>2
    <2>3. QED
      BY <2>1, <2>2
  <1>7. c \o b = [j \in 1..(Len(s) + 1) |->
                  IF j < i THEN s[j] ELSE IF j = i THEN e ELSE s[j - 1]]
    <2>1. c \o b = [j \in 1..(Len(s) + 1) |-> (c \o b)[j]]
      <3>1. \A t \in Seq(Elems) : t = [j \in 1..Len(t) |-> t[j]]
        OBVIOUS
      <3>2. QED
        BY <1>5, <3>1
    <2>2. QED
      BY <1>6, <2>1
  <1>8. QED
    BY <1>3, <1>5, <1>7

\* What a drop makes of a list: its rows, numbered, and at most one without an id.
LEMMA ReorderedListed ==
  ASSUME NEW rows, Listed(rows), NEW from \in Nat \ {0}, NEW to \in DOMAIN rows,
         None \notin Jobs
  PROVE  /\ Listed(B!Reordered(rows, from, to))
         /\ \A i \in DOMAIN B!Reordered(rows, from, to) : B!Reordered(rows, from, to)[i].prio = i
  <1> DEFINE n == Len(rows)
             dragged == IF from <= n THEN rows[from] ELSE [id |-> None, prio |-> 0]
             rest == IF from <= n THEN B!RemoveAt(rows, from) ELSE rows
             k == IF from <= n THEN n - 1 ELSE n
             moved == B!InsertAt(rest, to, dragged)
             new == B!Reordered(rows, from, to)
             Was(i) == IF from <= n /\ i >= from THEN i + 1 ELSE i
             From(i) == IF i < to THEN Was(i) ELSE IF i = to THEN from ELSE Was(i - 1)
  <1>1. rows \in Seq(QueueRows) /\ n \in Nat /\ DOMAIN rows = 1..n /\ to \in 1..n
    BY DEF Listed
  <1>2. dragged \in QueueRows
    <2>1. [id |-> None, prio |-> 0] \in QueueRows
      BY DEF QueueRows
    <2>2. QED
      BY <1>1, <2>1
  <1>3. /\ rest \in Seq(QueueRows) /\ Len(rest) = k
        /\ \A i \in 1..k : rest[i] = rows[Was(i)]
    <2>1. CASE from <= n
      <3>1. rows \in Seq(QueueRows) /\ from \in 1..Len(rows)
        BY <1>1, <2>1
      <3>2. /\ B!RemoveAt(rows, from) \in Seq(QueueRows) /\ Len(B!RemoveAt(rows, from)) = n - 1
            /\ \A j \in 1..(n - 1) :
                 B!RemoveAt(rows, from)[j] = IF j < from THEN rows[j] ELSE rows[j + 1]
        BY ONLY <3>1, Removed
      <3>3. rest = B!RemoveAt(rows, from) /\ k = n - 1
        BY <2>1
      <3>4. \A j \in 1..k : Was(j) = IF j < from THEN j ELSE j + 1
        BY <1>1, <2>1
      <3>5. QED
        BY <3>2, <3>3, <3>4
    <2>2. CASE ~(from <= n)
      BY <1>1, <2>2
    <2>3. QED
      BY <2>1, <2>2
  <1>4. k \in Nat /\ to \in 1..(k + 1)
    BY <1>1
  <1> HIDE DEF rest, dragged
  <1>5. /\ moved \in Seq(QueueRows) /\ Len(moved) = k + 1
        /\ \A i \in 1..(k + 1) : moved[i] = IF i < to THEN rest[i]
                                          ELSE IF i = to THEN dragged ELSE rest[i - 1]
    <2>1. rest \in Seq(QueueRows) /\ to \in 1..(Len(rest) + 1) /\ dragged \in QueueRows
      BY <1>2, <1>3, <1>4
    <2> HIDE DEF k
    <2>2. /\ moved \in Seq(QueueRows) /\ Len(moved) = Len(rest) + 1
          /\ moved = [j \in 1..(Len(rest) + 1) |->
                       IF j < to THEN rest[j] ELSE IF j = to THEN dragged ELSE rest[j - 1]]
      <3>1. ASSUME NEW Elems, NEW s \in Seq(Elems), NEW i \in 1..(Len(s) + 1), NEW e \in Elems
            PROVE  B!InsertAt(s, i, e) = [j \in 1..(Len(s) + 1) |->
                                  IF j < i THEN s[j] ELSE IF j = i THEN e ELSE s[j - 1]]
        BY Inserted
      <3>2. B!InsertAt(rest, to, dragged) = [j \in 1..(Len(rest) + 1) |->
                       IF j < to THEN rest[j] ELSE IF j = to THEN dragged ELSE rest[j - 1]]
        BY ONLY <2>1, <3>1
      <3>3. B!InsertAt(rest, to, dragged) \in Seq(QueueRows)
            /\ Len(B!InsertAt(rest, to, dragged)) = Len(rest) + 1
        BY ONLY <2>1, Inserted
      <3>4. QED
        BY ONLY <3>2, <3>3 DEF moved
    <2>3. QED
      BY <1>3, <1>4, <2>2
  <1>6. new = [i \in 1..Len(moved) |-> [moved[i] EXCEPT !.prio = i]]
    BY DEF B!Reordered, rest, dragged
  <1> HIDE DEF moved, new
  <1>7. \A i \in 1..(k + 1) : new[i].id = moved[i].id /\ new[i].prio = i /\ new[i] \in QueueRows
    <2>1. TAKE i \in 1..(k + 1)
    <2>2. moved[i] \in QueueRows /\ new[i] = [moved[i] EXCEPT !.prio = i]
      BY <1>4, <1>5, <1>6
    <2>3. QED
      BY <2>2 DEF QueueRows
  <1>8. new \in Seq(QueueRows) /\ DOMAIN new = 1..(k + 1)
    <2>1. new \in [1..(k + 1) -> QueueRows] /\ k + 1 \in Nat
      <3>1. DOMAIN new = 1..(k + 1)
        BY <1>5, <1>6
      <3>2. new = [i \in 1..(k + 1) |-> new[i]] /\ k + 1 \in Nat
        BY <1>4, <1>5, <1>6
      <3>3. QED
        BY <1>7, <3>1, <3>2
    <2>2. QED
      BY <2>1
  <1>9. ASSUME NEW i \in 1..(k + 1), new[i].id \in Jobs
        PROVE  From(i) \in 1..n /\ new[i].id = rows[From(i)].id
    <2>1. CASE i = to
      <3>1. new[i].id = dragged.id
        BY <1>5, <1>7, <2>1
      <3>2. from <= n
        BY <1>9, <3>1 DEF dragged
      <3>3. QED
        BY <1>1, <2>1, <3>1, <3>2 DEF dragged
    <2>2. CASE i < to
      <3>1. i \in 1..k /\ moved[i] = rest[i] /\ From(i) = Was(i)
        BY <1>4, <1>5, <2>2
      <3>2. Was(i) \in 1..n
        BY <1>1, <3>1
      <3>3. QED
        BY <1>3, <1>7, <3>1, <3>2
    <2>3. CASE i > to
      <3>1. i - 1 \in 1..k /\ moved[i] = rest[i - 1] /\ From(i) = Was(i - 1)
        BY <1>4, <1>5, <2>3
      <3>2. Was(i - 1) \in 1..n
        BY <1>1, <3>1
      <3>3. QED
        BY <1>3, <1>7, <3>1, <3>2
    <2>4. QED
      BY <1>4, <2>1, <2>2, <2>3
  <1>10. \A i, j \in 1..(k + 1) : i # j => From(i) # From(j)
    BY <1>1, <1>4
  <1>11. \A i \in 1..(k + 1) : new[i].id \in Jobs => jobStatus[new[i].id] # "unsubmitted"
    BY <1>1, <1>9 DEF Listed
  <1>12. ASSUME NEW i \in 1..(k + 1), NEW j \in 1..(k + 1), i # j, new[i].id \in Jobs
         PROVE  new[i].id # new[j].id
    <2>1. SUFFICES ASSUME new[i].id = new[j].id PROVE FALSE
      OBVIOUS
    <2>2. new[i].id = rows[From(i)].id /\ new[j].id = rows[From(j)].id
      BY <1>9, <1>12, <2>1
    <2>3. From(i) \in 1..n /\ From(j) \in 1..n /\ From(i) # From(j)
      BY <1>9, <1>10, <1>12, <2>1
    <2>4. QED
      BY <1>1, <1>12, <2>1, <2>2, <2>3 DEF Listed
  <1>13. QED
    BY <1>7, <1>8, <1>11, <1>12 DEF Listed, new

\* A page that has not asked yet shows nothing and has dropped nothing.
LEMMA BoardInit ==
  ASSUME B!BoardAssumption, B!Init
  PROVE  BoardInv
  <1>1. B!Pending = {}
    BY DEF B!Init, B!Pending
  <1>2. IsFiniteSet(B!Pending)
    BY <1>1, FS_EmptySet
  <1>3. Listed(<<>>)
    BY DEF Listed
  <1>4. ListsTyped
    BY <1>2, <1>3 DEF B!BoardAssumption, B!Init, ListsTyped
  <1>5. GoalStands
    BY DEF B!BoardAssumption, B!Init, GoalStands
  <1>6. QED
    BY <1>4, <1>5 DEF BoardInv

\* A list keeps naming submitted jobs while no job is unsubmitted.
LEMMA StillListed ==
  ASSUME \A j \in Jobs : jobStatus[j] # "unsubmitted" => jobStatus'[j] # "unsubmitted"
  PROVE  \A rows : Listed(rows) => Listed(rows)'
  BY DEF Listed

\* A job that is submitted is on no list yet and in no drop.
LEMMA SubmitKeeps ==
  ASSUME B!BoardAssumption, BoardInv, NEW j \in Jobs, B!Submit(j)
  PROVE  BoardInv'
  <1>1. jobStatus' = [jobStatus EXCEPT ![j] = "pending"] /\ jobStatus[j] = "unsubmitted"
    BY DEF B!Submit
  <1>2. /\ jobStatus \in [Jobs -> {"unsubmitted", "pending", "gone"}]
        /\ jobStatus' \in [Jobs -> {"unsubmitted", "pending", "gone"}]
    BY <1>1 DEF BoardInv, ListsTyped
  <1>3. B!Pending' = B!Pending \union {j}
    BY <1>1, <1>2 DEF B!Pending
  <1>4. IsFiniteSet(B!Pending)'
    BY <1>3, FS_AddElement DEF BoardInv, ListsTyped
  <1>5. \A rows : Listed(rows) => Listed(rows)'
    BY <1>1, <1>2, StillListed
  <1>6. ListsTyped'
    BY <1>2, <1>4, <1>5 DEF BoardInv, ListsTyped, B!Submit, B!wire, B!page
  <1>7. GoalStands'
    BY <1>1, <1>2, <1>3 DEF BoardInv, GoalStands, B!Submit, B!wire
  <1>8. QED
    BY <1>6, <1>7 DEF BoardInv

\* A job that has left the waiting list is asked nothing any more.
LEMMA LeavingKeeps ==
  ASSUME B!BoardAssumption, BoardInv, NEW j \in Jobs, B!JobLeaves(j)
  PROVE  BoardInv'
  <1>1. jobStatus' = [jobStatus EXCEPT ![j] = "gone"]
    BY DEF B!JobLeaves
  <1>2. /\ jobStatus \in [Jobs -> {"unsubmitted", "pending", "gone"}]
        /\ jobStatus' \in [Jobs -> {"unsubmitted", "pending", "gone"}]
    BY <1>1 DEF BoardInv, ListsTyped
  <1>3. B!Pending' \subseteq B!Pending
    BY <1>1, <1>2 DEF B!Pending
  <1>4. IsFiniteSet(B!Pending)'
    BY <1>3, FS_Subset DEF BoardInv, ListsTyped
  <1>5. \A rows : Listed(rows) => Listed(rows)'
    BY <1>1, <1>2, StillListed
  <1>6. ListsTyped'
    BY <1>2, <1>4, <1>5 DEF BoardInv, ListsTyped, B!JobLeaves, B!wire, B!page
  <1>7. GoalStands'
    BY <1>1, <1>2, <1>3 DEF BoardInv, GoalStands, B!JobLeaves, B!wire
  <1>8. QED
    BY <1>6, <1>7 DEF BoardInv

\* A PUT that arrives gives its job the place it carries; one that is lost takes the goal
\* of the drop with it.
LEMMA PutKeeps ==
  ASSUME B!BoardAssumption, BoardInv, NEW p \in puts, B!PutArrives(p) \/ B!PutLost(p)
  PROVE  BoardInv'
  <1>1. UNCHANGED <<jobStatus, queue, replies, dragIdx, drops>> /\ puts' \subseteq puts
    BY DEF B!PutArrives, B!PutLost, B!server, B!page
  <1>2. B!Pending' = B!Pending /\ p \in QueueRows
    BY <1>1 DEF B!Pending, BoardInv, ListsTyped
  <1>3. prio' \in [Jobs -> 0..MaxPriority]
    BY <1>2 DEF B!PutArrives, B!PutLost, B!server, BoardInv, ListsTyped, QueueRows,
       B!BoardAssumption
  <1>4. \A rows : Listed(rows) => Listed(rows)'
    BY <1>1 DEF Listed
  <1>5. ListsTyped'
    BY <1>1, <1>2, <1>3, <1>4 DEF BoardInv, ListsTyped
  <1>6. CASE B!PutArrives(p)
    <2>1. goal' = goal /\ puts' = puts \ {p} /\ jobStatus' = jobStatus
      BY <1>6 DEF B!PutArrives
    <2>2. ASSUME NEW m \in DOMAIN goal, goal[m] \in Jobs, goal[m] \in B!Pending
          PROVE  prio'[goal[m]] = m \/ [id |-> goal[m], prio |-> m] \in puts'
      <3>1. m \in Nat /\ m <= MaxPriority
        BY <2>2 DEF BoardInv, GoalStands, B!BoardAssumption
      <3>2. CASE p.id = goal[m]
        <4>1. p.prio = m
          BY <2>2, <3>2 DEF BoardInv, GoalStands
        <4>2. prio' = [prio EXCEPT ![p.id] = p.prio]
          BY <1>6, <2>2, <3>1, <3>2, <4>1 DEF B!PutArrives
        <4>3. QED
          BY <2>2, <3>2, <4>1, <4>2 DEF BoardInv, ListsTyped
      <3>3. CASE p.id # goal[m]
        <4>1. prio'[goal[m]] = prio[goal[m]]
          BY <1>6, <2>2, <3>3 DEF B!PutArrives, BoardInv, ListsTyped
        <4>2. [id |-> goal[m], prio |-> m] # p
          BY <3>3
        <4>3. QED
          BY <2>1, <2>2, <4>1, <4>2 DEF BoardInv, GoalStands
      <3>4. QED
        BY <3>2, <3>3
    <2>3. GoalStands'
      BY <1>2, <2>1, <2>2 DEF BoardInv, GoalStands
    <2>4. QED
      BY <1>5, <2>3 DEF BoardInv
  <1>7. CASE B!PutLost(p)
    <2>1. goal' = <<>>
      BY <1>7 DEF B!PutLost
    <2>2. GoalStands'
      BY <2>1 DEF GoalStands, B!BoardAssumption
    <2>3. QED
      BY <1>5, <2>2 DEF BoardInv
  <1>8. QED
    BY <1>6, <1>7

\* A drop numbers the rows it shows and sends a PUT for each whose number changed; the
\* others have their place as their priority already.
LEMMA DropKeeps ==
  ASSUME B!BoardAssumption, BoardInv, NEW to \in DOMAIN B!Items, B!Drop(to)
  PROVE  BoardInv'
  <1> DEFINE new == B!Reordered(B!Items, dragIdx, to)
  <1>1. UNCHANGED <<jobStatus, prio, replies>> /\ dragIdx' = 0 /\ dragIdx \in Nat \ {0}
    BY DEF B!Drop, B!server, BoardInv, ListsTyped
  <1>2. \A rows : Listed(rows) => Listed(rows)'
    BY <1>1 DEF Listed
  <1>3. B!Pending' = B!Pending
    BY <1>1 DEF B!Pending
  <1>4. CASE dragIdx = to
    <2>1. UNCHANGED <<queue, puts, drops, goal>>
      BY <1>4 DEF B!Drop
    <2>2. QED
      BY <1>1, <1>2, <1>3, <2>1 DEF BoardInv, ListsTyped, GoalStands
  <1>5. CASE dragIdx # to
    <2>1. /\ queue' = new /\ puts' = puts \union B!Changed(B!Items, new)
          /\ drops' = drops + 1 /\ drops < MaxDrops
          /\ goal' = IF B!Persistable(B!Items, new) THEN B!Ids(new) ELSE <<>>
      BY <1>5 DEF B!Drop
    <2>2. Listed(B!Items)
      BY ItemsListed DEF BoardInv
    <2>3. Listed(new) /\ \A i \in DOMAIN new : new[i].prio = i
      BY <1>1, <2>2, ReorderedListed DEF B!BoardAssumption
    <2> HIDE DEF new
    <2>4. new \in Seq(QueueRows) /\ Len(new) \in Nat /\ DOMAIN new = 1..Len(new)
      BY <2>3 DEF Listed
    <2>5. B!Changed(B!Items, new) \subseteq B!ToSet(new) /\ B!ToSet(new) \subseteq QueueRows
      BY <2>4 DEF B!Changed, B!ToSet
    <2>6. ListsTyped'
      <3>1. puts' \subseteq QueueRows
        BY <2>1, <2>5 DEF BoardInv, ListsTyped
      <3>2. drops' \in 0..MaxDrops
        BY <2>1 DEF BoardInv, ListsTyped, B!BoardAssumption
      <3>3. QED
        BY <1>1, <1>2, <1>3, <2>1, <2>3, <3>1, <3>2 DEF BoardInv, ListsTyped
    <2>7. CASE ~B!Persistable(B!Items, new)
      <3>1. goal' = <<>>
        BY <2>1, <2>7
      <3>2. GoalStands'
        BY <3>1 DEF GoalStands, B!BoardAssumption
      <3>3. QED
        BY <2>6, <3>2 DEF BoardInv
    <2>8. CASE B!Persistable(B!Items, new)
      <3>1. /\ goal' = B!Ids(new) /\ puts' = B!Changed(B!Items, new) /\ Len(new) <= MaxPriority
            /\ \A r \in B!ToSet(B!Items) : r.id \in B!Pending => prio[r.id] = r.prio
        BY <2>1, <2>8 DEF B!Persistable
      <3>2. DOMAIN goal' = 1..Len(new) /\ \A m \in 1..Len(new) : goal'[m] = new[m].id
        BY <3>1 DEF B!Ids
      <3>3. goal' \in Seq(Jobs \union {None}) /\ Len(goal') = Len(new)
        <4>1. ASSUME NEW m \in 1..Len(new) PROVE new[m].id \in Jobs \union {None}
          <5>1. new[m] \in QueueRows
            BY <2>4
          <5>2. QED
            BY <5>1 DEF QueueRows
        <4>2. goal' = [m \in 1..Len(new) |-> new[m].id]
          BY <3>1 DEF B!Ids
        <4>3. QED
          BY <2>4, <4>1, <4>2
      <3>4. \A m, n \in 1..Len(new) : m # n /\ goal'[m] \in Jobs => goal'[m] # goal'[n]
        BY <2>3, <2>4, <3>2 DEF Listed
      <3>5. ASSUME NEW m \in 1..Len(new), goal'[m] \in Jobs
            PROVE  /\ jobStatus[goal'[m]] # "unsubmitted"
                   /\ goal'[m] \in B!Pending =>
                        prio[goal'[m]] = m \/ [id |-> goal'[m], prio |-> m] \in puts'
                   /\ \A p \in puts' : p.id = goal'[m] => p.prio = m
        <4>1. new[m].id = goal'[m] /\ new[m] \in QueueRows /\ new[m].prio = m
              /\ new[m] \in B!ToSet(new)
          BY <2>3, <2>4, <3>2 DEF B!ToSet
        <4>2. new[m] = [id |-> goal'[m], prio |-> m]
          BY <4>1 DEF QueueRows
        <4>3. jobStatus[goal'[m]] # "unsubmitted"
          BY <2>3, <2>4, <3>5, <4>1 DEF Listed
        <4>4. ASSUME goal'[m] \in B!Pending, new[m] \notin puts'
              PROVE  prio[goal'[m]] = m
           <5>1. PICK seen \in B!ToSet(B!Items) :
                   seen.id = new[m].id /\ ~(seen.prio # new[m].prio)
            BY <3>1, <4>1, <4>4 DEF B!Changed
          <5>2. QED
            BY <3>1, <4>1, <4>4, <5>1
        <4>5. ASSUME NEW p \in puts', p.id = goal'[m] PROVE p.prio = m
          <5>1. PICK n \in 1..Len(new) : p = new[n]
            BY <2>4, <2>5, <3>1, <4>5 DEF B!ToSet
          <5>2. goal'[n] = goal'[m]
            BY <3>2, <4>5, <5>1
          <5>3. n = m
            BY <3>4, <3>5, <5>2
          <5>4. QED
            BY <4>1, <5>1, <5>3
        <4>6. QED
          BY <4>2, <4>3, <4>4, <4>5
      <3>6. GoalStands'
        BY <1>1, <1>3, <3>1, <3>2, <3>3, <3>4, <3>5 DEF GoalStands
      <3>7. QED
        BY <2>6, <3>6 DEF BoardInv
    <2>9. QED
      BY <2>7, <2>8
  <1>6. QED
    BY <1>4, <1>5

\* Each step of the list keeps the invariant.
LEMMA BoardKept ==
  ASSUME B!BoardAssumption, BoardInv, [B!Next]_(B!vars)
  PROVE  BoardInv'
  <1>1. ASSUME UNCHANGED <<jobStatus, prio, puts, goal, drops>>,
               dragIdx' \in Nat, queue' \in replies \union {queue},
               \A r \in replies' : Listed(r)
        PROVE  BoardInv'
    <2>1. B!Pending' = B!Pending
      BY <1>1 DEF B!Pending
    <2>2. \A rows : Listed(rows) => Listed(rows)'
      BY <1>1 DEF Listed
    <2>3. Listed(queue')
      BY <1>1 DEF BoardInv, ListsTyped
    <2>4. QED
      BY <1>1, <2>1, <2>2, <2>3 DEF BoardInv, ListsTyped, GoalStands
  <1> USE DEF BoardInv
  <1>2. CASE B!StatusRead
    <2>1. Listed(B!Snapshot)
      BY SnapshotListed
    <2>2. QED
      BY <1>1, <1>2, <2>1 DEF B!StatusRead, ListsTyped, B!server, B!page
  <1>3. CASE B!SetFilter
    BY <1>1, <1>3 DEF B!SetFilter, ListsTyped, B!server, B!wire
  <1>4. CASE B!DragEnd
    BY <1>1, <1>4 DEF B!DragEnd, ListsTyped, B!server, B!wire
  <1>5. ASSUME NEW r \in replies, B!StatusArrives(r) PROVE BoardInv'
    BY <1>1, <1>5 DEF B!StatusArrives, ListsTyped, B!server
  <1>6. ASSUME NEW i \in DOMAIN B!Items, B!DragStart(i) PROVE BoardInv'
    <2>1. i \in Nat
      BY ItemsListed DEF Listed
    <2>2. QED
      BY <1>1, <1>6, <2>1 DEF B!DragStart, ListsTyped, B!server, B!wire
  <1>7. CASE UNCHANGED B!vars
    BY <1>1, <1>7 DEF B!vars, B!server, B!wire, B!page, ListsTyped
  <1>8. QED
    BY <1>2, <1>3, <1>4, <1>5, <1>6, <1>7, SubmitKeeps, LeavingKeeps, PutKeeps,
       DropKeeps DEF B!Next

\* Once all PUTs of the last drop have arrived, the waiting jobs it ordered are in that order
\* on the server, whatever polls, filters and departures came in between.
THEOREM Dropping == B!Spec => [](B!TypeOK /\ B!DropPersisted)
  <1> B!BoardAssumption
    BY DashboardAssumption DEF DashboardAssumption
  <1>1. BoardInv => B!TypeOK /\ B!DropPersisted
    <2> SUFFICES ASSUME BoardInv PROVE B!TypeOK /\ B!DropPersisted
      OBVIOUS
    <2>1. \A r \in B!ToSet(queue) \union puts : r \in QueueRows
      BY DEF BoardInv, ListsTyped, Listed, B!ToSet
    <2>2. B!TypeOK
      BY <2>1 DEF BoardInv, ListsTyped, B!TypeOK, QueueRows
    <2>3. B!DropPersisted
      <3> SUFFICES ASSUME puts = {}, NEW m \in DOMAIN goal, NEW n \in DOMAIN goal,
                          m < n, goal[m] \in B!Pending, goal[n] \in B!Pending
                   PROVE  B!Before(goal[m], goal[n])
        BY DEF B!DropPersisted
      <3>1. goal[m] \in Jobs /\ goal[n] \in Jobs
        BY DEF B!Pending
      <3>2. prio[goal[m]] = m /\ prio[goal[n]] = n
        BY <3>1 DEF BoardInv, GoalStands
      <3>3. QED
        BY <3>2 DEF B!Before
    <2>4. QED
      BY <2>2, <2>3
  <1>2. B!Init => BoardInv
    BY BoardInit
  <1>3. BoardInv /\ [B!Next]_(B!vars) => BoardInv'
    BY BoardKept
  <1>4. QED
    BY <1>1, <1>2, <1>3, PTL DEF B!Spec

-----------------------------------------------------------------------------
\* Cancelling with an undo: UndoCancel.

UndoInv == U!TypeOK /\ U!UndoHolds

\* A cancel that was undone, or whose list was left in the five seconds of
\* requestCancel, is never sent by its timer.
THEOREM UndoHeld == U!Spec => [](U!TypeOK /\ U!UndoHolds)
  <1>1. U!Init => UndoInv
    BY DEF U!Init, UndoInv, U!TypeOK, U!UndoHolds
  <1>2. UndoInv /\ [U!Next]_(U!vars) => UndoInv'
    <2> SUFFICES ASSUME UndoInv, [U!Next]_(U!vars) PROVE UndoInv'
      OBVIOUS
    <2> USE DEF UndoInv, U!TypeOK, U!UndoHolds
    <2>1. CASE U!Leave
      BY <2>1 DEF U!Leave, U!Unsent
    <2>2. CASE U!Return \/ U!Polled
      BY <2>2 DEF U!Return, U!Polled, U!Waiting
    <2>3. ASSUME NEW j \in Jobs, U!RequestCancel(j) PROVE UndoInv'
      BY <2>3 DEF U!RequestCancel
    <2>4. ASSUME NEW j \in Jobs, U!Undo(j) PROVE UndoInv'
      BY <2>4 DEF U!Undo, U!Unsent
    <2>5. ASSUME NEW j \in Jobs, U!TimerFires(j) PROVE UndoInv'
      BY <2>5 DEF U!TimerFires
    <2>6. ASSUME NEW j \in Jobs, U!Arrives(j) PROVE UndoInv'
      <3>1. j \notin spared
        BY <2>6 DEF U!Arrives
      <3>2. QED
        BY <2>6, <3>1 DEF U!Arrives, U!Waiting
    <2>7. ASSUME NEW j \in Jobs, U!Fails(j) PROVE UndoInv'
      BY <2>7 DEF U!Fails
    <2>8. ASSUME NEW j \in Jobs, U!Started(j) PROVE UndoInv'
      BY <2>8 DEF U!Started
    <2>9. CASE UNCHANGED U!vars
      BY <2>9 DEF U!vars
    <2>10. QED
      BY <2>1, <2>2, <2>3, <2>4, <2>5, <2>6, <2>7, <2>8, <2>9 DEF U!Next
  <1>3. QED
    BY <1>1, <1>2, PTL DEF U!Spec, UndoInv

-----------------------------------------------------------------------------
\* The submission: SubmitForm.

\* Until an idle timer has come late the phase tells of the one submission on its way.
PhaseTells == ~staleReset => inFlight = 0 \/ (inFlight = 1 /\ phase = "loading")

SubmitInv == F!TypeOK /\ PhaseTells

\* SubmitInv is inductive: a phase that is loading stands for the request under way.
LEMMA SubmitKept ==
  ASSUME F!SubmitAssumption, SubmitInv, F!Next
  PROVE  SubmitInv'
  <1> USE DEF SubmitInv
  <1>1. CASE F!Open \/ F!Type \/ F!Dismiss \/ F!Cancel \/ F!SubmitInvalid
    BY <1>1 DEF F!Open, F!Type, F!Dismiss, F!Cancel, F!SubmitInvalid, F!ResetForm,
       F!TypeOK, PhaseTells
  <1>2. CASE F!Submit
    <2>1. sent \in 0..MaxRequests /\ sent < MaxRequests /\ sent' = sent + 1
      BY <1>2 DEF F!Submit, F!TypeOK
    <2>2. sent' \in 0..MaxRequests
      BY <2>1 DEF F!SubmitAssumption
    <2>3. F!TypeOK'
      <3>1. inFlight' \in Nat
        BY <1>2 DEF F!Submit, F!TypeOK
      <3>2. /\ error' \in BOOLEAN /\ phase' = "loading"
            /\ UNCHANGED <<dialogOpen, command, idleTimer, closers, jobs, staleReset>>
        BY <1>2 DEF F!Submit
      <3>3. QED
        BY <2>2, <3>1, <3>2 DEF F!TypeOK
    <2>4. PhaseTells'
      BY <1>2 DEF F!Submit, F!TypeOK, PhaseTells
    <2>5. QED
      BY <2>3, <2>4
  <1>3. CASE F!Accepted \/ F!Refused
    <2>1. inFlight \in Nat /\ inFlight > 0 /\ inFlight' = inFlight - 1
      BY <1>3 DEF F!Accepted, F!Refused, F!TypeOK
    <2>2. inFlight' \in Nat
      BY <2>1
    <2>3. F!TypeOK'
      <3>1. closers' \in Nat /\ jobs' \in Nat /\ idleTimer' \in BOOLEAN
        <4>1. CASE F!Accepted
          BY <4>1 DEF F!Accepted, F!TypeOK
        <4>2. CASE F!Refused
          BY <4>2 DEF F!Refused, F!TypeOK
        <4>3. QED
          BY <1>3, <4>1, <4>2
      <3>2. phase' \in {"success", "error"} /\ UNCHANGED <<F!form, sent, staleReset>>
        BY <1>3 DEF F!Accepted, F!Refused
      <3>3. QED
        BY <2>2, <3>1, <3>2 DEF F!TypeOK, F!form
    <2>4. PhaseTells'
      BY <1>3, <2>1 DEF F!Accepted, F!Refused, PhaseTells
    <2>5. QED
      BY <2>3, <2>4
  <1>4. CASE F!CloserFires
    <2>1. closers \in Nat /\ closers > 0 /\ closers' = closers - 1
      BY <1>4 DEF F!CloserFires, F!TypeOK
    <2>2. closers' \in Nat
      BY <2>1
    <2>3. QED
      BY <1>4, <2>2 DEF F!CloserFires, F!ResetForm, F!TypeOK, PhaseTells
  <1>5. CASE F!IdleTimerFires
    <2>1. staleReset' \in BOOLEAN
      <3>1. (staleReset \/ phase = "loading") \in BOOLEAN
        BY DEF F!TypeOK
      <3>2. QED
        BY <1>5, <3>1 DEF F!IdleTimerFires
    <2>2. F!TypeOK'
      BY <1>5, <2>1 DEF F!IdleTimerFires, F!TypeOK, F!form
    <2>3. PhaseTells'
      BY <1>5 DEF F!IdleTimerFires, F!TypeOK, PhaseTells
    <2>4. QED
      BY <2>2, <2>3
  <1>6. QED
    BY <1>1, <1>2, <1>3, <1>4, <1>5 DEF F!Next

\* Two submissions are on their way at once only after the idle timer of an earlier success
\* came late (SubmitJobModal, useActionFeedback).
THEOREM Submitting == F!Spec => [](F!TypeOK /\ F!OverlapNeedsStaleTimer)
  <1> F!SubmitAssumption
    BY DashboardAssumption DEF DashboardAssumption
  <1>1. F!Init => SubmitInv
    <2> SUFFICES ASSUME F!Init PROVE SubmitInv
      OBVIOUS
    <2>1. sent \in 0..MaxRequests
      BY DEF F!Init, F!SubmitAssumption
    <2>2. F!TypeOK
      BY <2>1 DEF F!Init, F!TypeOK
    <2>3. PhaseTells
      BY DEF F!Init, PhaseTells
    <2>4. QED
      BY <2>2, <2>3 DEF SubmitInv
  <1>2. SubmitInv /\ [F!Next]_(F!vars) => SubmitInv'
    <2>1. ASSUME SubmitInv, UNCHANGED F!vars PROVE SubmitInv'
      BY <2>1 DEF F!vars, F!form, SubmitInv, F!TypeOK, PhaseTells
    <2>2. QED
      BY <2>1, SubmitKept
  <1>3. SubmitInv => F!TypeOK /\ F!OverlapNeedsStaleTimer
    BY DEF SubmitInv, F!TypeOK, PhaseTells, F!OverlapNeedsStaleTimer
  <1>4. QED
    BY <1>1, <1>2, <1>3, PTL DEF F!Spec

-----------------------------------------------------------------------------
\* Batch runs and added jobs: PlanActions.

\* A tag is marked exactly while its one batch run is on its way, and the button of the
\* dialog is off while its one request is.
Marked ==
    /\ \A t \in Tags : batches[t] = IF t \in batchRunningTags THEN 1 ELSE 0
    /\ adds # {} => submitting
    /\ \A r, q \in adds : r = q

ActionsInv == R!ActionTypeOK /\ Marked

\* ActionsInv is inductive: what a tag's mark and the submitting flag stand for is under way.
LEMMA ActionsKept ==
  ASSUME R!ActionsAssumption, ActionsInv, R!Next
  PROVE  ActionsInv'
  <1> USE DEF ActionsInv
  <1>1. ASSUME NEW t \in Tags, R!PressRunAll(t) \/ R!BatchEnds(t) PROVE ActionsInv'
    <2>1. /\ batches[t] \in Nat /\ UNCHANGED <<R!dialog, submitting, adds>>
          /\ batchPhase' \in {"idle", "loading", "success", "error"} /\ batchTimer' \in BOOLEAN
          /\ batchRunningTags' \subseteq Tags
      BY <1>1 DEF R!PressRunAll, R!BatchEnds, R!ActionTypeOK
    <2>2. presses' \in 0..MaxPresses
      BY <1>1 DEF R!PressRunAll, R!BatchEnds, R!ActionTypeOK, R!Press, R!ActionsAssumption
    <2>3. R!ActionTypeOK'
      <3>1. batches' \in [Tags -> Nat]
        <4>1. CASE R!PressRunAll(t)
          BY <2>1, <4>1 DEF R!PressRunAll, R!ActionTypeOK
        <4>2. CASE R!BatchEnds(t)
          <5>1. batches[t] - 1 \in Nat
            BY <2>1, <4>2 DEF R!BatchEnds
          <5>2. QED
            BY <4>2, <5>1 DEF R!BatchEnds, R!ActionTypeOK
        <4>3. QED
          BY <1>1, <4>1, <4>2
      <3>2. QED
        BY <2>1, <2>2, <3>1 DEF R!ActionTypeOK, R!dialog
    <2>4. \A s \in Tags : batches'[s] = IF s \in batchRunningTags' THEN 1 ELSE 0
      BY <1>1, <2>1 DEF R!PressRunAll, R!BatchEnds, R!RunAllEnabled, R!ActionTypeOK, Marked
    <2>5. QED
      BY <2>1, <2>3, <2>4 DEF Marked
  <1>2. CASE R!BatchTimerFires \/ R!OpenAdd \/ R!CloseAdd \/ R!EditAdd \/ R!ApplySuggestion
    <2>1. Marked'
      BY <1>2 DEF R!BatchTimerFires, R!OpenAdd, R!CloseAdd, R!EditAdd, R!ApplySuggestion,
         Marked, R!batch
    <2>2. addForm' \in R!Forms
      BY <1>2 DEF R!BatchTimerFires, R!OpenAdd, R!CloseAdd, R!EditAdd, R!ApplySuggestion,
         R!ActionTypeOK, R!dialog, R!Forms
    <2>3. R!ActionTypeOK'
      BY <1>2, <2>2 DEF R!BatchTimerFires, R!OpenAdd, R!CloseAdd, R!EditAdd,
         R!ApplySuggestion, R!ActionTypeOK, R!dialog, R!batch
    <2>4. QED
      BY <2>1, <2>3
  <1>3. CASE R!SubmitAdd
    <2>1. presses' \in 0..MaxPresses
      <3>1. CASE R!Press
        <4>1. presses \in 0..MaxPresses /\ presses < MaxPresses /\ presses' = presses + 1
          BY <3>1 DEF R!Press, R!ActionTypeOK
        <4>2. QED
          BY <4>1 DEF R!ActionsAssumption
      <3>2. QED
        BY <1>3, <3>1 DEF R!SubmitAdd, R!ActionTypeOK
    <2>2. /\ batchPhase' = batchPhase /\ batchTimer' = batchTimer /\ batches' = batches
          /\ batchRunningTags' = batchRunningTags /\ addForm' = addForm /\ addOpen' = addOpen
          /\ scheduleMode' = scheduleMode /\ showAdvanced' = showAdvanced
          /\ addError' \in BOOLEAN /\ submitting' \in BOOLEAN
      BY <1>3 DEF R!SubmitAdd, R!batch, R!ActionTypeOK
    <2>3. R!ActionTypeOK'
      BY <2>1, <2>2 DEF R!ActionTypeOK
    <2>4. Marked'
      BY <1>3 DEF R!SubmitAdd, R!AddEnabled, Marked, R!batch
    <2>5. QED
      BY <2>3, <2>4
  <1>4. ASSUME NEW r \in adds, R!Added(r) \/ R!AddFinishes(r) \/ R!AddFails(r) PROVE ActionsInv'
    <2>1. R!ActionTypeOK'
      BY <1>4 DEF R!Added, R!AddFinishes, R!AddFails, R!ActionTypeOK, R!batch, R!dialog
    <2>2. Marked'
      BY <1>4 DEF R!Added, R!AddFinishes, R!AddFails, Marked, R!batch
    <2>3. QED
      BY <2>1, <2>2
  <1>5. CASE R!LeavePage
    BY <1>5 DEF R!LeavePage, R!ActionTypeOK, Marked, R!BlankForm, R!Forms
  <1>6. QED
    BY <1>1, <1>2, <1>3, <1>4, <1>5 DEF R!Next

\* No two batch runs of a tag, and no two jobs that are added, are on their way at once
\* (Plan page: handleBatchRun, handleAddJob).
THEOREM BatchesApart == R!ActionSpec => [](R!ActionTypeOK /\ R!NoOverlappingRequests)
  <1> R!ActionsAssumption
    BY DashboardAssumption DEF DashboardAssumption
  <1>1. R!Init => ActionsInv
    <2> SUFFICES ASSUME R!Init PROVE ActionsInv
      OBVIOUS
    <2>1. presses \in 0..MaxPresses /\ addForm \in R!Forms
      BY DEF R!Init, R!BlankForm, R!Forms, R!ActionsAssumption
    <2>2. batches \in [Tags -> Nat] /\ \A t \in Tags : batches[t] = 0
      BY DEF R!Init
    <2>3. QED
      BY <2>1, <2>2 DEF R!Init, ActionsInv, R!ActionTypeOK, Marked
  <1>2. ActionsInv /\ [R!Next]_(R!actionVars) => ActionsInv'
    <2>1. ASSUME ActionsInv, UNCHANGED R!actionVars PROVE ActionsInv'
      BY <2>1 DEF R!actionVars, R!batch, R!dialog, ActionsInv, R!ActionTypeOK, Marked
    <2>2. QED
      BY <2>1, ActionsKept
  <1>3. ActionsInv => R!ActionTypeOK /\ R!NoOverlappingRequests
    <2> SUFFICES ASSUME ActionsInv PROVE R!ActionTypeOK /\ R!NoOverlappingRequests
      OBVIOUS
    <2>1. ASSUME NEW t \in Tags PROVE batches[t] <= 1
      <3>1. batches[t] = 1 \/ batches[t] = 0
        BY DEF ActionsInv, Marked
      <3>2. QED
        BY <3>1
    <2>2. QED
      BY <2>1 DEF ActionsInv, Marked, R!NoOverlappingRequests
  <1>4. QED
    BY <1>1, <1>2, <1>3, PTL DEF R!ActionSpec

-----------------------------------------------------------------------------
\* The Plan page: PlanPage.

\* A request is a record; nothing is said of what it carries.
IsCall(c) ==
    c = [op |-> c.op, job |-> c.job, updates |-> c.updates, here |-> c.here,
         stage |-> c.stage, answer |-> c.answer]

\* The requests this page sent, and would take back.
Own(b, CS) == {c \in CS : c.here /\ c.op = b}

\* A refresh that this page has on its way is the only one.
TicksApart == \A c, d \in Own("tick", planCalls) : c = d

PlanInv == (\A c \in planCalls : IsCall(c)) /\ TicksApart /\ S!FlagsGivenBack

\* A record with these fields is a request.
LEMMA IsRecord ==
  ASSUME NEW o, NEW j, NEW p, NEW h, NEW s, NEW a, NEW c,
         c = [op |-> o, job |-> j, updates |-> p, here |-> h, stage |-> s, answer |-> a]
  PROVE  IsCall(c) /\ c.op = o /\ c.job = j /\ c.here = h
  BY DEF IsCall

\* A request that goes on to its next stage stays what it is.
LEMMA Staged ==
  ASSUME NEW c, IsCall(c), NEW s
  PROVE  LET d == [c EXCEPT !.stage = s]
         IN  IsCall(d) /\ d.op = c.op /\ d.job = c.job /\ d.here = c.here
  BY DEF IsCall

\* A call that is answered returns to the visit that made it.
LEMMA Replied ==
  ASSUME NEW c, IsCall(c), NEW s, NEW a
  PROVE  LET d == [c EXCEPT !.stage = s, !.answer = a]
         IN  IsCall(d) /\ d.op = c.op /\ d.job = c.job /\ d.here = c.here
  <1> DEFINE d == [c EXCEPT !.stage = s, !.answer = a]
  <1> DEFINE b == [c EXCEPT !.stage = s]
  <1>1. d = [op |-> c.op, job |-> c.job, updates |-> c.updates, here |-> c.here,
             stage |-> s, answer |-> a]
    <2>1. d = [b EXCEPT !.answer = a]
      OBVIOUS
    <2>2. b = [op |-> c.op, job |-> c.job, updates |-> c.updates, here |-> c.here,
               stage |-> s, answer |-> c.answer]
      BY DEF IsCall
    <2> HIDE DEF b, d
    <2>3. QED
      BY <2>1, <2>2
  <1> HIDE DEF d
  <1>2. IsCall(d) /\ d.op = c.op /\ d.job = c.job /\ d.here = c.here
    BY <1>1, IsRecord
  <1>3. QED
    BY <1>2 DEF d

\* A request whose page goes is no more of the page that comes.
LEMMA Orphaned ==
  ASSUME NEW c, IsCall(c)
  PROVE  LET d == [c EXCEPT !.here = FALSE] IN IsCall(d) /\ ~d.here
  <1> DEFINE d(h) == [c EXCEPT !.here = h]
  <1>1. \A h : IsCall(d(h)) /\ d(h).here = h
    BY DEF IsCall
  <1>2. QED
    BY <1>1, Zenon

\* What is new is a record too.
LEMMA NewCall ==
  ASSUME NEW op, NEW rj, NEW up
  PROVE  /\ IsCall(S!Call(op, rj, up)) /\ S!Call(op, rj, up).op = op
         /\ S!Call(op, rj, up).job = rj /\ S!Call(op, rj, up).here
  <1> DEFINE c == S!Call(op, rj, up)
  <1>1. \A h : c =
          [op |-> op, job |-> rj, updates |-> up, here |-> h, stage |-> "sent", answer |-> <<>>]
               => IsCall(c) /\ c.op = op /\ c.job = rj /\ c.here = h
    <2> HIDE DEF c
    <2>1. QED
      BY IsRecord
  <1>2. IsCall(c) /\ c.op = op /\ c.job = rj /\ c.here = TRUE
    BY <1>1, Zenon DEF S!Call
  <1>3. QED
    BY <1>2

\* A read of the schedule is a call of its own.
LEMMA NewGet ==
  ASSUME NEW op
  PROVE  IsCall(S!Get(op)) /\ S!Get(op).op = op /\ S!Get(op).here
  <1> DEFINE c == S!Call(op, NoRow, <<>>)
  <1>1. IsCall(c) /\ c.op = op /\ c.here
    BY NewCall
  <1>2. S!Get(op) = [c EXCEPT !.stage = "get"]
    BY DEF S!Get
  <1> HIDE DEF c
  <1>3. QED
    BY <1>1, <1>2, Staged

\* A request that is sent, with the flag or the phase that marks it.
LEMMA AddKeeps ==
  ASSUME PlanInv, NEW d, IsCall(d), d.here, d.op # "tick", planCalls' = planCalls \union {d},
         refreshing' = refreshing, planLoading' \subseteq planLoading \union {d.op},
         \/ generatingDescId' \in {generatingDescId, NoRow}
         \/ d.op = "generate" /\ generatingDescId' = d.job
  PROVE  PlanInv'
  <1>1. (\A c \in planCalls : IsCall(c))' /\ TicksApart'
    BY DEF PlanInv, TicksApart, Own
  <1>2. (refreshing <=> \E c \in planCalls : c.here /\ c.op = "tick")'
    BY DEF PlanInv, S!FlagsGivenBack
  <1>3. (\A b \in planLoading : \E c \in planCalls : c.here /\ c.op = b)'
    BY DEF PlanInv, S!FlagsGivenBack
  <1>4. (generatingDescId # NoRow =>
           \E c \in planCalls : c.here /\ c.op = "generate" /\ c.job = generatingDescId)'
    BY DEF PlanInv, S!FlagsGivenBack
  <1>5. QED
    BY <1>1, <1>2, <1>3, <1>4 DEF PlanInv, S!FlagsGivenBack

\* One that goes on.
LEMMA ReplaceKeeps ==
  ASSUME PlanInv, NEW c \in planCalls, NEW d, IsCall(d), d.op = c.op, d.job = c.job,
         d.here = c.here, planCalls' = (planCalls \ {c}) \union {d},
         UNCHANGED <<refreshing, planLoading, generatingDescId>>
  PROVE  PlanInv'
  <1>1. (\A e \in planCalls : IsCall(e))' /\ TicksApart'
    BY DEF PlanInv, TicksApart, Own
  <1>2. (refreshing <=> \E e \in planCalls : e.here /\ e.op = "tick")'
    BY DEF PlanInv, S!FlagsGivenBack
  <1>3. (\A b \in planLoading : \E e \in planCalls : e.here /\ e.op = b)'
    BY DEF PlanInv, S!FlagsGivenBack
  <1>4. (generatingDescId # NoRow =>
           \E e \in planCalls : e.here /\ e.op = "generate" /\ e.job = generatingDescId)'
    BY DEF PlanInv, S!FlagsGivenBack
  <1>5. QED
    BY <1>1, <1>2, <1>3, <1>4 DEF PlanInv, S!FlagsGivenBack

\* One that ends, and gives back what marks it.
LEMMA EndKeeps ==
  ASSUME PlanInv, NEW c \in planCalls, S!Ended(c)
  PROVE  PlanInv'
  <1>1. (\A e \in planCalls : IsCall(e))' /\ TicksApart'
    BY DEF PlanInv, TicksApart, Own, S!Ended
  <1>2. (refreshing <=> \E e \in planCalls : e.here /\ e.op = "tick")'
    BY DEF PlanInv, S!FlagsGivenBack, S!Ended, TicksApart, Own
  <1>3. (\A b \in planLoading : \E e \in planCalls : e.here /\ e.op = b)'
    BY DEF PlanInv, S!FlagsGivenBack, S!Ended
  <1>4. (generatingDescId # NoRow =>
           \E e \in planCalls : e.here /\ e.op = "generate" /\ e.job = generatingDescId)'
    BY DEF PlanInv, S!FlagsGivenBack, S!Ended
  <1>5. QED
    BY <1>1, <1>2, <1>3, <1>4 DEF PlanInv, S!FlagsGivenBack

\* However a request ends, and whichever visit of the page it comes back to, the flag
\* or phase that keeps a second one away is given back with it: refreshingRef, the
\* buttons of the panel, generatingDescId.
THEOREM FlagsReturn == S!PlanSpec => []S!FlagsGivenBack
  <1>1. S!Init => PlanInv
    BY DEF S!Init, PlanInv, TicksApart, Own, S!FlagsGivenBack
  <1>2. PlanInv /\ [S!Next]_(S!planVars) => PlanInv'
    <2> SUFFICES ASSUME PlanInv, [S!Next]_(S!planVars) PROVE PlanInv'
      OBVIOUS
    <2>1. ASSUME UNCHANGED <<planCalls, refreshing, generatingDescId>>,
                 planLoading' \subseteq planLoading
          PROVE  PlanInv'
      BY <2>1 DEF PlanInv, TicksApart, Own, S!FlagsGivenBack
    <2>2. CASE S!MountPlan
      <3>1. /\ planCalls' = planCalls \union {S!Get("mount")}
            /\ UNCHANGED <<refreshing, planLoading, generatingDescId>>
        BY <2>2 DEF S!MountPlan, S!Send, S!pointer, S!phases
      <3>2. QED
        BY <3>1, NewGet, AddKeeps
    <2>3. CASE S!UnmountPlan
      <3>1. \A c \in planCalls' : IsCall(c) /\ ~c.here
        BY <2>3, Orphaned DEF S!UnmountPlan, PlanInv
      <3>2. refreshing' = FALSE /\ generatingDescId' = NoRow /\ planLoading' = {}
        BY <2>3 DEF S!UnmountPlan
      <3>3. QED
        BY <3>1, <3>2 DEF PlanInv, TicksApart, Own, S!FlagsGivenBack
    <2>4. CASE S!Refresh
      <3>1. /\ ~refreshing /\ refreshing' = TRUE /\ planCalls' = planCalls \union {S!Get("tick")}
            /\ UNCHANGED <<planLoading, generatingDescId>>
        BY <2>4 DEF S!Refresh, S!Send, S!phases
      <3>2. ~\E c \in planCalls : c.here /\ c.op = "tick"
        BY <3>1 DEF PlanInv, S!FlagsGivenBack
      <3>3. (\A c \in planCalls : IsCall(c))' /\ TicksApart'
        BY <3>1, <3>2, NewGet DEF PlanInv, TicksApart, Own
      <3>4. S!FlagsGivenBack'
        BY <3>1, NewGet DEF PlanInv, S!FlagsGivenBack
      <3>5. QED
        BY <3>3, <3>4 DEF PlanInv
    <2>5. ASSUME NEW rj \in RJobs,
                 S!ToggleDetail(rj) \/ S!Type(rj) \/ S!RequestDelete(rj)
                   \/ S!DescriptionStored(rj)
                   \/ S!DaemonDisables(rj)
          PROVE  PlanInv'
      <3>1. UNCHANGED <<planCalls, refreshing, generatingDescId, planLoading>>
        BY <2>5 DEF S!ToggleDetail, S!Type, S!RequestDelete, S!DescriptionStored,
           S!DaemonDisables, S!pointer, S!phases
      <3>2. QED
        BY <2>1, <3>1
    <2>6. ASSUME NEW rj \in RJobs, S!Save(rj) PROVE PlanInv'
      <3>1. CASE UNCHANGED <<planCalls, S!phases, refreshing>>
        BY <2>1, <3>1 DEF S!phases
      <3>2. CASE S!Begin("save", rj, S!Updates(rj)) /\ UNCHANGED <<refreshing, generatingDescId>>
        <4>1. planCalls' = planCalls \union {S!Call("save", rj, S!Updates(rj))}
              /\ planLoading' = planLoading \union {"save"}
          BY <3>2 DEF S!Begin, S!Mutate, S!Send
        <4>2. QED
          BY <3>2, <4>1, NewCall, AddKeeps
      <3>3. QED
        BY <2>6, <3>1, <3>2 DEF S!Save, S!pointer, S!phases
    <2>7. ASSUME NEW rj \in RJobs, S!ToggleEnabled(rj) \/ S!Reenable(rj) PROVE PlanInv'
      <3>1. PICK value : S!PutEnabled(rj, value)
        BY <2>7 DEF S!ToggleEnabled, S!Reenable
      <3>2. PICK up : planCalls' = planCalls \union {S!Call("toggle", rj, up)}
        BY <3>1 DEF S!PutEnabled, S!Mutate, S!Send
      <3>3. UNCHANGED <<refreshing, planLoading, generatingDescId>>
        BY <3>1 DEF S!PutEnabled, S!pointer, S!phases
      <3>4. QED
        BY <3>2, <3>3, NewCall, AddKeeps
    <2>8. ASSUME NEW rj \in RJobs, S!Generate(rj) PROVE PlanInv'
      <3>1. CASE generatingDescId' = NoRow /\ UNCHANGED <<planCalls, planLoading, refreshing>>
        BY <3>1 DEF PlanInv, TicksApart, Own, S!FlagsGivenBack
      <3>2. CASE generatingDescId' = rj /\ S!Begin("generate", rj, <<>>) /\ UNCHANGED refreshing
        <4>1. /\ planCalls' = planCalls \union {S!Call("generate", rj, <<>>)}
              /\ planLoading' = planLoading \union {"generate"}
          BY <3>2 DEF S!Begin, S!Mutate, S!Send
        <4>2. QED
          BY <3>2, <4>1, NewCall, AddKeeps
      <3>3. QED
        BY <2>8, <3>1, <3>2 DEF S!Generate, S!pointer
    <2>9. ASSUME NEW rj \in RJobs, S!ConfirmDelete(rj) PROVE PlanInv'
      <3>1. /\ planCalls' = planCalls \union {S!Call("delete", rj, <<>>)}
            /\ planLoading' = planLoading \union {"delete"}
            /\ UNCHANGED <<refreshing, generatingDescId>>
        BY <2>9 DEF S!ConfirmDelete, S!Begin, S!Mutate, S!Send, S!pointer
      <3>2. QED
        BY <3>1, NewCall, AddKeeps
    <2>10. ASSUME NEW b \in S!Buttons, S!IdleTimerFires(b) PROVE PlanInv'
      \* The timer of an earlier success may take a phase away too early: never late.
      BY <2>1, <2>10 DEF S!IdleTimerFires, S!pointer
    <2>11. ASSUME NEW c \in planCalls, S!Served(c) PROVE PlanInv'
      <3>1. CASE S!Ended(c)
        BY <3>1, EndKeeps
      <3>2. CASE /\ planCalls' = (planCalls \ {c}) \union {[c EXCEPT !.stage = "get"]}
                 /\ UNCHANGED <<refreshing, generatingDescId, planLoading>>
        <4>1. IsCall(c)
          BY DEF PlanInv
        <4>2. QED
          BY <3>2, <4>1, Staged, ReplaceKeeps
      <3>3. QED
        BY <2>11, <3>1, <3>2 DEF S!Served
    <2>12. ASSUME NEW c \in planCalls, S!Read(c) PROVE PlanInv'
      <3>1. /\ planCalls' = (planCalls \ {c})
               \union {[c EXCEPT !.stage = "answer", !.answer = schedule]}
            /\ UNCHANGED <<refreshing, generatingDescId, planLoading>>
        BY <2>12 DEF S!Read, S!pointer, S!phases
      <3>2. IsCall(c)
        BY DEF PlanInv
      <3>3. QED
        BY <3>1, <3>2, Replied, ReplaceKeeps
    <2>13. ASSUME NEW c \in planCalls, S!Landed(c) PROVE PlanInv'
      BY <2>13, EndKeeps DEF S!Landed
    <2>14. CASE S!PointerMoves \/ S!LinkChanges \/ UNCHANGED S!planVars
      <3>1. UNCHANGED <<planCalls, refreshing, generatingDescId, planLoading>>
        BY <2>14 DEF S!PointerMoves, S!LinkChanges, S!planVars, S!pointer, S!phases
      <3>2. QED
        BY <2>1, <3>1
    <2>15. QED
      BY <2>2, <2>3, <2>4, <2>5, <2>6, <2>7, <2>8, <2>9, <2>10, <2>11, <2>12, <2>13,
         <2>14 DEF S!Next
  <1>3. QED
    BY <1>1, <1>2, PTL DEF S!PlanSpec, PlanInv

Mutations == {"save", "toggle", "delete", "generate"}
Patches == UNION {[W -> BOOLEAN] : W \in SUBSET S!Fields}

\* Every request of the page; only a mutation is sent before the schedule is read.
PlanRequests ==
    {c \in [op : {"mount", "tick"} \union Mutations, job : RJobs \union {NoRow},
            updates : Patches, here : BOOLEAN, stage : {"sent", "get", "answer"},
            answer : S!Schedules] :
       c.stage = "sent" => c.op \in Mutations}

PlanTyped ==
    /\ schedule \in S!Schedules /\ scheduleJobs \in S!Schedules
    /\ changes \in 0..MaxChanges /\ writers \subseteq RJobs
    /\ editForm = NoRow \/ editForm \in [id : RJobs, value : S!Records]
    /\ {expandedJobId, pendingDeleteId, generatingDescId} \subseteq RJobs \union {NoRow}
    /\ planLoading \subseteq S!Buttons /\ idleTimers \subseteq S!Buttons
    /\ planCalls \subseteq PlanRequests

\* No rows are a schedule too, as the page has none before the first answer.
LEMMA NoRows == <<>> \in S!Schedules /\ <<>> \in Patches
  <1>1. <<>> \in [{} -> S!Records] /\ <<>> \in [{} -> BOOLEAN]
    OBVIOUS
  <1>2. QED
    BY <1>1 DEF S!Schedules, Patches

\* A schedule maps some of the jobs to their rows.
LEMMA RowsOf ==
  ASSUME NEW s
  PROVE  s \in S!Schedules <=> DOMAIN s \subseteq RJobs /\ s \in [DOMAIN s -> S!Records]
  BY DEF S!Schedules

\* What is sent, and what only reads the schedule, are requests.
LEMMA CallMade ==
  ASSUME NEW op \in Mutations, NEW rj \in RJobs, NEW up \in Patches
  PROVE  S!Call(op, rj, up) \in PlanRequests
  BY NoRows DEF S!Call, PlanRequests, Mutations

\* The same of a read of the schedule.
LEMMA GetMade ==
  ASSUME NEW op \in {"mount", "tick"}
  PROVE  S!Get(op) \in PlanRequests
  <1>1. S!Get(op) = [op |-> op, job |-> NoRow, updates |-> <<>>, here |-> TRUE,
                     stage |-> "get", answer |-> <<>>]
    <2> DEFINE c == S!Call(op, NoRow, <<>>)
    <2>1. c = [op |-> op, job |-> NoRow, updates |-> <<>>, here |-> TRUE, stage |-> "sent",
               answer |-> <<>>]
      BY DEF S!Call
    <2>2. S!Get(op) = [c EXCEPT !.stage = "get"]
      BY Zenon DEF S!Get
    <2> HIDE DEF c
    <2>3. QED
      BY <2>1, <2>2
  <1>2. QED
    BY <1>1, NoRows DEF PlanRequests

\* What a mutation makes of a schedule is one.
LEMMA AppliedTyped ==
  ASSUME PlanTyped, NEW c \in planCalls, c.stage = "sent", c.job \in DOMAIN schedule
  PROVE  S!Applied(c) \in S!Schedules
  <1>1. c.op \in Mutations /\ c.updates \in Patches
    BY DEF PlanTyped, PlanRequests
  <1>2. DOMAIN schedule \subseteq RJobs /\ schedule \in [DOMAIN schedule -> S!Records]
    BY RowsOf DEF PlanTyped
  <1>3. CASE c.op \in {"save", "toggle"}
    <2> DEFINE row == [f \in S!Fields |-> IF f \in DOMAIN c.updates THEN c.updates[f]
                                          ELSE schedule[c.job][f]]
    <2>1. schedule[c.job] \in S!Records
      BY <1>2
    <2>2. \A f \in DOMAIN c.updates : c.updates[f] \in BOOLEAN
      BY <1>1 DEF Patches
    <2>3. row \in S!Records
      BY <2>1, <2>2 DEF S!Records
    <2>4. S!Applied(c) = [schedule EXCEPT ![c.job] = row]
      BY <1>3 DEF S!Applied
    <2> HIDE DEF row
    <2>5. S!Applied(c) \in [DOMAIN schedule -> S!Records]
      BY <1>2, <2>3, <2>4
    <2>6. QED
      BY <1>2, <2>5 DEF S!Schedules
  <1>4. CASE c.op = "delete"
    <2>1. S!Applied(c) = [rj \in DOMAIN schedule \ {c.job} |-> schedule[rj]]
      BY <1>4 DEF S!Applied
    <2>2. S!Applied(c) \in [DOMAIN schedule \ {c.job} -> S!Records]
      BY <1>2, <2>1
    <2>3. QED
      BY <1>2, <2>2 DEF S!Schedules
  <1>5. CASE c.op = "generate"
    BY <1>5 DEF S!Applied, PlanTyped
  <1>6. QED
    BY <1>1, <1>3, <1>4, <1>5 DEF Mutations

\* The fields that handleDetailSave sends are some of the form's.
LEMMA UpdatesTyped ==
  ASSUME PlanTyped, NEW rj \in RJobs, S!PanelOf(rj)
  PROVE  S!Updates(rj) \in Patches
  <1> DEFINE W == {f \in S!Fields : editForm.value[f] # scheduleJobs[rj][f]}
  <1>1. editForm.value \in S!Records
    BY DEF PlanTyped, S!PanelOf
  <1>2. S!Updates(rj) = [f \in W |-> editForm.value[f]]
    BY DEF S!Updates
  <1>3. S!Updates(rj) \in [W -> BOOLEAN]
    BY <1>1, <1>2 DEF S!Records
  <1>4. QED
    BY <1>3 DEF Patches

\* The end of a handler gives flags back and takes none.
LEMMA EndTyped ==
  ASSUME PlanTyped, NEW c \in planCalls, S!Ended(c)
  PROVE  /\ planCalls' \subseteq PlanRequests /\ planLoading' \subseteq S!Buttons
         /\ generatingDescId' \in RJobs \union {NoRow}
  BY DEF PlanTyped, S!Ended

\* What the Plan page, its requests and the daemon leave in their variables.
THEOREM PlanIsTyped == S!PlanSpec => []S!PlanTypeOK
  <1> S!PlanAssumption
    BY DashboardAssumption DEF DashboardAssumption
  <1>1. S!Init => PlanTyped
    <2> SUFFICES ASSUME S!Init PROVE PlanTyped
      OBVIOUS
    <2>1. schedule \in [RJobs -> S!Records]
      BY DEF S!Init, S!Records
    <2>2. 0 \in 0..MaxChanges
      BY DEF S!PlanAssumption
    <2>3. schedule \in S!Schedules
      BY <2>1 DEF S!Schedules
    <2>4. QED
      BY <2>2, <2>3, NoRows DEF S!Init, PlanTyped
  <1>2. PlanTyped /\ [S!Next]_(S!planVars) => PlanTyped'
    <2> SUFFICES ASSUME PlanTyped, [S!Next]_(S!planVars) PROVE PlanTyped'
      OBVIOUS
    <2>0. ASSUME S!Counted PROVE changes' \in 0..MaxChanges
      BY <2>0 DEF S!Counted, S!PlanAssumption, PlanTyped
    <2>1. ASSUME NEW b \in S!Buttons, NEW rj \in RJobs, NEW up \in Patches,
                 S!Begin(b, rj, up)
          PROVE  /\ planCalls' \subseteq PlanRequests /\ planLoading' \subseteq S!Buttons
                 /\ changes' \in 0..MaxChanges
                 /\ UNCHANGED <<idleTimers, schedule, writers>>
      <3>1. S!Call(b, rj, up) \in PlanRequests
        BY CallMade DEF S!Buttons, Mutations
      <3>2. QED
        BY <2>0, <2>1, <3>1 DEF S!Begin, S!Mutate, S!Send, PlanTyped
    <2>2. CASE S!MountPlan
      BY <2>2, GetMade DEF S!MountPlan, S!Send, S!data, S!pointer, S!panel, S!phases,
         PlanTyped
    <2>3. CASE S!UnmountPlan
      <3>1. \A c \in planCalls : [c EXCEPT !.here = FALSE] \in PlanRequests
        BY DEF PlanTyped, PlanRequests
      <3>2. planCalls' \subseteq PlanRequests
        BY <2>3, <3>1 DEF S!UnmountPlan
      <3>3. QED
        BY <2>3, <3>2 DEF S!UnmountPlan, S!ClosePanel, S!data, PlanTyped
    <2>4. CASE S!Refresh
      BY <2>4, GetMade DEF S!Refresh, S!Send, S!data, S!panel, S!phases, PlanTyped
    <2>5. ASSUME NEW rj \in RJobs, S!ToggleDetail(rj) PROVE PlanTyped'
      <3>1. editForm' = NoRow \/ editForm' \in [id : RJobs, value : S!Records]
        <4>1. rj \in DOMAIN scheduleJobs => scheduleJobs[rj] \in S!Records
          BY RowsOf DEF PlanTyped
        <4>2. QED
          BY <2>5, <4>1 DEF S!ToggleDetail, PlanTyped
      <3>2. expandedJobId' \in RJobs \union {NoRow}
        BY <2>5 DEF S!ToggleDetail
      <3>3. QED
        BY <2>5, <3>1, <3>2 DEF S!ToggleDetail, S!data, S!phases, PlanTyped
    <2>6. ASSUME NEW rj \in RJobs, S!Type(rj) PROVE PlanTyped'
      <3>1. editForm' \in [id : RJobs, value : S!Records]
        <4>1. editForm \in [id : RJobs, value : S!Records]
          BY <2>6 DEF S!Type, S!PanelOf, PlanTyped
        <4>2. PICK f \in S!Fields : editForm' = [editForm EXCEPT !.value[f] = ~@]
          BY <2>6 DEF S!Type
        <4>3. [editForm.value EXCEPT ![f] = ~@] \in S!Records
          BY <4>1, Zenon DEF S!Records
        <4>4. editForm' = [editForm EXCEPT !.value = [editForm.value EXCEPT ![f] = ~@]]
          BY <4>1, <4>2
        <4>5. QED
          BY <4>1, <4>3, <4>4
      <3>2. QED
        BY <2>6, <3>1 DEF S!Type, S!data, S!phases, PlanTyped
    <2>7. ASSUME NEW rj \in RJobs, S!Save(rj) PROVE PlanTyped'
      <3>1. CASE S!ClosePanel /\ UNCHANGED <<S!data, planCalls, S!phases>>
        BY <2>7, <3>1 DEF S!Save, S!ClosePanel, S!data, S!phases, PlanTyped
      <3>2. CASE S!Begin("save", rj, S!Updates(rj))
                 /\ UNCHANGED <<expandedJobId, editForm, generatingDescId>>
        <4>1. S!Updates(rj) \in Patches /\ "save" \in S!Buttons
          BY <2>7, UpdatesTyped DEF S!Save, S!Buttons
        <4>2. QED
          BY <2>1, <2>7, <3>2, <4>1 DEF S!Save, PlanTyped
      <3>3. QED
        BY <2>7, <3>1, <3>2 DEF S!Save
    <2>8. ASSUME NEW rj \in RJobs, S!ToggleEnabled(rj) \/ S!Reenable(rj) PROVE PlanTyped'
      <3>1. PICK value \in BOOLEAN : S!PutEnabled(rj, value)
        <4>1. rj \in DOMAIN scheduleJobs => scheduleJobs[rj].enabled \in BOOLEAN
          BY RowsOf DEF PlanTyped, S!Records, S!Fields
        <4>2. QED
          BY <2>8, <4>1 DEF S!ToggleEnabled, S!Reenable
      <3> DEFINE up == [f \in {"enabled"} |-> value]
      <3>2. up \in Patches
        <4>1. {"enabled"} \in SUBSET S!Fields /\ up \in [{"enabled"} -> BOOLEAN]
          BY DEF S!Fields
        <4>2. QED
          BY <4>1 DEF Patches
      <3>3. S!Call("toggle", rj, up) \in PlanRequests
        BY <3>2, CallMade DEF Mutations
      <3>4. planCalls' \subseteq PlanRequests /\ changes' \in 0..MaxChanges
            /\ UNCHANGED <<schedule, writers>>
        BY <2>0, <3>1, <3>3 DEF S!PutEnabled, S!Mutate, S!Send, PlanTyped
      <3>5. QED
        BY <3>1, <3>4 DEF S!PutEnabled, S!panel, S!phases, PlanTyped
    <2>9. ASSUME NEW rj \in RJobs, S!Generate(rj) PROVE PlanTyped'
      <3>1. CASE generatingDescId' = NoRow
                 /\ UNCHANGED <<S!data, planCalls, planLoading, idleTimers>>
        BY <2>9, <3>1 DEF S!Generate, S!data, S!panel, PlanTyped
      <3>2. CASE generatingDescId' = rj /\ S!Begin("generate", rj, <<>>)
        <4>1. "generate" \in S!Buttons
          BY DEF S!Buttons
        <4>2. QED
          BY <2>1, <2>9, <3>2, <4>1, NoRows DEF S!Generate, S!panel, PlanTyped
      <3>3. QED
        BY <2>9, <3>1, <3>2 DEF S!Generate
    <2>10. ASSUME NEW rj \in RJobs, S!RequestDelete(rj) PROVE PlanTyped'
      BY <2>10 DEF S!RequestDelete, S!data, S!phases, PlanTyped
    <2>11. ASSUME NEW rj \in RJobs, S!ConfirmDelete(rj) PROVE PlanTyped'
      <3>1. "delete" \in S!Buttons
        BY DEF S!Buttons
      <3>2. QED
        BY <2>1, <2>11, <3>1, NoRows DEF S!ConfirmDelete, PlanTyped
    <2>12. ASSUME NEW b \in S!Buttons, S!IdleTimerFires(b) PROVE PlanTyped'
      BY <2>12 DEF S!IdleTimerFires, S!data, S!panel, PlanTyped
    <2>13. ASSUME NEW c \in planCalls, S!Served(c) PROVE PlanTyped'
      <3>1. CASE S!Ended(c) /\ UNCHANGED S!data
        BY <2>13, <3>1, EndTyped DEF S!Served, S!data, S!panel, PlanTyped
      <3>2. CASE /\ c.job \in DOMAIN schedule /\ schedule' = S!Applied(c)
                 /\ writers' = IF c.op = "generate" THEN writers \union {c.job} ELSE writers
                 /\ planCalls' = (planCalls \ {c}) \union {[c EXCEPT !.stage = "get"]}
                 /\ UNCHANGED <<changes, refreshing, generatingDescId, planLoading>>
        <4>1. [c EXCEPT !.stage = "get"] \in PlanRequests
          BY DEF PlanTyped, PlanRequests
        <4>2. schedule' \in S!Schedules
          BY <2>13, <3>2, AppliedTyped DEF S!Served
        <4>3. c.job \in RJobs
          BY <3>2, RowsOf DEF PlanTyped
        <4>4. QED
          BY <2>13, <3>2, <4>1, <4>2, <4>3 DEF S!Served, S!panel, PlanTyped
      <3>3. QED
        BY <2>13, <3>1, <3>2 DEF S!Served
    <2>14. ASSUME NEW c \in planCalls, S!Read(c) PROVE PlanTyped'
      <3>1. [c EXCEPT !.stage = "answer", !.answer = schedule] \in PlanRequests
        BY DEF PlanTyped, PlanRequests
      <3>2. QED
        BY <2>14, <3>1 DEF S!Read, S!data, S!panel, S!phases, PlanTyped
    <2>15. ASSUME NEW c \in planCalls, S!Landed(c) PROVE PlanTyped'
      <3>1. c.answer \in S!Schedules
        BY DEF PlanTyped, PlanRequests
      <3>2. scheduleJobs' \in S!Schedules /\ idleTimers' \subseteq S!Buttons
        BY <2>15, <3>1 DEF S!Landed, PlanTyped
      <3>3. expandedJobId' \in RJobs \union {NoRow}
            /\ (editForm' = NoRow \/ editForm' \in [id : RJobs, value : S!Records])
        BY <2>15 DEF S!Landed, S!ClosePanel, PlanTyped
      <3>4. S!Ended(c) /\ UNCHANGED <<schedule, changes, writers, pendingDeleteId>>
        BY <2>15 DEF S!Landed, S!data
      <3>5. QED
        BY <3>2, <3>3, <3>4, EndTyped DEF PlanTyped
    <2>16. ASSUME NEW rj \in RJobs, S!DescriptionStored(rj) PROVE PlanTyped'
      <3>1. schedule' \in S!Schedules
        <4>1. DOMAIN schedule \subseteq RJobs /\ schedule \in [DOMAIN schedule -> S!Records]
          BY RowsOf DEF PlanTyped
        <4>2. schedule' \in [DOMAIN schedule -> S!Records]
          BY <2>16, <4>1 DEF S!DescriptionStored, S!Records
        <4>3. QED
          BY <4>1, <4>2 DEF S!Schedules
      <3>2. QED
        BY <2>16, <3>1 DEF S!DescriptionStored, S!panel, S!phases, PlanTyped
    <2>17. ASSUME NEW rj \in RJobs, S!DaemonDisables(rj) PROVE PlanTyped'
      <3>1. schedule' \in S!Schedules
        <4>1. DOMAIN schedule \subseteq RJobs /\ schedule \in [DOMAIN schedule -> S!Records]
          BY RowsOf DEF PlanTyped
        <4>2. schedule' \in [DOMAIN schedule -> S!Records]
          BY <2>17, <4>1 DEF S!DaemonDisables, S!Records
        <4>3. QED
          BY <4>1, <4>2 DEF S!Schedules
      <3>2. QED
        BY <2>0, <2>17, <3>1 DEF S!DaemonDisables, S!panel, S!phases, PlanTyped
    <2>18. CASE S!PointerMoves \/ S!LinkChanges \/ UNCHANGED S!planVars
      BY <2>18 DEF S!PointerMoves, S!LinkChanges, S!planVars, S!data, S!panel, S!phases,
         PlanTyped
    <2>19. QED
      BY <2>2, <2>3, <2>4, <2>5, <2>6, <2>7, <2>8, <2>9, <2>10, <2>11, <2>12, <2>13, <2>14,
         <2>15, <2>16, <2>17, <2>18 DEF S!Next
  <1>3. PlanTyped => S!PlanTypeOK
    BY DEF PlanTyped, S!PlanTypeOK, PlanRequests
  <1>4. QED
    BY <1>1, <1>2, <1>3, PTL DEF S!PlanSpec

-----------------------------------------------------------------------------
\* The timeline: GanttChart.

\* A set of natural numbers that is not empty has a least one.
LEMMA LeastNatural ==
  ASSUME NEW W \in SUBSET Nat, W # {}
  PROVE  \E n \in W : \A m \in W : n <= m
  <1> DEFINE Below == OpToRel(<, Nat)
  <1>1. PICK n \in W : \A m \in W : <<m, n>> \notin Below
    BY NatLessThanWellFounded, WFMin
  <1>2. ASSUME NEW m \in W, m < n PROVE <<m, n>> \in Below
    BY <1>2 DEF OpToRel
  <1> HIDE DEF Below
  <1>3. \A m \in W : ~(m < n)
    BY <1>1, <1>2
  <1>4. n \in W /\ \A m \in W : n <= m
    BY <1>3
  <1>5. QED
    BY <1>4

ChartInv ==
    /\ bars \in [Bars -> [next_run : Starts, estimated_duration : Durations]]
    /\ G!ChartTypeOK
    /\ selectedBarId # G!NoBar => zoomedAnchor = {bars[selectedBarId].next_run}
    /\ barRunsLoading => runFetches # {}

\* The window and the bars lie on the line of the integers, and each has some length.
LEMMA OnTheLine ==
  ASSUME G!ChartAssumption, ChartInv
  PROVE  /\ G!LeftEdge \in Int /\ G!WindowSize \in Nat \ {0}
         /\ \A b \in Bars : /\ bars[b].next_run \in Int /\ G!Length(b) \in Nat \ {0}
                            /\ G!End(b) = bars[b].next_run + G!Length(b) /\ G!End(b) \in Int
         /\ G!VisibleBars \subseteq Bars /\ IsFiniteSet(G!VisibleBars)
  <1>1. G!LeftEdge \in Int
    <2>1. G!Zoomed => G!Anchor \in Starts
      BY DEF G!Zoomed, G!Anchor, ChartInv, G!ChartTypeOK
    <2>2. ZoomHalf \in Int
      BY DEF G!ChartAssumption
    <2>3. G!Zoomed => G!Anchor \in Int
      BY <2>1 DEF G!ChartAssumption
    <2>4. QED
      BY <2>2, <2>3 DEF G!LeftEdge
  <1>2. G!WindowSize \in Nat \ {0}
    BY DEF G!WindowSize, G!ChartAssumption
  <1>3. ASSUME NEW b \in Bars
        PROVE  /\ bars[b].next_run \in Int /\ G!Length(b) \in Nat \ {0}
               /\ G!End(b) = bars[b].next_run + G!Length(b) /\ G!End(b) \in Int
    <2>1. bars[b].next_run \in Int /\ bars[b].estimated_duration \in Nat
      BY DEF ChartInv, G!ChartAssumption
    <2>2. G!Length(b) \in Nat \ {0}
      BY <2>1 DEF G!Length, G!ChartAssumption
    <2>3. QED
      BY <2>1, <2>2 DEF G!End
  <1>4. G!VisibleBars \subseteq Bars
    BY DEF G!VisibleBars
  <1>5. IsFiniteSet(G!VisibleBars)
    BY <1>4, FS_Subset DEF G!ChartAssumption, G!IsFiniteSet, IsFiniteSet
  <1>6. QED
    BY <1>1, <1>2, <1>3, <1>4, <1>5

\* findHeavyConflicts marks the heavy bars that run at some moment with another heavy one.
LEMMA ConflictsFound == ASSUME G!ChartAssumption, ChartInv PROVE G!ConflictsMarked
  <1> SUFFICES ASSUME NEW a \in G!VisibleHeavy
               PROVE  (\E b \in G!VisibleHeavy \ {a} : G!Conflicting(a, b))
                      <=> \E t \in bars[a].next_run..(G!End(a) - 1) :
                            \E b \in G!VisibleHeavy \ {a} : G!Overlap(b, t, t + 1)
    BY DEF G!ConflictsMarked, G!HeavyConflicts
  <1>1. \A b \in G!VisibleHeavy : /\ bars[b].next_run \in Int /\ G!End(b) \in Int
                                  /\ bars[b].next_run < G!End(b)
    BY OnTheLine DEF G!VisibleHeavy
  <1>2. ASSUME NEW b \in G!VisibleHeavy \ {a}, G!Conflicting(a, b)
        PROVE  \E t \in bars[a].next_run..(G!End(a) - 1) : G!Overlap(b, t, t + 1)
    <2> DEFINE t == IF bars[a].next_run < bars[b].next_run THEN bars[b].next_run
                    ELSE bars[a].next_run
    <2>1. t \in bars[a].next_run..(G!End(a) - 1) /\ G!Overlap(b, t, t + 1)
      BY <1>1, <1>2 DEF G!Conflicting, G!Overlap
    <2>2. QED
      BY <2>1
  <1>3. ASSUME NEW t \in bars[a].next_run..(G!End(a) - 1), NEW b \in G!VisibleHeavy \ {a},
               G!Overlap(b, t, t + 1)
        PROVE  G!Conflicting(a, b)
    BY <1>1, <1>3 DEF G!Conflicting, G!Overlap
  <1>4. QED
    BY <1>2, <1>3

\* Every visible bar is drawn with some width and inside the window.
LEMMA BarsInside == ASSUME G!ChartAssumption, ChartInv PROVE G!DrawnInside
  <1> SUFFICES ASSUME NEW b \in G!VisibleBars
               PROVE 0 <= G!DrawnFrom(b) /\ G!DrawnFrom(b) < G!DrawnTo(b)
                     /\ G!DrawnTo(b) <= G!WindowSize
    BY DEF G!DrawnInside
  <1>1. /\ G!LeftEdge \in Int /\ G!WindowSize \in Nat \ {0} /\ b \in Bars
        /\ bars[b].next_run \in Int /\ G!Length(b) \in Nat \ {0}
    BY OnTheLine
  <1>2. bars[b].next_run < G!LeftEdge + G!WindowSize
    BY DEF G!VisibleBars, G!Overlap
  <1>3. QED
    BY <1>1, <1>2 DEF G!DrawnFrom, G!DrawnTo

\* A suggested slot is shown where the load map, aligned to the present moment, has it.
LEMMA SlotsAligned == ASSUME G!ChartAssumption, ChartInv PROVE G!SuggestionsAligned
  <1> SUFFICES ASSUME NEW s \in 0..SlotCount - 1 PROVE G!AlignedSlot(G!DisplayIndex(s)) = s
    BY DEF G!SuggestionsAligned
  <1> DEFINE n == G!NowSlot
             c == SlotCount
  <1>1. c \in Nat \ {0}
    BY DEF G!ChartAssumption
  <1>2. n \in 0..c - 1
    <2>1. G!LeftEdge \in Int /\ MidnightTo0 \in Int
      BY OnTheLine DEF G!ChartAssumption
    <2>2. (G!LeftEdge + MidnightTo0) \div 2 \in Int
      BY <2>1
    <2>3. QED
      BY <1>1, <2>2 DEF G!NowSlot
  <1>4. \A x \in 0..c - 1 : x % c = x /\ (x + c) % c = x
    BY <1>1
  <1>5. QED
    BY <1>1, <1>2, <1>4 DEF G!AlignedSlot, G!DisplayIndex

\* Warm-up and inference fill a bar, and the warm-up is the smaller part.
LEMMA SegmentsMeasured == G!SegmentsAddUp
  <1> SUFFICES ASSUME NEW est \in 1..12, NEW raw \in 0..6
               PROVE  /\ G!Warmup(raw, est) + G!Inference(raw, est) = est
                      /\ G!Warmup(raw, est) <= G!Inference(raw, est)
    BY DEF G!SegmentsAddUp
  <1>1. (est * 4) \div 10 \in Nat /\ 10 * ((est * 4) \div 10) <= est * 4
    OBVIOUS
  <1>2. QED
    BY <1>1 DEF G!Warmup, G!Inference

\* The selected bar stays in the window that its click zoomed to, and its card loads only
\* while a request is on its way.
LEMMA SelectedIsShown == ASSUME G!ChartAssumption, ChartInv PROVE G!SelectionShown
  <1>1. ASSUME selectedBarId # G!NoBar PROVE selectedBarId \in G!VisibleBars
    <2>1. selectedBarId \in Bars /\ zoomedAnchor = {bars[selectedBarId].next_run}
      BY <1>1 DEF ChartInv, G!ChartTypeOK
    <2>2. G!LeftEdge = bars[selectedBarId].next_run - ZoomHalf /\ G!WindowSize = 2 * ZoomHalf
      BY <2>1 DEF G!LeftEdge, G!Zoomed, G!Anchor, G!WindowSize
    <2>3. QED
      BY <2>1, <2>2, OnTheLine DEF G!VisibleBars, G!Overlap, G!ChartAssumption
  <1>2. G!CardHistory = "loading" => runFetches # {}
    BY DEF G!CardHistory, ChartInv
  <1>3. QED
    BY <1>1, <1>2 DEF G!SelectionShown

\* An injective listing of a finite set leaves nothing out.
LEMMA ListingIsWhole ==
  ASSUME NEW W, IsFiniteSet(W), NEW s \in Listings(W), NEW x \in W
  PROVE  \E i \in 1..Cardinality(W) : s[i] = x
  <1>1. Cardinality(W) \in Nat
    BY FS_CardinalityType
  <1>2. IsFiniteSet(1..Cardinality(W)) /\ Cardinality(1..Cardinality(W)) = Cardinality(W)
    BY <1>1, FS_Interval
  <1>3. s \in Injection(1..Cardinality(W), W)
    BY DEF Listings, Injection, IsInjective
  <1>4. s \in Surjection(1..Cardinality(W), W)
    BY <1>2, <1>3, FS_Injection
  <1>5. QED
    BY <1>4 DEF Surjection

\* The array of the bars has each at a place of its own.
LEMMA InPlace ==
  ASSUME G!ChartAssumption
  PROVE  \A a, b \in Bars : /\ G!Place(a) \in Nat
                            /\ G!Place(a) = G!Place(b) => a = b
  <1>1. \E s \in Listings(Bars) : TRUE
    <2>1. ExistsBijection(1..Cardinality(Bars), Bars)
      BY FS_CardinalityType DEF G!ChartAssumption, G!IsFiniteSet, IsFiniteSet
    <2>2. PICK s \in Bijection(1..Cardinality(Bars), Bars) : TRUE
      BY <2>1 DEF ExistsBijection
    <2>3. s \in Listings(Bars)
      BY <2>2 DEF Listings, Bijection, Injection, IsInjective
    <2>4. QED
      BY <2>3
  <1>2. G!Order \in [1..Cardinality(Bars) -> Bars] /\ G!IsInjective(G!Order)
    <2>1. \E s \in [1..Cardinality(Bars) -> Bars] : G!IsInjective(s)
      BY <1>1 DEF Listings, G!IsInjective
    <2>2. QED
      BY <2>1 DEF G!Order, G!SetToSeq, G!Cardinality, Cardinality
  <1>3. G!Order \in Listings(Bars)
    BY <1>2 DEF Listings, G!IsInjective
  <1>4. Cardinality(Bars) \in Nat
    BY FS_CardinalityType DEF G!ChartAssumption, G!IsFiniteSet, IsFiniteSet
  <1>5. ASSUME NEW a \in Bars PROVE G!Place(a) \in DOMAIN G!Order /\ G!Order[G!Place(a)] = a
    <2>1. \E i \in DOMAIN G!Order : G!Order[i] = a
      <3>1. IsFiniteSet(Bars) /\ DOMAIN G!Order = 1..Cardinality(Bars)
        BY <1>2 DEF G!ChartAssumption, G!IsFiniteSet, IsFiniteSet
      <3>2. \E i \in 1..Cardinality(Bars) : G!Order[i] = a
        BY <1>3, <3>1, ListingIsWhole
      <3>3. QED
        BY <3>1, <3>2
    <2>2. QED
      BY <2>1 DEF G!Place
  <1>6. QED
    BY <1>2, <1>4, <1>5

\* assignLanes takes the visible bars in the order in which they start.
LEMMA InOrder ==
  ASSUME G!ChartAssumption, ChartInv
  PROVE  /\ Cardinality(G!VisibleBars) \in Nat
         /\ G!Sorted \in [1..Cardinality(G!VisibleBars) -> G!VisibleBars]
         /\ \A i, j \in 1..Cardinality(G!VisibleBars) :
              i < j => G!Sorted[i] # G!Sorted[j]
                /\ bars[G!Sorted[i]].next_run <= bars[G!Sorted[j]].next_run
         /\ \A b \in G!VisibleBars : \E i \in 1..Cardinality(G!VisibleBars) : G!Sorted[i] = b
  <1> DEFINE Before == {e \in G!VisibleBars \X G!VisibleBars : G!Earlier(e[1], e[2])}
             k == Cardinality(G!VisibleBars)
  <1>1. k \in Nat
    BY OnTheLine, FS_CardinalityType
  <1>2. \A a \in G!VisibleBars : bars[a].next_run \in Int /\ G!Place(a) \in Nat
    BY OnTheLine, InPlace
  <1>3. \A a, b \in G!VisibleBars : <<a, b>> \in Before <=> G!Earlier(a, b)
    OBVIOUS
  <1> HIDE DEF Before
  <1>4. \A x, y, z \in G!VisibleBars : <<x, y>> \in Before /\ <<y, z>> \in Before
          => <<x, z>> \in Before
    BY <1>2, <1>3 DEF G!Earlier
  <1>5. \A x, y \in G!VisibleBars : x # y => <<x, y>> \in Before \/ <<y, x>> \in Before
    <2>1. \A x, y \in G!VisibleBars : x # y => G!Place(x) # G!Place(y)
      BY OnTheLine, InPlace
    <2>2. QED
      BY <1>2, <1>3, <2>1 DEF G!Earlier
  <1>6. PICK s \in Listings(G!VisibleBars) :
              \A m, n \in DOMAIN s : m < n => <<s[m], s[n]>> \in Before
    BY <1>4, <1>5, FiniteInOrder, OnTheLine
  <1>7. s \in G!SetToSeqs(G!VisibleBars) /\ \A m, n \in DOMAIN s : m < n => G!Earlier(s[m], s[n])
    BY <1>3, <1>6 DEF Listings, G!SetToSeqs, G!Cardinality, Cardinality
  <1>8. /\ G!Sorted \in G!SetToSeqs(G!VisibleBars)
        /\ \A m, n \in DOMAIN G!Sorted : m < n => G!Earlier(G!Sorted[m], G!Sorted[n])
    BY <1>7 DEF G!Sorted
  <1>9. G!Sorted \in Listings(G!VisibleBars) /\ G!Sorted \in [1..k -> G!VisibleBars]
    BY <1>8 DEF Listings, G!SetToSeqs, G!Cardinality, Cardinality
  <1>10. \A i, j \in 1..k :
           i < j => G!Sorted[i] # G!Sorted[j]
             /\ bars[G!Sorted[i]].next_run <= bars[G!Sorted[j]].next_run
    <2> SUFFICES ASSUME NEW i \in 1..k, NEW j \in 1..k, i < j
                 PROVE G!Sorted[i] # G!Sorted[j]
                       /\ bars[G!Sorted[i]].next_run <= bars[G!Sorted[j]].next_run
      OBVIOUS
    <2>1. G!Sorted[i] # G!Sorted[j]
      BY <1>1, <1>9 DEF Listings
    <2>2. G!Earlier(G!Sorted[i], G!Sorted[j])
      BY <1>8, <1>9
    <2>3. QED
      BY <1>2, <1>9, <2>1, <2>2 DEF G!Earlier
  <1>11. QED
    BY <1>1, <1>9, <1>10, ListingIsWhole, OnTheLine

NoLanes == [ends |-> <<>>, lane |-> <<>>]

\* What the fold of assignLanes has after n bars.
LEMMA LanesGrow ==
  ASSUME G!ChartAssumption, ChartInv
  PROVE  \E f : /\ f[0] = NoLanes /\ G!Lanes = f[Cardinality(G!VisibleBars)]
                /\ \A n \in 0..(Cardinality(G!VisibleBars) - 1) :
                     f[n + 1] = G!PutBar(f[n], G!Sorted[n + 1])
  <1> DEFINE k == Cardinality(G!VisibleBars)
             FoldsUpTo(g, m) == g = [s \in SUBSET (1..m) |->
                                   IF s = {} THEN NoLanes
                                   ELSE G!PutBar(g[s \ {G!Max(s)}], G!Sorted[G!Max(s)])]
             Unfolded == {m \in Nat : ~ \E g : FoldsUpTo(g, m)}
  <1>1. k \in Nat /\ DOMAIN G!Sorted = 1..k
    BY InOrder
  <1>2. ASSUME NEW m \in Nat, NEW s \in SUBSET (1..(m + 1)), m + 1 \in s
        PROVE  G!Max(s) = m + 1
    <2>1. m + 1 \in s /\ \A y \in s : m + 1 >= y
      BY <1>2
    <2>2. G!Max(s) \in s /\ \A y \in s : G!Max(s) >= y
      BY <2>1 DEF G!Max
    <2>3. G!Max(s) \in 1..(m + 1) /\ G!Max(s) >= m + 1
      BY <2>1, <2>2
    <2> HIDE DEF G!Max
    <2>4. QED
      BY <2>3
  <1>3. \E g : FoldsUpTo(g, 0)
    <2> DEFINE g == [s \in SUBSET (1..0) |-> NoLanes]
    <2>1. \A s \in SUBSET (1..0) : s = {}
      OBVIOUS
    <2>2. g = [s \in SUBSET (1..0) |-> IF s = {} THEN NoLanes
                                        ELSE G!PutBar(g[s \ {G!Max(s)}], G!Sorted[G!Max(s)])]
      BY <2>1
    <2>3. QED
      BY <2>2
  <1>4. ASSUME NEW m \in Nat, NEW g, FoldsUpTo(g, m)
        PROVE  \E h : FoldsUpTo(h, m + 1)
    <2> DEFINE h == [s \in SUBSET (1..(m + 1)) |->
                       IF m + 1 \in s THEN G!PutBar(g[s \ {m + 1}], G!Sorted[m + 1]) ELSE g[s]]
    <2>1. ASSUME NEW s \in SUBSET (1..(m + 1))
          PROVE  h[s] = IF s =
                   {} THEN NoLanes ELSE G!PutBar(h[s \ {G!Max(s)}], G!Sorted[G!Max(s)])
      <3>1. CASE m + 1 \in s
        <4>1. G!Max(s) = m + 1
          BY <1>2, <3>1
        <4>2. s \ {m + 1} \in SUBSET (1..(m + 1)) /\ m + 1 \notin s \ {m + 1}
          OBVIOUS
        <4>3. h[s \ {m + 1}] = g[s \ {m + 1}]
          BY <4>2
        <4>4. h[s] = G!PutBar(g[s \ {m + 1}], G!Sorted[m + 1]) /\ s # {}
          BY <3>1
        <4>5. QED
          BY <4>1, <4>3, <4>4
      <3>2. CASE m + 1 \notin s
        <4>1. s \in SUBSET (1..m)
          BY <3>2
        <4>2. h[s] = g[s]
          BY <3>2
        <4>3. g[s] = IF s = {} THEN NoLanes ELSE G!PutBar(g[s \ {G!Max(s)}], G!Sorted[G!Max(s)])
          BY <1>4, <4>1
        <4>4. h[s \ {G!Max(s)}] = g[s \ {G!Max(s)}]
          BY <3>2
        <4>5. QED
          BY <4>2, <4>3, <4>4
      <3>3. QED
        BY <3>1, <3>2
    <2> HIDE DEF h
    <2>2. h = [s \in SUBSET (1..(m + 1)) |-> h[s]]
      BY DEF h
    <2>3. h = [s \in SUBSET (1..(m + 1)) |->
                 IF s = {} THEN NoLanes ELSE G!PutBar(h[s \ {G!Max(s)}], G!Sorted[G!Max(s)])]
      BY <2>1, <2>2
    <2>4. QED
      BY <2>3
  <1> HIDE DEF FoldsUpTo
  <1>5. Unfolded = {}
    <2>1. SUFFICES ASSUME Unfolded # {} PROVE FALSE
      OBVIOUS
    <2>2. PICK n \in Unfolded : \A m \in Unfolded : n <= m
      BY <2>1, LeastNatural
    <2>3. n # 0
      BY <1>3
    <2>4. n - 1 \in Nat /\ n - 1 \notin Unfolded
      BY <2>2, <2>3
    <2>5. PICK g : FoldsUpTo(g, n - 1)
      BY <2>4
    <2>6. \E h : FoldsUpTo(h, (n - 1) + 1)
      BY <1>4, <2>4, <2>5
    <2>7. QED
      BY <2>6
  <1> DEFINE iter == CHOOSE g : FoldsUpTo(g, k)
  <1>6. FoldsUpTo(iter, k)
    BY <1>1, <1>5
  <1>7. G!Lanes = iter[1..k]
    <2>1. G!Lanes = (CHOOSE g : g = [s \in SUBSET (DOMAIN G!Sorted) |->
                     IF s = {} THEN NoLanes
                     ELSE G!PutBar(g[s \ {G!Max(s)}], G!Sorted[G!Max(s)])])[DOMAIN G!Sorted]
      BY Zenon DEF G!Lanes, G!FoldLeft, G!MapThenFoldSet, NoLanes
    <2>2. QED
      BY <1>1, <2>1, Zenon DEF FoldsUpTo
  <1> HIDE DEF iter
  <1> DEFINE f == [n \in 0..k |-> iter[1..n]]
  <1>8. iter = [s \in SUBSET (1..k) |->
                  IF s = {} THEN NoLanes ELSE G!PutBar(iter[s \ {G!Max(s)}], G!Sorted[G!Max(s)])]
    BY <1>6 DEF FoldsUpTo
  <1>9. f[0] = NoLanes /\ G!Lanes = f[k]
    <2>1. 1..0 = {} /\ {} \in SUBSET (1..k)
      OBVIOUS
    <2>2. iter[1..0] = NoLanes
      BY <1>8, <2>1
    <2>3. QED
      BY <1>1, <1>7, <2>2
  <1>10. ASSUME NEW n \in 0..(k - 1)
         PROVE  f[n + 1] = G!PutBar(f[n], G!Sorted[n + 1])
    <2>1. 1..(n + 1) \in SUBSET (1..k) /\ 1..(n + 1) # {} /\ n + 1 \in 1..(n + 1) /\ n \in Nat
      <3> HIDE DEF k, f
      <3>1. k \in Nat /\ n \in Nat /\ n + 1 <= k
        BY <1>1
      <3>2. n + 1 \in 1..(n + 1)
        BY <3>1
      <3>3. 1..(n + 1) \subseteq 1..k
        BY <3>1
      <3>4. QED
        BY <3>1, <3>2, <3>3
    <2>2. G!Max(1..(n + 1)) = n + 1
      BY <1>2, <2>1
    <2>3. (1..(n + 1)) \ {n + 1} = 1..n
      BY <2>1
    <2>4. iter[1..(n + 1)] = G!PutBar(iter[1..n], G!Sorted[n + 1])
      BY <1>8, <2>1, <2>2, <2>3
    <2>5. f[n + 1] = iter[1..(n + 1)] /\ f[n] = iter[1..n]
      <3>1. n + 1 \in 0..k /\ n \in 0..k
        <4> HIDE DEF k, f
        <4>1. k \in Nat /\ n \in 0..(k - 1)
          BY <1>1
        <4>2. QED
          BY ONLY <4>1
      <3> HIDE DEF k
      <3>2. QED
        BY <3>1
    <2>6. QED
      BY <2>4, <2>5
  <1>11. QED
    BY <1>9, <1>10

\* Lanes that hold some bars: each ends with one of them and after all of them, no two in
\* one overlap, and none lies higher than bars overlap where some bar starts.
Fit(lanes, placed) ==
    /\ lanes.ends \in Seq(Int) /\ lanes.lane \in [placed -> 1..Len(lanes.ends)]
    /\ \A b \in placed : G!End(b) <= lanes.ends[lanes.lane[b]]
    /\ \A i \in 1..Len(lanes.ends) : \E b \in placed : lanes.lane[b] = i
       /\ G!End(b) = lanes.ends[i]
    /\ \A a, b \in placed : a # b /\ lanes.lane[a] = lanes.lane[b] => ~G!Conflicting(a, b)
    /\ \A b \in placed : \E a \in G!VisibleBars : lanes.lane[b] <= G!Load(bars[a].next_run)

\* The lanes below the first free one are taken by bars that overlap the start of the bar.
LEMMA LaneNeeded ==
  ASSUME G!ChartAssumption, ChartInv, NEW lanes, NEW placed \in SUBSET G!VisibleBars,
         Fit(lanes, placed), NEW c \in G!VisibleBars \ placed,
         \A b \in placed : bars[b].next_run <= bars[c].next_run,
         NEW i \in 1..(Len(lanes.ends) + 1),
         \A m \in 1..(i - 1) : ~(lanes.ends[m] <= bars[c].next_run)
  PROVE  i <= G!Load(bars[c].next_run)
  <1> DEFINE here == {b \in G!VisibleBars : G!Overlap(b, bars[c].next_run, bars[c].next_run + 1)}
             owner == [m \in 1..i |-> IF m = i THEN c
                                      ELSE CHOOSE b \in placed : lanes.lane[b] = m
                                                                 /\ G!End(b) = lanes.ends[m]]
  <1>1. lanes.ends \in Seq(Int) /\ i \in Nat /\ i - 1 <= Len(lanes.ends)
    BY DEF Fit
  <1>2. \A b \in G!VisibleBars : /\ bars[b].next_run \in Int /\ G!End(b) \in Int
                                 /\ bars[b].next_run < G!End(b)
    BY OnTheLine
  <1>3. c \in here
    BY <1>2 DEF G!Overlap
  <1>4. ASSUME NEW m \in 1..(i - 1)
        PROVE  /\ owner[m] \in placed /\ lanes.lane[owner[m]] = m
               /\ owner[m] \in here
    <2>1. m \in 1..Len(lanes.ends) /\ m \in 1..i /\ m # i
      BY <1>1
    <2>2. \E b \in placed : lanes.lane[b] = m /\ G!End(b) = lanes.ends[m]
      BY <2>1 DEF Fit
    <2>3. owner[m] \in placed /\ lanes.lane[owner[m]] = m /\ G!End(owner[m]) = lanes.ends[m]
      BY <2>1, <2>2
    <2>4. ~(G!End(owner[m]) <= bars[c].next_run)
      BY <2>3
    <2> HIDE DEF owner
    <2>5. owner[m] \in here
      BY <1>2, <2>3, <2>4 DEF G!Overlap
    <2>6. QED
      BY <2>3, <2>5
  <1>5. owner[i] = c
    BY <1>1
  <1>6. owner \in Injection(1..i, here)
    <2>1. \A m \in 1..i : owner[m] \in here
      <3> HIDE DEF owner, here
      <3>1. \A m \in 1..i : m = i \/ m \in 1..(i - 1)
        BY <1>1
      <3>2. QED
        BY <1>3, <1>4, <1>5, <3>1
    <2>2. owner \in [1..i -> here]
      BY <2>1
    <2>3. ASSUME NEW m \in 1..i, NEW n \in 1..i, owner[m] = owner[n]
          PROVE  m = n
      <3> HIDE DEF owner
      <3>1. CASE m = i /\ n # i
        BY <1>1, <1>4, <1>5, <2>3, <3>1
      <3>2. CASE m # i /\ n = i
        BY <1>1, <1>4, <1>5, <2>3, <3>2
      <3>3. CASE m # i /\ n # i
        BY <1>1, <1>4, <2>3, <3>3
      <3>4. QED
        BY <3>1, <3>2, <3>3
    <2> HIDE DEF owner
    <2>4. QED
      BY <2>2, <2>3 DEF Injection, IsInjective
  <1>7. IsFiniteSet(here)
    BY OnTheLine, FS_Subset
  <1>8. Cardinality(1..i) <= Cardinality(here)
    BY <1>6, <1>7, FS_Injection
  <1>9. Cardinality(1..i) = i
    <2>1. 1 \in Int /\ i \in Int /\ ~(1 > i)
      BY <1>1
    <2>2. Cardinality(1..i) = i - 1 + 1
      BY <2>1, FS_Interval
    <2>3. QED
      BY <1>1, <2>2
  <1>10. G!Load(bars[c].next_run) = Cardinality(here)
    BY DEF G!Load, G!Cardinality, Cardinality
  <1>11. QED
    BY <1>8, <1>9, <1>10

\* First fit keeps lanes fitting when the bars come in the order in which they start.
LEMMA PutFits ==
  ASSUME G!ChartAssumption, ChartInv, NEW lanes, NEW placed \in SUBSET G!VisibleBars,
         Fit(lanes, placed), NEW c \in G!VisibleBars \ placed,
         \A b \in placed : bars[b].next_run <= bars[c].next_run
  PROVE  Fit(G!PutBar(lanes, c), placed \union {c})
  <1> DEFINE ends == lanes.ends
             free == {m \in 1..Len(ends) : ends[m] <= bars[c].next_run}
             new == Len(ends) + 1
             i == IF free = {} THEN new ELSE CHOOSE k \in free : \A m \in free : k <= m
             after == G!PutBar(lanes, c)
             all == placed \union {c}
  <1>1. ends \in Seq(Int) /\ Len(ends) \in Nat /\ lanes.lane \in [placed -> 1..Len(ends)]
    BY DEF Fit
  <1>2. \A b \in G!VisibleBars : /\ bars[b].next_run \in Int /\ G!End(b) \in Int
                                 /\ bars[b].next_run < G!End(b)
    BY OnTheLine
  <1>3. /\ after.ends = IF i = new THEN Append(ends, G!End(c)) ELSE [ends EXCEPT ![i] = G!End(c)]
        /\ after.lane =
             [x \in (DOMAIN lanes.lane) \union {c} |-> IF x = c THEN i ELSE lanes.lane[x]]
    BY DEF G!PutBar
  <1>4. /\ i \in 1..new
        /\ i # new => i \in free
        /\ \A m \in 1..(i - 1) : ~(ends[m] <= bars[c].next_run)
    <2>1. CASE free = {}
      BY <1>1, <2>1
    <2>2. CASE free # {}
      <3>1. free \in SUBSET Nat
        OBVIOUS
      <3>2. \E k \in free : \A m \in free : k <= m
        BY <2>2, <3>1, LeastNatural
      <3>3. i \in free /\ \A m \in free : i <= m
        BY <2>2, <3>2
      <3>4. i \in 1..Len(ends)
        BY <3>3
      <3> HIDE DEF i
      <3>5. QED
        BY <1>1, <3>3, <3>4
    <2>3. QED
      BY <2>1, <2>2
  <1> HIDE DEF after, i
  <1>5. i <= G!Load(bars[c].next_run)
    BY <1>4, LaneNeeded
  <1>6. /\ after.ends \in Seq(Int) /\ after.ends[i] = G!End(c)
        /\ Len(after.ends) = IF i = new THEN new ELSE Len(ends)
        /\ \A m \in 1..Len(ends) : m # i => after.ends[m] = ends[m]
    <2>1. G!End(c) \in Int
      BY <1>2
    <2>2. CASE i = new
      BY <1>1, <1>3, <2>1, <2>2
    <2>3. CASE i # new
      BY <1>1, <1>3, <1>4, <2>1, <2>3
    <2>4. QED
      BY <2>2, <2>3
  <1>7. /\ after.lane \in [all -> 1..Len(after.ends)]
        /\ after.lane[c] = i /\ \A b \in placed : after.lane[b] = lanes.lane[b]
        /\ \A b \in placed : lanes.lane[b] \in 1..Len(ends)
    <2>1. Len(after.ends) \in Nat /\ i \in 1..Len(after.ends) /\ Len(ends) <= Len(after.ends)
      BY <1>1, <1>4, <1>6
    <2>2. DOMAIN lanes.lane = placed /\ \A b \in placed : lanes.lane[b] \in 1..Len(ends)
      BY <1>1
    <2>3. after.lane = [x \in all |-> IF x = c THEN i ELSE lanes.lane[x]]
      BY <1>3, <2>2
    <2>4. \A b \in all : after.lane[b] \in 1..Len(after.ends)
      BY <1>1, <2>1, <2>2, <2>3
    <2>5. QED
      BY <2>2, <2>3, <2>4
  <1>8. ASSUME NEW b \in placed, lanes.lane[b] = i
        PROVE  G!End(b) <= bars[c].next_run
    <2>1. G!End(b) <= ends[i] /\ i \in 1..Len(ends)
      BY <1>7, <1>8 DEF Fit
    <2>2. ends[i] <= bars[c].next_run /\ ends[i] \in Int
      BY <1>1, <1>4, <2>1
    <2>3. QED
      BY <1>2, <2>1, <2>2
  <1>9. ASSUME NEW b \in all PROVE G!End(b) <= after.ends[after.lane[b]]
    <2>1. CASE b = c
      BY <1>2, <1>6, <1>7, <2>1
    <2>2. CASE b # c /\ lanes.lane[b] = i
      BY <1>2, <1>6, <1>7, <1>8, <2>2
    <2>3. CASE b # c /\ lanes.lane[b] # i
      <3>1. b \in placed /\ G!End(b) <= ends[lanes.lane[b]] /\ after.lane[b] = lanes.lane[b]
        BY <1>7, <2>3 DEF Fit
      <3>2. after.ends[lanes.lane[b]] = ends[lanes.lane[b]]
        BY <1>6, <1>7, <2>3, <3>1
      <3>3. QED
        BY <3>1, <3>2
    <2>4. QED
      BY <2>1, <2>2, <2>3
  <1>10. ASSUME NEW m \in 1..Len(after.ends)
         PROVE  \E b \in all : after.lane[b] = m /\ G!End(b) = after.ends[m]
    <2>1. CASE m = i
      BY <1>6, <1>7, <2>1
    <2>2. CASE m # i
      <3>1. m \in 1..Len(ends)
        BY <1>1, <1>4, <1>6, <2>2
      <3>2. PICK b \in placed : lanes.lane[b] = m /\ G!End(b) = ends[m]
        BY <3>1 DEF Fit
      <3>3. QED
        BY <1>6, <1>7, <2>2, <3>1, <3>2
    <2>3. QED
      BY <2>1, <2>2
  <1>11. ASSUME NEW a \in all, NEW b \in all, a # b, after.lane[a] = after.lane[b]
         PROVE  ~G!Conflicting(a, b)
    <2>1. CASE a \in placed /\ b \in placed
      BY <1>7, <1>11, <2>1 DEF Fit
    <2>2. CASE a = c
      <3>1. b \in placed /\ G!End(b) <= bars[c].next_run
        BY <1>7, <1>8, <1>11, <2>2
      <3>2. QED
        BY <1>2, <2>2, <3>1 DEF G!Conflicting, G!Overlap
    <2>3. CASE b = c
      <3>1. a \in placed /\ G!End(a) <= bars[c].next_run
        BY <1>7, <1>8, <1>11, <2>3
      <3>2. QED
        BY <1>2, <2>3, <3>1 DEF G!Conflicting, G!Overlap
    <2>4. QED
      BY <2>1, <2>2, <2>3
  <1>12. ASSUME NEW b \in all
         PROVE  \E a \in G!VisibleBars : after.lane[b] <= G!Load(bars[a].next_run)
    <2>1. CASE b = c
      BY <1>5, <1>7, <2>1
    <2>2. CASE b \in placed
      BY <1>7, <2>2 DEF Fit
    <2>3. QED
      BY <2>1, <2>2
  <1>13. QED
    BY <1>6, <1>7, <1>9, <1>10, <1>11, <1>12 DEF Fit, after

\* assignLanes is right: bars of a lane do not overlap, and no lane is opened that the bars that
\* overlap at one moment do not need.
LEMMA Tight == ASSUME G!ChartAssumption, ChartInv PROVE G!LanesTight
  <1> DEFINE k == Cardinality(G!VisibleBars)
             Placed(n) == {G!Sorted[i] : i \in 1..n}
  <1>1. PICK f : /\ f[0] = NoLanes /\ G!Lanes = f[k]
                 /\ \A n \in 0..(k - 1) : f[n + 1] = G!PutBar(f[n], G!Sorted[n + 1])
    BY LanesGrow
  <1>2. k \in Nat /\ G!Sorted \in [1..k -> G!VisibleBars]
    BY InOrder
  <1> DEFINE Unfolded == {n \in 0..k : ~Fit(f[n], Placed(n))}
  <1>3. Fit(f[0], Placed(0))
    <2>1. Placed(0) = {}
      OBVIOUS
    <2>2. QED
      BY <1>1, <2>1 DEF Fit, NoLanes
  <1>4. ASSUME NEW n \in 0..(k - 1), Fit(f[n], Placed(n))
        PROVE  Fit(f[n + 1], Placed(n + 1))
    <2> HIDE DEF k
    <2>0. n \in Nat /\ n + 1 \in 1..k /\ 1..n \subseteq 1..k
      BY <1>2
    <2>1. Placed(n + 1) = Placed(n) \union {G!Sorted[n + 1]}
      BY <2>0
    <2>2. Placed(n) \in SUBSET G!VisibleBars
      BY <1>2, <2>0
    <2>3. \A i \in 1..n : /\ G!Sorted[i] # G!Sorted[n + 1]
                          /\ bars[G!Sorted[i]].next_run <= bars[G!Sorted[n + 1]].next_run
      BY <2>0, InOrder DEF k
    <2>4. G!Sorted[n + 1] \in G!VisibleBars \ Placed(n)
      BY <1>2, <2>0, <2>3
    <2>5. \A b \in Placed(n) : bars[b].next_run <= bars[G!Sorted[n + 1]].next_run
      BY <2>3
    <2> HIDE DEF Placed
    <2>6. Fit(G!PutBar(f[n], G!Sorted[n + 1]), Placed(n) \union {G!Sorted[n + 1]})
      BY <1>4, <2>2, <2>4, <2>5, PutFits
    <2>7. QED
      BY <1>1, <2>1, <2>6
  <1> HIDE DEF k, Placed
  <1>5. Unfolded = {}
    <2>1. SUFFICES ASSUME Unfolded # {} PROVE FALSE
      OBVIOUS
    <2>2. Unfolded \in SUBSET Nat
      BY <1>2
    <2>3. PICK n \in Unfolded : \A m \in Unfolded : n <= m
      BY <2>1, <2>2, LeastNatural
    <2>4. n # 0
      BY <1>3, <2>3
    <2>5. n - 1 \in 0..(k - 1) /\ n - 1 \in 0..k /\ n = (n - 1) + 1
      BY <1>2, <2>3, <2>4
    <2>6. n - 1 \notin Unfolded
      BY <2>3, <2>5
    <2>7. Fit(f[n - 1], Placed(n - 1))
      BY <2>5, <2>6
    <2>8. Fit(f[(n - 1) + 1], Placed((n - 1) + 1))
      BY <1>4, <2>5, <2>7
    <2>9. QED
      BY <2>3, <2>5, <2>8
  <1>6. Fit(G!Lanes, G!VisibleBars)
    <2>1. Placed(k) = G!VisibleBars
      BY InOrder DEF Placed, k
    <2>2. k \in 0..k
      BY <1>2
    <2>3. QED
      BY <1>1, <1>5, <2>1, <2>2
  <1>7. QED
    BY <1>6 DEF Fit, G!LanesTight

\* All that the chart promises of its picture follows from the invariant.
LEMMA BarsDrawn == ASSUME G!ChartAssumption, ChartInv PROVE G!ChartSound
  BY Tight, ConflictsFound, BarsInside, SlotsAligned, SegmentsMeasured, SelectedIsShown
     DEF G!ChartSound

\* The picture of the timeline is sound whatever is clicked, zoomed and fetched.
THEOREM Charting == G!ChartSpec => [](G!ChartTypeOK /\ G!ChartSound)
  <1> G!ChartAssumption
    BY DashboardAssumption DEF DashboardAssumption
  <1>1. G!Init => ChartInv
    BY DEF G!Init, ChartInv, G!ChartTypeOK
  <1>2. ChartInv /\ [G!Next]_(G!chartVars) => ChartInv'
    <2> SUFFICES ASSUME ChartInv, [G!Next]_(G!chartVars) PROVE ChartInv'
      OBVIOUS
    <2> USE DEF ChartInv, G!ChartTypeOK
    <2>1. ASSUME NEW b \in Bars, G!ClickBar(b) PROVE ChartInv'
      <3>1. bars[b].next_run \in Starts
        OBVIOUS
      <3>2. QED
        BY <2>1, <3>1 DEF G!ClickBar, G!card
    <2>2. ASSUME NEW b \in Bars, G!RunsLanded(b) PROVE ChartInv'
      BY <2>2 DEF G!RunsLanded, G!selection
    <2>3. CASE G!ClickChart
      BY <2>3 DEF G!ClickChart, G!card
    <2>4. CASE G!ZoomOut
      BY <2>4 DEF G!ZoomOut, G!card
    <2>5. ASSUME NEW i \in 0..WindowHalf, G!ClickBucket(i) PROVE ChartInv'
      BY <2>5 DEF G!ClickBucket, G!card
    <2>6. CASE UNCHANGED G!chartVars
      BY <2>6 DEF G!chartVars, G!selection, G!card
    <2>7. QED
      BY <2>1, <2>2, <2>3, <2>4, <2>5, <2>6 DEF G!Next
  <1>3. ChartInv => G!ChartTypeOK /\ G!ChartSound
    BY BarsDrawn DEF ChartInv
  <1>4. QED
    BY <1>1, <1>2, <1>3, PTL DEF G!ChartSpec

-----------------------------------------------------------------------------
\* A behaviour of the page is one of each of its widgets: a step that follows another widget
\* leaves the variables of this one alone.
LEMMA PageFollowsPolling == Spec => P!Spec
  <1>1. Init => P!Init
    BY DEF Init
  <1>2. [Next]_vars => [P!Next]_(P!vars)
    <2>1. ASSUME Next PROVE P!Next \/ UNCHANGED P!vars
      BY <2>1 DEF Next, Follows, Others, P!vars, P!chains, P!bank, P!shown, pollingVars
    <2>2. ASSUME UNCHANGED vars PROVE UNCHANGED P!vars
      BY <2>2 DEF vars, P!vars, P!chains, P!bank, P!shown, pollingVars
    <2>3. QED
      BY <2>1, <2>2
  <1>3. QED
    BY <1>1, <1>2, PTL DEF Spec, P!Spec

\* The same of the waiting list.
LEMMA PageFollowsBoard == Spec => B!Spec
  <1>1. Init => B!Init
    BY DEF Init
  <1>2. [Next]_vars => [B!Next]_(B!vars)
    <2>1. ASSUME Next PROVE B!Next \/ UNCHANGED B!vars
      BY <2>1 DEF Next, Follows, Others, B!vars, B!server, B!wire, B!page, boardVars
    <2>2. ASSUME UNCHANGED vars PROVE UNCHANGED B!vars
      BY <2>2 DEF vars, B!vars, B!server, B!wire, B!page, boardVars
    <2>3. QED
      BY <2>1, <2>2
  <1>3. QED
    BY <1>1, <1>2, PTL DEF Spec, B!Spec

\* The same of the undo.
LEMMA PageFollowsUndo == Spec => U!Spec
  <1>1. Init => U!Init
    BY DEF Init
  <1>2. [Next]_vars => [U!Next]_(U!vars)
    <2>1. ASSUME Next PROVE U!Next \/ UNCHANGED U!vars
      BY <2>1 DEF Next, Follows, Others, U!vars, undoVars
    <2>2. ASSUME UNCHANGED vars PROVE UNCHANGED U!vars
      BY <2>2 DEF vars, U!vars, undoVars
    <2>3. QED
      BY <2>1, <2>2
  <1>3. QED
    BY <1>1, <1>2, PTL DEF Spec, U!Spec

\* The same of the submission.
LEMMA PageFollowsSubmit == Spec => F!Spec
  <1>1. Init => F!Init
    BY DEF Init
  <1>2. [Next]_vars => [F!Next]_(F!vars)
    <2>1. ASSUME Next PROVE F!Next \/ UNCHANGED F!vars
      BY <2>1 DEF Next, Follows, Others, F!vars, F!form, submitVars
    <2>2. ASSUME UNCHANGED vars PROVE UNCHANGED F!vars
      BY <2>2 DEF vars, F!vars, F!form, submitVars
    <2>3. QED
      BY <2>1, <2>2
  <1>3. QED
    BY <1>1, <1>2, PTL DEF Spec, F!Spec

\* The same of the batch runs and added jobs.
LEMMA PageFollowsActions == Spec => R!ActionSpec
  <1>1. Init => R!Init
    BY DEF Init
  <1>2. [Next]_vars => [R!Next]_(R!actionVars)
    <2>1. ASSUME Next PROVE R!Next \/ UNCHANGED R!actionVars
      BY <2>1 DEF Next, Follows, Others, R!actionVars, R!batch, R!dialog, actionsVars
    <2>2. ASSUME UNCHANGED vars PROVE UNCHANGED R!actionVars
      BY <2>2 DEF vars, R!actionVars, R!batch, R!dialog, actionsVars
    <2>3. QED
      BY <2>1, <2>2
  <1>3. QED
    BY <1>1, <1>2, PTL DEF Spec, R!ActionSpec

\* The same of the Plan page.
LEMMA PageFollowsPlan == Spec => S!PlanSpec
  <1>1. Init => S!Init
    BY DEF Init
  <1>2. [Next]_vars => [S!Next]_(S!planVars)
    <2>1. ASSUME Next PROVE S!Next \/ UNCHANGED S!planVars
      BY <2>1 DEF Next, Follows, Others, S!planVars, S!data, S!pointer, S!panel, S!phases,
         planVars
    <2>2. ASSUME UNCHANGED vars PROVE UNCHANGED S!planVars
      BY <2>2 DEF vars, S!planVars, S!data, S!pointer, S!panel, S!phases, planVars
    <2>3. QED
      BY <2>1, <2>2
  <1>3. QED
    BY <1>1, <1>2, PTL DEF Spec, S!PlanSpec

\* The same of the chart.
LEMMA PageFollowsChart == Spec => G!ChartSpec
  <1>1. Init => G!Init
    BY DEF Init
  <1>2. [Next]_vars => [G!Next]_(G!chartVars)
    <2>1. ASSUME Next PROVE G!Next \/ UNCHANGED G!chartVars
      BY <2>1 DEF Next, Follows, Others, G!chartVars, G!selection, G!card, chartVars
    <2>2. ASSUME UNCHANGED vars PROVE UNCHANGED G!chartVars
      BY <2>2 DEF vars, G!chartVars, G!selection, G!card, chartVars
    <2>3. QED
      BY <2>1, <2>2
  <1>3. QED
    BY <1>1, <1>2, PTL DEF Spec, G!ChartSpec

-----------------------------------------------------------------------------
\* PollingAlive for every bound: a mounted page has a timer armed or a status request on its way.
THEOREM PollingIsAlive == Spec => []PollingAlive
  <1>1. Spec => [](P!TypeOK /\ P!PollingAlive /\ P!BannerCounts)
    BY PageFollowsPolling, PollingNeverDies, PTL
  <1>2. P!PollingAlive => PollingAlive
    BY DEF PollingAlive
  <1>3. QED
    BY <1>1, <1>2, PTL

\* DropPersisted for every set of jobs and number of drops: when the PUTs of the last drop are
\* through, the server has the waiting jobs in the order in which they were dropped.
THEOREM DropsPersist == Spec => []DropPersisted
  <1>1. Spec => [](B!TypeOK /\ B!DropPersisted)
    BY PageFollowsBoard, Dropping, PTL
  <1>2. B!TypeOK /\ B!DropPersisted => DropPersisted
    BY DEF DropPersisted
  <1>3. QED
    BY <1>1, <1>2, PTL

\* UndoHolds for every set of jobs: one that was undone or left in its five seconds is never
\* cancelled by the timer.
THEOREM UndoIsHeld == Spec => []UndoHolds
  <1>1. Spec => [](U!TypeOK /\ U!UndoHolds)
    BY PageFollowsUndo, UndoHeld, PTL
  <1>2. U!UndoHolds => UndoHolds
    BY DEF UndoHolds
  <1>3. QED
    BY <1>1, <1>2, PTL

\* RequestsApart for every number of presses: no two batch runs of a tag and no two added jobs
\* are on their way at once; two submissions only after a late idle timer.
THEOREM RequestsStayApart == Spec => []RequestsApart
  <1>1. Spec => []R!NoOverlappingRequests
    BY PageFollowsActions, BatchesApart, PTL
  <1>2. Spec => []F!OverlapNeedsStaleTimer
    BY PageFollowsSubmit, Submitting, PTL
  <1>3. R!NoOverlappingRequests /\ F!OverlapNeedsStaleTimer => RequestsApart
    BY DEF RequestsApart
  <1>4. QED
    BY <1>1, <1>2, <1>3, PTL

\* FlagsGivenBack for every set of recurring jobs: no flag of the Plan page outlives its request.
THEOREM FlagsAreGivenBack == Spec => []FlagsGivenBack
  <1>1. Spec => []S!FlagsGivenBack
    BY PageFollowsPlan, FlagsReturn, PTL
  <1>2. S!FlagsGivenBack => FlagsGivenBack
    BY DEF FlagsGivenBack
  <1>3. QED
    BY <1>1, <1>2, PTL
=============================================================================
