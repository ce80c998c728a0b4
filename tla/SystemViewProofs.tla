-------------------------- MODULE SystemViewProofs --------------------------
(***************************************************************************)
(* Proofs about the page of one system, for every set of systems and chart *)
(* times and every bound: what appendData keeps of the lists it joins, and *)
(* from it that answers are used for the request they belong to, that the  *)
(* time axis reaches the newest point and that the "1m" chart is bounded.  *)
(***************************************************************************)
EXTENDS SystemView, FiniteSetTheorems, SequenceTheorems, TLAPS

-----------------------------------------------------------------------------
(* Lists of points.                                                        *)

Items == Points \cup {Gap}

\* The gap that appendData pushes is no record.
LEMMA GapIsNoPoint == Gap \notin Points
BY ViewAssumption DEF Gap, Points

\* getStats' lastCached, and the last point that getTimeData looks at: the time
\* of the last item, 0 if there is none.
LEMMA CreatedType ==
    ASSUME NEW s \in Seq(Items)
    PROVE  /\ Created(s) \in 0 .. MaxTime
           /\ s # <<>> => Len(s) \in 1 .. Len(s) /\ Created(s) = s[Len(s)].at
<1>1. Len(s) \in Nat /\ DOMAIN s = 1 .. Len(s)
      BY LenProperties
<1>2. ASSUME s # <<>> PROVE Len(s) \in 1 .. Len(s)
      BY <1>1, <1>2, EmptySeq
<1>3. ASSUME s # <<>> PROVE s[Len(s)] \in Items
      BY <1>2, <1>3, ElementOfSeq
<1>4. ASSUME NEW p \in Items PROVE p.at \in 0 .. MaxTime
      BY <1>4, ViewAssumption DEF Items, Points, Gap
<1> QED BY <1>2, <1>3, <1>4, ViewAssumption DEF Created

\* "Pre-trim prev": what is left is an end of prev, and when one point is to come
\* it is shorter than maxLen, unless slice(-0) keeps everything.
LEMMA TrimmedIsSuffix ==
    ASSUME NEW prev \in Seq(Items), NEW n \in Nat \ {0}, NEW m \in Nat \ {0}
    PROVE  LET t == Trimmed(prev, n, m)
           IN  /\ t \in Seq(Items) /\ Len(t) \in 0 .. Len(prev)
               /\ \A i \in 1 .. Len(t) : t[i] = prev[Len(prev) - Len(t) + i]
               /\ n < m => Len(t) < m
<1> DEFINE L == Len(prev)
           keep == IF n < m THEN m - n ELSE IF n = m THEN L ELSE L - (n - m)
           k == IF keep > 0 THEN keep ELSE 0
           t == Trimmed(prev, n, m)
<1>1. L \in Nat /\ DOMAIN prev = 1 .. L
      BY LenProperties
<1>2. CASE L < m
      <2>1. t = prev
            BY <1>2 DEF Trimmed
      <2> QED BY <2>1, <1>1, <1>2
<1>3. CASE ~(L < m)
      <2>1. t = SubSeq(prev, L - k + 1, L)
            BY <1>3 DEF Trimmed
      <2>2. k \in 0 .. L
            BY <1>1, <1>3
      <2>3. n < m => k < m
            BY <1>1
      <2> HIDE DEF k
      <2>4. \A i \in L - k + 1 .. L : prev[i] \in Items
            BY <1>1, <2>2, ElementOfSeq
      <2>5. /\ SubSeq(prev, L - k + 1, L) \in Seq(Items)
            /\ Len(SubSeq(prev, L - k + 1, L)) = k
            /\ \A i \in 1 .. k : SubSeq(prev, L - k + 1, L)[i] = prev[L - k + i]
            <3>1. L - k + 1 \in Int /\ L \in Int
                  BY <1>1, <2>2
            <3>2. /\ SubSeq(prev, L - k + 1, L) \in Seq(Items)
                  /\ Len(SubSeq(prev, L - k + 1, L))
                        = IF L - k + 1 <= L THEN L - (L - k + 1) + 1 ELSE 0
                  /\ \A i \in 1 .. L - (L - k + 1) + 1 :
                        SubSeq(prev, L - k + 1, L)[i] = prev[(L - k + 1) + i - 1]
                  BY <3>1, <2>4, SubSeqProperties
            <3>3. /\ (IF L - k + 1 <= L THEN L - (L - k + 1) + 1 ELSE 0) = k
                  /\ L - (L - k + 1) + 1 = k
                  /\ \A i \in 1 .. k : (L - k + 1) + i - 1 = L - k + i
                  BY <1>1, <2>2
            <3> QED BY <3>2, <3>3
      <2> QED BY <2>1, <2>2, <2>3, <2>5
<1> QED BY <1>2, <1>3

\* result.push: every new record gets a place after the old ones, ...
LEMMA PlaceType ==
    ASSUME NEW start \in Seq(Items), NEW new \in Seq(Items), NEW i \in Nat
    PROVE  /\ IsFiniteSet(Late(start, new) \cap 1 .. i)
           /\ Cardinality(Late(start, new) \cap 1 .. i) \in 0 .. i
           /\ Place(start, new, i) \in Nat
           /\ Len(start) + i <= Place(start, new, i)
           /\ Place(start, new, i) <= Len(start) + i + i
<1>1. Len(start) \in Nat
      BY LenProperties
<1>2. IsFiniteSet(1 .. i) /\ Cardinality(1 .. i) = i
      BY FS_Interval, i \in Int, 1 \in Int
<1>3. Late(start, new) \cap 1 .. i \in SUBSET (1 .. i)
      OBVIOUS
<1>4. /\ IsFiniteSet(Late(start, new) \cap 1 .. i)
      /\ Cardinality(Late(start, new) \cap 1 .. i) <= i
      BY <1>2, <1>3, FS_Subset
<1>5. Cardinality(Late(start, new) \cap 1 .. i) \in Nat
      BY <1>4, FS_CardinalityType
<1> QED BY <1>1, <1>4, <1>5 DEF Place

\* ... and their places are in their order.
LEMMA PlaceIncreases ==
    ASSUME NEW start \in Seq(Items), NEW new \in Seq(Items), NEW i \in Nat, NEW j \in Nat, i < j
    PROVE  Place(start, new, i) < Place(start, new, j)
<1>1. Len(start) \in Nat
      BY LenProperties
<1>2. Late(start, new) \cap 1 .. i \in SUBSET (Late(start, new) \cap 1 .. j)
      OBVIOUS
<1>3. IsFiniteSet(Late(start, new) \cap 1 .. j)
      BY PlaceType
<1>4. Cardinality(Late(start, new) \cap 1 .. i) <= Cardinality(Late(start, new) \cap 1 .. j)
      BY <1>2, <1>3, FS_Subset
<1>5. /\ Cardinality(Late(start, new) \cap 1 .. i) \in 0 .. i
      /\ Cardinality(Late(start, new) \cap 1 .. j) \in 0 .. j
      BY PlaceType
<1> QED BY <1>1, <1>4, <1>5 DEF Place

\* The loop of appendData: the old records stay where they are, a new one is at
\* its place, and there are only gaps besides.
LEMMA JoinedItems ==
    ASSUME NEW start \in Seq(Items), NEW new \in Seq(Items), new # <<>>
    PROVE  LET J == Joined(start, new)
           IN  /\ J \in Seq(Items) /\ Len(J) = Place(start, new, Len(new))
               /\ Len(J) # 0 /\ J[Len(J)] = new[Len(new)]
               /\ \A n \in 1 .. Len(J) :
                     \/ n <= Len(start) /\ J[n] = start[n]
                     \/ n > Len(start) /\ J[n] = Gap
                     \/ \E i \in 1 .. Len(new) :
                           n > Len(start) /\ n = Place(start, new, i) /\ J[n] = new[i]
<1> DEFINE J == Joined(start, new)
           P(i) == Place(start, new, i)
           N == P(Len(new))
<1>1. /\ Len(start) \in Nat /\ Len(new) \in Nat \ {0} /\ DOMAIN new = 1 .. Len(new)
      /\ DOMAIN start = 1 .. Len(start)
      BY LenProperties, EmptySeq
<1>2. \A i \in 1 .. Len(new) : P(i) \in Nat /\ Len(start) + i <= P(i)
      <2> SUFFICES ASSUME NEW i \in 1 .. Len(new)
                   PROVE  P(i) \in Nat /\ Len(start) + i <= P(i)
            OBVIOUS
      <2>1. i \in Nat
            BY <1>1
      <2> QED BY <2>1, PlaceType
<1>3. N \in Nat \ {0} /\ N > Len(start)
      BY <1>1, <1>2
<1>4. \A n \in 1 .. N :
          \/ n <= Len(start) /\ J[n] = start[n]
          \/ n > Len(start) /\ J[n] = Gap
          \/ \E i \in 1 .. Len(new) : n > Len(start) /\ n = P(i) /\ J[n] = new[i]
      <2> SUFFICES ASSUME NEW n \in 1 .. N
                   PROVE  \/ n <= Len(start) /\ J[n] = start[n]
                          \/ n > Len(start) /\ J[n] = Gap
                          \/ \E i \in 1 .. Len(new) :
                                n > Len(start) /\ n = P(i) /\ J[n] = new[i]
            OBVIOUS
      <2>1. CASE n <= Len(start)
            BY <2>1 DEF Joined
      <2>2. CASE n > Len(start) /\ ~(\E i \in DOMAIN new : P(i) = n)
            BY <1>1, <1>3, <2>2 DEF Joined
      <2>3. CASE n > Len(start) /\ \E i \in DOMAIN new : P(i) = n
            <3> DEFINE c == CHOOSE i \in DOMAIN new : P(i) = n
            <3>1. c \in DOMAIN new /\ P(c) = n
                  BY <2>3
            <3>2. ~(n <= Len(start))
                  BY <1>1, <1>3, <2>3
            <3>3. J[n] = new[c]
                  BY <2>3, <3>2 DEF Joined
            <3> QED BY <1>1, <2>3, <3>1, <3>3
      <2> QED BY <1>1, <1>3, <2>1, <2>2, <2>3
<1>5. J = [n \in 1 .. N |-> J[n]]
      BY DEF Joined
<1>6. \A n \in 1 .. N : J[n] \in Items
      <2> SUFFICES ASSUME NEW n \in 1 .. N PROVE J[n] \in Items
            OBVIOUS
      <2>1. CASE n <= Len(start) /\ J[n] = start[n]
            BY <1>1, <2>1, ElementOfSeq
      <2>2. CASE J[n] = Gap
            BY <2>2 DEF Items
      <2>3. CASE \E i \in 1 .. Len(new) : J[n] = new[i]
            BY <2>3, ElementOfSeq
      <2> QED BY <1>4, <2>1, <2>2, <2>3
<1> HIDE DEF J
<1>7. J \in Seq(Items) /\ Len(J) = N
      <2> HIDE DEF N
      <2>1. J \in [1 .. N -> Items]
            BY <1>5, <1>6
      <2> QED BY <1>3, <2>1
<1>8. J[N] = new[Len(new)]
      <2>0. Len(new) \in DOMAIN new
            BY <1>1
      <2>1. \E i \in DOMAIN new : P(i) = N
            BY <2>0
      <2> DEFINE c == CHOOSE i \in DOMAIN new : P(i) = N
      <2>2. c \in DOMAIN new /\ P(c) = N
            BY <2>1
      <2>3. J[N] = new[c]
            BY <1>1, <1>3, <2>1 DEF Joined, J
      <2> HIDE DEF c
      <2>4. c = Len(new)
            <3>1. c \in 1 .. Len(new)
                  BY <1>1, <2>2
            <3>2. c \in Nat /\ Len(new) \in Nat
                  BY <1>1, <3>1
            <3>3. ~(c < Len(new))
                  <4> SUFFICES ASSUME c < Len(new) PROVE FALSE
                        OBVIOUS
                  <4>1. P(c) < N
                        BY <3>2, PlaceIncreases
                  <4> QED BY <4>1, <2>2, <1>3
            <3> QED BY <3>1, <3>2, <3>3
      <2> QED BY <2>3, <2>4
<1> QED BY <1>3, <1>4, <1>7, <1>8 DEF J

\* appendData gives a list whose last item is the last new record, ...
LEMMA AppendLast ==
    ASSUME NEW prev \in Seq(Items), NEW new \in Seq(Items), NEW m \in Nat \ {0}
    PROVE  LET s == appendData(prev, new, m)
           IN  /\ s \in Seq(Items)
               /\ new = <<>> => s = prev
               /\ new # <<>> => Len(s) # 0 /\ s # <<>> /\ s[Len(s)] = new[Len(new)]
<1>1. CASE new = <<>>
      BY <1>1 DEF appendData
<1>2. CASE new # <<>>
      <2> DEFINE t == Trimmed(prev, Len(new), m)
      <2>1. Len(new) \in Nat \ {0}
            BY <1>2, LenProperties, EmptySeq
      <2>2. t \in Seq(Items)
            BY <2>1, TrimmedIsSuffix
      <2> HIDE DEF t
      <2>3. /\ Joined(t, new) \in Seq(Items) /\ Len(Joined(t, new)) # 0
            /\ Joined(t, new)[Len(Joined(t, new))] = new[Len(new)]
            BY <1>2, <2>2, JoinedItems
      <2>4. appendData(prev, new, m) = Joined(t, new)
            BY <1>2 DEF appendData, t
      <2> QED BY <1>2, <2>3, <2>4, EmptySeq
<1> QED BY <1>1, <1>2

\* ... of records in their order, if all that is new comes after all that was
\* there, ...
LEMMA AppendClean ==
    ASSUME NEW prev \in Seq(Items), NEW new \in Seq(Items), NEW m \in Nat \ {0},
           NEW sys, NEW type, Clean(prev, sys, type), Clean(new, sys, type),
           \A i \in 1 .. Len(prev), j \in 1 .. Len(new) :
               prev[i] # Gap => prev[i].at < new[j].at
    PROVE  Clean(appendData(prev, new, m), sys, type)
<1>1. CASE new = <<>>
      BY <1>1 DEF appendData
<1>2. CASE new # <<>>
      <2> DEFINE t == Trimmed(prev, Len(new), m)
                 J == Joined(t, new)
      <2>1. /\ Len(new) \in Nat \ {0} /\ DOMAIN new = 1 .. Len(new)
            /\ Len(prev) \in Nat /\ DOMAIN prev = 1 .. Len(prev)
            BY <1>2, LenProperties, EmptySeq
      <2>2. /\ t \in Seq(Items) /\ Len(t) \in 0 .. Len(prev)
            /\ \A i \in 1 .. Len(t) : t[i] = prev[Len(prev) - Len(t) + i]
            BY <2>1, TrimmedIsSuffix
      <2>3. appendData(prev, new, m) = J
            BY <1>2 DEF appendData
      <2> HIDE DEF t
      <2>4. \A i, j \in 1 .. Len(t) : t[i] # Gap =>
                /\ t[i].sys = sys /\ t[i].type = type
                /\ i < j /\ t[j] # Gap => t[i].at < t[j].at
            <3> SUFFICES ASSUME NEW i \in 1 .. Len(t), NEW j \in 1 .. Len(t), t[i] # Gap
                         PROVE  /\ t[i].sys = sys /\ t[i].type = type
                                /\ i < j /\ t[j] # Gap => t[i].at < t[j].at
                  OBVIOUS
            <3>1. /\ Len(prev) - Len(t) + i \in 1 .. Len(prev)
                  /\ Len(prev) - Len(t) + j \in 1 .. Len(prev)
                  /\ i < j => Len(prev) - Len(t) + i < Len(prev) - Len(t) + j
                  BY <2>1, <2>2
            <3> QED BY <2>1, <2>2, <3>1 DEF Clean
      <2>5. \A i \in 1 .. Len(t), j \in 1 .. Len(new) : t[i] # Gap => t[i].at < new[j].at
            <3> SUFFICES ASSUME NEW i \in 1 .. Len(t), NEW j \in 1 .. Len(new), t[i] # Gap
                         PROVE  t[i].at < new[j].at
                  OBVIOUS
            <3>1. Len(prev) - Len(t) + i \in 1 .. Len(prev)
                  BY <2>1, <2>2
            <3> QED BY <2>2, <3>1
      <2>6. /\ J \in Seq(Items) /\ Len(J) = Place(t, new, Len(new))
            /\ \A n \in 1 .. Len(J) :
                  \/ n <= Len(t) /\ J[n] = t[n]
                  \/ n > Len(t) /\ J[n] = Gap
                  \/ \E i \in 1 .. Len(new) :
                        n > Len(t) /\ n = Place(t, new, i) /\ J[n] = new[i]
            BY <1>2, <2>2, JoinedItems
      <2> HIDE DEF J
      <2>7. Len(J) \in Nat /\ DOMAIN J = 1 .. Len(J)
            BY <2>6, LenProperties
      <2>8. \A i, j \in 1 .. Len(new) : Place(t, new, i) < Place(t, new, j) => i < j
            <3> SUFFICES ASSUME NEW i \in 1 .. Len(new), NEW j \in 1 .. Len(new), ~(i < j)
                         PROVE  ~(Place(t, new, i) < Place(t, new, j))
                  OBVIOUS
            <3>1. i \in Nat /\ j \in Nat
                  BY <2>1
            <3>2. Place(t, new, i) \in Nat /\ Place(t, new, j) \in Nat
                  BY <2>2, <3>1, PlaceType
            <3>3. CASE i = j
                  BY <3>2, <3>3
            <3>4. CASE j < i
                  <4>1. Place(t, new, j) < Place(t, new, i)
                        BY <2>2, <3>1, <3>4, PlaceIncreases
                  <4> QED BY <3>2, <4>1
            <3> QED BY <3>1, <3>3, <3>4
      <2>9. SUFFICES ASSUME NEW n \in 1 .. Len(J), J[n] # Gap
                     PROVE  /\ J[n].sys = sys /\ J[n].type = type
                            /\ \A k \in 1 .. Len(J) : n < k /\ J[k] # Gap => J[n].at < J[k].at
            BY <2>3, <2>7 DEF Clean
      <2>10. CASE n <= Len(t) /\ J[n] = t[n]
            <3>1. n \in 1 .. Len(t)
                  BY <2>2, <2>7, <2>10
            <3>2. ASSUME NEW k \in 1 .. Len(J), n < k, J[k] # Gap PROVE t[n].at < J[k].at
                  <4>1. CASE k <= Len(t) /\ J[k] = t[k]
                        <5>1. k \in 1 .. Len(t)
                              BY <2>2, <2>7, <4>1
                        <5> QED BY <2>4, <2>9, <2>10, <3>1, <3>2, <4>1, <5>1
                  <4>2. CASE \E i \in 1 .. Len(new) : J[k] = new[i]
                        BY <2>5, <2>9, <2>10, <3>1, <4>2
                  <4> QED BY <2>6, <3>2, <4>1, <4>2
            <3> QED BY <2>4, <2>9, <2>10, <3>1, <3>2
      <2>11. CASE n > Len(t)
            <3>0. ~(n <= Len(t))
                  BY <2>1, <2>2, <2>7, <2>11
            <3>1. PICK i \in 1 .. Len(new) : n = Place(t, new, i) /\ J[n] = new[i]
                  BY <2>6, <2>9, <3>0
            <3>2. ASSUME NEW k \in 1 .. Len(J), n < k, J[k] # Gap PROVE new[i].at < J[k].at
                  <4>1. ~(k <= Len(t))
                        BY <2>1, <2>2, <2>7, <2>11, <3>2
                  <4>2. PICK j \in 1 .. Len(new) : k = Place(t, new, j) /\ J[k] = new[j]
                        BY <2>6, <3>2, <4>1
                  <4>3. i < j
                        BY <2>8, <3>1, <3>2, <4>2
                  <4> QED BY <2>1, <2>9, <3>1, <3>2, <4>2, <4>3 DEF Clean
            <3> QED BY <2>1, <2>9, <3>1, <3>2 DEF Clean
      <2> QED BY <2>2, <2>6, <2>7, <2>10, <2>11
<1> QED BY <1>1, <1>2

-----------------------------------------------------------------------------
(* The inductive invariant.                                                *)

\* What the cache keeps for a system and a chart time: records in their order,
\* none of them from later than now, and no gap at the end, where getStats reads
\* the time from which it asks for more.
Kept(s, sys, type, t) ==
    /\ s \in Seq(Items) /\ Clean(s, sys, type)
    /\ Created(s) <= t
    /\ s # <<>> => s[Len(s)] # Gap
CacheKept == \A sys \in Systems, type \in Times : Kept(cache[<<sys, type>>], sys, type, now)

\* The hub has no records from the future.
HubPast == \A s \in Systems : hub[s] \subseteq 1 .. now

\* Requests are numbered, and the current one goes on from what is cached; unless
\* the chart has gone to "1m" it is for the system and the chart time on the page.
Numbered == \A r \in reqs : r.n <= requestId
CurrentOwned ==
    \A r \in reqs : r.n = requestId =>
        /\ r.from = Created(cache[<<r.sys, r.time>>])
        /\ chartTime # "1m" => r.sys = system /\ r.time = chartTime

\* Nothing is asked for before a system was found.
Idle == system = None => reqs = {} /\ loading

\* Only the "1m" chart subscribes.
SubLive == sub.state # "none" => chartTime = "1m"

ViewInv == /\ CacheKept /\ HubPast /\ Numbered /\ CurrentOwned /\ Idle /\ SubLive
           /\ StatsOwned /\ AxisFits

\* The part of the state that the effects change.
PageType ==
    /\ system \in Systems \cup {None} /\ chartTime \in ChartTimes
    /\ stats \in Seq(Items) /\ loading \in BOOLEAN
    /\ cache \in [Systems \X Times -> Seq(Items)]
    /\ requestId \in 0 .. MaxRequests
    /\ reqs \subseteq Requests /\ \A r, q \in reqs : r.n = q.n => r = q
    /\ sub \in Subs /\ (sub.state # "none" => sub.sys \in Systems)
    /\ leaked \subseteq [sys : Systems, first : BOOLEAN]
    /\ td \in [ct : ChartTimes, time : 0 .. MaxTime]
    /\ chart \in [ct : ChartTimes, time : 0 .. MaxTime]

LEMMA TypeParts ==
    TypeOK <=> /\ PageType
               /\ now \in 1 .. MaxTime /\ hub \in [Systems -> SUBSET (1 .. MaxTime)]
               /\ known \subseteq Systems /\ route \in Routes /\ moves \in 0 .. MaxMoves
               /\ lookups \subseteq Systems
BY DEF TypeOK, PageType, Items

\* setSystemStats and the memo of chartData: the axis reaches the last point of
\* the list that is set, cached or not.
LEMMA SetStatsStep ==
    ASSUME NEW s \in Seq(Items), NEW ct \in ChartTimes, NEW reset,
           now \in 1 .. MaxTime, PageType, AxisFits, Created(s) <= now,
           SetStats(s, ct, reset)
    PROVE  /\ stats' = s
           /\ td' \in [ct : ChartTimes, time : 0 .. MaxTime]
           /\ chart' \in [ct : ChartTimes, time : 0 .. MaxTime]
           /\ AxisFits'
<1>0. stats' = s
      BY DEF SetStats
<1>1. Created(s) \in 0 .. MaxTime /\ Created(stats') = Created(s)
      BY <1>0, CreatedType
<1>2. CASE s = stats /\ s # <<>> /\ ~reset
      <2>1. td' = td /\ chart' = chart
            BY <1>2 DEF SetStats, axis
      <2> QED BY <1>0, <1>2, <2>1 DEF PageType, AxisFits
<1>3. CASE ~(s = stats /\ s # <<>> /\ ~reset)
      <2>1. ChartData(ct, s)
            BY <1>3 DEF SetStats
      <2>2. /\ td' \in [ct : ChartTimes, time : 0 .. MaxTime]
            /\ Created(s) <= td'.time
            <3>1. td' = getTimeData(ct, Created(s))
                  BY <2>1 DEF ChartData
            <3>2. CASE td.ct = ct /\ (Created(s) = 0 \/ td.time >= Created(s))
                  BY <1>1, <3>1, <3>2, ViewAssumption DEF getTimeData, PageType
            <3>3. CASE ~(td.ct = ct /\ (Created(s) = 0 \/ td.time >= Created(s)))
                  <4>1. td' = [ct |-> ct, time |-> now]
                        BY <3>1, <3>3 DEF getTimeData
                  <4>2. now \in 0 .. MaxTime
                        BY ViewAssumption
                  <4> QED BY <4>1, <4>2
            <3> QED BY <3>2, <3>3
      <2>3. chart' = [ct |-> ct, time |-> td'.time]
            BY <2>1 DEF ChartData
      <2>4. /\ chart' \in [ct : ChartTimes, time : 0 .. MaxTime]
            /\ chart'.time = td'.time
            BY <2>2, <2>3
      <2> QED BY <1>0, <1>1, <2>2, <2>4 DEF AxisFits, Created
<1> QED BY <1>2, <1>3

\* The cleanup for the last id.
LEMMA LeaveStatsStep ==
    ASSUME NEW ct \in ChartTimes, NEW reset, now \in 1 .. MaxTime, PageType, AxisFits,
           LeaveStats(reset, ct)
    PROVE  /\ stats' \in {<<>>, stats}
           /\ td' \in [ct : ChartTimes, time : 0 .. MaxTime]
           /\ chart' \in [ct : ChartTimes, time : 0 .. MaxTime]
           /\ AxisFits'
<1>1. CASE reset
      <2>1. SetStats(<<>>, ct, TRUE)
            BY <1>1 DEF LeaveStats
      <2>2. <<>> \in Seq(Items) /\ Created(<<>>) <= now
            BY EmptySeq, ViewAssumption DEF Created
      <2> QED BY <2>1, <2>2, SetStatsStep
<1>2. CASE ~reset
      <2>1. stats' = stats /\ td' = td /\ chart' = chart
            BY <1>2 DEF LeaveStats, axis
      <2> QED BY <2>1 DEF PageType, AxisFits
<1> QED BY <1>1, <1>2

\* getStats is called: earlier requests are cancelled, the new one is current.
LEMMA FetchStep ==
    ASSUME NEW s \in Systems, NEW ct \in Times, PageType, Numbered, Fetch(s, ct),
           cache' = cache, system' = s, chartTime' = ct
    PROVE  /\ requestId' \in 0 .. MaxRequests
           /\ reqs' \subseteq Requests /\ \A r, q \in reqs' : r.n = q.n => r = q
           /\ Numbered' /\ CurrentOwned'
<1> DEFINE r0 == [n |-> requestId', sys |-> s, time |-> ct,
                  from |-> Created(cache[<<s, ct>>]), cancelled |-> FALSE]
           Old == {[r EXCEPT !.cancelled = TRUE] : r \in reqs}
<1>1. requestId' = requestId + 1 /\ requestId' \in 1 .. MaxRequests
      BY ViewAssumption DEF Fetch, PageType
<1>2. reqs' = Old \cup {r0}
      BY DEF Fetch
<1>3. r0 \in Requests
      <2>1. cache[<<s, ct>>] \in Seq(Items)
            BY DEF PageType
      <2> QED BY <1>1, <2>1, CreatedType DEF Requests
<1>4. \A q \in Old : q \in Requests /\ q.n <= requestId /\ q.n \in Nat
      <2> SUFFICES ASSUME NEW r \in reqs, NEW q, q = [r EXCEPT !.cancelled = TRUE]
                   PROVE  q \in Requests /\ q.n <= requestId /\ q.n \in Nat
            OBVIOUS
      <2>1. r \in Requests /\ r.n <= requestId
            BY DEF PageType, Numbered
      <2>2. q \in Requests /\ q.n = r.n
            BY <2>1 DEF Requests
      <2>3. r.n \in 1 .. MaxRequests
            BY <2>1 DEF Requests
      <2> QED BY <2>1, <2>2, <2>3, ViewAssumption
<1>5. \A q, r \in Old : q.n = r.n => q = r
      <2> SUFFICES ASSUME NEW q \in reqs, NEW r \in reqs,
                          [q EXCEPT !.cancelled = TRUE].n = [r EXCEPT !.cancelled = TRUE].n
                   PROVE  q = r
            OBVIOUS
      <2>1. q \in Requests /\ r \in Requests
            BY DEF PageType
      <2>2. q.n = r.n
            BY <2>1 DEF Requests
      <2> QED BY <2>2 DEF PageType
<1>6. requestId \in Nat
      BY ViewAssumption DEF PageType
<1> HIDE DEF Old
<1>7. r0.n = requestId'
      OBVIOUS
<1>8. /\ r0.from = Created(cache[<<r0.sys, r0.time>>])
      /\ r0.sys = s /\ r0.time = ct
      OBVIOUS
<1> HIDE DEF r0
<1>9. \A q \in Old : q.n # requestId' /\ q.n <= requestId'
      BY <1>1, <1>4, <1>6
<1>10. Numbered'
      BY <1>1, <1>2, <1>7, <1>9 DEF Numbered
<1>11. \A q, r \in reqs' : q.n = r.n => q = r
      BY <1>2, <1>5, <1>7, <1>9
<1>12. CurrentOwned'
      BY <1>2, <1>8, <1>9 DEF CurrentOwned
<1>13. reqs' \subseteq Requests
      BY <1>2, <1>3, <1>4
<1> QED BY <1>1, <1>10, <1>11, <1>12, <1>13, ViewAssumption

\* The effects of one commit keep the invariant; s is the system of the page once
\* it was found.
LEMMA CommitStep ==
    ASSUME NEW s \in Systems \cup {None}, NEW ct \in ChartTimes, NEW reset,
           s = None => system = None, now \in 1 .. MaxTime, PageType, ViewInv,
           UNCHANGED world, Commit(s, ct, reset)
    PROVE  PageType' /\ ViewInv'
<1>0. now' = now /\ hub' = hub /\ cache' = cache
      BY DEF world, Commit
<1>1. PICK t \in IF s # system \/ ct # chartTime THEN TimeFor(s, ct) ELSE {ct} :
          /\ system' = s /\ chartTime' = t
          /\ IF s # system \/ ct # chartTime THEN Realtime(s, t) ELSE UNCHANGED <<sub, leaked>>
          /\ StatsEffect(s, t, reset)
      BY DEF Commit
<1>2. t \in ChartTimes
      BY <1>1 DEF TimeFor
<1>3. /\ sub' \in Subs /\ (sub'.state # "none" => sub'.sys \in Systems)
      /\ leaked' \subseteq [sys : Systems, first : BOOLEAN] /\ leaked \subseteq leaked'
      /\ sub'.state # "none" => t = "1m"
      <2>1. CASE s # system \/ ct # chartTime
            <3>1. Realtime(s, t)
                  BY <1>1, <2>1
            <3>2. /\ leaked' \subseteq [sys : Systems, first : BOOLEAN] /\ leaked \subseteq leaked'
                  <4>1. CASE sub.state = "opening"
                        <5>1. leaked' = leaked \cup {[sys |-> sub.sys, first |-> TRUE]}
                              BY <3>1, <4>1 DEF Realtime
                        <5>2. sub.sys \in Systems
                              BY <4>1 DEF PageType
                        <5>3. [sys |-> sub.sys, first |-> TRUE] \in [sys : Systems, first : BOOLEAN]
                              BY <5>2
                        <5> QED BY <5>1, <5>3 DEF PageType
                  <4>2. CASE sub.state # "opening"
                        BY <3>1, <4>2 DEF Realtime, PageType
                  <4> QED BY <4>1, <4>2
            <3>3. CASE s # None /\ t = "1m"
                  BY <3>1, <3>2, <3>3 DEF Realtime, Subs
            <3>4. CASE ~(s # None /\ t = "1m")
                  BY <3>1, <3>2, <3>4 DEF Realtime, Subs, NoSub
            <3> QED BY <3>3, <3>4
      <2>2. CASE ~(s # system \/ ct # chartTime)
            BY <1>1, <2>2 DEF PageType, ViewInv, SubLive
      <2> QED BY <2>1, <2>2
<1>4. cache' \in [Systems \X Times -> Seq(Items)] /\ CacheKept' /\ HubPast'
      BY <1>0 DEF PageType, ViewInv, CacheKept, HubPast
<1>5. SUFFICES /\ stats' \in Seq(Items) /\ loading' \in BOOLEAN
               /\ requestId' \in 0 .. MaxRequests
               /\ reqs' \subseteq Requests /\ \A r, q \in reqs' : r.n = q.n => r = q
               /\ td' \in [ct : ChartTimes, time : 0 .. MaxTime]
               /\ chart' \in [ct : ChartTimes, time : 0 .. MaxTime]
               /\ Numbered' /\ CurrentOwned' /\ Idle'
               /\ StatsOwned' /\ AxisFits'
      BY <1>1, <1>2, <1>3, <1>4 DEF PageType, ViewInv, SubLive
<1>6. /\ stats \in Seq(Items) /\ loading \in BOOLEAN /\ requestId \in Nat
      /\ requestId \in 0 .. MaxRequests
      /\ reqs \subseteq Requests /\ \A r, q \in reqs : r.n = q.n => r = q
      BY ViewAssumption DEF PageType
<1>7. ASSUME stats' \in {<<>>, stats} PROVE stats' \in Seq(Items)
      BY <1>6, <1>7, EmptySeq
<1>8. CASE /\ s = None \/ t = "1m"
           /\ LeaveStats(reset, t)
           /\ UNCHANGED <<loading, requestId, reqs>>
      <2>1. /\ stats' \in {<<>>, stats} /\ AxisFits'
            /\ td' \in [ct : ChartTimes, time : 0 .. MaxTime]
            /\ chart' \in [ct : ChartTimes, time : 0 .. MaxTime]
            BY <1>2, <1>8, LeaveStatsStep DEF ViewInv
      <2>2. s = None => reqs = {} /\ loading
            BY DEF ViewInv, Idle
      <2>3. Idle'
            BY <1>1, <1>8, <2>2 DEF Idle
      <2>4. Numbered' /\ CurrentOwned'
            BY <1>0, <1>1, <1>8, <2>2 DEF ViewInv, Numbered, CurrentOwned
      <2>5. StatsOwned'
            BY <1>1, <1>8, <2>2 DEF StatsOwned
      <2> QED BY <1>6, <1>7, <1>8, <2>1, <2>3, <2>4, <2>5
<1>9. CASE /\ s # None /\ t # "1m" /\ cache[<<s, t>>] # <<>>
           /\ SetStats(cache[<<s, t>>], t, reset) /\ loading' = FALSE
           /\ IF Created(cache[<<s, t>>]) = now
              THEN requestId < MaxRequests /\ requestId' = requestId + 1 /\ UNCHANGED reqs
              ELSE Fetch(s, t)
      <2>1. s \in Systems /\ t \in Times
            BY <1>2, <1>9 DEF ChartTimes
      <2> DEFINE c == cache[<<s, t>>]
      <2>2. Kept(c, s, t, now)
            BY <2>1 DEF ViewInv, CacheKept
      <2>3. /\ stats' = c /\ AxisFits'
            /\ td' \in [ct : ChartTimes, time : 0 .. MaxTime]
            /\ chart' \in [ct : ChartTimes, time : 0 .. MaxTime]
            BY <1>2, <1>9, <2>2, SetStatsStep DEF Kept, ViewInv
      <2> HIDE DEF c
      <2>4. StatsOwned'
            BY <1>1, <2>2, <2>3 DEF StatsOwned, Kept, Clean
      <2>5. Idle'
            BY <1>1, <1>9 DEF Idle
      <2>6. CASE Created(cache[<<s, t>>]) = now
            <3>1. requestId < MaxRequests /\ requestId' = requestId + 1 /\ reqs' = reqs
                  BY <1>9, <2>6
            <3>2. requestId' \in 0 .. MaxRequests
                  BY <1>6, <3>1, ViewAssumption
            <3>3. ASSUME NEW r \in reqs PROVE r.n <= requestId' /\ r.n # requestId'
                  <4>1. r.n \in 1 .. MaxRequests /\ r.n <= requestId
                        BY <1>6 DEF Requests, ViewInv, Numbered
                  <4> QED BY <1>6, <3>1, <4>1, ViewAssumption
            <3>4. Numbered' /\ CurrentOwned'
                  BY <3>1, <3>3 DEF Numbered, CurrentOwned
            <3> QED BY <1>6, <1>9, <2>2, <2>3, <2>4, <2>5, <3>1, <3>2, <3>4 DEF Kept
      <2>7. CASE Created(cache[<<s, t>>]) # now
            <3>1. Fetch(s, t)
                  BY <1>9, <2>7
            <3>2. /\ requestId' \in 0 .. MaxRequests
                  /\ reqs' \subseteq Requests /\ \A r, q \in reqs' : r.n = q.n => r = q
                  /\ Numbered' /\ CurrentOwned'
                  BY <1>0, <1>1, <2>1, <3>1, FetchStep DEF ViewInv
            <3> QED BY <1>9, <2>2, <2>3, <2>4, <2>5, <3>2 DEF Kept
      <2> QED BY <2>6, <2>7
<1>10. CASE /\ s # None /\ t # "1m" /\ cache[<<s, t>>] = <<>>
            /\ LeaveStats(reset, t) /\ loading' = TRUE
            /\ Fetch(s, t)
      <2>1. s \in Systems /\ t \in Times
            BY <1>2, <1>10 DEF ChartTimes
      <2>2. /\ stats' \in {<<>>, stats} /\ AxisFits'
            /\ td' \in [ct : ChartTimes, time : 0 .. MaxTime]
            /\ chart' \in [ct : ChartTimes, time : 0 .. MaxTime]
            BY <1>2, <1>10, LeaveStatsStep DEF ViewInv
      <2>3. /\ requestId' \in 0 .. MaxRequests
            /\ reqs' \subseteq Requests /\ \A r, q \in reqs' : r.n = q.n => r = q
            /\ Numbered' /\ CurrentOwned'
            BY <1>0, <1>1, <1>10, <2>1, FetchStep DEF ViewInv
      <2>4. Idle' /\ StatsOwned'
            BY <1>1, <1>10 DEF Idle, StatsOwned
      <2> QED BY <1>7, <1>10, <2>2, <2>3, <2>4
<1> QED BY <1>1, <1>8, <1>9, <1>10 DEF StatsEffect

\* A commit without a new object of the system.
LEMMA SettleStep ==
    ASSUME NEW ct \in ChartTimes, NEW reset, now \in 1 .. MaxTime, PageType, ViewInv,
           UNCHANGED world, Settle(ct, reset)
    PROVE  PageType' /\ ViewInv'
<1>1. CASE ct # chartTime /\ Commit(system, ct, reset)
      <2>1. system \in Systems \cup {None}
            BY DEF PageType
      <2> QED BY <1>1, <2>1, CommitStep
<1>2. CASE /\ LeaveStats(reset, ct)
           /\ UNCHANGED <<system, chartTime, loading, cache, requestId, reqs, sub, leaked>>
      <2>0. /\ system' = system /\ chartTime' = chartTime /\ loading' = loading
            /\ cache' = cache /\ requestId' = requestId /\ reqs' = reqs /\ sub' = sub
            /\ leaked' = leaked /\ now' = now /\ hub' = hub
            BY <1>2 DEF world
      <2>1. /\ stats' \in {<<>>, stats} /\ AxisFits'
            /\ td' \in [ct : ChartTimes, time : 0 .. MaxTime]
            /\ chart' \in [ct : ChartTimes, time : 0 .. MaxTime]
            BY <1>2, LeaveStatsStep DEF ViewInv
      <2>2. stats' \in Seq(Items) /\ StatsOwned'
            <3>1. CASE stats' = <<>>
                  BY <3>1, EmptySeq DEF StatsOwned
            <3>2. CASE stats' = stats
                  BY <2>0, <3>2 DEF PageType, ViewInv, StatsOwned
            <3> QED BY <2>1, <3>1, <3>2
      <2>3. PageType'
            BY <2>0, <2>1, <2>2 DEF PageType
      <2>4. CacheKept' /\ HubPast' /\ Numbered' /\ CurrentOwned' /\ Idle' /\ SubLive'
            BY <2>0 DEF ViewInv, CacheKept, HubPast, Numbered, CurrentOwned, Idle, SubLive
      <2> QED BY <2>1, <2>2, <2>3, <2>4 DEF ViewInv
<1> QED BY <1>1, <1>2 DEF Settle

\* "find matching system".
LEMMA FindSystemStep ==
    ASSUME NEW r \in Routes, NEW stores, NEW ct \in ChartTimes, NEW reset,
           now \in 1 .. MaxTime, PageType, ViewInv, lookups \subseteq Systems,
           UNCHANGED world, FindSystem(r, stores, ct, reset)
    PROVE  PageType' /\ ViewInv' /\ lookups' \subseteq Systems
<1>1. r.sys \in Systems /\ r.sys # None
      BY ViewAssumption DEF Routes
<1>2. CASE r.sys \in stores /\ Commit(r.sys, ct, reset) /\ UNCHANGED lookups
      BY <1>1, <1>2, CommitStep
<1>3. CASE Settle(ct, reset) /\ UNCHANGED lookups
      BY <1>3, SettleStep
<1>4. CASE /\ lookups' = IF r.by = "id" THEN lookups \cup {r.sys} ELSE lookups
           /\ Settle(ct, reset)
      <2>1. lookups' \subseteq Systems
            BY <1>1, <1>4
      <2> QED BY <1>4, <2>1, SettleStep
<1> QED BY <1>2, <1>3, <1>4 DEF FindSystem

\* What the hub answers: the records of the system from after the last cached one,
\* sorted by created.
LEMMA AnswersSince ==
    ASSUME NEW r \in Requests, NEW recs \in Answers(r), now \in 1 .. MaxTime,
           hub \in [Systems -> SUBSET (1 .. MaxTime)], HubPast
    PROVE  /\ recs \in Seq(Items) /\ Clean(recs, r.sys, r.time)
           /\ \A i \in 1 .. Len(recs) : recs[i] \in Points /\ r.from < recs[i].at /\ recs[i].at <= now
<1> DEFINE S == Since(r)
           n == Cardinality(S)
<1>1. r.sys \in Systems /\ r.time \in Times /\ r.from \in 0 .. MaxTime
      BY DEF Requests
<1>2. S \in SUBSET (1 .. MaxTime) /\ \A t \in S : r.from < t /\ t <= now
      BY <1>1, ViewAssumption DEF Since, HubPast
<1>3. n \in Nat
      <2>1. IsFiniteSet(1 .. MaxTime)
            BY FS_Interval, ViewAssumption
      <2>2. IsFiniteSet(S)
            BY <1>2, <2>1, FS_Subset
      <2> QED BY <2>2, FS_CardinalityType
<1>4. PICK ts \in [1 .. n -> S] :
          /\ \A i, j \in DOMAIN ts : i < j => ts[i] < ts[j]
          /\ recs = [i \in DOMAIN ts |-> [sys |-> r.sys, type |-> r.time, at |-> ts[i]]]
      BY DEF Answers
<1> HIDE DEF n, S
<1>5. /\ DOMAIN ts = 1 .. n
      /\ \A i \in 1 .. n : /\ ts[i] \in 1 .. MaxTime /\ r.from < ts[i] /\ ts[i] <= now
                           /\ recs[i] = [sys |-> r.sys, type |-> r.time, at |-> ts[i]]
      BY <1>2, <1>4
<1>6. \A i \in 1 .. n : /\ recs[i] \in Points /\ recs[i].at = ts[i]
                        /\ recs[i].sys = r.sys /\ recs[i].type = r.time
      <2> SUFFICES ASSUME NEW i \in 1 .. n
                   PROVE  /\ recs[i] \in Points /\ recs[i].at = ts[i]
                          /\ recs[i].sys = r.sys /\ recs[i].type = r.time
            OBVIOUS
      <2>1. ts[i] \in 1 .. MaxTime /\ recs[i] = [sys |-> r.sys, type |-> r.time, at |-> ts[i]]
            BY <1>5
      <2>2. r.time \in ChartTimes
            BY <1>1 DEF ChartTimes
      <2> QED BY <1>1, <2>1, <2>2 DEF Points
<1>7. recs \in Seq(Items) /\ Len(recs) = n /\ DOMAIN recs = 1 .. n
      <2>1. recs \in [1 .. n -> Items]
            BY <1>4, <1>5, <1>6 DEF Items
      <2> QED BY <1>3, <2>1
<1>8. Clean(recs, r.sys, r.time)
      BY <1>4, <1>5, <1>6, <1>7 DEF Clean
<1> QED BY <1>5, <1>6, <1>7, <1>8

\* An answer to the current request continues what is cached.
LEMMA AnswerKept ==
    ASSUME NEW r \in Requests, NEW recs \in Answers(r), now \in 1 .. MaxTime,
           hub \in [Systems -> SUBSET (1 .. MaxTime)], HubPast,
           NEW old, Kept(old, r.sys, r.time, now), r.from = Created(old)
    PROVE  Kept(appendData(old, recs, MaxLen), r.sys, r.time, now)
<1> DEFINE new == appendData(old, recs, MaxLen)
<1>1. /\ recs \in Seq(Items) /\ Clean(recs, r.sys, r.time)
      /\ \A i \in 1 .. Len(recs) : recs[i] \in Points /\ r.from < recs[i].at /\ recs[i].at <= now
      BY AnswersSince
<1>2. /\ old \in Seq(Items) /\ Clean(old, r.sys, r.time) /\ Created(old) <= now
      /\ old # <<>> => old[Len(old)] # Gap
      BY DEF Kept
<1>3. MaxLen \in Nat \ {0}
      BY ViewAssumption
<1>4. /\ new \in Seq(Items)
      /\ recs = <<>> => new = old
      /\ recs # <<>> => new # <<>> /\ new[Len(new)] = recs[Len(recs)]
      BY <1>1, <1>2, <1>3, AppendLast
<1>5. ASSUME NEW i \in 1 .. Len(old), NEW j \in 1 .. Len(recs), old[i] # Gap
      PROVE  old[i].at < recs[j].at
      <2>1. Len(old) \in Nat /\ DOMAIN old = 1 .. Len(old) /\ Len(old) \in 1 .. Len(old)
            BY <1>2, LenProperties
      <2>2. old # <<>>
            BY <2>1, EmptySeq
      <2>3. Created(old) = old[Len(old)].at /\ old[Len(old)] # Gap
            BY <1>2, <2>2, CreatedType
      <2>4. old[i].at <= Created(old)
            <3>1. CASE i = Len(old)
                  BY <1>2, <2>3, <3>1, CreatedType, ViewAssumption
            <3>2. CASE i < Len(old)
                  <4>1. old[i].at < old[Len(old)].at
                        BY <1>2, <1>5, <2>1, <2>3, <3>2 DEF Clean
                  <4>2. old[i] \in Items
                        BY <1>2, ElementOfSeq
                  <4>3. old[i].at \in Nat /\ Created(old) \in Nat
                        BY <4>2, <1>2, CreatedType, ViewAssumption DEF Items, Points, Gap
                  <4> QED BY <4>1, <4>3, <2>3
            <3> QED BY <2>1, <3>1, <3>2
      <2>5. old[i] \in Items /\ recs[j] \in Items
            BY <1>1, <1>2, ElementOfSeq
      <2>6. old[i].at \in Nat /\ recs[j].at \in Nat /\ Created(old) \in Nat
            BY <1>2, <2>5, CreatedType, ViewAssumption DEF Items, Points, Gap
      <2> QED BY <1>1, <2>4, <2>6
<1>6. Clean(new, r.sys, r.time)
      BY <1>1, <1>2, <1>3, <1>5, AppendClean
<1> HIDE DEF new
<1>7. Created(new) <= now /\ (new # <<>> => new[Len(new)] # Gap)
      <2>1. CASE recs = <<>>
            BY <1>2, <1>4, <2>1
      <2>2. CASE recs # <<>>
            <3>1. Len(recs) \in 1 .. Len(recs)
                  BY <1>1, <2>2, CreatedType
            <3>2. Created(new) = recs[Len(recs)].at
                  BY <1>4, <2>2, CreatedType
            <3> QED BY <1>1, <1>4, <2>2, <3>1, <3>2, GapIsNoPoint
      <2> QED BY <2>1, <2>2
<1> QED BY <1>4, <1>6, <1>7 DEF Kept, new

\* getStats' promise settles: only the current answer is used, for its own system
\* and chart time.
LEMMA StatsAnswerStep ==
    ASSUME TypeOK, ViewInv, NEW r \in reqs, StatsAnswer(r)
    PROVE  PageType' /\ ViewInv'
<1>0. /\ now' = now /\ hub' = hub /\ system' = system /\ chartTime' = chartTime
      /\ requestId' = requestId /\ sub' = sub /\ leaked' = leaked /\ reqs' = reqs \ {r}
      BY DEF StatsAnswer, world, shown
<1>1. /\ PageType /\ now \in 1 .. MaxTime /\ hub \in [Systems -> SUBSET (1 .. MaxTime)]
      BY TypeParts
<1>2. /\ r \in Requests /\ r.sys \in Systems /\ r.time \in Times
      /\ reqs' \subseteq Requests /\ \A p, q \in reqs' : p.n = q.n => p = q
      /\ system # None /\ Numbered' /\ Idle' /\ HubPast' /\ SubLive'
      BY <1>0, <1>1 DEF PageType, Requests, ViewInv, Idle, Numbered, HubPast, SubLive
<1>3. PICK ok \in BOOLEAN, recs \in Answers(r) :
          IF Current(r)
          THEN LET old == cache[<<r.sys, r.time>>]
                   new == IF ok THEN appendData(old, recs, MaxLen) ELSE old
               IN  /\ loading' = Loaded(ok)
                   /\ cache' = [cache EXCEPT ![<<r.sys, r.time>>] = new]
                   /\ SetStats(new, chartTime, FALSE)
          ELSE UNCHANGED <<loading, cache, stats, axis>>
      BY DEF StatsAnswer
<1>4. CASE Current(r)
      <2> DEFINE old == cache[<<r.sys, r.time>>]
                 new == IF ok THEN appendData(old, recs, MaxLen) ELSE old
      <2>1. /\ loading' = FALSE /\ cache' = [cache EXCEPT ![<<r.sys, r.time>>] = new]
            /\ SetStats(new, chartTime, FALSE)
            BY <1>3, <1>4 DEF Loaded
      <2>2. Kept(old, r.sys, r.time, now) /\ r.from = Created(old)
            BY <1>2, <1>4 DEF Current, ViewInv, CacheKept, CurrentOwned
      <2> HIDE DEF old
      <2>3. Kept(new, r.sys, r.time, now)
            <3>1. CASE ok
                  <4>1. Kept(appendData(old, recs, MaxLen), r.sys, r.time, now)
                        BY <1>1, <1>2, <2>2, AnswerKept DEF ViewInv
                  <4> QED BY <3>1, <4>1
            <3>2. CASE ~ok
                  BY <2>2, <3>2
            <3> QED BY <3>1, <3>2
      <2> HIDE DEF new
      <2>4. new \in Seq(Items) /\ Clean(new, r.sys, r.time) /\ Created(new) <= now
            BY <2>3 DEF Kept
      <2>5. /\ stats' = new /\ AxisFits'
            /\ td' \in [ct : ChartTimes, time : 0 .. MaxTime]
            /\ chart' \in [ct : ChartTimes, time : 0 .. MaxTime]
            <3>1. chartTime \in ChartTimes
                  BY <1>1 DEF PageType
            <3> QED BY <1>1, <2>1, <2>4, <3>1, SetStatsStep DEF ViewInv
      <2>6. /\ cache' \in [Systems \X Times -> Seq(Items)]
            /\ cache'[<<r.sys, r.time>>] = new
            /\ \A s \in Systems, t \in Times :
                  s # r.sys \/ t # r.time => cache'[<<s, t>>] = cache[<<s, t>>]
            BY <1>1, <1>2, <2>1, <2>4 DEF PageType
      <2>7. CacheKept'
            <3> SUFFICES ASSUME NEW s \in Systems, NEW t \in Times
                         PROVE  Kept(cache'[<<s, t>>], s, t, now')
                  BY DEF CacheKept, Kept, Clean, Created
            <3>1. CASE s = r.sys /\ t = r.time
                  BY <1>0, <2>3, <2>6, <3>1
            <3>2. CASE s # r.sys \/ t # r.time
                  BY <1>0, <2>6, <3>2 DEF ViewInv, CacheKept
            <3> QED BY <3>1, <3>2
      <2>8. CurrentOwned'
            <3>1. \A q \in reqs' : q.n # requestId'
                  BY <1>0, <1>1, <1>4 DEF PageType, Current
            <3> QED BY <3>1 DEF CurrentOwned
      <2>9. StatsOwned'
            <3>1. chartTime # "1m" => r.sys = system /\ r.time = chartTime
                  BY <1>4 DEF Current, ViewInv, CurrentOwned
            <3> QED BY <1>0, <2>4, <2>5, <3>1 DEF StatsOwned, Clean
      <2>10. PageType'
            BY <1>0, <1>1, <1>2, <2>1, <2>4, <2>5, <2>6 DEF PageType
      <2> QED BY <1>2, <2>5, <2>7, <2>8, <2>9, <2>10 DEF ViewInv
<1>5. CASE ~Current(r)
      <2>1. loading' = loading /\ cache' = cache /\ stats' = stats /\ td' = td /\ chart' = chart
            BY <1>3, <1>5 DEF axis
      <2>2. PageType'
            BY <1>0, <1>1, <1>2, <2>1 DEF PageType
      <2>3. CacheKept' /\ CurrentOwned' /\ StatsOwned' /\ AxisFits'
            BY <1>0, <2>1
               DEF ViewInv, CacheKept, CurrentOwned, StatsOwned, AxisFits
      <2> QED BY <1>2, <2>2, <2>3 DEF ViewInv
<1> QED BY <1>4, <1>5

\* The callback of a subscription: the list that it sets ends with the point that
\* came now.
LEMMA ReceivedStep ==
    ASSUME TypeOK, ViewInv, NEW s \in Systems, NEW first \in BOOLEAN, Received(s, first)
    PROVE  /\ now' = now /\ hub' = hub /\ system' = system /\ chartTime' = chartTime
           /\ loading' = loading /\ cache' = cache /\ requestId' = requestId /\ reqs' = reqs
           /\ stats' \in Seq(Items) /\ AxisFits'
           /\ td' \in [ct : ChartTimes, time : 0 .. MaxTime]
           /\ chart' \in [ct : ChartTimes, time : 0 .. MaxTime]
<1> DEFINE x == [sys |-> s, type |-> "1m", at |-> now]
           new == IF first THEN <<x>> ELSE appendData(stats, <<x>>, MaxLive)
<1>0. /\ now' = now /\ hub' = hub /\ system' = system /\ chartTime' = chartTime
      /\ loading' = loading /\ cache' = cache /\ requestId' = requestId /\ reqs' = reqs
      BY DEF Received, world, shown
<1>1. SetStats(new, chartTime, FALSE)
      BY DEF Received
<1>2. PageType /\ now \in 1 .. MaxTime /\ stats \in Seq(Items) /\ chartTime \in ChartTimes
      BY TypeParts DEF PageType
<1>3. x \in Points /\ x.at = now
      BY <1>2 DEF Points, ChartTimes
<1> HIDE DEF x
<1>4. <<x>> \in Seq(Items) /\ Len(<<x>>) = 1 /\ <<x>> # <<>> /\ <<x>>[Len(<<x>>)] = x
      BY <1>3 DEF Items
<1>5. MaxLive \in Nat \ {0}
      BY ViewAssumption
<1>6. /\ new \in Seq(Items) /\ Created(new) = now
      <2>1. CASE first
            BY <1>3, <1>4, <1>5, <2>1 DEF Created
      <2>2. CASE ~first
            <3> DEFINE a == appendData(stats, <<x>>, MaxLive)
            <3>1. a \in Seq(Items) /\ a # <<>> /\ a[Len(a)] = x
                  BY <1>2, <1>4, <1>5, AppendLast
            <3> HIDE DEF a
            <3>2. Created(a) = now
                  BY <1>3, <3>1, CreatedType
            <3> QED BY <2>2, <3>1, <3>2 DEF a
      <2> QED BY <2>1, <2>2
<1> HIDE DEF new
<1>7. /\ stats' = new /\ AxisFits'
      /\ td' \in [ct : ChartTimes, time : 0 .. MaxTime]
      /\ chart' \in [ct : ChartTimes, time : 0 .. MaxTime]
      <2>1. Created(new) <= now
            BY <1>2, <1>6, ViewAssumption
      <2> QED BY <1>1, <1>2, <1>6, <2>1, SetStatsStep DEF ViewInv
<1> QED BY <1>0, <1>6, <1>7

\* A message of the subscription of the page, or of one that was left behind.
LEMMA MessageStep ==
    ASSUME TypeOK, ViewInv, Message
    PROVE  PageType' /\ ViewInv' /\ UNCHANGED <<world, place, lookups>>
<1>1. PageType
      BY TypeParts
<1>2. CASE /\ sub.state = "open" /\ Received(sub.sys, sub.first)
           /\ sub' = [sub EXCEPT !.first = FALSE]
           /\ UNCHANGED leaked
      <2>1. sub.sys \in Systems /\ sub.first \in BOOLEAN /\ chartTime = "1m"
            BY <1>1, <1>2 DEF PageType, Subs, ViewInv, SubLive
      <2>2. /\ now' = now /\ hub' = hub /\ system' = system /\ chartTime' = chartTime
            /\ loading' = loading /\ cache' = cache /\ requestId' = requestId /\ reqs' = reqs
            /\ stats' \in Seq(Items) /\ AxisFits'
            /\ td' \in [ct : ChartTimes, time : 0 .. MaxTime]
            /\ chart' \in [ct : ChartTimes, time : 0 .. MaxTime]
            BY <1>2, <2>1, ReceivedStep
      <2>3. sub' \in Subs /\ sub'.state = sub.state /\ sub'.sys = sub.sys
            BY <1>1, <1>2 DEF PageType, Subs
      <2>4. PageType'
            BY <1>1, <1>2, <2>2, <2>3 DEF PageType
      <2>5. /\ CacheKept' /\ HubPast' /\ Numbered' /\ CurrentOwned' /\ Idle' /\ SubLive'
            /\ StatsOwned'
            BY <2>1, <2>2, <2>3 DEF ViewInv, CacheKept, HubPast, Numbered, CurrentOwned, Idle,
               SubLive, StatsOwned
      <2> QED BY <1>2, <2>2, <2>4, <2>5 DEF ViewInv, Received, shown, world, place
<1>3. ASSUME NEW l \in leaked, Received(l.sys, l.first),
             leaked' = (leaked \ {l}) \cup {[l EXCEPT !.first = FALSE]}, UNCHANGED sub
      PROVE  PageType' /\ ViewInv' /\ UNCHANGED <<world, place, lookups>>
      <2>1. l \in [sys : Systems, first : BOOLEAN]
            BY <1>1 DEF PageType
      <2>2. /\ now' = now /\ hub' = hub /\ system' = system /\ chartTime' = chartTime
            /\ loading' = loading /\ cache' = cache /\ requestId' = requestId /\ reqs' = reqs
            /\ stats' \in Seq(Items) /\ AxisFits'
            /\ td' \in [ct : ChartTimes, time : 0 .. MaxTime]
            /\ chart' \in [ct : ChartTimes, time : 0 .. MaxTime]
            BY <1>3, <2>1, ReceivedStep
      <2>3. [l EXCEPT !.first = FALSE] \in [sys : Systems, first : BOOLEAN]
            BY <2>1
      <2>4. leaked' \subseteq [sys : Systems, first : BOOLEAN] /\ leaked' # {}
            BY <1>1, <1>3, <2>3 DEF PageType
      <2>5. PageType'
            BY <1>1, <1>3, <2>2, <2>4 DEF PageType
      <2>6. /\ CacheKept' /\ HubPast' /\ Numbered' /\ CurrentOwned' /\ Idle' /\ SubLive'
            /\ StatsOwned'
            BY <1>3, <2>2, <2>4 DEF ViewInv, CacheKept, HubPast, Numbered, CurrentOwned, Idle,
               SubLive, StatsOwned
      <2> QED BY <1>3, <2>2, <2>5, <2>6 DEF ViewInv, Received, shown, world, place
<1> QED BY <1>2, <1>3 DEF Message

\* Every step keeps the invariant.
LEMMA ViewStep ==
    ASSUME TypeOK, ViewInv, [Next]_vars
    PROVE  TypeOK' /\ ViewInv'
<1>0. /\ PageType /\ now \in 1 .. MaxTime /\ hub \in [Systems -> SUBSET (1 .. MaxTime)]
      /\ known \subseteq Systems /\ route \in Routes /\ moves \in 0 .. MaxMoves
      /\ lookups \subseteq Systems
      BY TypeParts
<1>1. chartTime \in ChartTimes /\ Default \in ChartTimes
      BY <1>0, ViewAssumption DEF PageType, ChartTimes
<1>2. \A r \in Routes : r.sys \in Systems /\ r.sys # None
      BY ViewAssumption DEF Routes
<1>3. ASSUME Move PROVE moves' \in 0 .. MaxMoves
      BY <1>0, <1>3, ViewAssumption DEF Move
<1>4. SUFFICES /\ PageType' /\ ViewInv'
               /\ now' \in 1 .. MaxTime /\ hub' \in [Systems -> SUBSET (1 .. MaxTime)]
               /\ known' \subseteq Systems /\ route' \in Routes /\ moves' \in 0 .. MaxMoves
               /\ lookups' \subseteq Systems
      BY DEF TypeOK, PageType, Items
<1>5. CASE Open
      <2>1. UNCHANGED world /\ UNCHANGED <<known, route>> /\ Move
            BY <1>5 DEF Open
      <2>2. PageType' /\ ViewInv' /\ lookups' \subseteq Systems
            BY <1>0, <1>1, <1>5, <2>1, FindSystemStep DEF Open
      <2> QED BY <1>0, <1>3, <2>1, <2>2 DEF world
<1>6. ASSUME NEW r \in Routes, NEW keep \in BOOLEAN, ChangeRoute(r, keep), Move,
             UNCHANGED world, UNCHANGED known
      PROVE  /\ PageType' /\ ViewInv'
             /\ now' \in 1 .. MaxTime /\ hub' \in [Systems -> SUBSET (1 .. MaxTime)]
             /\ known' \subseteq Systems /\ route' \in Routes /\ moves' \in 0 .. MaxMoves
             /\ lookups' \subseteq Systems
      <2>1. route' = r /\ FindSystem(r, known, IF keep THEN chartTime ELSE Default, TRUE)
            BY <1>6 DEF ChangeRoute
      <2>2. (IF keep THEN chartTime ELSE Default) \in ChartTimes
            BY <1>1
      <2>3. PageType' /\ ViewInv' /\ lookups' \subseteq Systems
            BY <1>0, <1>6, <2>1, <2>2, FindSystemStep
      <2> QED BY <1>0, <1>3, <1>6, <2>1, <2>3 DEF world
<1>7. CASE \E r \in Routes : Navigate(r) \/ ArrowKey(r)
      <2>1. PICK r \in Routes : Navigate(r) \/ ArrowKey(r)
            BY <1>7
      <2>2. CASE Navigate(r)
            <3>1. ChangeRoute(r, FALSE) /\ Move /\ UNCHANGED world /\ UNCHANGED known
                  BY <2>2 DEF Navigate
            <3> QED BY <1>6, <3>1
      <2>3. CASE ArrowKey(r)
            <3>1. ChangeRoute(r, TRUE) /\ Move /\ UNCHANGED world /\ UNCHANGED known
                  BY <2>3 DEF ArrowKey
            <3> QED BY <1>6, <3>1
      <2> QED BY <2>1, <2>2, <2>3
<1>8. CASE \E ct \in ChartTimes : SelectTime(ct)
      <2>1. PICK ct \in ChartTimes : SelectTime(ct)
            BY <1>8
      <2>2. /\ Commit(system, ct, FALSE) /\ Move /\ UNCHANGED world
            /\ known' = known /\ route' = route /\ lookups' = lookups
            BY <2>1 DEF SelectTime
      <2>3. system \in Systems \cup {None}
            BY <1>0 DEF PageType
      <2>4. PageType' /\ ViewInv'
            BY <1>0, <2>2, <2>3, CommitStep
      <2> QED BY <1>0, <1>3, <2>2, <2>4 DEF world
<1>9. CASE \E s \in lookups : LookupAnswer(s)
      <2>1. PICK s \in lookups : LookupAnswer(s)
            BY <1>9
      <2>2. /\ lookups' = lookups \ {s} /\ UNCHANGED world
            /\ known' = known /\ route' = route /\ moves' = moves
            BY <2>1 DEF LookupAnswer, place
      <2>3. s \in Systems /\ s # None
            BY <1>0, ViewAssumption
      <2>4. PageType' /\ ViewInv'
            <3>1. CASE Commit(s, chartTime, FALSE)
                  BY <1>0, <1>1, <2>2, <2>3, <3>1, CommitStep
            <3>2. CASE UNCHANGED <<system, chartTime, data, sub, leaked, axis>>
                  <4>1. /\ PageType'
                        BY <1>0, <3>2 DEF PageType, data, axis
                  <4>2. /\ CacheKept' /\ HubPast' /\ Numbered' /\ CurrentOwned' /\ Idle'
                        /\ SubLive' /\ StatsOwned' /\ AxisFits'
                        BY <2>2, <3>2 DEF ViewInv, CacheKept, HubPast, Numbered, CurrentOwned,
                           Idle, SubLive, StatsOwned, AxisFits, world, data, axis
                  <4> QED BY <4>1, <4>2 DEF ViewInv
            <3> QED BY <2>1, <3>1, <3>2 DEF LookupAnswer
      <2> QED BY <1>0, <2>2, <2>4 DEF world
<1>10. CASE \E r \in reqs : StatsAnswer(r)
      <2>1. PICK r \in reqs : StatsAnswer(r)
            BY <1>10
      <2>2. PageType' /\ ViewInv'
            BY <2>1, StatsAnswerStep
      <2>3. UNCHANGED <<world, place, shown>>
            BY <2>1 DEF StatsAnswer
      <2> QED BY <1>0, <2>2, <2>3 DEF world, place, shown
<1>11. CASE Subscribed
      <2>1. /\ sub.state = "opening" /\ sub' = [sub EXCEPT !.state = "open"]
            /\ UNCHANGED <<world, place, shown, chartTime, data, leaked, axis>>
            BY <1>11 DEF Subscribed
      <2>2. sub' \in Subs /\ sub'.sys = sub.sys
            BY <1>0, <2>1 DEF PageType, Subs
      <2>3. PageType'
            BY <1>0, <2>1, <2>2 DEF PageType, shown, data, axis
      <2>4. SubLive'
            BY <2>1 DEF ViewInv, SubLive
      <2>5. /\ CacheKept' /\ HubPast' /\ Numbered' /\ CurrentOwned' /\ Idle'
            /\ StatsOwned' /\ AxisFits'
            BY <2>1 DEF ViewInv, CacheKept, HubPast, Numbered, CurrentOwned, Idle,
               StatsOwned, AxisFits, world, shown, data, axis
      <2> QED BY <1>0, <2>1, <2>3, <2>4, <2>5 DEF ViewInv, world, place, shown
<1>12. CASE Message
      <2>1. PageType' /\ ViewInv' /\ UNCHANGED <<world, place, lookups>>
            BY <1>12, MessageStep
      <2> QED BY <1>0, <2>1 DEF world, place
<1>13. CASE StoreUpdate
      <2>1. Commit(route.sys, chartTime, FALSE) /\ UNCHANGED world /\ UNCHANGED <<place, lookups>>
            BY <1>13 DEF StoreUpdate
      <2>2. PageType' /\ ViewInv'
            BY <1>0, <1>1, <1>2, <2>1, CommitStep
      <2> QED BY <1>0, <2>1, <2>2 DEF world, place
<1>14. CASE \E k \in SUBSET Systems : StoreResize(k)
      <2>1. PICK k \in SUBSET Systems : StoreResize(k)
            BY <1>14
      <2>2. /\ Move /\ known' = k /\ FindSystem(route, k, chartTime, FALSE)
            /\ UNCHANGED world /\ route' = route
            BY <2>1 DEF StoreResize
      <2>3. PageType' /\ ViewInv' /\ lookups' \subseteq Systems
            BY <1>0, <1>1, <2>2, FindSystemStep
      <2> QED BY <1>0, <1>3, <2>2, <2>3 DEF world
<1>15. CASE \E made \in SUBSET Systems : Tick(made)
      <2>1. PICK made \in SUBSET Systems : Tick(made)
            BY <1>15
      <2>2. /\ now' = now + 1 /\ now' \in 1 .. MaxTime
            /\ hub' = [s \in Systems |-> IF s \in made THEN hub[s] \cup {now'} ELSE hub[s]]
            /\ UNCHANGED <<place, shown, chartTime, data, sub, leaked, axis>>
            BY <1>0, <2>1, ViewAssumption DEF Tick
      <2>3. hub' \in [Systems -> SUBSET (1 .. MaxTime)]
            BY <1>0, <2>2
      <2>4. HubPast'
            <3> SUFFICES ASSUME NEW s \in Systems, NEW t \in hub'[s] PROVE t \in 1 .. now'
                  BY DEF HubPast
            <3>1. t \in hub[s] \/ t = now'
                  BY <2>2
            <3>2. hub[s] \subseteq 1 .. now
                  BY DEF ViewInv, HubPast
            <3> QED BY <1>0, <2>2, <3>1, <3>2
      <2>5. CacheKept'
            <3> SUFFICES ASSUME NEW s \in Systems, NEW t \in Times
                         PROVE  Kept(cache[<<s, t>>], s, t, now')
                  BY <2>2 DEF CacheKept, data
            <3>1. Kept(cache[<<s, t>>], s, t, now)
                  BY DEF ViewInv, CacheKept
            <3>2. Created(cache[<<s, t>>]) \in 0 .. MaxTime
                  BY <3>1, CreatedType DEF Kept
            <3>3. Created(cache[<<s, t>>]) <= now'
                  BY <1>0, <2>2, <3>1, <3>2, ViewAssumption DEF Kept
            <3> QED BY <3>1, <3>3 DEF Kept
      <2>6. PageType'
            BY <1>0, <2>2 DEF PageType, shown, data, axis
      <2>7. /\ Numbered' /\ CurrentOwned' /\ Idle' /\ SubLive'
            /\ StatsOwned' /\ AxisFits'
            BY <2>2 DEF ViewInv, Numbered, CurrentOwned, Idle, SubLive,
               StatsOwned, AxisFits, shown, data, axis
      <2> QED BY <1>0, <2>2, <2>3, <2>4, <2>5, <2>6, <2>7 DEF ViewInv, place, shown
<1>16. CASE UNCHANGED vars
      <2>1. UNCHANGED <<world, place, shown, chartTime, data, sub, leaked, axis>>
            BY <1>16 DEF vars
      <2>2. PageType'
            BY <1>0, <2>1 DEF PageType, shown, data, axis
      <2>3. /\ CacheKept' /\ HubPast' /\ Numbered' /\ CurrentOwned' /\ Idle' /\ SubLive'
            /\ StatsOwned' /\ AxisFits'
            BY <2>1 DEF ViewInv, CacheKept, HubPast, Numbered, CurrentOwned, Idle, SubLive,
               StatsOwned, AxisFits, world, shown, data, axis
      <2> QED BY <1>0, <2>1, <2>2, <2>3 DEF ViewInv, world, place, shown
<1> QED BY <1>5, <1>7, <1>8, <1>9, <1>10, <1>11, <1>12, <1>13, <1>14, <1>15, <1>16
        DEF Next, Answer

\* The page before it is opened.
LEMMA ViewInit == Init => TypeOK /\ ViewInv
<1> SUFFICES ASSUME Init PROVE TypeOK /\ ViewInv
      OBVIOUS
<1>1. Default \in ChartTimes /\ 1 \in 1 .. MaxTime /\ 1 \in 0 .. MaxTime
      BY ViewAssumption DEF ChartTimes
<1>2. <<>> \in Seq(Items) /\ Len(<<>>) = 0 /\ DOMAIN <<>> = {} /\ Created(<<>>) = 0
      BY EmptySeq DEF Created
<1>3. \A s \in Systems : hub[s] = {1}
      BY DEF Init
<1>4. PageType
      BY <1>1, <1>2, ViewAssumption DEF Init, PageType, NoSub, Subs
<1>5. hub \in [Systems -> SUBSET (1 .. MaxTime)] /\ HubPast
      BY <1>1, <1>3 DEF Init, HubPast
<1>6. TypeOK
      BY <1>1, <1>4, <1>5, TypeParts, ViewAssumption DEF Init
<1>7. CacheKept
      <2> SUFFICES ASSUME NEW s \in Systems, NEW t \in Times
                   PROVE  Kept(cache[<<s, t>>], s, t, now)
            BY DEF CacheKept
      <2>1. cache[<<s, t>>] = <<>> /\ now = 1
            BY DEF Init
      <2> QED BY <1>2, <2>1 DEF Kept, Clean
<1>8. Numbered /\ CurrentOwned /\ Idle /\ SubLive /\ StatsOwned
      BY DEF Init, Numbered, CurrentOwned, Idle, SubLive, StatsOwned, NoSub
<1>9. AxisFits
      BY <1>2 DEF Init, AxisFits
<1> QED BY <1>5, <1>6, <1>7, <1>8, <1>9 DEF ViewInv

\* The inductive invariant holds in every state.
LEMMA ViewCorrect == Spec => [](TypeOK /\ ViewInv)
<1>1. TypeOK /\ ViewInv /\ [Next]_vars => (TypeOK /\ ViewInv)'
      BY ViewStep
<1> QED BY <1>1, ViewInit, PTL DEF Spec

-----------------------------------------------------------------------------
(* Theorems.                                                               *)

\* However requests for stats overlap, are cancelled, fail or come late: the cache
\* holds the records of each system and chart time, each of them once and in their
\* order, and a chart that is not loading shows those of the system and the chart
\* time on the page (the guard on statsRequestId, and appendData).
THEOREM AnswersOwnedTheorem == Spec => []AnswersOwned
<1>1. TypeOK /\ ViewInv => AnswersOwned
      <2> SUFFICES ASSUME TypeOK, ViewInv PROVE CacheClean
            BY DEF AnswersOwned, ViewInv
      <2> SUFFICES ASSUME NEW k \in Systems \X Times PROVE Clean(cache[k], k[1], k[2])
            BY DEF CacheClean
      <2>1. PICK sys \in Systems, type \in Times : k = <<sys, type>>
            OBVIOUS
      <2> QED BY <2>1 DEF ViewInv, CacheKept, Kept
<1> QED BY <1>1, ViewCorrect, PTL

\* The time axis reaches the newest point that is drawn, whatever was cached under
\* "td" for another system or chart time (getTimeData).
THEOREM AxisFitsTheorem == Spec => []AxisFits
<1>1. TypeOK /\ ViewInv => AxisFits
      BY DEF ViewInv
<1> QED BY <1>1, ViewCorrect, PTL

=============================================================================
