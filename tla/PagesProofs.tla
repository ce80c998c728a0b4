---------------------------- MODULE PagesProofs ----------------------------
(***************************************************************************)
(* Proofs about the pages of the frontend, for any data and any bounds.    *)
(* What is proved of one page holds of Pages because a step of another     *)
(* page leaves it as it is.  For each page there is an invariant of what   *)
(* its properties are about, and then, by the same steps, one of its types.*)
(***************************************************************************)
EXTENDS Pages, Filtering, SequenceTheorems, FiniteSetTheorems, WellFoundedInduction, TLAPS

-----------------------------------------------------------------------------
(* Numbers and sequences.                                                  *)

\* A number of at most two.
LEMMA UpToTwo == ASSUME NEW n \in Nat, n <= 2 PROVE n \in {0, 1, 2}
  OBVIOUS

\* One more than none or one.
LEMMA OneMore ==
    ASSUME NEW m, NEW n, n = m + 1, m = 0 \/ m = 1
    PROVE  (n = 1 \/ n = 2) /\ (n = 2 <=> m = 1)
  OBVIOUS

\* An index that is not below the length is the last.
LEMMA TopIndex == ASSUME NEW n \in Nat, NEW i \in 1 .. n, n <= i PROVE i = n
  OBVIOUS

\* The elements of a sequence.
LEMMA Elements == ASSUME NEW S, NEW s \in Seq(S) PROVE \A i \in DOMAIN s : s[i] \in S
  OBVIOUS

\* What has an element is not empty ...
LEMMA HasElement == ASSUME NEW s, NEW i \in DOMAIN s PROVE s # <<>>
  OBVIOUS

\* ... and what is not empty has a first element.
LEMMA HasFirst == ASSUME NEW S, NEW s \in Seq(S), s # <<>> PROVE 1 \in DOMAIN s
  OBVIOUS

\* What is before an element of a sequence ...
LEMMA Before ==
    ASSUME NEW S, NEW s \in Seq(S), NEW a \in Nat, 1 <= a, a <= Len(s)
    PROVE  /\ SubSeq(s, 1, a - 1) \in Seq(S)
           /\ Len(SubSeq(s, 1, a - 1)) = a - 1
           /\ \A i \in 1 .. a - 1 : i \in DOMAIN s /\ SubSeq(s, 1, a - 1)[i] = s[i]
<1>1. SubSeq(s, 1, a - 1) \in Seq(S)
  OBVIOUS
<1>2. Len(SubSeq(s, 1, a - 1)) = a - 1
  OBVIOUS
<1>3. \A i \in 1 .. a - 1 : i \in DOMAIN s /\ SubSeq(s, 1, a - 1)[i] = s[i]
  OBVIOUS
<1> QED
  BY <1>1, <1>2, <1>3

\* ... and what is after it.
LEMMA After ==
    ASSUME NEW S, NEW s \in Seq(S), NEW a \in Nat, 1 <= a, a <= Len(s)
    PROVE  /\ SubSeq(s, a + 1, Len(s)) \in Seq(S)
           /\ Len(SubSeq(s, a + 1, Len(s))) = Len(s) - a
           /\ \A i \in 1 .. Len(s) - a : a + i \in DOMAIN s /\ SubSeq(s, a + 1, Len(s))[i] = s[a + i]
<1>1. SubSeq(s, a + 1, Len(s)) \in Seq(S)
  OBVIOUS
<1>2. Len(SubSeq(s, a + 1, Len(s))) = Len(s) - a
  OBVIOUS
<1>3. \A i \in 1 .. Len(s) - a : a + i \in DOMAIN s
  OBVIOUS
<1>4. \A i \in 1 .. Len(s) - a : SubSeq(s, a + 1, Len(s))[i] = s[a + i]
  OBVIOUS
<1> QED
  BY <1>1, <1>2, <1>3, <1>4

\* A sequence changed element by element.
LEMMA Mapped ==
    ASSUME NEW S, NEW s \in Seq(S), NEW f, f = [j \in DOMAIN s |-> f[j]], \A j \in DOMAIN s : f[j] \in S
    PROVE  f \in Seq(S) /\ Len(f) = Len(s)
  OBVIOUS

\* A least index.
LEMMA LeastIndex ==
    ASSUME NEW T, T \subseteq Nat, T # {}
    PROVE  \E j \in T : \A k \in Nat : k < j => k \notin T
<1>1. PICK x \in T : \A y \in T : ~(<<y, x>> \in OpToRel(<, Nat))
  BY NatLessThanWellFounded, WFMin
<1>2. \A y \in T : ~(y < x)
  BY <1>1 DEF OpToRel
<1> QED
  BY <1>2

-----------------------------------------------------------------------------
(* Filters.                                                                *)

\* The places of a finite set are numbered from 0 on, without a gap.
LEMMA EveryRank ==
    ASSUME NEW ps, ps \subseteq Nat, IsFiniteSet(ps), NEW n \in Nat, n < Cardinality(ps)
    PROVE  \E i \in ps : Rank(ps, i) = n
<1> DEFINE Low(i) == {j \in ps : j < i}
           T == {m \in Nat : m < Cardinality(ps) /\ \A i \in ps : Rank(ps, i) # m}
<1>0. Cardinality(ps) \in Nat
  BY FS_CardinalityType
<1>1. SUFFICES T = {}
  BY <1>1
<1>2. SUFFICES ASSUME T # {} PROVE FALSE
  OBVIOUS
<1>3. PICK m \in T : \A k \in Nat : k < m => k \notin T
  BY <1>2, LeastIndex
<1>4. m \in Nat /\ m < Cardinality(ps) /\ \A i \in ps : Rank(ps, i) # m
  BY <1>3
<1> HIDE DEF T
<1>5. CASE m = 0
  <2>1. ps # {}
    BY <1>0, <1>4, <1>5, FS_EmptySet
  <2>2. PICK i \in ps : \A k \in Nat : k < i => k \notin ps
    BY <2>1, LeastIndex
  <2>3. {j \in ps : j < i} = {}
    BY <2>2
  <2>4. Rank(ps, i) = 0
    BY <2>3, FS_EmptySet DEF Rank
  <2> QED
    BY <1>4, <1>5, <2>4
<1>6. CASE m # 0
  <2>1. PICK i \in ps : Rank(ps, i) = m - 1
    <3>1. m - 1 \in Nat /\ m - 1 < m /\ m - 1 < Cardinality(ps)
      BY <1>0, <1>4, <1>6
    <3>2. m - 1 \notin T
      BY <1>3, <3>1
    <3> QED
      BY <3>1, <3>2 DEF T
  <2>2. IsFiniteSet(Low(i)) /\ Cardinality(Low(i)) = m - 1
    BY <2>1, FS_Subset DEF Rank
  <2>3. IsFiniteSet(Low(i) \cup {i}) /\ Cardinality(Low(i) \cup {i}) = m
    <3>1. i \notin Low(i)
      BY <2>1
    <3>2. Cardinality(Low(i) \cup {i}) = Cardinality(Low(i)) + 1 /\ IsFiniteSet(Low(i) \cup {i})
      BY <2>2, <3>1, FS_AddElement
    <3> QED
      BY <1>4, <2>2, <3>2
  <2>4. ps \ (Low(i) \cup {i}) # {}
    <3> SUFFICES ASSUME ps \ (Low(i) \cup {i}) = {} PROVE FALSE
      OBVIOUS
    <3>1. ps = Low(i) \cup {i}
      BY <2>1
    <3> QED
      BY <1>0, <1>4, <2>3, <3>1
  <2>5. PICK h \in ps \ (Low(i) \cup {i}) : \A k \in Nat : k < h => k \notin ps \ (Low(i) \cup {i})
    <3> DEFINE High == ps \ (Low(i) \cup {i})
    <3>1. High \subseteq Nat /\ High # {}
      BY <2>4
    <3> HIDE DEF High
    <3>2. \E h \in High : \A k \in Nat : k < h => k \notin High
      BY <3>1, LeastIndex
    <3> QED
      BY <3>2 DEF High
  <2>6. Low(h) = Low(i) \cup {i}
    <3>1. h \in Nat /\ i \in Nat /\ h \in ps /\ i < h
      BY <2>1, <2>5
    <3>2. ASSUME NEW j \in Low(h) PROVE j \in Low(i) \cup {i}
      <4>1. j \in ps /\ j \in Nat /\ j < h
        BY <3>1
      <4> QED
        BY <2>5, <4>1
    <3>3. ASSUME NEW j \in Low(i) \cup {i} PROVE j \in Low(h)
      <4>1. j \in ps /\ j \in Nat /\ (j < i \/ j = i)
        BY <2>1
      <4> QED
        BY <3>1, <4>1
    <3> QED
      BY <3>2, <3>3
  <2>7. Rank(ps, h) = m
    BY <2>3, <2>6 DEF Rank
  <2> QED
    BY <1>4, <2>5, <2>7
<1> QED
  BY <1>5, <1>6

\* What a filter leaves: elements of the list, from different places, as many as
\* there are.
LEMMA ElementsAtProperties ==
    ASSUME NEW S, NEW s \in Seq(S), NEW ps, ps \subseteq DOMAIN s
    PROVE  /\ Cardinality(ps) \in Nat
           /\ ElementsAt(s, ps) \in Seq(S)
           /\ Len(ElementsAt(s, ps)) = Cardinality(ps)
           /\ \A k, m \in DOMAIN ElementsAt(s, ps) :
                 \E i, j \in ps : /\ ElementsAt(s, ps)[k] = s[i] /\ ElementsAt(s, ps)[m] = s[j]
                                  /\ k # m => i # j
<1> DEFINE at(k) == CHOOSE i \in ps : Rank(ps, i) = k - 1
           e == ElementsAt(s, ps)
           n == Cardinality(ps)
<1>1. IsFiniteSet(ps) /\ n \in Nat /\ ps \subseteq Nat
  <2>1. DOMAIN s = 1 .. Len(s) /\ Len(s) \in Nat
    BY LenProperties
  <2>2. IsFiniteSet(1 .. Len(s))
    BY <2>1, FS_Interval
  <2> QED
    BY <2>1, <2>2, FS_Subset, FS_CardinalityType
<1>2. ASSUME NEW k \in 1 .. n PROVE at(k) \in ps /\ Rank(ps, at(k)) = k - 1
  <2>1. k - 1 \in Nat /\ k - 1 < n
    BY <1>1
  <2>2. \E i \in ps : Rank(ps, i) = k - 1
    BY <1>1, <2>1, EveryRank
  <2> QED
    BY <2>2
<1>3. e = [k \in 1 .. n |-> s[at(k)]]
  BY DEF ElementsAt
<1> HIDE DEF n, at
<1>4. \A k \in 1 .. n : s[at(k)] \in S
  BY <1>2
<1>5. e \in Seq(S) /\ Len(e) = n /\ DOMAIN e = 1 .. n
  <2>1. e \in [1 .. n -> S]
    BY <1>3, <1>4
  <2> HIDE DEF e
  <2>2. e \in Seq(S)
    BY <1>1, <2>1, SeqDef
  <2>3. DOMAIN e = 1 .. n
    BY <2>1
  <2> QED
    BY <1>1, <2>2, <2>3, LenProperties
<1>6. ASSUME NEW k \in 1 .. n, NEW m \in 1 .. n
      PROVE  \E i, j \in ps : e[k] = s[i] /\ e[m] = s[j] /\ (k # m => i # j)
  <2>1. e[k] = s[at(k)] /\ e[m] = s[at(m)]
    BY <1>3
  <2>2. at(k) \in ps /\ at(m) \in ps /\ Rank(ps, at(k)) = k - 1 /\ Rank(ps, at(m)) = m - 1
    BY <1>2
  <2>3. k # m => at(k) # at(m)
    BY <1>1, <2>2
  <2> HIDE DEF e
  <2> QED
    BY <2>1, <2>2, <2>3
<1> QED
  BY <1>1, <1>5, <1>6 DEF n

-----------------------------------------------------------------------------
(* The table of containers: which answer may be on its way.                *)

Stamped == [id : Containers, updated : Nat]

\* A container is at the hub once, and in the table once.
OncePer(s) == \A r, q \in s : r.id = q.id => r = q

\* A table of one system asks only for that system, and holds nothing else.
ScopeKept ==
    /\ fetch.on /\ scope # Cont!All => fetch.sys = scope
    /\ scope # Cont!All => \A r \in cData : SystemOf[r.id] = scope

\* A request for logs that was not cancelled is for the container in the sheet.
LogsAsked ==
    /\ \A r \in logReqs : r \in [n : Nat, for : Containers, cancelled : BOOLEAN, refresh : BOOLEAN]
    /\ \A r \in logReqs : ~r.cancelled => r.for = sheet.for
    /\ sheet \in [for : Containers \cup {Cont!NoOne}, open : BOOLEAN, full : BOOLEAN]
    /\ sheet.open => sheet.for \in Containers

ContInv ==
    /\ clock \in Nat /\ openings \in Nat /\ cHub \subseteq Stamped /\ cData \subseteq Stamped
    /\ OncePer(cHub) /\ OncePer(cData)
    /\ ScopeKept /\ LogsAsked /\ Cont!LogsOwned

\* The merge of an answer with what is there lists a container once: what is
\* taken over from before has none of the ids of the answer.
LEMMA MergedOncePer ==
    ASSUME NEW items, NEW cur, OncePer(items), OncePer(cur), NEW t
    PROVE  OncePer(Cont!Merged(items, cur, t)) /\ Cont!Merged(items, cur, t) \subseteq items \cup cur
  BY DEF OncePer, Cont!Merged, Cont!IdsOf

\* The page of containers before its first answer.
LEMMA ContInit == Cont!Init => ContInv
  BY DEF Cont!Init, ContInv, Stamped, OncePer, ScopeKept, LogsAsked, Cont!LogsOwned, Cont!NoOne

\* getLogs cancels what is on its way.
LEMMA GetLogsStep ==
    ASSUME ContInv, NEW c \in Containers, NEW refresh \in BOOLEAN, Cont!GetLogs(c, refresh)
    PROVE  /\ openings' \in Nat
           /\ \A r \in logReqs' : /\ r \in [n : Nat, for : Containers, cancelled : BOOLEAN,
                                            refresh : BOOLEAN]
                                  /\ ~r.cancelled => r.for = c
<1>1. openings' \in Nat
  BY DEF ContInv, Cont!GetLogs
<1>2. SUFFICES ASSUME NEW r \in logReqs'
               PROVE  /\ r \in [n : Nat, for : Containers, cancelled : BOOLEAN, refresh : BOOLEAN]
                      /\ ~r.cancelled => r.for = c
  BY <1>1
<1>3. CASE r = [n |-> openings', for |-> c, cancelled |-> FALSE, refresh |-> refresh]
  BY <1>1, <1>3
<1>4. CASE \E q \in logReqs : r = [q EXCEPT !.cancelled = TRUE]
  BY <1>4 DEF ContInv, LogsAsked
<1> QED
  BY <1>3, <1>4 DEF Cont!GetLogs

\* Every step of the page keeps the invariant.
LEMMA ContStep == ContInv /\ Cont!Next => ContInv'
<1> SUFFICES ASSUME ContInv, Cont!Next PROVE ContInv'
  OBVIOUS
<1>0. /\ clock \in Nat /\ openings \in Nat /\ cHub \subseteq Stamped /\ cData \subseteq Stamped
      /\ OncePer(cHub) /\ OncePer(cData) /\ ScopeKept /\ LogsAsked /\ Cont!LogsOwned
  BY DEF ContInv
<1> DEFINE panelSame == UNCHANGED <<sheet, logs, logReqs, refreshing, openings>>
           listSame == UNCHANGED <<scope, clock, cHub, fetch, cData>>
<1>1. ASSUME panelSame PROVE openings' \in Nat /\ LogsAsked' /\ Cont!LogsOwned'
  BY <1>0, <1>1 DEF LogsAsked, Cont!LogsOwned
<1>2. ASSUME listSame
      PROVE  /\ clock' \in Nat /\ cHub' \subseteq Stamped /\ cData' \subseteq Stamped
             /\ OncePer(cHub') /\ OncePer(cData') /\ ScopeKept'
  BY <1>0, <1>2 DEF ScopeKept
<1>3. CASE Cont!FetchAnswer
  <2> DEFINE items == {r \in cHub : fetch.sys = Cont!All \/ SystemOf[r.id] = fetch.sys}
  <2>1. /\ fetch.on /\ fetch' = Cont!NoFetch /\ scope' = scope /\ clock' = clock /\ cHub' = cHub
    BY <1>3 DEF Cont!FetchAnswer
  <2>2. scope # Cont!All => \A r \in items : SystemOf[r.id] = scope
    BY <1>0, <2>1 DEF ScopeKept
  <2>3. PICK d : /\ Cont!SetData(d)
                 /\ d \subseteq items \cup cData /\ OncePer(d)
    <3>1. CASE Cont!SetData(IF fetch.sys = Cont!All THEN {}
                            ELSE {r \in cData : SystemOf[r.id] # fetch.sys})
      BY <1>0, <3>1 DEF OncePer
    <3>2. CASE \E first, last \in items :
                  Cont!SetData(Cont!Merged(items, cData, Cont!Max2(first.updated, last.updated)))
      <4>1. PICK t : Cont!SetData(Cont!Merged(items, cData, t))
        BY <3>2
      <4>2. OncePer(items)
        BY <1>0 DEF OncePer
      <4> QED
        BY <1>0, <4>1, <4>2, MergedOncePer
    <3> QED
      BY <1>3, <3>1, <3>2 DEF Cont!FetchAnswer
  <2>4. cData' = d /\ panelSame
    BY <2>3 DEF Cont!SetData, Cont!panel
  <2>5. ScopeKept'
    BY <1>0, <2>1, <2>2, <2>3, <2>4 DEF ScopeKept, Cont!NoFetch
  <2> QED
    BY <1>0, <1>1, <2>1, <2>3, <2>4, <2>5 DEF ContInv
<1>4. CASE Cont!FetchFails
  <2>1. /\ fetch' = Cont!NoFetch /\ panelSame /\ UNCHANGED <<scope, clock, cHub, cData>>
    BY <1>4 DEF Cont!FetchFails, Cont!panel, Cont!list
  <2>2. ScopeKept'
    BY <1>0, <2>1 DEF ScopeKept, Cont!NoFetch
  <2> QED
    BY <1>0, <1>1, <2>1, <2>2 DEF ContInv
<1>5. ASSUME NEW s \in Cont!Systems, NEW gone0 \in SUBSET cHub, Cont!Update(s, gone0)
      PROVE  ContInv'
  <2> DEFINE mine == {r \in cHub : SystemOf[r.id] = s}
             new == {[r EXCEPT !.updated = clock'] : r \in mine \ gone0}
  <2>1. /\ clock' = clock + 1 /\ cHub' = (cHub \ mine) \cup new
        /\ scope' = scope /\ cData' = cData /\ panelSame
        /\ \/ scope \in {Cont!All, s} /\ fetch' = [on |-> TRUE, sys |-> s]
           \/ fetch' = fetch
    BY <1>5 DEF Cont!Update, Cont!panel, Cont!list
  <2>2. clock' \in Nat
    BY <1>0, <2>1
  <2>3. \A q \in new : q \in Stamped /\ \E r \in mine : q.id = r.id /\ q = [r EXCEPT !.updated = clock']
    <3> SUFFICES ASSUME NEW r \in mine, NEW q, q = [r EXCEPT !.updated = clock']
                 PROVE  q \in Stamped /\ q.id = r.id
      OBVIOUS
    <3>1. r \in Stamped
      BY <1>0
    <3> QED
      BY <2>2, <3>1 DEF Stamped
  <2>4. OncePer(cHub')
    BY <1>0, <2>1, <2>3 DEF OncePer
  <2>5. cHub' \subseteq Stamped
    BY <1>0, <2>1, <2>3
  <2>6. ScopeKept'
    BY <1>0, <2>1 DEF ScopeKept
  <2> QED
    BY <1>0, <1>1, <2>1, <2>2, <2>4, <2>5, <2>6 DEF ContInv
<1>6. ASSUME NEW cs, Cont!SetFilter(cs) PROVE ContInv'
  <2>1. listSame /\ panelSame
    BY <1>6 DEF Cont!SetFilter, Cont!panel
  <2> QED
    BY <1>1, <1>2, <2>1 DEF ContInv
<1>7. ASSUME NEW r \in cData, Cont!OpenSheet(r) PROVE ContInv'
  <2>1. /\ listSame /\ sheet' = [for |-> r.id, open |-> TRUE, full |-> FALSE]
        /\ \/ logs' = Cont!NoOne /\ Cont!GetLogs(r.id, FALSE)
           \/ sheet.for = r.id /\ logs' = logs /\ logReqs' = logReqs /\ openings' = openings
    BY <1>7 DEF Cont!OpenSheet, Cont!list
  <2>2. r.id \in Containers
    BY <1>0 DEF Stamped
  <2>3. /\ sheet' \in [for : Containers \cup {Cont!NoOne}, open : BOOLEAN, full : BOOLEAN]
        /\ sheet'.for = r.id
    BY <2>1, <2>2
  <2>4. openings' \in Nat /\ LogsAsked' /\ Cont!LogsOwned'
    <3>1. CASE logs' = Cont!NoOne /\ Cont!GetLogs(r.id, FALSE)
      BY <2>2, <2>3, <3>1, GetLogsStep DEF LogsAsked, Cont!LogsOwned
    <3>2. CASE sheet.for = r.id /\ logs' = logs /\ logReqs' = logReqs /\ openings' = openings
      BY <1>0, <2>2, <2>3, <3>2 DEF LogsAsked, Cont!LogsOwned
    <3> QED
      BY <2>1, <3>1, <3>2
  <2> QED
    BY <1>2, <2>1, <2>4 DEF ContInv
<1>8. ASSUME Cont!CloseSheet \/ Cont!Fullscreen PROVE ContInv'
  <2>1. /\ listSame /\ UNCHANGED <<logs, logReqs, openings>>
        /\ sheet.open
        /\ sheet' = [sheet EXCEPT !.open = FALSE] \/ sheet' = [sheet EXCEPT !.full = ~@]
    BY <1>8 DEF Cont!CloseSheet, Cont!Fullscreen, Cont!list
  <2>2. /\ sheet' \in [for : Containers \cup {Cont!NoOne}, open : BOOLEAN, full : BOOLEAN]
        /\ sheet'.for = sheet.for
    BY <1>0, <2>1 DEF LogsAsked
  <2>3. openings' \in Nat /\ LogsAsked' /\ Cont!LogsOwned'
    BY <1>0, <2>1, <2>2 DEF LogsAsked, Cont!LogsOwned
  <2> QED
    BY <1>2, <2>1, <2>3 DEF ContInv
<1>9. CASE Cont!RefreshLogs
  <2>1. /\ listSame /\ sheet.open /\ sheet' = sheet /\ logs' = logs /\ Cont!GetLogs(sheet.for, TRUE)
    BY <1>9 DEF Cont!RefreshLogs, Cont!list
  <2>2. sheet.for \in Containers
    BY <1>0, <2>1 DEF LogsAsked
  <2>3. openings' \in Nat /\ LogsAsked' /\ Cont!LogsOwned'
    BY <1>0, <2>1, <2>2, GetLogsStep DEF LogsAsked, Cont!LogsOwned
  <2> QED
    BY <1>2, <2>1, <2>3 DEF ContInv
<1>10. ASSUME NEW r \in logReqs, Cont!LogsAnswer(r) PROVE ContInv'
  <2>1. /\ listSame /\ sheet' = sheet /\ openings' = openings /\ logReqs' = logReqs \ {r}
        /\ logs' = Cont!NoOne \/ (~r.cancelled /\ logs' = r.for)
    BY <1>10 DEF Cont!LogsAnswer, Cont!list
  <2>2. openings' \in Nat /\ LogsAsked' /\ Cont!LogsOwned'
    BY <1>0, <2>1 DEF LogsAsked, Cont!LogsOwned
  <2> QED
    BY <1>2, <2>1, <2>2 DEF ContInv
<1> QED
  BY <1>3, <1>4, <1>5, <1>6, <1>7, <1>8, <1>9, <1>10 DEF Cont!Next, Cont!Answers

-----------------------------------------------------------------------------
(* The alerts sheet: which choices are on their way.                       *)

AlertCalls == [method : {"POST", "DELETE"}, name : Kinds, set : Nat \X Nat, systems : SUBSET Hosts]

\* Each of the two senders has at most one timer.
OneTimerEach(ts) ==
    /\ ts \in Seq(AlertCalls) /\ Len(ts) <= 2
    /\ \A i, j \in DOMAIN ts : ts[i].method = ts[j].method => i = j

\* The timers of calls that are about key k.
TimersOf(k) == {i \in DOMAIN timers : k \in Alert!KeysOf(timers[i])}
SentOf(k) == {r \in sent : k \in Alert!KeysOf(r)}

\* The last choice for a key is in its last timer, else in its only request, else
\* at the hub.
ChoiceOnItsWay(k) ==
    /\ \A i \in TimersOf(k) : (\A j \in TimersOf(k) : j <= i) => timers[i].set = chosen[k]
    /\ TimersOf(k) = {} =>
           /\ \A r \in SentOf(k) : r.set = chosen[k] /\ SentOf(k) = {r}
           /\ SentOf(k) = {} => aHub[k] = chosen[k]

Choices == \A k \in DOMAIN chosen \ dropped : ChoiceOnItsWay(k)

AlertInv ==
    /\ aHub \in [Alert!Keys -> Nat \X Nat] /\ aStore \in [Alert!Keys -> Nat \X Nat]
    /\ shown \in [system : Hosts, tab : {"system", "global"}, overwrite : BOOLEAN]
    /\ form \in [Kinds -> [checked : BOOLEAN, value : Nat, min : Nat]]
    /\ OneTimerEach(timers) /\ sent \subseteq AlertCalls
    /\ DOMAIN chosen \subseteq Alert!Keys
    /\ reached \in [Kinds -> SUBSET Hosts]
    /\ Choices
    /\ Alert!GlobalEditsReach

\* debounce puts the call last; of the others it keeps the one of the other
\* method, first.
LEMMA DebounceShape ==
    ASSUME NEW ts, OneTimerEach(ts), NEW c \in AlertCalls
    PROVE  LET d == Alert!Debounce(ts, c)
           IN  /\ OneTimerEach(d) /\ Len(d) >= 1 /\ d[Len(d)] = c
               /\ \A i \in DOMAIN ts : ts[i].method # c.method => Len(d) = 2 /\ d[1] = ts[i]
               /\ Len(d) = 2 => \E i \in DOMAIN ts : d[1] = ts[i] /\ ts[i].method # c.method
<1> DEFINE rest == Alert!Cleared(ts, c.method)
<1>1. /\ rest \in Seq(AlertCalls) /\ Len(rest) <= 1
      /\ \A i \in DOMAIN ts : ts[i].method # c.method => Len(rest) = 1 /\ rest[1] = ts[i]
      /\ Len(rest) = 1 => \E i \in DOMAIN ts : rest[1] = ts[i] /\ ts[i].method # c.method
  <2>0. /\ ts \in Seq(AlertCalls) /\ Len(ts) \in {0, 1, 2}
        /\ \A i, j \in DOMAIN ts : ts[i].method = ts[j].method => i = j
        /\ \A i \in DOMAIN ts : ts[i] \in AlertCalls
        /\ \A i \in DOMAIN ts : ts[i].method \in {"POST", "DELETE"}
    <3>1. ts \in Seq(AlertCalls) /\ Len(ts) <= 2
      BY DEF OneTimerEach
    <3>4. \A i, j \in DOMAIN ts : ts[i].method = ts[j].method => i = j
      BY DEF OneTimerEach
    <3>2. \A i \in DOMAIN ts : ts[i] \in AlertCalls
      BY <3>1
    <3>3. Len(ts) \in {0, 1, 2}
      BY <3>1, UpToTwo, LenProperties
    <3> QED
      BY <3>1, <3>2, <3>3, <3>4 DEF AlertCalls
  <2>m. c.method \in {"POST", "DELETE"}
    BY DEF AlertCalls
  <2>1. CASE \A i \in DOMAIN ts : ts[i].method # c.method
    <3>1. rest = ts
      BY <2>1 DEF Alert!Cleared
    <3>2. Len(ts) # 2
      BY <2>0, <2>1, <2>m
    <3> QED
      BY <2>0, <2>1, <3>1, <3>2
  <2>2. CASE \E i \in DOMAIN ts : ts[i].method = c.method
    <3>0. Len(ts) \in {1, 2} /\ DOMAIN ts = 1 .. Len(ts)
      BY <2>0, <2>2
    <3>1. CASE ts[1].method = c.method
      <4>1. rest = Tail(ts)
        BY <2>2, <3>1 DEF Alert!Cleared
      <4> QED
        BY <2>0, <3>0, <3>1, <4>1
    <3>2. CASE ts[1].method # c.method
      <4>1. rest = <<ts[1]>>
        BY <2>2, <3>2 DEF Alert!Cleared
      <4>2. Len(ts) = 2 /\ ts[2].method = c.method
        BY <2>0, <2>2, <3>0, <3>2
      <4>3. ts[1] \in AlertCalls /\ 1 \in DOMAIN ts
        BY <2>0, <3>0
      <4> QED
        BY <2>0, <3>0, <3>2, <4>1, <4>2, <4>3
    <3> QED BY <3>1, <3>2
  <2> QED BY <2>1, <2>2
<1>2. Alert!Debounce(ts, c) = Append(rest, c)
  BY DEF Alert!Debounce
<1> DEFINE d == Append(rest, c)
<1>3. /\ d \in Seq(AlertCalls) /\ Len(d) = Len(rest) + 1 /\ d[Len(d)] = c
      /\ Len(rest) = 0 \/ Len(rest) = 1
      /\ Len(rest) = 1 => d[1] = rest[1]
  <2> HIDE DEF rest
  <2>1. Len(rest) \in Nat /\ Len(rest) <= 1 /\ rest \in Seq(AlertCalls)
    BY <1>1, LenProperties
  <2>2. Len(rest) = 0 \/ Len(rest) = 1
    <3> DEFINE n == Len(rest)
    <3>1. n \in Nat /\ n <= 1
      BY <2>1
    <3> HIDE DEF n
    <3>2. n = 0 \/ n = 1
      BY <3>1
    <3> QED BY <3>2 DEF n
  <2>3. 1 \in 1 .. 1
    OBVIOUS
  <2> QED
    BY <2>1, <2>2, <2>3, AppendProperties
<1> HIDE DEF rest, d
<1>4. Len(rest) = 1 => d[1].method # c.method
  BY <1>1, <1>3
<1>a. Len(d) = Len(rest) + 1 /\ (Len(rest) = 0 \/ Len(rest) = 1)
  BY <1>3
<1>5. (Len(d) = 1 \/ Len(d) = 2) /\ (Len(d) = 2 <=> Len(rest) = 1)
  BY <1>a, OneMore
<1>7. OneTimerEach(d)
  <2>1. \A i \in DOMAIN d : i \in 1 .. Len(d)
    BY <1>3
  <2>2. Len(d) <= 2
    BY <1>5
  <2>3. Len(d) = 2 => d[1].method # d[2].method
    BY <1>3, <1>4, <1>5
  <2>4. \A i, j \in DOMAIN d : d[i].method = d[j].method => i = j
    BY <1>5, <2>1, <2>3
  <2> QED
    BY <1>3, <2>2, <2>4 DEF OneTimerEach
<1>8. /\ \A i \in DOMAIN ts : ts[i].method # c.method => Len(d) = 2 /\ d[1] = ts[i]
      /\ Len(d) = 2 => \E i \in DOMAIN ts : d[1] = ts[i] /\ ts[i].method # c.method
  BY <1>1, <1>3, <1>5
<1>9. d = Alert!Debounce(ts, c)
  BY <1>2 DEF d
<1> QED
  BY <1>3, <1>5, <1>7, <1>8, <1>9

\* A call of a sender: the choice of its keys is in the timer that is set, and
\* of the others only those are kept that did not wait on the timer cleared.
LEMMA CallStep ==
    ASSUME AlertInv, NEW c \in AlertCalls, Alert!Call(c), sent' = sent, aHub' = aHub
    PROVE  OneTimerEach(timers') /\ DOMAIN chosen' \subseteq Alert!Keys /\ Choices'
<1> DEFINE ks == Alert!KeysOf(c)
<1>0. OneTimerEach(timers) /\ DOMAIN chosen \subseteq Alert!Keys /\ Choices
  BY DEF AlertInv
<1>1. /\ timers' = Alert!Debounce(timers, c)
      /\ chosen' = [k \in DOMAIN chosen \cup ks |-> IF k \in ks THEN c.set ELSE chosen[k]]
      /\ dropped' = (dropped \cup Alert!Waiting(timers, c.method)) \ ks
  BY DEF Alert!Call
<1>2. /\ OneTimerEach(timers') /\ Len(timers') >= 1 /\ timers'[Len(timers')] = c
      /\ \A i \in DOMAIN timers : timers[i].method # c.method => Len(timers') = 2 /\ timers'[1] = timers[i]
      /\ Len(timers') = 2 => \E i \in DOMAIN timers : timers'[1] = timers[i] /\ timers[i].method # c.method
  BY <1>0, <1>1, DebounceShape
<1>3. ks \subseteq Alert!Keys
  BY DEF AlertCalls, Alert!KeysOf, Alert!Keys
<1>4. /\ Len(timers') \in Nat /\ DOMAIN timers' = 1 .. Len(timers')
      /\ Len(timers') \in {1, 2}
  <2>1. timers' \in Seq(AlertCalls) /\ Len(timers') <= 2
    BY <1>2 DEF OneTimerEach
  <2>2. Len(timers') \in Nat /\ DOMAIN timers' = 1 .. Len(timers')
    BY <2>1, LenProperties
  <2>3. Len(timers') \in {0, 1, 2}
    BY <2>1, <2>2, UpToTwo
  <2> QED
    BY <1>2, <2>2, <2>3
<1>5. SUFFICES ASSUME NEW k \in DOMAIN chosen', k \notin dropped'
               PROVE  ChoiceOnItsWay(k)'
  BY <1>0, <1>1, <1>2, <1>3 DEF Choices
<1>6. CASE k \in ks
  <2>1. chosen'[k] = c.set /\ Len(timers') \in TimersOf(k)'
    BY <1>1, <1>2, <1>4, <1>6 DEF TimersOf
  <2>2. ASSUME NEW i \in TimersOf(k)', \A j \in TimersOf(k)' : j <= i PROVE timers'[i].set = chosen'[k]
    <3>1. i \in 1 .. Len(timers') /\ Len(timers') <= i
      BY <1>4, <2>1, <2>2 DEF TimersOf
    <3>2. i = Len(timers')
      BY <1>4, <3>1, TopIndex
    <3> QED
      BY <1>2, <2>1, <3>2
  <2> QED
    BY <2>1, <2>2 DEF ChoiceOnItsWay
<1>7. CASE k \notin ks
  <2>1. k \in DOMAIN chosen /\ k \notin dropped /\ chosen'[k] = chosen[k] /\ ChoiceOnItsWay(k)
    BY <1>0, <1>1, <1>5, <1>7 DEF Choices
  <2>2. \A i \in TimersOf(k) : timers[i].method # c.method
    BY <1>1, <1>5, <1>7 DEF TimersOf, Alert!Waiting
  <2>3. SentOf(k)' = SentOf(k)
    BY DEF SentOf
  <2>4. \A i \in TimersOf(k)' : i = 1 /\ Len(timers') = 2
    BY <1>2, <1>4, <1>7 DEF TimersOf
  <2>5. CASE TimersOf(k) = {}
    <3>1. TimersOf(k)' = {}
      BY <1>2, <2>4, <2>5 DEF TimersOf
    <3> QED
      BY <2>1, <2>3, <2>5, <3>1 DEF ChoiceOnItsWay
  <2>6. ASSUME NEW i \in TimersOf(k) PROVE ChoiceOnItsWay(k)'
    <3>1. Len(timers') = 2 /\ timers'[1] = timers[i]
      BY <1>2, <2>2 DEF TimersOf
    <3>2. \A j \in TimersOf(k) : timers[j] = timers[i]
      BY <1>2, <2>2 DEF TimersOf
    <3>3. \A j \in TimersOf(k) : j = i
      BY <1>0, <3>2 DEF TimersOf, OneTimerEach
    <3>4. i \in Int
      BY <1>0 DEF TimersOf, OneTimerEach
    <3>5. timers[i].set = chosen[k]
      BY <2>1, <3>3, <3>4 DEF ChoiceOnItsWay
    <3>6. 1 \in TimersOf(k)'
      BY <1>4, <3>1 DEF TimersOf
    <3> QED
      BY <2>1, <2>4, <3>1, <3>5, <3>6 DEF ChoiceOnItsWay
  <2> QED
    BY <2>5, <2>6
<1> QED
  BY <1>6, <1>7

\* A timer runs out: its keys are then in one request only.
LEMMA SendStep ==
    ASSUME AlertInv, Alert!Send
    PROVE  OneTimerEach(timers') /\ sent' \subseteq AlertCalls /\ Choices'
<1> DEFINE c == Head(timers)
           open(m) == UNION {Alert!KeysOf(r) : r \in {q \in sent : q.method = m}}
<1>0. OneTimerEach(timers) /\ sent \subseteq AlertCalls /\ Choices
  BY DEF AlertInv
<1>1. /\ timers # <<>> /\ timers' = Tail(timers) /\ sent' = sent \cup {c}
      /\ dropped' = dropped \cup open(c.method)
                        \cup ((open("POST") \cup open("DELETE")) \cap Alert!KeysOf(c))
      /\ chosen' = chosen /\ aHub' = aHub
  BY DEF Alert!Send
<1>2. /\ timers \in Seq(AlertCalls) /\ Len(timers) \in Nat /\ DOMAIN timers = 1 .. Len(timers)
      /\ Len(timers) <= 2 /\ \A i, j \in DOMAIN timers : timers[i].method = timers[j].method => i = j
  BY <1>0, LenProperties DEF OneTimerEach
<1>3. /\ c = timers[1] /\ c \in AlertCalls /\ Len(timers) >= 1 /\ 1 \in DOMAIN timers
      /\ timers' \in Seq(AlertCalls) /\ Len(timers') = Len(timers) - 1
      /\ DOMAIN timers' = 1 .. Len(timers')
      /\ \A i \in DOMAIN timers' : i + 1 \in DOMAIN timers /\ timers'[i] = timers[i + 1]
  BY <1>1, <1>2
<1>4. OneTimerEach(timers')
  <2>1. Len(timers') <= 2
    BY <1>2, <1>3
  <2>2. \A i, j \in DOMAIN timers' : timers'[i].method = timers'[j].method => i = j
    BY <1>2, <1>3
  <2> QED
    BY <1>3, <2>1, <2>2 DEF OneTimerEach
<1> HIDE DEF c
<1>5. SUFFICES ASSUME NEW k \in DOMAIN chosen, k \notin dropped'
               PROVE  ChoiceOnItsWay(k)'
  BY <1>0, <1>1, <1>3, <1>4 DEF Choices
<1>6. ChoiceOnItsWay(k)
  BY <1>0, <1>1, <1>5 DEF Choices
<1>7. k \in Alert!KeysOf(c) => SentOf(k) = {}
  <2> SUFFICES ASSUME k \in Alert!KeysOf(c), NEW r \in sent, k \in Alert!KeysOf(r) PROVE FALSE
    BY DEF SentOf
  <2>1. r.method \in {"POST", "DELETE"}
    BY <1>0 DEF AlertCalls
  <2>2. k \in open(r.method)
    OBVIOUS
  <2> QED
    BY <1>1, <1>5, <2>1, <2>2
<1>8. /\ \A i \in TimersOf(k)' : i + 1 \in TimersOf(k)
      /\ \A i \in TimersOf(k) : i = 1 \/ i - 1 \in TimersOf(k)'
  <2>1. ASSUME NEW i \in TimersOf(k)' PROVE i + 1 \in TimersOf(k)
    BY <1>3, <2>1 DEF TimersOf
  <2>2. ASSUME NEW i \in TimersOf(k), i # 1 PROVE i - 1 \in TimersOf(k)'
    <3>1. i \in 1 .. Len(timers) /\ i - 1 \in DOMAIN timers' /\ (i - 1) + 1 = i
      BY <1>2, <1>3, <2>2 DEF TimersOf
    <3>2. timers'[i - 1] = timers[i]
      BY <1>3, <3>1
    <3> QED
      BY <2>2, <3>1, <3>2 DEF TimersOf
  <2> QED
    BY <2>1, <2>2
<1>9. ASSUME NEW i \in TimersOf(k)', \A j \in TimersOf(k)' : j <= i PROVE timers'[i].set = chosen'[k]
  <2>1. i \in 1 .. Len(timers') /\ timers'[i] = timers[i + 1] /\ i + 1 \in TimersOf(k)
    BY <1>3, <1>8, <1>9 DEF TimersOf
  <2>2. ASSUME NEW j \in TimersOf(k) PROVE j <= i + 1
    <3>1. j \in Int
      BY <1>2, <2>2 DEF TimersOf
    <3>2. i \in Int /\ 1 <= i
      BY <1>2, <1>3, <2>1
    <3>3. CASE j = 1
      BY <3>2, <3>3
    <3>4. CASE j - 1 \in TimersOf(k)'
      <4>1. j - 1 <= i
        BY <1>9, <3>4
      <4> QED
        BY <3>1, <3>2, <4>1
    <3> QED
      BY <1>8, <2>2, <3>3, <3>4
  <2> QED
    BY <1>1, <1>6, <2>1, <2>2 DEF ChoiceOnItsWay
<1>10. ASSUME TimersOf(k)' = {}
       PROVE  /\ \A r \in SentOf(k)' : r.set = chosen'[k] /\ SentOf(k)' = {r}
              /\ SentOf(k)' = {} => aHub'[k] = chosen'[k]
  <2>1. \A i \in TimersOf(k) : i = 1
    BY <1>8, <1>10
  <2>2. CASE k \in Alert!KeysOf(c)
    <3>1. 1 \in TimersOf(k)
      BY <1>3, <2>2 DEF TimersOf
    <3>2. c.set = chosen[k]
      BY <1>3, <1>6, <2>1, <3>1 DEF ChoiceOnItsWay
    <3>3. SentOf(k)' = {c}
      BY <1>1, <1>7, <2>2 DEF SentOf
    <3> QED
      BY <1>1, <3>2, <3>3
  <2>3. CASE k \notin Alert!KeysOf(c)
    <3>1. TimersOf(k) = {}
      BY <1>3, <2>1, <2>3 DEF TimersOf
    <3>2. SentOf(k)' = SentOf(k)
      BY <1>1, <2>3 DEF SentOf
    <3> QED
      BY <1>1, <1>6, <3>1, <3>2 DEF ChoiceOnItsWay
  <2> QED
    BY <2>2, <2>3
<1> QED
  BY <1>9, <1>10 DEF ChoiceOnItsWay

\* A request comes to an end.
LEMMA EndStep ==
    ASSUME AlertInv, NEW c \in sent, Alert!Handle(c) \/ Alert!Fail(c)
    PROVE  aHub' \in [Alert!Keys -> Nat \X Nat] /\ Choices'
<1>0. /\ aHub \in [Alert!Keys -> Nat \X Nat] /\ c \in AlertCalls /\ Choices
      /\ DOMAIN chosen \subseteq Alert!Keys
  BY DEF AlertInv
<1>1. /\ sent' = sent \ {c} /\ timers' = timers /\ chosen' = chosen
      /\ \/ aHub' = Alert!Handled(aHub, c) /\ dropped' = dropped
         \/ aHub' = aHub /\ dropped' = dropped \cup Alert!KeysOf(c)
  BY DEF Alert!Handle, Alert!Fail
<1>2. aHub' \in [Alert!Keys -> Nat \X Nat]
  BY <1>0, <1>1 DEF Alert!Handled, AlertCalls
<1>3. SUFFICES ASSUME NEW k \in DOMAIN chosen, k \notin dropped'
               PROVE  ChoiceOnItsWay(k)'
  BY <1>1, <1>2 DEF Choices
<1>4. ChoiceOnItsWay(k) /\ k \in Alert!Keys
  BY <1>0, <1>1, <1>3 DEF Choices
<1>5. TimersOf(k)' = TimersOf(k)
  BY <1>1 DEF TimersOf
<1>6. CASE c \in SentOf(k)
  <2>1. k \in Alert!KeysOf(c) /\ aHub'[k] = c.set
    BY <1>1, <1>3, <1>4, <1>6 DEF SentOf, Alert!Handled
  <2>2. TimersOf(k) = {} => SentOf(k)' = {} /\ c.set = chosen[k]
    BY <1>1, <1>4, <1>6 DEF ChoiceOnItsWay, SentOf
  <2> QED
    BY <1>1, <1>4, <1>5, <2>1, <2>2 DEF ChoiceOnItsWay
<1>7. CASE c \notin SentOf(k)
  <2>1. SentOf(k)' = SentOf(k) /\ k \notin Alert!KeysOf(c)
    BY <1>1, <1>7 DEF SentOf
  <2>2. aHub'[k] = aHub[k]
    BY <1>1, <1>4, <2>1 DEF Alert!Handled
  <2> QED
    BY <1>1, <1>4, <1>5, <2>1, <2>2 DEF ChoiceOnItsWay
<1> QED
  BY <1>6, <1>7

\* The forms take natural values from the alerts of the sheet's system.
LEMMA MountedTyped ==
    ASSUME NEW store \in [Alert!Keys -> Nat \X Nat], NEW s \in Hosts, NEW t
    PROVE  Alert!Mounted(store, s, t) \in [Kinds -> [checked : BOOLEAN, value : Nat, min : Nat]]
<1> DEFINE a(n) == store[<<s, n>>]
<1>1. \A n \in Kinds : a(n) \in Nat \X Nat /\ a(n)[1] \in Nat /\ a(n)[2] \in Nat
  BY DEF Alert!Keys
<1>2. \A n \in Kinds : Alert!Start(n) \in Nat /\ Alert!DefaultMin \in Nat
  BY PagesAssumption DEF Alert!Start, Alert!DefaultMin
<1> QED
  BY <1>1, <1>2 DEF Alert!Mounted

\* The sheet before the first edit.
LEMMA AlertInit == Alert!Init => AlertInv
<1> SUFFICES ASSUME Alert!Init PROVE AlertInv
  OBVIOUS
<1>1. aHub \in [Alert!Keys -> Nat \X Nat] /\ aStore = aHub
  BY DEF Alert!Init, Alert!Off
<1>2. /\ shown \in [system : Hosts, tab : {"system", "global"}, overwrite : BOOLEAN]
      /\ shown.tab = "system"
  BY PagesAssumption DEF Alert!Init
<1>3. form \in [Kinds -> [checked : BOOLEAN, value : Nat, min : Nat]]
  BY <1>1, <1>2, MountedTyped DEF Alert!Init
<1>4. OneTimerEach(timers) /\ sent \subseteq AlertCalls /\ DOMAIN chosen = {} /\ Choices
  BY DEF Alert!Init, OneTimerEach, Choices
<1>5. reached \in [Kinds -> SUBSET Hosts]
  BY DEF Alert!Init
<1> QED
  BY <1>1, <1>2, <1>3, <1>4, <1>5 DEF AlertInv, Alert!GlobalEditsReach

\* The systems of an edit are systems.
LEMMA SystemIdsTyped == ASSUME AlertInv, NEW n PROVE Alert!getSystemIds(n) \subseteq Hosts
  BY DEF AlertInv, Alert!getSystemIds

\* An edit of an alert that a form of it sends, or that has no system to go to.
LEMMA EditStep ==
    ASSUME AlertInv, NEW n \in Kinds, NEW f \in [checked : BOOLEAN, value : Nat, min : Nat],
           form' = [form EXCEPT ![n] = f], Alert!Rest,
           initial' \subseteq initial /\ (shown.tab # "global" \/ initial' = initial \/ shown.overwrite),
           \/ /\ UNCHANGED <<timers, chosen, dropped>>
              /\ reached' = reached
           \/ \E m \in {"POST", "DELETE"}, v \in Nat \X Nat :
                 Alert!Call([method |-> m, name |-> n, set |-> v, systems |-> Alert!getSystemIds(n)])
    PROVE  AlertInv'
<1>0. AlertInv
  OBVIOUS
<1>1. UNCHANGED <<aHub, aStore, shown, sent>>
  BY DEF Alert!Rest
<1>2. form' \in [Kinds -> [checked : BOOLEAN, value : Nat, min : Nat]]
  BY DEF AlertInv
<1>3. \A x \in Kinds : Alert!getSystemIds(x) \subseteq Alert!getSystemIds(x)'
  BY <1>1 DEF Alert!getSystemIds
<1> DEFINE kept == OneTimerEach(timers') /\ DOMAIN chosen' \subseteq Alert!Keys /\ Choices'
           wider == [reached EXCEPT ![n] = @ \cup Alert!getSystemIds(n)]
<1>4. kept /\ (reached' = reached \/ reached' = wider)
  <2>1. CASE UNCHANGED <<timers, chosen, dropped>> /\ reached' = reached
    BY <1>1, <2>1 DEF AlertInv, Choices, ChoiceOnItsWay, TimersOf, SentOf
  <2>2. ASSUME NEW m \in {"POST", "DELETE"}, NEW v \in Nat \X Nat,
               Alert!Call([method |-> m, name |-> n, set |-> v, systems |-> Alert!getSystemIds(n)])
        PROVE  kept /\ reached' = wider
    <3> DEFINE c == [method |-> m, name |-> n, set |-> v, systems |-> Alert!getSystemIds(n)]
    <3>1. c \in AlertCalls
      BY SystemIdsTyped DEF AlertCalls
    <3>2. reached' = wider
      BY <2>2 DEF Alert!Call
    <3> HIDE DEF c
    <3> QED
      BY <1>1, <2>2, <3>1, <3>2, CallStep DEF c
  <2> QED
    BY <2>1, <2>2
<1>5. reached' \in [Kinds -> SUBSET Hosts]
  <2>1. Alert!getSystemIds(n) \subseteq Hosts
    BY SystemIdsTyped
  <2> QED
    BY <1>4, <2>1 DEF AlertInv
<1>6. Alert!GlobalEditsReach'
  <2> SUFFICES ASSUME shown'.tab = "global", NEW x \in Kinds
               PROVE  reached'[x] \subseteq Alert!getSystemIds(x)'
    BY DEF Alert!GlobalEditsReach
  <2>1. reached[x] \subseteq Alert!getSystemIds(x) /\ reached \in [Kinds -> SUBSET Hosts]
    BY <1>1 DEF AlertInv, Alert!GlobalEditsReach
  <2>2. reached'[x] \subseteq Alert!getSystemIds(x)
    BY <1>4, <2>1
  <2> QED
    BY <1>3, <2>2
<1> QED
  BY <1>1, <1>2, <1>4, <1>5, <1>6 DEF AlertInv

\* Every step of the sheet keeps the invariant.
LEMMA AlertStep == AlertInv /\ Alert!Next => AlertInv'
<1> SUFFICES ASSUME AlertInv, Alert!Next PROVE AlertInv'
  OBVIOUS
<1>0. /\ aHub \in [Alert!Keys -> Nat \X Nat] /\ aStore \in [Alert!Keys -> Nat \X Nat]
      /\ shown.system \in Hosts
      /\ form \in [Kinds -> [checked : BOOLEAN, value : Nat, min : Nat]]
      /\ reached \in [Kinds -> SUBSET Hosts] /\ Choices
  BY DEF AlertInv
<1> DEFINE quiet == UNCHANGED <<timers, sent, chosen, dropped>>
<1>1. ASSUME quiet, aHub' = aHub PROVE Choices'
  BY <1>0, <1>1 DEF Choices, ChoiceOnItsWay, TimersOf, SentOf
<1>2. ASSUME UNCHANGED <<shown, initial, reached>> PROVE Alert!GlobalEditsReach'
  BY <1>2 DEF AlertInv, Alert!GlobalEditsReach, Alert!getSystemIds
<1>3. ASSUME reached' = [n \in Kinds |-> {}]
      PROVE  reached' \in [Kinds -> SUBSET Hosts] /\ Alert!GlobalEditsReach'
  BY <1>3 DEF Alert!GlobalEditsReach
<1>4. ASSUME NEW s \in Hosts, Alert!OpenSheet(s) PROVE AlertInv'
  <2>1. /\ shown' = [system |-> s, tab |-> "system", overwrite |-> FALSE]
        /\ form' = Alert!Mounted(aStore, s, "system") /\ reached' = [n \in Kinds |-> {}]
        /\ quiet /\ UNCHANGED <<aHub, aStore>>
    BY <1>4 DEF Alert!OpenSheet
  <2>2. form' \in [Kinds -> [checked : BOOLEAN, value : Nat, min : Nat]]
    BY <1>0, <2>1, MountedTyped
  <2> QED
    BY <1>1, <1>3, <2>1, <2>2 DEF AlertInv
<1>5. ASSUME NEW t \in {"system", "global"}, Alert!SelectTab(t) PROVE AlertInv'
  <2>1. /\ shown' = [shown EXCEPT !.tab = t]
        /\ form' = Alert!Mounted(aStore, shown.system, t) /\ reached' = [n \in Kinds |-> {}]
        /\ quiet /\ UNCHANGED <<aHub, aStore>>
    BY <1>5 DEF Alert!SelectTab
  <2>2. form' \in [Kinds -> [checked : BOOLEAN, value : Nat, min : Nat]]
    BY <1>0, <2>1, MountedTyped
  <2>3. shown' \in [system : Hosts, tab : {"system", "global"}, overwrite : BOOLEAN]
    BY <2>1 DEF AlertInv
  <2> QED
    BY <1>1, <1>3, <2>1, <2>2, <2>3 DEF AlertInv
<1>6. CASE Alert!ToggleOverwrite
  <2>1. /\ shown' = [shown EXCEPT !.overwrite = ~@] /\ reached' = [n \in Kinds |-> {}]
        /\ quiet /\ UNCHANGED <<aHub, aStore, form>>
    BY <1>6 DEF Alert!ToggleOverwrite
  <2>2. shown' \in [system : Hosts, tab : {"system", "global"}, overwrite : BOOLEAN]
    BY <2>1 DEF AlertInv
  <2> QED
    BY <1>1, <1>3, <2>1, <2>2 DEF AlertInv
<1>7. ASSUME NEW n \in Kinds,
             \/ Alert!Check(n) \/ Alert!Uncheck(n) \/ Alert!CommitValue(n)
             \/ \E v \in 1 .. Top : Alert!DragValue(n, v)
             \/ \E v \in Alert!Raw : Alert!TypeValue(n, v) \/ Alert!TypeMin(n, v)
      PROVE  AlertInv'
  <2> DEFINE Forms == [checked : BOOLEAN, value : Nat, min : Nat]
             silent == UNCHANGED <<timers, chosen, dropped>> /\ reached' = reached
             called == \E m \in {"POST", "DELETE"}, v \in Nat \X Nat :
                          Alert!Call([method |-> m, name |-> n, set |-> v, systems |-> Alert!getSystemIds(n)])
             edited(f) == form' = [form EXCEPT ![n] = f] /\ Alert!Rest
             narrowed == /\ initial' \subseteq initial
                         /\ shown.tab # "global" \/ initial' = initial \/ shown.overwrite
  <2>1. \A v \in Nat, m \in Nat : Alert!sendUpsert(n, m, v) => silent \/ called
    BY DEF Alert!sendUpsert
  <2>2. form[n] \in Forms /\ form[n].value \in Nat /\ form[n].min \in Nat
    BY <1>0
  <2>3. \A v \in Alert!Raw : Alert!ClampMin(v) \in Nat /\ Alert!ClampValue(n, v) \in Nat
    BY PagesAssumption DEF Alert!Raw, Alert!ClampMin, Alert!ClampValue
  <2>4. ASSUME NEW f \in Forms, edited(f), narrowed, silent \/ called PROVE AlertInv'
    BY <2>4, EditStep
  <2>5. CASE Alert!Check(n)
    <3>1. edited([form[n] EXCEPT !.checked = TRUE]) /\ narrowed /\ (silent \/ called)
      BY <2>1, <2>2, <2>5 DEF Alert!Check
    <3>2. [form[n] EXCEPT !.checked = TRUE] \in Forms
      BY <2>2
    <3> QED
      BY <2>4, <3>1, <3>2
  <2>6. CASE Alert!Uncheck(n)
    <3>1. edited([form[n] EXCEPT !.checked = FALSE]) /\ narrowed
      BY <2>6 DEF Alert!Uncheck
    <3>2. called
      BY <2>6 DEF Alert!Uncheck, Alert!deleteAlerts, Alert!Off
    <3>3. [form[n] EXCEPT !.checked = FALSE] \in Forms
      BY <2>2
    <3> QED
      BY <2>4, <3>1, <3>2, <3>3
  <2>7. CASE Alert!CommitValue(n)
    <3>1. edited(form[n]) /\ narrowed /\ (silent \/ called)
      BY <1>0, <2>1, <2>2, <2>7 DEF Alert!CommitValue
    <3> QED
      BY <2>2, <2>4, <3>1
  <2>8. ASSUME NEW v \in 1 .. Top, Alert!DragValue(n, v) PROVE AlertInv'
    <3>1. edited([form[n] EXCEPT !.value = v]) /\ narrowed /\ silent
      BY <2>8 DEF Alert!DragValue
    <3>2. [form[n] EXCEPT !.value = v] \in Forms
      BY <2>2, PagesAssumption
    <3> QED
      BY <2>4, <3>1, <3>2
  <2>9. ASSUME NEW v \in Alert!Raw, Alert!TypeValue(n, v) PROVE AlertInv'
    <3>1. /\ edited([form[n] EXCEPT !.value = Alert!ClampValue(n, v)]) /\ narrowed
          /\ silent \/ called
      BY <2>1, <2>2, <2>3, <2>9 DEF Alert!TypeValue
    <3>2. [form[n] EXCEPT !.value = Alert!ClampValue(n, v)] \in Forms
      BY <2>2, <2>3
    <3> QED
      BY <2>4, <3>1, <3>2
  <2>10. ASSUME NEW v \in Alert!Raw, Alert!TypeMin(n, v) PROVE AlertInv'
    <3>1. /\ edited([form[n] EXCEPT !.min = Alert!ClampMin(v)]) /\ narrowed
          /\ silent \/ called
      BY <2>1, <2>2, <2>3, <2>10 DEF Alert!TypeMin
    <3>2. [form[n] EXCEPT !.min = Alert!ClampMin(v)] \in Forms
      BY <2>2, <2>3
    <3> QED
      BY <2>4, <3>1, <3>2
  <2> QED
    BY <1>7, <2>5, <2>6, <2>7, <2>8, <2>9, <2>10
<1>8. CASE Alert!Send
  <2>1. UNCHANGED <<aHub, aStore, shown, initial, form, chosen, reached>>
    BY <1>8 DEF Alert!Send, Alert!page
  <2> QED
    BY <1>2, <1>8, <2>1, SendStep DEF AlertInv
<1>9. ASSUME NEW c \in sent, Alert!Handle(c) \/ Alert!Fail(c) PROVE AlertInv'
  <2>1. sent' = sent \ {c} /\ UNCHANGED <<aStore, shown, initial, form, timers, chosen, reached>>
    BY <1>9 DEF Alert!Handle, Alert!Fail, Alert!page
  <2> QED
    BY <1>2, <1>9, <2>1, EndStep DEF AlertInv
<1>10. CASE Alert!StoreUpdated
  <2>1. aStore' = aHub /\ UNCHANGED <<aHub, shown, initial, form, reached>> /\ quiet
    BY <1>10 DEF Alert!StoreUpdated, Alert!page
  <2> QED
    BY <1>0, <1>1, <1>2, <2>1 DEF AlertInv
<1> QED
  BY <1>4, <1>5, <1>6, <1>7, <1>8, <1>9, <1>10 DEF Alert!Next, Alert!Editing

-----------------------------------------------------------------------------
(* The history: the ids of a bulk deletion are those read at the click.    *)

HistInv == \A d \in del : Hist!IdsOf(d.left) \subseteq d.chosen

\* The history before a deletion.
LEMMA HistInit == Hist!Init => HistInv
  BY DEF Hist!Init, HistInv

\* What is sent was chosen, and what is left still is.
LEMMA HistStep ==
    ASSUME HistInv, Hist!Next PROVE HistInv' /\ (gone' # gone => \E d \in del : gone' \ gone \subseteq d.chosen)
<1>1. CASE Hist!handleBulkDelete
  BY <1>1 DEF HistInv, Hist!handleBulkDelete
<1>2. ASSUME NEW d \in del, Hist!SendBatch(d)
      PROVE  HistInv' /\ (gone' # gone => gone' \ gone \subseteq d.chosen)
  <2> DEFINE rest == [d EXCEPT !.left = @ \ Hist!NextBatch(d)]
  <2>1. Hist!NextBatch(d) \subseteq d.left
    BY DEF Hist!NextBatch, Hist!FirstOf
  <2>2. Hist!IdsOf(Hist!NextBatch(d)) \subseteq d.chosen
    BY <2>1 DEF HistInv, Hist!IdsOf
  <2>3. rest.chosen = d.chosen /\ rest.left \subseteq d.left
    OBVIOUS
  <2>4. Hist!IdsOf(rest.left) \subseteq rest.chosen
    BY <2>3 DEF HistInv, Hist!IdsOf
  <2> HIDE DEF rest
  <2>5. CASE gone' = gone \cup Hist!IdsOf(Hist!NextBatch(d)) /\ del' = (del \ {d}) \cup {rest}
    <3>1. HistInv'
      BY <2>4, <2>5 DEF HistInv, Hist!IdsOf
    <3> QED
      BY <2>2, <2>5, <3>1
  <2>6. CASE del' = del \ {d} /\ gone' = gone
    BY <2>6 DEF HistInv
  <2> QED
    BY <1>2, <2>5, <2>6 DEF Hist!SendBatch, rest
<1>3. ASSUME NEW d \in del, Hist!BulkDeleted(d) PROVE HistInv' /\ gone' = gone
  BY <1>3 DEF HistInv, Hist!BulkDeleted
<1>4. CASE del' = del /\ gone' = gone
  BY <1>4 DEF HistInv
<1>5. \/ Hist!handleBulkDelete \/ (\E d \in del : Hist!SendBatch(d) \/ Hist!BulkDeleted(d)) \/ (del' = del /\ gone' = gone)
  BY DEF Hist!Next, Hist!job, Hist!Loaded, Hist!LoadFails, Hist!Subscribed, Hist!Deliver, Hist!SetFilter,
         Hist!GoToPage, Hist!SetPageSize, Hist!Toggle, Hist!ToggleAll, Hist!OpenDelete, Hist!CancelDelete,
         Hist!HubCreate, Hist!HubPrune, Hist!HubResolve
<1>6. Hist!handleBulkDelete => gone' = gone
  BY DEF Hist!handleBulkDelete
<1> QED
  BY <1>1, <1>2, <1>3, <1>4, <1>5, <1>6

-----------------------------------------------------------------------------
(* Toasts: a toast that waits to be removed is not open.                   *)

ToastInv ==
    /\ count \in Nat /\ toasts \in Seq([id : Nat, open : BOOLEAN]) /\ toastTimeouts \subseteq 0 .. count
    /\ Len(toasts) <= ToastLimit
    /\ \A i \in DOMAIN toasts : toasts[i].id <= count
    /\ \A i \in DOMAIN toasts : toasts[i].open => toasts[i].id \notin toastTimeouts

\* No toasts at first.
LEMMA ToastInit == Dialog!Init => ToastInv
  BY PagesAssumption DEF Dialog!Init, ToastInv

\* A toast is put in front of the others, of which those beyond the limit go.
LEMMA AddToastShape ==
    ASSUME ToastInv
    PROVE  LET l == Dialog!AddToast(toasts, count + 1)
           IN  /\ l \in Seq([id : Nat, open : BOOLEAN]) /\ l # <<>> /\ Len(l) <= ToastLimit
               /\ \A i \in DOMAIN l : l[i] = [id |-> count + 1, open |-> TRUE]
                                      \/ \E j \in DOMAIN toasts : l[i] = toasts[j]
<1> DEFINE T == [id : Nat, open : BOOLEAN]
           new == [id |-> count + 1, open |-> TRUE]
           all == <<new>> \o toasts
           n == IF Len(toasts) < ToastLimit THEN Len(toasts) + 1 ELSE ToastLimit
<1>1. new \in T /\ toasts \in Seq(T) /\ count \in Nat
  BY DEF ToastInv
<1>2. Len(toasts) \in Nat /\ DOMAIN toasts = 1 .. Len(toasts) /\ <<new>> \in Seq(T) /\ Len(<<new>>) = 1
  BY <1>1, LenProperties
<1> HIDE DEF T, new
<1>3. /\ all \in Seq(T) /\ Len(all) = 1 + Len(toasts)
      /\ \A i \in 1 .. 1 + Len(toasts) : all[i] = IF i <= 1 THEN <<new>>[i] ELSE toasts[i - 1]
  BY <1>1, <1>2, ConcatProperties
<1>4. n \in Nat /\ 1 <= n /\ n <= 1 + Len(toasts) /\ n <= ToastLimit
  BY <1>2, PagesAssumption
<1> HIDE DEF n, all
<1>5. /\ SubSeq(all, 1, n) \in Seq(T) /\ Len(SubSeq(all, 1, n)) = n
      /\ DOMAIN SubSeq(all, 1, n) = 1 .. n
      /\ \A i \in 1 .. n : SubSeq(all, 1, n)[i] = all[i]
  BY <1>3, <1>4
<1>6. ASSUME NEW i \in 1 .. n PROVE all[i] = new \/ \E j \in DOMAIN toasts : all[i] = toasts[j]
  <2>1. i \in Int /\ 1 <= i /\ i <= 1 + Len(toasts) /\ i \in 1 .. 1 + Len(toasts)
    BY <1>2, <1>4
  <2>2. CASE i = 1
    BY <1>3, <2>1, <2>2
  <2>3. CASE i > 1
    <3>1. i - 1 \in DOMAIN toasts /\ all[i] = toasts[i - 1]
      BY <1>2, <1>3, <2>1, <2>3
    <3> QED BY <3>1
  <2> QED
    BY <2>1, <2>2, <2>3
<1>7. SubSeq(all, 1, n) # <<>>
  <2>1. 1 \in DOMAIN SubSeq(all, 1, n)
    BY <1>4, <1>5
  <2> QED
    BY <2>1, HasElement
<1>8. Dialog!AddToast(toasts, count + 1) = SubSeq(all, 1, n)
  BY DEF Dialog!AddToast, all, n, new
<1> QED
  BY <1>4, <1>5, <1>6, <1>7, <1>8 DEF T, new

\* Removing a toast leaves others, and the first one if it has another id.
LEMMA RemoveToastShape ==
    ASSUME ToastInv, NEW id
    PROVE  LET l == Dialog!RemoveToast(toasts, id)
           IN  /\ l \in Seq([id : Nat, open : BOOLEAN]) /\ Len(l) <= Len(toasts)
               /\ \A i \in DOMAIN l : \E j \in DOMAIN toasts : l[i] = toasts[j]
               /\ toasts # <<>> /\ toasts[1].id # id => l # <<>>
<1> DEFINE T == [id : Nat, open : BOOLEAN]
<1>1. toasts \in Seq(T)
  BY DEF ToastInv
<1> HIDE DEF T
<1>2. Len(toasts) \in Nat /\ DOMAIN toasts = 1 .. Len(toasts) /\ \A i \in DOMAIN toasts : toasts[i] \in T
  BY <1>1, LenProperties
<1>3. CASE \A i \in DOMAIN toasts : toasts[i].id # id
  <2>1. Dialog!RemoveToast(toasts, id) = toasts
    BY <1>3 DEF Dialog!RemoveToast
  <2> QED
    BY <1>1, <1>2, <2>1 DEF T
<1>4. CASE \E i \in DOMAIN toasts : toasts[i].id = id
  <2> DEFINE at == CHOOSE i \in DOMAIN toasts : toasts[i].id = id
             before == SubSeq(toasts, 1, at - 1)
             after == SubSeq(toasts, at + 1, Len(toasts))
  <2>1. at \in DOMAIN toasts /\ toasts[at].id = id
    BY <1>4
  <2>2. Dialog!RemoveToast(toasts, id) = before \o after
    BY <1>4 DEF Dialog!RemoveToast
  <2> HIDE DEF at
  <2>3. at \in Nat /\ 1 <= at /\ at <= Len(toasts)
    BY <1>2, <2>1
  <2>4. /\ before \in Seq(T) /\ Len(before) = at - 1
        /\ \A i \in 1 .. at - 1 : i \in DOMAIN toasts /\ before[i] = toasts[i]
    BY <1>1, <2>3, Before
  <2>5. /\ after \in Seq(T) /\ Len(after) = Len(toasts) - at
        /\ \A i \in 1 .. Len(toasts) - at : at + i \in DOMAIN toasts /\ after[i] = toasts[at + i]
    BY <1>1, <2>3, After
  <2> HIDE DEF before, after
  <2> DEFINE l == before \o after
  <2>6. /\ l \in Seq(T) /\ Len(l) = Len(toasts) - 1
        /\ \A i \in 1 .. Len(l) : l[i] = IF i <= at - 1 THEN before[i] ELSE after[i - (at - 1)]
    <3>1. /\ l \in Seq(T) /\ Len(l) = Len(before) + Len(after)
          /\ \A i \in 1 .. Len(before) + Len(after) :
                 l[i] = IF i <= Len(before) THEN before[i] ELSE after[i - Len(before)]
      BY <2>4, <2>5, ConcatProperties
    <3>2. Len(before) + Len(after) = Len(toasts) - 1
      BY <1>2, <2>3, <2>4, <2>5
    <3> QED
      BY <2>4, <3>1, <3>2
  <2>7. DOMAIN l = 1 .. Len(l)
    BY <2>6, LenProperties
  <2> HIDE DEF l
  <2>8. ASSUME NEW i \in DOMAIN l PROVE \E j \in DOMAIN toasts : l[i] = toasts[j]
    <3>1. i \in Int /\ 1 <= i /\ i <= Len(toasts) - 1
      BY <1>2, <2>6, <2>7
    <3>2. CASE i <= at - 1
      BY <2>3, <2>4, <2>6, <2>7, <3>1, <3>2
    <3>3. CASE i > at - 1
      <4>1. i - (at - 1) \in 1 .. Len(toasts) - at /\ l[i] = after[i - (at - 1)]
        BY <1>2, <2>3, <2>6, <2>7, <3>1, <3>3
      <4> QED
        BY <2>5, <4>1
    <3> QED
      BY <2>3, <3>1, <3>2, <3>3
  <2>9. toasts[1].id # id => l # <<>>
    <3> SUFFICES ASSUME toasts[1].id # id PROVE l # <<>>
      OBVIOUS
    <3>1. at # 1
      BY <2>1
    <3>2. 1 \in DOMAIN l
      BY <1>2, <2>3, <2>6, <2>7, <3>1
    <3> QED
      BY <3>2
  <2>10. Len(l) <= Len(toasts)
    BY <1>2, <2>6
  <2> QED
    BY <2>2, <2>6, <2>8, <2>9, <2>10 DEF T, l
<1> QED
  BY <1>3, <1>4

\* A timer for a toast is set when it is closed, and runs out for it alone.
LEMMA ToastStep ==
    ASSUME ToastInv, Dialog!Next PROVE ToastInv' /\ (toasts # <<>> /\ toasts[1].open => toasts' # <<>>)
<1>0. /\ count \in Nat /\ toasts \in Seq([id : Nat, open : BOOLEAN]) /\ toastTimeouts \subseteq 0 .. count
      /\ Len(toasts) \in Nat /\ Len(toasts) <= ToastLimit
      /\ \A i \in DOMAIN toasts : toasts[i].id <= count
      /\ \A i \in DOMAIN toasts : toasts[i].open => toasts[i].id \notin toastTimeouts
      /\ \A i \in DOMAIN toasts : toasts[i] \in [id : Nat, open : BOOLEAN]
      /\ toasts # <<>> => 1 \in DOMAIN toasts
  <2>1. toasts \in Seq([id : Nat, open : BOOLEAN])
    BY DEF ToastInv
  <2>2. \A i \in DOMAIN toasts : toasts[i] \in [id : Nat, open : BOOLEAN]
    BY <2>1, Elements
  <2>3. toasts # <<>> => 1 \in DOMAIN toasts
    BY <2>1, HasFirst
  <2>4. Len(toasts) \in Nat
    BY <2>1, LenProperties
  <2> QED
    BY <2>1, <2>2, <2>3, <2>4 DEF ToastInv
<1>1. CASE Dialog!toast
  <2> DEFINE l == Dialog!AddToast(toasts, count + 1)
  <2>1. count' = count + 1 /\ toasts' = l /\ toastTimeouts' = toastTimeouts
    BY <1>1 DEF Dialog!toast
  <2>2. /\ l \in Seq([id : Nat, open : BOOLEAN]) /\ l # <<>> /\ Len(l) <= ToastLimit
        /\ \A i \in DOMAIN l : l[i] = [id |-> count + 1, open |-> TRUE]
                               \/ \E j \in DOMAIN toasts : l[i] = toasts[j]
    BY AddToastShape
  <2> HIDE DEF l
  <2>3. \A i \in DOMAIN l : l[i].id <= count + 1 /\ (l[i].open => l[i].id \notin toastTimeouts)
    <3> SUFFICES ASSUME NEW i \in DOMAIN l
                 PROVE  l[i].id <= count + 1 /\ (l[i].open => l[i].id \notin toastTimeouts)
      OBVIOUS
    <3>1. CASE l[i] = [id |-> count + 1, open |-> TRUE]
      BY <1>0, <3>1
    <3>2. ASSUME NEW j \in DOMAIN toasts, l[i] = toasts[j]
          PROVE  l[i].id <= count + 1 /\ (l[i].open => l[i].id \notin toastTimeouts)
      BY <1>0, <3>2
    <3> QED
      BY <2>2, <3>1, <3>2
  <2>4. toastTimeouts \subseteq 0 .. count + 1 /\ count + 1 \in Nat
    BY <1>0
  <2> QED
    BY <2>1, <2>2, <2>3, <2>4 DEF ToastInv
<1>2. CASE Dialog!Quiet
  BY <1>2 DEF ToastInv, Dialog!Quiet
<1>3. ASSUME NEW i \in DOMAIN toasts, Dialog!Dismiss(i)
      PROVE  ToastInv' /\ (toasts # <<>> /\ toasts[1].open => toasts' # <<>>)
  <2> DEFINE x == toasts[i].id
             F(t) == IF t.id = x THEN [t EXCEPT !.open = FALSE] ELSE t
  <2>1. /\ toasts' = [j \in DOMAIN toasts |-> F(toasts[j])] /\ count' = count
        /\ toastTimeouts' = toastTimeouts \cup {x}
    BY <1>3 DEF Dialog!Dismiss, Dialog!DismissToast
  <2>2. x \in 0 .. count
    BY <1>0
  <2>3. ASSUME NEW j \in DOMAIN toasts
        PROVE  /\ F(toasts[j]) \in [id : Nat, open : BOOLEAN] /\ F(toasts[j]).id <= count
               /\ F(toasts[j]).open => F(toasts[j]).id \notin toastTimeouts \cup {x}
    BY <1>0
  <2> HIDE DEF F, x
  <2>4. toasts' \in Seq([id : Nat, open : BOOLEAN]) /\ DOMAIN toasts' = DOMAIN toasts /\ Len(toasts') = Len(toasts)
    <3>1. DOMAIN toasts' = DOMAIN toasts /\ \A j \in DOMAIN toasts : toasts'[j] = F(toasts[j])
      BY <2>1
    <3>2. toasts' = [j \in DOMAIN toasts |-> toasts'[j]]
      BY <2>1
    <3>3. \A j \in DOMAIN toasts : toasts'[j] \in [id : Nat, open : BOOLEAN]
      BY <2>3, <3>1
    <3>4. toasts' \in Seq([id : Nat, open : BOOLEAN]) /\ Len(toasts') = Len(toasts)
      BY <1>0, <3>2, <3>3, Mapped
    <3> QED
      BY <3>1, <3>4
  <2>5. toasts # <<>> => toasts' # <<>>
    BY <1>0, <2>4, HasElement
  <2> QED
    BY <1>0, <2>1, <2>2, <2>3, <2>4, <2>5 DEF ToastInv
<1>4. ASSUME NEW id \in toastTimeouts, Dialog!Removed(id)
      PROVE  ToastInv' /\ (toasts # <<>> /\ toasts[1].open => toasts' # <<>>)
  <2> DEFINE l == Dialog!RemoveToast(toasts, id)
  <2>1. toasts' = l /\ count' = count /\ toastTimeouts' = toastTimeouts \ {id}
    BY <1>4 DEF Dialog!Removed
  <2>2. /\ l \in Seq([id : Nat, open : BOOLEAN]) /\ Len(l) <= Len(toasts)
        /\ \A i \in DOMAIN l : \E j \in DOMAIN toasts : l[i] = toasts[j]
        /\ toasts # <<>> /\ toasts[1].id # id => l # <<>>
    BY RemoveToastShape
  <2> HIDE DEF l
  <2>3. \A i \in DOMAIN l : l[i].id <= count /\ (l[i].open => l[i].id \notin toastTimeouts)
    BY <1>0, <2>2
  <2>4. toasts # <<>> /\ toasts[1].open => toasts[1].id # id
    BY <1>0
  <2>5. Len(l) <= ToastLimit
    <3>1. Len(l) \in Nat
      BY <2>2, LenProperties
    <3> QED
      BY <1>0, <2>2, <3>1, PagesAssumption
  <2> QED
    BY <1>0, <2>1, <2>2, <2>3, <2>4, <2>5 DEF ToastInv
<1>5. \/ Dialog!toast \/ Dialog!Quiet
      \/ \E i \in DOMAIN toasts : Dialog!Dismiss(i)
      \/ \E id \in toastTimeouts : Dialog!Removed(id)
  BY DEF Dialog!Next, Dialog!Answers, Dialog!Answer, Dialog!Toasting, Dialog!Sends, Dialog!AuthChecked,
         Dialog!LoginSubmit, Dialog!Navigate, Dialog!createSSHLaunch, Dialog!revokeSSHLaunch,
         Dialog!loadInstallScript, Dialog!DeleteDialog, Dialog!deleteSystem, Dialog!AddDialog,
         Dialog!AddSubmit, Dialog!TypeIds, Dialog!SaveTelegram, Dialog!TestTelegram, Dialog!LoginAnswer,
         Dialog!SSHLaunchAnswer, Dialog!RevokeAnswer, Dialog!InstallAnswer, Dialog!UninstallAnswer,
         Dialog!DeleteAnswer, Dialog!AddAnswer, Dialog!TelegramAnswer
<1> QED
  BY <1>0, <1>1, <1>2, <1>3, <1>4, <1>5

-----------------------------------------------------------------------------
(* The deletion of a system: one that was to be uninstalled is on its way  *)
(* to be deleted only after that.                                          *)

CallFields == {"part", "op", "id", "gen", "ids"}

UninstallInv ==
    /\ \A c \in calls : c.op = "delete" /\ c.id \in asked => c.id \in hubSide.uninstalled
    /\ Dialog!UninstalledFirst
    /\ DOMAIN hubSide = {"agents", "uninstalled", "launches", "tokens", "ids"}
    /\ \A c \in calls : DOMAIN c = CallFields

\* The dialogs before the first click.
LEMMA UninstallInit == Dialog!Init => UninstallInv
  BY DEF Dialog!Init, UninstallInv, Dialog!UninstalledFirst, Dialog!Call, CallFields

\* A step that deletes nothing, asks for nothing and sends no deletion.
LEMMA UninstallKept ==
    ASSUME UninstallInv, asked' = asked,
           hubSide'.agents = hubSide.agents, hubSide'.uninstalled = hubSide.uninstalled,
           DOMAIN hubSide' = DOMAIN hubSide,
           \A c \in calls' : c \in calls \/ (c.op # "delete" /\ DOMAIN c = CallFields)
    PROVE  UninstallInv'
  BY DEF UninstallInv, Dialog!UninstalledFirst

\* Every step of the dialogs keeps the invariant.
LEMMA UninstallStep == ASSUME UninstallInv, Dialog!Next PROVE UninstallInv'
<1> DEFINE noDelete == \A c \in calls' : c \in calls \/ (c.op # "delete" /\ DOMAIN c = CallFields)
           hubKept == /\ hubSide'.agents = hubSide.agents /\ hubSide'.uninstalled = hubSide.uninstalled
                      /\ DOMAIN hubSide' = DOMAIN hubSide
<1>0. /\ DOMAIN hubSide = {"agents", "uninstalled", "launches", "tokens", "ids"}
      /\ \A c \in calls : DOMAIN c = CallFields
  BY DEF UninstallInv
<1>1. ASSUME asked' = asked, hubKept, noDelete PROVE UninstallInv'
  BY <1>1, UninstallKept
<1>2. CASE \/ Dialog!AuthChecked \/ Dialog!DeleteDialog \/ Dialog!AddDialog \/ Dialog!Toasting
           \/ \E i \in Agents \cup {0} : Dialog!Navigate(i)
           \/ \E ids \in SUBSET (UserIds \cup {0}) : Dialog!TypeIds(ids)
  <2>1. asked' = asked /\ hubSide' = hubSide /\ calls' = calls
    BY <1>2 DEF Dialog!AuthChecked, Dialog!DeleteDialog, Dialog!AddDialog, Dialog!Toasting, Dialog!Dismiss,
                Dialog!Removed, Dialog!Navigate, Dialog!TypeIds
  <2> QED
    BY <1>1, <2>1
<1>3. CASE \/ Dialog!LoginSubmit \/ Dialog!createSSHLaunch \/ Dialog!revokeSSHLaunch
           \/ Dialog!loadInstallScript \/ Dialog!AddSubmit \/ Dialog!SaveTelegram \/ Dialog!TestTelegram
  <2>1. asked' = asked /\ hubSide' = hubSide
    BY <1>3 DEF Dialog!LoginSubmit, Dialog!createSSHLaunch, Dialog!revokeSSHLaunch, Dialog!loadInstallScript,
                Dialog!AddSubmit, Dialog!SaveTelegram, Dialog!TestTelegram, Dialog!Sends
  <2>2. noDelete
    BY <1>3 DEF Dialog!LoginSubmit, Dialog!createSSHLaunch, Dialog!revokeSSHLaunch, Dialog!loadInstallScript,
                Dialog!AddSubmit, Dialog!SaveTelegram, Dialog!TestTelegram, Dialog!Sends, Dialog!Send,
                Dialog!Call, CallFields
  <2> QED
    BY <1>1, <2>1, <2>2
<1>4. CASE Dialog!deleteSystem
  <2> DEFINE c == Dialog!Call("bar", Dialog!FirstDeleteCall(bar.uninstall), viewing)
  <2>1. /\ hubSide' = hubSide /\ calls' = calls \cup {c}
        /\ asked' = IF bar.uninstall /\ ~Dialog!DeletedPlainly(viewing)
                    THEN asked \cup {viewing} ELSE asked \ {viewing}
    BY <1>4 DEF Dialog!deleteSystem, Dialog!Sends, Dialog!Send
  <2>2. c.id = viewing /\ (c.op = "delete" <=> ~bar.uninstall) /\ DOMAIN c = CallFields
    BY DEF Dialog!Call, Dialog!FirstDeleteCall, CallFields
  <2> HIDE DEF c
  <2>3. CASE bar.uninstall /\ ~Dialog!DeletedPlainly(viewing)
    BY <2>1, <2>2, <2>3 DEF UninstallInv, Dialog!UninstalledFirst, Dialog!DeletedPlainly
  <2>4. CASE ~(bar.uninstall /\ ~Dialog!DeletedPlainly(viewing))
    BY <2>1, <2>2, <2>4 DEF UninstallInv, Dialog!UninstalledFirst
  <2> QED
    BY <2>3, <2>4
<1>5. ASSUME NEW c \in calls,
             \/ Dialog!LoginAnswer(c) \/ Dialog!SSHLaunchAnswer(c) \/ Dialog!RevokeAnswer(c)
             \/ Dialog!InstallAnswer(c) \/ Dialog!AddAnswer(c) \/ Dialog!TelegramAnswer(c)
      PROVE  UninstallInv'
  <2>1. asked' = asked /\ hubKept
    BY <1>0, <1>5 DEF Dialog!LoginAnswer, Dialog!SSHLaunchAnswer, Dialog!RevokeAnswer, Dialog!InstallAnswer,
                Dialog!AddAnswer, Dialog!TelegramAnswer
  <2>2. noDelete
    BY <1>0, <1>5 DEF CallFields, Dialog!LoginAnswer, Dialog!SSHLaunchAnswer, Dialog!RevokeAnswer, Dialog!InstallAnswer,
                Dialog!AddAnswer, Dialog!TelegramAnswer, Dialog!Answered
  <2> QED
    BY <1>1, <2>1, <2>2
<1>6. ASSUME NEW c \in calls, Dialog!UninstallAnswer(c) PROVE UninstallInv'
  <2> DEFINE d == [c EXCEPT !.op = "delete"]
  <2>1. d.id = c.id /\ DOMAIN d = CallFields
    BY <1>0 DEF CallFields
  <2>2. asked' = asked
    BY <1>6 DEF Dialog!UninstallAnswer
  <2>3. CASE /\ hubSide' = [hubSide EXCEPT !.uninstalled = @ \cup {c.id}]
             /\ calls' = (calls \ {c}) \cup {d}
    <3> HIDE DEF d
    <3>1. hubSide'.agents = hubSide.agents /\ hubSide'.uninstalled = hubSide.uninstalled \cup {c.id}
          /\ DOMAIN hubSide' = DOMAIN hubSide
      BY <1>0, <2>3
    <3> QED
      BY <2>1, <2>2, <2>3, <3>1 DEF UninstallInv, Dialog!UninstalledFirst
  <2>4. CASE hubSide' = hubSide /\ calls' = calls \ {c}
    BY <2>2, <2>4 DEF UninstallInv, Dialog!UninstalledFirst
  <2> QED
    BY <1>6, <2>3, <2>4 DEF Dialog!UninstallAnswer
<1>7. ASSUME NEW c \in calls, Dialog!DeleteAnswer(c) PROVE UninstallInv'
  BY <1>0, <1>7 DEF UninstallInv, Dialog!UninstalledFirst, Dialog!DeleteAnswer, Dialog!Answered
<1> QED
  BY <1>2, <1>3, <1>4, <1>5, <1>6, <1>7 DEF Dialog!Next, Dialog!Answers, Dialog!Answer

-----------------------------------------------------------------------------
(* The grid of systems: a dialog goes with the row of the system it was    *)
(* opened for.                                                             *)

UiFields == {"status", "filter", "sort", "desc", "view", "hidden", "crashed"}

\* In the grid the component of a row shows the system whose id is its key.
GridRows(rows, u) == u.view = "grid" => \A k \in DOMAIN rows : rows[k].sys.id = k

HomeInv ==
    /\ DOMAIN ui = UiFields
    /\ GridRows(rendered, ui)
    /\ dialog.open => dialog.key \in DOMAIN rendered /\ (ui.view = "grid" => dialog.for = dialog.key)
    /\ Home!GridDeletesAsked

\* The home page at first: the table.
LEMMA HomeInit == Home!Init => HomeInv
  BY DEF Home!Init, Home!Start, HomeInv, UiFields, GridRows, Home!NoDialog, Home!GridDeletesAsked, Home!None

\* The row of a key of the grid is that of the system with this id.
LEMMA RowOfKey ==
    ASSUME NEW rows, NEW k \in Home!RowKeys(rows, "grid")
    PROVE  Home!RowOf(rows, "grid", k).id = k
  BY DEF Home!RowKeys, Home!RowKey, Home!RowOf

\* A render, also one that keeps memos, leaves the rows with their keys.
LEMMA PageStep ==
    ASSUME HomeInv, NEW l, NEW u, DOMAIN u = UiFields, Home!Page(l, u), dialog.open => u.view = ui.view,
           deleted' = deleted
    PROVE  HomeInv'
<1> DEFINE rows == Home!FilteredData(l, u.status)
           keys == IF Home!FilterThrows(l, u) THEN {} ELSE Home!RowKeys(rows, u.view)
<1>1. DOMAIN ui' = UiFields /\ ui'.view = u.view
  BY DEF Home!Page, UiFields
<1>2. /\ rendered' = [k \in keys |->
            IF u.view = ui.view /\ k \in DOMAIN rendered /\ Home!SameDeps(rendered[k], Home!RowOf(rows, u.view, k), u)
            THEN rendered[k] ELSE Home!Cells(Home!RowOf(rows, u.view, k), u)]
      /\ dialog' = Home!DialogAfter
  BY DEF Home!Page, Home!Render
<1> HIDE DEF rows
<1>3. GridRows(rendered', ui')
  <2> SUFFICES ASSUME u.view = "grid", NEW k \in keys PROVE rendered'[k].sys.id = k
    BY <1>1, <1>2 DEF GridRows
  <2>1. Home!RowOf(rows, u.view, k).id = k
    BY RowOfKey
  <2>2. rendered'[k].sys = Home!RowOf(rows, u.view, k)
    BY <1>2 DEF Home!SameDeps, Home!Cells
  <2> QED
    BY <2>1, <2>2
<1>4. dialog'.open => dialog' = dialog /\ dialog.open /\ dialog.key \in DOMAIN rendered'
  BY <1>2 DEF Home!DialogAfter, Home!NoDialog
<1> QED
  BY <1>1, <1>3, <1>4 DEF HomeInv, Home!GridDeletesAsked

\* Every step of the home page keeps the invariant.
LEMMA HomeStep == ASSUME HomeInv, Home!Next PROVE HomeInv'
<1>0. DOMAIN ui = UiFields
  BY DEF HomeInv
<1>1. ASSUME NEW u, DOMAIN u = UiFields, Home!Set(u) PROVE HomeInv'
  BY <1>1, PageStep DEF Home!Set
<1>2. CASE \/ Home!SetFilter
           \/ \E s \in {"all", "up", "down", "paused"} : Home!SetStatusFilter(s)
           \/ \E v \in {"table", "grid"} : Home!SetViewMode(v)
           \/ \E c \in Columns \cup {"system"} : Home!SetSorting(c)
           \/ \E c \in Columns : Home!ToggleVisibility(c)
  <2>1. PICK u : DOMAIN u = UiFields /\ Home!Set(u)
    BY <1>0, <1>2 DEF Home!SetFilter, Home!SetStatusFilter, Home!SetViewMode, Home!SetSorting,
                      Home!ToggleVisibility
  <2> QED
    BY <1>1, <2>1
<1>3. CASE Home!ConfirmDelete
  <2>1. /\ deleted' = [id |-> rendered[dialog.key].sys.id, wanted |-> dialog.for, view |-> ui.view]
        /\ dialog.open /\ dialog' = Home!NoDialog /\ UNCHANGED <<ui, rendered>>
    BY <1>3 DEF Home!ConfirmDelete
  <2>2. ui.view = "grid" => rendered[dialog.key].sys.id = dialog.for
    BY <2>1 DEF HomeInv, GridRows
  <2> QED
    BY <2>1, <2>2 DEF HomeInv, GridRows, Home!GridDeletesAsked, Home!NoDialog
<1>4. CASE Home!CancelDelete
  BY <1>4 DEF HomeInv, GridRows, Home!CancelDelete, Home!GridDeletesAsked, Home!NoDialog
<1>5. CASE Home!Reload
  <2>1. /\ DOMAIN ui' = UiFields /\ dialog' = Home!NoDialog /\ deleted' = deleted
        /\ rendered' = [k \in Home!RowKeys(list, ui'.view) |-> Home!Cells(Home!RowOf(list, ui'.view, k), ui')]
    BY <1>5 DEF Home!Reload, UiFields
  <2>2. GridRows(rendered', ui')
    <3> SUFFICES ASSUME ui'.view = "grid", NEW k \in Home!RowKeys(list, ui'.view)
                 PROVE  rendered'[k].sys.id = k
      BY <2>1 DEF GridRows
    <3>1. Home!RowOf(list, ui'.view, k).id = k
      BY RowOfKey
    <3> QED
      BY <2>1, <3>1 DEF Home!Cells
  <2> QED
    BY <2>1, <2>2 DEF HomeInv, Home!NoDialog, Home!GridDeletesAsked
<1>6. ASSUME NEW k \in DOMAIN rendered, Home!TogglePause(k) \/ Home!OpenDelete(k) PROVE HomeInv'
  <2>1. CASE Home!TogglePause(k)
    BY <2>1 DEF HomeInv, GridRows, Home!TogglePause, Home!GridDeletesAsked
  <2>2. CASE Home!OpenDelete(k)
    BY <2>2 DEF HomeInv, GridRows, Home!OpenDelete, Home!GridDeletesAsked
  <2> QED
    BY <1>6, <2>1, <2>2
<1>7. ASSUME NEW l, Home!Page(l, ui), deleted' = deleted PROVE HomeInv'
  BY <1>0, <1>7, PageStep
<1>8. ASSUME NEW r \in requests, Home!Handle(r) PROVE HomeInv'
  <2>1. \/ \E l : Home!Page(l, ui) /\ deleted' = deleted
        \/ UNCHANGED <<ui, rendered, dialog, deleted>>
    BY <1>8 DEF Home!Handle
  <2>2. CASE UNCHANGED <<ui, rendered, dialog, deleted>>
    BY <2>2 DEF HomeInv, GridRows, Home!GridDeletesAsked
  <2> QED
    BY <1>7, <2>1, <2>2
<1>9. ASSUME NEW i, \/ Home!HubEnroll(i) \/ Home!HubDelete(i)
                   \/ \E s \in {"up", "down"}, c \in Home!Levels : Home!HubChange(i, s, c)
      PROVE  HomeInv'
  <2>1. \E l : Home!Page(l, ui) /\ deleted' = deleted
    BY <1>9 DEF Home!HubEnroll, Home!HubDelete, Home!HubChange
  <2> QED
    BY <1>7, <2>1
<1> QED
  BY <1>2, <1>3, <1>4, <1>5, <1>6, <1>8, <1>9 DEF Home!Next, Home!User

-----------------------------------------------------------------------------
(* The rows of the systems table.                                          *)

Uis == [status : {"all", "up", "down", "paused"}, filter : BOOLEAN, sort : Columns \cup {"system"},
        desc : BOOLEAN, view : {"table", "grid"}, hidden : SUBSET Columns, crashed : BOOLEAN]
Storages == [sort : Columns \cup {"system"}, desc : BOOLEAN, view : {"table", "grid"}, hidden : SUBSET Columns]

RowInv == ui \in Uis /\ storage \in Storages /\ Home!RowsCurrent

\* The rows of a page that was just opened.
LEMMA RowInit == Home!Init => RowInv
<1> SUFFICES ASSUME Home!Init PROVE RowInv
  OBVIOUS
<1>1. /\ list = [i \in 1 .. Home!Cardinality(Ids) - 1 |-> [id |-> i, status |-> "up", level |-> "good"]]
      /\ ui = Home!Start /\ storage = [sort |-> "system", desc |-> FALSE, view |-> "table", hidden |-> {}]
      /\ rendered = [i \in DOMAIN list |-> Home!Cells(list[i], ui)]
  BY DEF Home!Init
<1>2. ui.status = "all" /\ ui.view = "table" /\ ui.hidden = {}
  BY <1>1 DEF Home!Start
<1>3. \A i \in DOMAIN list : Home!RowOf(list, "table", i) = list[i]
  BY DEF Home!RowOf, Home!RowKey
<1>4. ui \in Uis /\ storage \in Storages
  BY <1>1 DEF Home!Start, Uis, Storages
<1> QED
  BY <1>1, <1>2, <1>3, <1>4 DEF RowInv, Home!RowsCurrent, Home!FilteredData

\* The table counts as the lemmas do.
LEMMA SameCardinality == ASSUME NEW S PROVE Home!Cardinality(S) = Cardinality(S)
  BY DEF Home!Cardinality, Cardinality

\* One column more or less is noticed: the number of columns differs.
LEMMA ToggleNoticed ==
    ASSUME NEW h, h \subseteq Columns, NEW c \in Columns,
           NEW g, g = (IF c \in h THEN h \ {c} ELSE h \cup {c})
    PROVE  Home!Cardinality(Columns \ h) # Home!Cardinality(Columns \ g) /\ g \subseteq Columns
<1>0. IsFiniteSet(Columns \ h) /\ IsFiniteSet(Columns \ g)
  BY DrawingAssumption, FS_Subset
<1>1. CASE c \in h
  <2>1. Columns \ g = (Columns \ h) \cup {c} /\ c \notin Columns \ h
    BY <1>1
  <2>2. Cardinality(Columns \ g) = Cardinality(Columns \ h) + 1
    BY <1>0, <2>1, FS_AddElement
  <2> QED
    BY <1>0, <1>1, <2>2, FS_CardinalityType, SameCardinality
<1>2. CASE c \notin h
  <2>1. Columns \ h = (Columns \ g) \cup {c} /\ c \notin Columns \ g
    BY <1>2
  <2>2. Cardinality(Columns \ h) = Cardinality(Columns \ g) + 1
    BY <1>0, <2>1, FS_AddElement
  <2> QED
    BY <1>0, <1>2, <2>2, FS_CardinalityType, SameCardinality
<1> QED
  BY <1>1, <1>2

\* A render with the same columns, or with another number of columns.
LEMMA RenderStep ==
    ASSUME RowInv, ~ui.crashed, NEW l, NEW u \in Uis, Home!Page(l, u),
           u.hidden = ui.hidden \/ Home!Cardinality(Columns \ ui.hidden) # Home!Cardinality(Columns \ u.hidden)
    PROVE  RowInv'
<1> DEFINE t == Home!FilterThrows(l, u)
           rows == Home!FilteredData(l, u.status)
           ks == IF t THEN {} ELSE Home!RowKeys(rows, u.view)
           R(k) == Home!RowOf(rows, u.view, k)
<1>1. list' = l /\ ui' = [u EXCEPT !.crashed = t]
      /\ storage' = [sort |-> u.sort, desc |-> u.desc, view |-> u.view, hidden |-> u.hidden]
  BY DEF Home!Page
<1>2. rendered' = [k \in ks |->
          IF u.view = ui.view /\ k \in DOMAIN rendered /\ Home!SameDeps(rendered[k], R(k), u)
          THEN rendered[k] ELSE Home!Cells(R(k), u)]
  BY DEF Home!Page, Home!Render
<1>3. t \in BOOLEAN
  BY DEF Home!FilterThrows, Uis
<1> HIDE DEF t
<1>4. ui' \in Uis /\ storage' \in Storages
  BY <1>1, <1>3 DEF Uis, Storages
<1>5. /\ ui'.status = u.status /\ ui'.view = u.view /\ ui'.hidden = u.hidden
  BY <1>1, <1>3 DEF Uis
<1>6. ASSUME NEW k \in ks PROVE rendered'[k] = Home!Cells(R(k), u)
  <2>1. CASE ~(u.view = ui.view /\ k \in DOMAIN rendered /\ Home!SameDeps(rendered[k], R(k), u))
    BY <1>2, <1>6, <2>1
  <2>2. CASE u.view = ui.view /\ k \in DOMAIN rendered /\ Home!SameDeps(rendered[k], R(k), u)
    <3> DEFINE x == Home!RowOf(Home!FilteredData(list, ui.status), ui.view, k)
    <3>1. rendered'[k] = rendered[k]
      BY <1>2, <1>6, <2>2
    <3>2. rendered[k] = Home!Cells(x, ui)
      BY <2>2 DEF RowInv, Home!RowsCurrent
    <3>3. rendered[k].sys = x /\ rendered[k].cols = Home!VisibleColumns(ui)
      <4> HIDE DEF x
      <4> QED
        BY <3>2 DEF Home!Cells
    <3>4. x = R(k) /\ Home!Cardinality(Home!VisibleColumns(ui)) = Home!Cardinality(Home!VisibleColumns(u))
      BY <2>2, <3>3 DEF Home!SameDeps
    <3>5. Home!VisibleColumns(ui) = Home!VisibleColumns(u)
      BY <3>4 DEF Home!VisibleColumns
    <3> QED
      BY <3>1, <3>2, <3>4, <3>5 DEF Home!Cells
  <2> QED
    BY <2>1, <2>2
<1>7. ASSUME NEW k \in ks PROVE Home!Cells(R(k), u) = Home!Cells(R(k), ui')
  BY <1>5 DEF Home!Cells, Home!VisibleColumns
<1>8. DOMAIN rendered' = ks
  BY <1>2
<1> HIDE DEF ks
<1>9. ASSUME NEW k \in DOMAIN rendered'
      PROVE  rendered'[k] = Home!Cells(Home!RowOf(Home!FilteredData(list', ui'.status), ui'.view, k), ui')
  BY <1>1, <1>5, <1>6, <1>7, <1>8
<1> QED
  BY <1>4, <1>9 DEF RowInv, Home!RowsCurrent

\* Every step of the page.
LEMMA RowStep == RowInv /\ Home!Next => RowInv'
<1> SUFFICES ASSUME RowInv, Home!Next PROVE RowInv'
  OBVIOUS
<1>0. ui \in Uis /\ storage \in Storages
  BY DEF RowInv
<1>1. ASSUME NEW u \in Uis, Home!Set(u), u.hidden = ui.hidden PROVE RowInv'
  <2>1. ~ui.crashed /\ Home!Page(list, u)
    BY <1>1 DEF Home!Set, Home!Event
  <2> QED
    BY <1>1, <2>1, RenderStep
<1>2. CASE Home!SetFilter
  <2> DEFINE u == [ui EXCEPT !.filter = ~@]
  <2>1. u \in Uis /\ u.hidden = ui.hidden
    BY <1>0 DEF Uis
  <2>2. Home!Set(u)
    BY <1>2 DEF Home!SetFilter
  <2> HIDE DEF u
  <2> QED
    BY <1>1, <2>1, <2>2
<1>3. ASSUME NEW s \in {"all", "up", "down", "paused"}, Home!SetStatusFilter(s) PROVE RowInv'
  <2> DEFINE u == [ui EXCEPT !.status = s]
  <2>1. u \in Uis /\ u.hidden = ui.hidden
    BY <1>0 DEF Uis
  <2>2. Home!Set(u)
    BY <1>3 DEF Home!SetStatusFilter
  <2> HIDE DEF u
  <2> QED
    BY <1>1, <2>1, <2>2
<1>4. ASSUME NEW s \in {"table", "grid"}, Home!SetViewMode(s) PROVE RowInv'
  <2> DEFINE u == [ui EXCEPT !.view = s]
  <2>1. u \in Uis /\ u.hidden = ui.hidden
    BY <1>0 DEF Uis
  <2>2. Home!Set(u)
    BY <1>4 DEF Home!SetViewMode
  <2> HIDE DEF u
  <2> QED
    BY <1>1, <2>1, <2>2
<1>5. ASSUME NEW c \in Columns \cup {"system"}, Home!SetSorting(c) PROVE RowInv'
  <2> DEFINE u == [ui EXCEPT !.sort = c, !.desc = ui.sort = c /\ ~ui.desc]
  <2>1. u \in Uis /\ u.hidden = ui.hidden
    BY <1>0 DEF Uis
  <2>2. Home!Set(u)
    BY <1>5 DEF Home!SetSorting
  <2> HIDE DEF u
  <2> QED
    BY <1>1, <2>1, <2>2
<1>6. ASSUME NEW c \in Columns, Home!ToggleVisibility(c) PROVE RowInv'
  <2> DEFINE g == IF c \in ui.hidden THEN ui.hidden \ {c} ELSE ui.hidden \cup {c}
             u == [ui EXCEPT !.hidden = g]
  <2>1. ui.hidden \subseteq Columns
    BY <1>0 DEF Uis
  <2>2. g = (IF c \in ui.hidden THEN ui.hidden \ {c} ELSE ui.hidden \cup {c}) /\ Home!Set(u)
    BY <1>6 DEF Home!ToggleVisibility
  <2> HIDE DEF g
  <2>3. Home!Cardinality(Columns \ ui.hidden) # Home!Cardinality(Columns \ g) /\ g \subseteq Columns
    BY <2>1, <2>2, ToggleNoticed
  <2>4. u \in Uis /\ u.hidden = g
    BY <1>0, <2>3 DEF Uis
  <2> HIDE DEF u
  <2>5. ~ui.crashed /\ Home!Page(list, u)
    BY <2>2 DEF Home!Set, Home!Event
  <2> QED
    BY <2>3, <2>4, <2>5, RenderStep
<1>7. CASE UNCHANGED <<list, ui, storage, rendered>>
  BY <1>7 DEF RowInv, Home!RowsCurrent
<1>8. CASE Home!Reload
  <2> DEFINE u == [status |-> "all", filter |-> FALSE, sort |-> storage.sort, desc |-> storage.desc,
                   view |-> storage.view, hidden |-> storage.hidden, crashed |-> FALSE]
  <2>1. ui' = u /\ rendered' = [k \in Home!RowKeys(list, u.view) |-> Home!Cells(Home!RowOf(list, u.view, k), u)]
        /\ list' = list /\ storage' = storage
    BY <1>8 DEF Home!Reload
  <2>2. u \in Uis /\ u.status = "all"
    BY <1>0 DEF Uis, Storages
  <2> HIDE DEF u
  <2> QED
    BY <1>0, <2>1, <2>2 DEF RowInv, Home!RowsCurrent, Home!FilteredData
<1>9. ASSUME NEW l, Home!Page(l, ui), ~ui.crashed PROVE RowInv'
  BY <1>0, <1>9, RenderStep
<1>10. CASE \E r \in requests : Home!Handle(r)
  BY <1>7, <1>9, <1>10 DEF Home!Handle
<1>11. CASE \E id \in Ids : Home!HubEnroll(id) \/ Home!HubDelete(id)
  BY <1>9, <1>11 DEF Home!HubEnroll, Home!HubDelete, Home!Event
<1>12. CASE \E id \in Ids, s \in {"up", "down"}, c \in Home!Levels : Home!HubChange(id, s, c)
  BY <1>9, <1>12 DEF Home!HubChange, Home!Event
<1>13. CASE Home!ConfirmDelete \/ Home!CancelDelete
            \/ \E k \in DOMAIN rendered : Home!TogglePause(k) \/ Home!OpenDelete(k)
  <2>1. UNCHANGED <<list, ui, storage, rendered>>
    BY <1>13 DEF Home!ConfirmDelete, Home!CancelDelete, Home!TogglePause, Home!OpenDelete
  <2> QED
    BY <1>7, <2>1
<1> QED
  BY <1>2, <1>3, <1>4, <1>5, <1>6, <1>8, <1>10, <1>11, <1>12, <1>13 DEF Home!Next, Home!User

-----------------------------------------------------------------------------
(* The series of the GPU charts.                                           *)

Known == UNION {r.gpus : r \in Points}
OwnName(k) == \A g \in Known : g.name = k[2] => g.id = k[1]
Entry(k) == [name |-> k[2], of |-> k[3], id |-> k[1]]

\* The engines are a function of their key; a key of the power chart whose GPU has
\* a name of its own has its series.  Both keys are those of the records while the
\* charts are drawn.
SeriesInv ==
    /\ points \in Seq(Points)
    /\ engineMemo.series = UNION {{k[1]} \X k[2] : k \in engineMemo.key}
    /\ \A k \in powerMemo.key : OwnName(k) => Entry(k) \in powerMemo.series
    /\ Sys!hasGpuEnginesData(points) => engineMemo.key = Sys!EnginesKey(points)
    /\ Sys!hasGpuPowerData(points) => powerMemo.key = Sys!PowerKey(points)

\* Charts other than those of the GPUs.
LEMMA OtherCharts ==
    ASSUME NEW p, NEW c \in {"gpu power", "gpu engines"}
    PROVE  /\ <<c>> \notin Sys!CpuChart(p) \cup Sys!CpuCoresSheet(p) \cup Sys!MemoryChart(p)
           /\ <<c>> \notin Sys!SwapChart(p) \cup Sys!LoadAverageChart(p) \cup Sys!BandwidthChart(p)
           /\ <<c>> \notin Sys!RootDiskCharts(p) \cup Sys!ExtraFsCharts(p)
           /\ <<c>> \notin Sys!ContainerCharts(p) \cup Sys!ContainersTable(p)
<1>0. \A x : x \notin {"gpu power", "gpu engines"} => <<c>> # <<x>>
  OBVIOUS
<1>1. <<c>> \notin Sys!CpuChart(p) /\ <<c>> \notin Sys!MemoryChart(p) /\ <<c>> \notin Sys!SwapChart(p)
      /\ <<c>> \notin Sys!LoadAverageChart(p)
  <2>1. <<c>> \notin Sys!CpuChart(p)
    BY <1>0 DEF Sys!CpuChart
  <2>2. <<c>> \notin Sys!MemoryChart(p)
    BY <1>0 DEF Sys!MemoryChart
  <2>3. <<c>> \notin Sys!SwapChart(p)
    BY <1>0 DEF Sys!SwapChart
  <2>4. <<c>> \notin Sys!LoadAverageChart(p)
    <3> DEFINE old == p.v < 1300
    <3>1. Sys!LoadAverageChart(p) = IF old THEN {} ELSE {<<"load">>}
      BY DEF Sys!LoadAverageChart
    <3>2. <<c>> \notin {} /\ <<c>> \notin {<<"load">>}
      OBVIOUS
    <3> HIDE DEF old
    <3> QED
      BY <3>1, <3>2, Zenon
  <2> QED
    BY <2>1, <2>2, <2>3, <2>4
<1>2. <<c>> \notin Sys!CpuCoresSheet(p)
  <2>1. \A r : <<c>> \notin Sys!CpuCards(r)
    BY <1>0 DEF Sys!CpuCards
  <2> DEFINE none == p.v < 1503 \/ "cpu" \notin p.had
             rs == {x \in Sys!Latest(p.s) : x.cores > 0}
             sets == {Sys!CpuCards(r) : r \in rs}
  <2>2. Sys!CpuCoresSheet(p) = IF none THEN {} ELSE UNION sets
    BY DEF Sys!CpuCoresSheet
  <2> HIDE DEF none, rs
  <2>3. \A x \in sets : <<c>> \notin x
    BY <2>1
  <2> HIDE DEF sets
  <2> QED
    BY <2>2, <2>3
<1>3. <<c>> \notin Sys!BandwidthChart(p)
  BY DEF Sys!BandwidthChart, Sys!NetworkSheet, Sys!NetworkCards
<1>4. \A fs : <<c>> \notin Sys!DiskUsageChart(fs) \cup Sys!DiskIOChart(p, fs)
  BY DEF Sys!DiskUsageChart, Sys!DiskIOChart, Sys!DiskIOSheet, Sys!DiskCards
<1>5. <<c>> \notin Sys!RootDiskCharts(p) \cup Sys!ExtraFsCharts(p)
  BY <1>4 DEF Sys!RootDiskCharts, Sys!ExtraFsCharts
<1>6. <<c>> \notin Sys!ContainerCharts(p) \cup Sys!ContainersTable(p)
  <2>1. <<c>> \notin Sys!ContainerCharts(p)
    BY <1>0 DEF Sys!ContainerCharts
  <2>2. <<c>> \notin Sys!ContainersTable(p)
    <3> DEFINE yes == p.c /\ p.v >= 1400
    <3>1. Sys!ContainersTable(p) = IF yes THEN {<<"containers table">>} ELSE {}
      BY DEF Sys!ContainersTable
    <3>2. <<c>> \notin {} /\ <<c>> \notin {<<"containers table">>}
      OBVIOUS
    <3> HIDE DEF yes
    <3> QED
      BY <3>1, <3>2, Zenon
  <2> QED
    BY <2>1, <2>2
<1> QED
  BY <1>1, <1>2, <1>3, <1>5, <1>6

\* Whether the two charts are drawn depends on the records only.
LEMMA GpuCharts ==
    ASSUME NEW m, NEW p
    PROVE  /\ <<"gpu power">> \in Sys!Drawn(m, p) <=> Sys!hasGpuPowerData(p.s)
           /\ <<"gpu engines">> \in Sys!Drawn(m, p) <=> Sys!hasGpuEnginesData(p.s)
<1> DEFINE gpu == Sys!GpuPowerChart(p) \cup Sys!GpuDetailCharts(p)
<1>1. <<"gpu power">> \in gpu <=> Sys!hasGpuPowerData(p.s)
  BY DEF Sys!GpuPowerChart, Sys!GpuDetailCharts
<1>2. <<"gpu engines">> \in gpu <=> Sys!hasGpuEnginesData(p.s)
  BY DEF Sys!GpuPowerChart, Sys!GpuDetailCharts
<1>3. Sys!hasGpuPowerData(p.s) \/ Sys!hasGpuEnginesData(p.s) => Sys!HasGpu(p.s)
  BY DEF Sys!hasGpuPowerData, Sys!hasGpuEnginesData, Sys!HasGpu, Sys!hasGpuData
<1>4. ASSUME NEW c \in {"gpu power", "gpu engines"}
      PROVE  /\ <<c>> \in Sys!defaultLayout(p) <=> <<c>> \in gpu
             /\ <<c>> \in Sys!tabbedLayout(p) <=> Sys!HasGpu(p.s) /\ <<c>> \in gpu
  BY OtherCharts DEF Sys!defaultLayout, Sys!tabbedLayout, Sys!CoreTab, Sys!DiskTab, Sys!GpuTab, Sys!ContainersTab
<1> QED
  BY <1>1, <1>2, <1>3, <1>4 DEF Sys!Drawn

\* No series is memoized at first.
LEMMA SeriesInit == Sys!Init => SeriesInv
<1> SUFFICES ASSUME Sys!Init PROVE SeriesInv
  OBVIOUS
<1>1. points = <<>> /\ powerMemo.key = {} /\ engineMemo.key = {} /\ engineMemo.series = {}
  BY DEF Sys!Init, Sys!NoMemo
<1>2. points \in Seq(Points)
  BY <1>1, EmptySeq
<1>3. ~Sys!hasGpuEnginesData(points) /\ ~Sys!hasGpuPowerData(points)
  BY <1>1 DEF Sys!hasGpuEnginesData, Sys!hasGpuPowerData, Sys!LastGpus, Sys!Latest
<1> QED
  BY <1>1, <1>2, <1>3 DEF SeriesInv

\* The engines' series read off their key.
LEMMA EnginesByKey == ASSUME NEW s PROVE Sys!EngineSeries(s) = UNION {{k[1]} \X k[2] : k \in Sys!EnginesKey(s)}
<1> DEFINE G == {x \in Sys!EngineGpus(s) : x.id = Sys!LeastId(Sys!EngineGpus(s))}
<1>1. Sys!EngineSeries(s) = UNION {{g.id} \X g.e : g \in G} /\ Sys!EnginesKey(s) = {<<g.id, g.e>> : g \in G}
  BY DEF Sys!EngineSeries, Sys!EnginesKey
<1> HIDE DEF G
<1> DEFINE K == {<<g.id, g.e>> : g \in G}
           A == {{g.id} \X g.e : g \in G}
           B == {{k[1]} \X k[2] : k \in K}
<1>2. \A g : <<g.id, g.e>>[1] = g.id /\ <<g.id, g.e>>[2] = g.e
  OBVIOUS
<1>3. A \subseteq B
  BY <1>2
<1>4. B \subseteq A
  BY <1>2
<1>5. A = B
  BY <1>3, <1>4
<1> HIDE DEF A, B, K
<1>6. Sys!EngineSeries(s) = UNION A /\ K = Sys!EnginesKey(s)
  BY <1>1 DEF A, K
<1>7. UNION B = UNION {{k[1]} \X k[2] : k \in Sys!EnginesKey(s)}
  BY <1>6 DEF B
<1> QED
  BY <1>5, <1>6, <1>7

\* The first record with one of some GPUs.
LEMMA FirstRecordWith ==
    ASSUME NEW s \in Seq(Points), NEW A, NEW g \in Sys!GpusOf(s), g \in A
    PROVE  \E j \in DOMAIN s : s[j].gpus \cap A # {} /\ \A k \in 1 .. j - 1 : s[k].gpus \cap A = {}
<1> DEFINE T == {j \in DOMAIN s : s[j].gpus \cap A # {}}
<1>1. DOMAIN s = 1 .. Len(s) /\ Len(s) \in Nat
  BY LenProperties
<1>2. T # {} /\ T \subseteq Nat
  BY <1>1 DEF Sys!GpusOf, Sys!All
<1> HIDE DEF T
<1>3. PICK j \in T : \A k \in Nat : k < j => k \notin T
  BY <1>2, LeastIndex
<1> QED
  BY <1>1, <1>3 DEF T

\* GPUs of one id.
LEMMA OneId ==
    ASSUME NEW gs, gs # {}, NEW id \in Nat, \A x \in gs : x.id = id
    PROVE  Sys!LeastId(gs) = id
<1>1. {x.id : x \in gs} = {id}
  OBVIOUS
<1>2. id <= id
  OBVIOUS
<1>3. id \in {x.id : x \in gs} /\ \A g \in gs : id <= g.id
  BY <1>1, <1>2, Zenon
<1>4. Sys!LeastId(gs) \in {x.id : x \in gs}
  BY <1>3 DEF Sys!LeastId
<1> QED
  BY <1>1, <1>4

\* The id with which a GPU first came is that of every GPU of its name: for its
\* power, and for the power of its package.
LEMMA FirstIdOfName ==
    ASSUME NEW s \in Seq(Points), NEW n, NEW id \in Nat, NEW g \in Sys!GpusOf(s), g.name = n,
           \A x \in Known : x.name = n => x.id = id
    PROVE  /\ Sys!FirstId(s, n, LAMBDA x : TRUE) = id
           /\ g.pp => Sys!FirstId(s, n, LAMBDA x : x.pp) = id
<1>0. \A j \in DOMAIN s : s[j].gpus \subseteq Known
  BY DEF Known
<1>1. Sys!FirstId(s, n, LAMBDA x : TRUE) = id
  <2> DEFINE Has(r) == \E x \in r.gpus : x.name = n
             First(j) == Has(s[j]) /\ \A k \in 1 .. j - 1 : ~Has(s[k])
             i == CHOOSE j \in DOMAIN s : First(j)
             gs == {x \in s[i].gpus : x.name = n}
  <2>1. \E j \in DOMAIN s : First(j)
    <3> DEFINE A == {x \in Sys!GpusOf(s) : x.name = n}
    <3>1. PICK j \in DOMAIN s : s[j].gpus \cap A # {} /\ \A k \in 1 .. j - 1 : s[k].gpus \cap A = {}
      BY FirstRecordWith
    <3>2. \A k \in DOMAIN s : s[k].gpus \subseteq Sys!GpusOf(s)
      BY DEF Sys!GpusOf, Sys!All
    <3>3. \A k \in 1 .. j - 1 : k \in DOMAIN s
      BY LenProperties
    <3> QED
      BY <3>1, <3>2, <3>3
  <2>2. i \in DOMAIN s /\ First(i)
    BY <2>1
  <2>3. gs # {} /\ \A x \in gs : x.id = id
    BY <1>0, <2>2
  <2>4. Sys!FirstId(s, n, LAMBDA x : TRUE) = Sys!LeastId(gs)
    BY DEF Sys!FirstId
  <2> HIDE DEF gs
  <2> QED
    BY <2>3, <2>4, OneId
<1>2. ASSUME g.pp PROVE Sys!FirstId(s, n, LAMBDA x : x.pp) = id
  <2> DEFINE Has(r) == \E x \in r.gpus : x.name = n /\ x.pp
             First(j) == Has(s[j]) /\ \A k \in 1 .. j - 1 : ~Has(s[k])
             i == CHOOSE j \in DOMAIN s : First(j)
             gs == {x \in s[i].gpus : x.name = n /\ x.pp}
  <2>1. \E j \in DOMAIN s : First(j)
    <3> DEFINE A == {x \in Sys!GpusOf(s) : x.name = n /\ x.pp}
    <3>1. PICK j \in DOMAIN s : s[j].gpus \cap A # {} /\ \A k \in 1 .. j - 1 : s[k].gpus \cap A = {}
      BY <1>2, FirstRecordWith
    <3>2. \A k \in DOMAIN s : s[k].gpus \subseteq Sys!GpusOf(s)
      BY DEF Sys!GpusOf, Sys!All
    <3>3. \A k \in 1 .. j - 1 : k \in DOMAIN s
      BY LenProperties
    <3> QED
      BY <3>1, <3>2, <3>3
  <2>2. i \in DOMAIN s /\ First(i)
    BY <2>1
  <2>3. gs # {} /\ \A x \in gs : x.id = id
    BY <1>0, <2>2
  <2>4. Sys!FirstId(s, n, LAMBDA x : x.pp) = Sys!LeastId(gs)
    BY DEF Sys!FirstId
  <2> HIDE DEF gs
  <2> QED
    BY <2>3, <2>4, OneId
<1> QED
  BY <1>1, <1>2

\* A new series for a new key.
LEMMA PowerByKey ==
    ASSUME NEW s \in Seq(Points), NEW k \in Sys!PowerKey(s), OwnName(k)
    PROVE  Entry(k) \in Sys!PowerSeries(s)
<1> DEFINE gs == UNION {r.gpus : r \in Sys!LastWith(s, LAMBDA r : r.gpus # {})}
<1>1. gs \subseteq Sys!GpusOf(s)
  BY DEF Sys!LastWith, Sys!GpusOf, Sys!All
<1>0. Sys!PowerKey(s) = {<<g.id, g.name, "p">> : g \in {x \in gs : x.p}}
                        \cup {<<g.id, g.name, "pp">> : g \in {x \in gs : x.pp}}
  BY DEF Sys!PowerKey
<1> HIDE DEF gs
<1>2. PICK g \in gs : k = <<g.id, g.name, "p">> \/ (g.pp /\ k = <<g.id, g.name, "pp">>)
  BY <1>0
<1>3. g \in Sys!GpusOf(s) /\ g.id \in Nat
  <2>1. \A i \in DOMAIN s : s[i] \in Points
    OBVIOUS
  <2>2. g \in Sys!GpusOf(s)
    BY <1>1, <1>2
  <2> QED
    BY <2>1, <2>2, DrawingAssumption DEF Sys!GpusOf, Sys!All
<1>4. k[1] = g.id /\ k[2] = g.name
  BY <1>2
<1>5. \A x \in Known : x.name = g.name => x.id = g.id
  BY <1>4 DEF OwnName
<1>6. CASE k = <<g.id, g.name, "p">>
  <2>1. Sys!FirstId(s, g.name, LAMBDA x : TRUE) = g.id
    BY <1>3, <1>5, FirstIdOfName
  <2>2. [name |-> g.name, of |-> "p", id |-> Sys!FirstId(s, g.name, LAMBDA x : TRUE)] \in Sys!PowerSeries(s)
    BY <1>3 DEF Sys!PowerSeries
  <2> QED
    BY <1>6, <2>1, <2>2 DEF Entry
<1>7. CASE g.pp /\ k = <<g.id, g.name, "pp">>
  <2>1. Sys!FirstId(s, g.name, LAMBDA x : x.pp) = g.id
    BY <1>3, <1>5, <1>7, FirstIdOfName
  <2>2. [name |-> g.name, of |-> "pp", id |-> Sys!FirstId(s, g.name, LAMBDA x : x.pp)] \in Sys!PowerSeries(s)
    BY <1>3, <1>7 DEF Sys!PowerSeries
  <2> QED
    BY <1>7, <2>1, <2>2 DEF Entry
<1> QED
  BY <1>2, <1>6, <1>7

\* A render with the records of the step.
LEMMA SeriesRender ==
    ASSUME SeriesInv, NEW x, Sys!Render(x), points' \in Seq(Points)
    PROVE  SeriesInv'
<1> DEFINE p == [s |-> points', c |-> contained', v |-> Versions[shownId'], had |-> {}, tabs |-> mountedTabs']
           Fresh(memo) == IF mode' = mode THEN memo ELSE Sys!NoMemo
           em == Fresh(engineMemo)
           pm == Fresh(powerMemo)
<1>1. /\ powerMemo' = IF Sys!hasGpuPowerData(points')
                      THEN Sys!Memo(pm, Sys!PowerKey(points'), Sys!PowerSeries(points')) ELSE Sys!NoMemo
      /\ engineMemo' = IF Sys!hasGpuEnginesData(points')
                       THEN Sys!Memo(em, Sys!EnginesKey(points'), Sys!EngineSeries(points')) ELSE Sys!NoMemo
  <2>1. /\ powerMemo' = IF <<"gpu power">> \in Sys!Drawn(mode', p)
                        THEN Sys!Memo(pm, Sys!PowerKey(points'), Sys!PowerSeries(points')) ELSE Sys!NoMemo
        /\ engineMemo' = IF <<"gpu engines">> \in Sys!Drawn(mode', p)
                         THEN Sys!Memo(em, Sys!EnginesKey(points'), Sys!EngineSeries(points')) ELSE Sys!NoMemo
    BY DEF Sys!Render
  <2>2. p.s = points'
    OBVIOUS
  <2> HIDE DEF p, em, pm
  <2>3. /\ <<"gpu power">> \in Sys!Drawn(mode', p) <=> Sys!hasGpuPowerData(points')
        /\ <<"gpu engines">> \in Sys!Drawn(mode', p) <=> Sys!hasGpuEnginesData(points')
    BY <2>2, GpuCharts
  <2> QED
    BY <2>1, <2>3
<1>2. Sys!NoMemo.key = {} /\ Sys!NoMemo.series = {}
  BY DEF Sys!NoMemo
<1>3. em.series = UNION {{k[1]} \X k[2] : k \in em.key}
  BY <1>2 DEF SeriesInv
<1>4. \A k \in pm.key : OwnName(k) => Entry(k) \in pm.series
  BY <1>2 DEF SeriesInv
<1> HIDE DEF em, pm
<1>5. engineMemo'.series = UNION {{k[1]} \X k[2] : k \in engineMemo'.key}
      /\ (Sys!hasGpuEnginesData(points') => engineMemo'.key = Sys!EnginesKey(points'))
  <2>1. CASE ~Sys!hasGpuEnginesData(points')
    BY <1>1, <1>2, <2>1
  <2>2. CASE Sys!hasGpuEnginesData(points') /\ Sys!EnginesKey(points') = em.key
    BY <1>1, <1>3, <2>2 DEF Sys!Memo
  <2>3. CASE Sys!hasGpuEnginesData(points') /\ Sys!EnginesKey(points') # em.key
    <3>1. engineMemo' = [key |-> Sys!EnginesKey(points'), series |-> Sys!EngineSeries(points')]
      BY <1>1, <2>3 DEF Sys!Memo
    <3>2. engineMemo'.key = Sys!EnginesKey(points') /\ engineMemo'.series = Sys!EngineSeries(points')
      BY <3>1
    <3> QED
      BY <3>2, EnginesByKey
  <2> QED
    BY <2>1, <2>2, <2>3
<1>6. (\A k \in powerMemo'.key : OwnName(k) => Entry(k) \in powerMemo'.series)
      /\ (Sys!hasGpuPowerData(points') => powerMemo'.key = Sys!PowerKey(points'))
  <2>1. CASE ~Sys!hasGpuPowerData(points')
    BY <1>1, <1>2, <2>1
  <2>2. CASE Sys!hasGpuPowerData(points') /\ Sys!PowerKey(points') = pm.key
    BY <1>1, <1>4, <2>2 DEF Sys!Memo
  <2>3. CASE Sys!hasGpuPowerData(points') /\ Sys!PowerKey(points') # pm.key
    <3>1. powerMemo' = [key |-> Sys!PowerKey(points'), series |-> Sys!PowerSeries(points')]
      BY <1>1, <2>3 DEF Sys!Memo
    <3>2. powerMemo'.key = Sys!PowerKey(points') /\ powerMemo'.series = Sys!PowerSeries(points')
      BY <3>1
    <3> QED
      BY <3>2, PowerByKey
  <2> QED
    BY <2>1, <2>2, <2>3
<1>7. \A k : OwnName(k)' <=> OwnName(k)
  BY DEF OwnName, Known
<1> QED
  BY <1>5, <1>6, <1>7 DEF SeriesInv, Entry, OwnName, Known

\* Every step of the page.
LEMMA SeriesStep == SeriesInv /\ Sys!Next => SeriesInv'
<1> SUFFICES ASSUME SeriesInv, Sys!Next PROVE SeriesInv'
  OBVIOUS
<1>0. points \in Seq(Points)
  BY DEF SeriesInv
<1>1. CASE \E r \in Points : Sys!Arrive(r)
  <2>1. PICK r \in Points : Sys!Arrive(r)
    BY <1>1
  <2>2. points' = (IF Len(points) < MaxPoints THEN Append(points, r) ELSE Append(Tail(points), r)) /\ Sys!Render(opened)
    BY <2>1 DEF Sys!Arrive, Sys!Step, Sys!StepWith
  <2>3. Append(points, r) \in Seq(Points)
    BY <1>0, <2>1, AppendProperties
  <2>4. CASE Len(points) < MaxPoints
    BY <2>2, <2>3, <2>4, SeriesRender
  <2>5. CASE ~(Len(points) < MaxPoints)
    <3>1. Len(points) \in Nat /\ Len(points) # 0
      BY <1>0, <2>5, LenProperties, DrawingAssumption
    <3>2. points # <<>>
      BY <3>1, EmptySeq
    <3>3. Tail(points) \in Seq(Points)
      BY <1>0, <3>2, HeadTailProperties
    <3>4. Append(Tail(points), r) \in Seq(Points)
      BY <2>1, <3>3, AppendProperties
    <3> QED
      BY <2>2, <2>5, <3>4, SeriesRender
  <2> QED
    BY <2>4, <2>5
<1>2. ASSUME NEW x, Sys!Render(x), points' = points \/ points' = <<>> PROVE SeriesInv'
  <2>1. points' \in Seq(Points)
    BY <1>0, <1>2, EmptySeq
  <2> QED
    BY <1>2, <2>1, SeriesRender
<1>3. CASE Sys!ContainersArrive
  BY <1>2, <1>3 DEF Sys!ContainersArrive, Sys!Step, Sys!StepWith
<1>4. CASE \E m \in {"default", "tabs"} : Sys!setDisplayMode(m)
  BY <1>2, <1>4 DEF Sys!setDisplayMode, Sys!Step, Sys!StepWith
<1>5. CASE \E t \in Sys!Tabs : Sys!SelectTab(t)
  BY <1>2, <1>5 DEF Sys!SelectTab, Sys!Step, Sys!StepWith
<1>6. CASE \E i \in Sys!SystemIds : Sys!Navigate(i)
  BY <1>2, <1>6 DEF Sys!Navigate, Sys!Step, Sys!StepWith
<1>7. CASE \E left \in BOOLEAN : Sys!TabKey(left) \/ Sys!SystemKey(left)
  BY <1>2, <1>7 DEF Sys!TabKey, Sys!SystemKey, Sys!Step, Sys!StepWith
<1>8. CASE \E x \in Sys!Sheets : Sys!ToggleSheet(x)
  BY <1>2, <1>8 DEF Sys!ToggleSheet, Sys!StepWith
<1> QED
  BY <1>1, <1>3, <1>4, <1>5, <1>6, <1>7, <1>8 DEF Sys!Next

\* What is drawn is what the records say.
LEMMA SeriesFresh == SeriesInv => Sys!SeriesCurrent
<1> SUFFICES ASSUME SeriesInv PROVE Sys!SeriesCurrent
  OBVIOUS
<1>1. Sys!Page.s = points
  BY DEF Sys!Page
<1>2. /\ <<"gpu power">> \in Sys!Drawn(mode, Sys!Page) <=> Sys!hasGpuPowerData(points)
      /\ <<"gpu engines">> \in Sys!Drawn(mode, Sys!Page) <=> Sys!hasGpuEnginesData(points)
  BY <1>1, GpuCharts
<1>3. Sys!hasGpuEnginesData(points) => engineMemo.series = Sys!EngineSeries(points)
  BY EnginesByKey DEF SeriesInv
<1> QED
  BY <1>2, <1>3 DEF SeriesInv, Sys!SeriesCurrent, OwnName, Entry, Known

-----------------------------------------------------------------------------
(* A chart: what it copied, and the timers of its axis.                    *)

Labels == [label : Nat, width : Nat]

\* The last timer was started by the last render, with the label and the width of
\* what is drawn.
LastTimerKnows ==
    measures # <<>> /\ measures[Len(measures)] = [label |-> Label[display], width |-> yAxisWidth]

ChartInv ==
    /\ source \in Data \cup {0} /\ display \in Data \cup {0} /\ yAxisWidth \in Nat
    /\ measures \in Seq(Labels)
    /\ areas.at = displayMax /\ maxToggled \in BOOLEAN
    /\ ~cardSeen => ~seen /\ display = 0 /\ measures = <<>>
    /\ Chart!VisibleFresh
    /\ display # 0 => yAxisWidth >= Label[display] \/ LastTimerKnows

\* The chart before its card was seen.
LEMMA ChartInit == Chart!Init => ChartInv
<1> SUFFICES ASSUME Chart!Init PROVE ChartInv
  OBVIOUS
<1>1. measures \in Seq(Labels)
  BY EmptySeq DEF Chart!Init
<1> QED
  BY <1>1 DEF Chart!Init, ChartInv, Chart!VisibleFresh

\* The timers of a render: none, or one with the label drawn, behind the others.
LEMMA TimersAfter ==
    ASSUME NEW left \in Seq(Labels), NEW d \in Data \cup {0}, NEW w \in Nat, NEW changed \in BOOLEAN
    PROVE  LET m == left \o Chart!Ticks(d, w, changed)
           IN  /\ m \in Seq(Labels)
               /\ changed /\ d # 0 => m # <<>> /\ m[Len(m)] = [label |-> Label[d], width |-> w]
               /\ ~(changed /\ d # 0) => m = left
<1>1. CASE changed /\ d # 0
  <2> DEFINE e == [label |-> Label[d], width |-> w]
             m == left \o <<e>>
  <2>1. Chart!Ticks(d, w, changed) = <<e>>
    BY <1>1 DEF Chart!Ticks
  <2>2. e \in Labels
    BY <1>1, DrawingAssumption DEF Labels
  <2> HIDE DEF e
  <2>3. m = Append(left, e)
    BY <2>2, AppendIsConcat
  <2>4. Append(left, e) \in Seq(Labels) /\ Append(left, e) # <<>>
        /\ Len(Append(left, e)) = Len(left) + 1 /\ Append(left, e)[Len(left) + 1] = e
    BY <2>2, AppendProperties
  <2> QED
    BY <1>1, <2>1, <2>3, <2>4 DEF e
<1>2. CASE ~(changed /\ d # 0)
  <2>1. Chart!Ticks(d, w, changed) = <<>>
    BY <1>2 DEF Chart!Ticks
  <2> QED
    BY <1>2, <2>1, ConcatEmptySeq
<1> QED
  BY <1>1, <1>2

\* A render: what a visible chart draws is what it was given, and a timer knows
\* its labels or they fit.
LEMMA SettleStep ==
    ASSUME ChartInv, NEW src \in Data \cup {0}, NEW max \in BOOLEAN, NEW vis, NEW width \in Nat,
           NEW left \in Seq(Labels), Chart!Settle(src, max, vis, width, left), cardSeen' = TRUE,
           \/ width # yAxisWidth
           \/ display # 0 => \/ width >= Label[display]
                             \/ left # <<>> /\ left[Len(left)] = [label |-> Label[display], width |-> width]
    PROVE  ChartInv'
<1> DEFINE d == Chart!Updated(src, display, vis)
           m == IF vis THEN max ELSE displayMax
           a == Chart!AreasOf(src, max, m)
           changed == <<d, a, width>> # <<display, areas, yAxisWidth>>
<1>1. /\ source' = src /\ maxToggled' = max /\ display' = d /\ displayMax' = m /\ areas' = a
      /\ seen' = (vis /\ d # 0) /\ yAxisWidth' = width
      /\ measures' = left \o Chart!Ticks(d, width, changed)
  BY DEF Chart!Settle
<1>2. d \in Data \cup {0} /\ (vis => d = src)
  BY DEF Chart!Updated, ChartInv
<1>3. /\ a.at = m
      /\ vis => a.key = Series[src] /\ (a.at = a.max => a.max = max)
  <2>1. areas.at = displayMax
    BY DEF ChartInv
  <2>2. CASE Series[src] = areas.key /\ m = displayMax
    <3>1. a = areas
      BY <2>2 DEF Chart!AreasOf
    <3> QED
      BY <2>1, <2>2, <3>1
  <2>3. CASE ~(Series[src] = areas.key /\ m = displayMax)
    <3>1. a = [key |-> Series[src], at |-> m, max |-> max]
      BY <2>3 DEF Chart!AreasOf
    <3> QED
      BY <3>1
  <2> QED
    BY <2>2, <2>3
<1> HIDE DEF a, d, m, changed
<1>4. /\ measures' \in Seq(Labels)
      /\ changed /\ d # 0 => measures' # <<>> /\ measures'[Len(measures')] = [label |-> Label[d], width |-> width]
      /\ ~(changed /\ d # 0) => measures' = left
  <2>1. changed \in BOOLEAN
    BY DEF changed
  <2> QED
    BY <1>1, <1>2, <2>1, TimersAfter
<1>5. d # 0 => width >= Label[d] \/ LastTimerKnows'
  <2> SUFFICES ASSUME d # 0 PROVE width >= Label[d] \/ LastTimerKnows'
    OBVIOUS
  <2>1. CASE changed
    BY <1>1, <1>4, <2>1 DEF LastTimerKnows
  <2>2. CASE ~changed
    BY <1>1, <1>4, <2>2 DEF LastTimerKnows, changed
  <2> QED
    BY <2>1, <2>2
<1>6. Chart!VisibleFresh'
  BY <1>1, <1>2, <1>3 DEF Chart!VisibleFresh
<1> QED
  BY <1>1, <1>2, <1>3, <1>4, <1>5, <1>6 DEF ChartInv

\* Every step of the chart keeps the invariant.
LEMMA ChartStep == ASSUME ChartInv, Chart!Next PROVE ChartInv'
<1>0. /\ source \in Data \cup {0} /\ display \in Data \cup {0} /\ yAxisWidth \in Nat
      /\ measures \in Seq(Labels) /\ maxToggled \in BOOLEAN
      /\ display # 0 => yAxisWidth >= Label[display] \/ LastTimerKnows
      /\ ~cardSeen => ~seen /\ display = 0 /\ measures = <<>>
  BY DEF ChartInv
<1>1. ASSUME NEW src \in Data \cup {0}, NEW max \in BOOLEAN, Chart!Change(src, max), cardSeen' = cardSeen
      PROVE  ChartInv'
  <2>1. CASE cardSeen
    <3>1. Chart!Settle(src, max, seen, yAxisWidth, measures)
      BY <1>1, <2>1 DEF Chart!Change
    <3> QED
      BY <1>0, <1>1, <2>1, <3>1, SettleStep DEF LastTimerKnows
  <2>2. CASE ~cardSeen
    BY <1>0, <1>1, <2>2 DEF Chart!Change, ChartInv, Chart!VisibleFresh
  <2> QED
    BY <2>1, <2>2
<1>2. ASSUME NEW d \in Data \cup {0}, Chart!NewData(d) PROVE ChartInv'
  BY <1>0, <1>1, <1>2 DEF Chart!NewData
<1>3. CASE Chart!ToggleMax
  BY <1>0, <1>1, <1>3 DEF Chart!ToggleMax
<1>4. CASE Chart!Scroll
  BY <1>4 DEF Chart!Scroll, ChartInv, Chart!VisibleFresh, LastTimerKnows
<1>5. CASE Chart!CardObserved
  <2>1. /\ source' = source /\ maxToggled' = maxToggled /\ cardSeen' = TRUE /\ display' = source
        /\ displayMax' = maxToggled /\ seen' = FALSE /\ areas'.at = maxToggled /\ yAxisWidth' = 0
        /\ measures' = Chart!Ticks(source, 0, TRUE)
    BY <1>5 DEF Chart!CardObserved
  <2>2. <<>> \in Seq(Labels)
    BY EmptySeq
  <2>3. CASE source = 0
    <3>1. measures' = <<>>
      BY <2>1, <2>3 DEF Chart!Ticks
    <3> QED
      BY <1>0, <2>1, <2>2, <2>3, <3>1 DEF ChartInv, Chart!VisibleFresh
  <2>4. CASE source # 0
    <3> DEFINE e == [label |-> Label[source], width |-> 0]
    <3>1. measures' = <<e>> /\ e \in Labels
      BY <1>0, <2>1, <2>4, DrawingAssumption DEF Chart!Ticks, Labels
    <3> HIDE DEF e
    <3>2. <<e>> \in Seq(Labels) /\ <<e>> # <<>> /\ Len(<<e>>) = 1 /\ <<e>>[1] = e
      BY <3>1
    <3>3. measures' \in Seq(Labels) /\ LastTimerKnows'
      BY <2>1, <3>1, <3>2 DEF LastTimerKnows, e
    <3> QED
      BY <1>0, <2>1, <3>3 DEF ChartInv, Chart!VisibleFresh
  <2> QED
    BY <2>3, <2>4
<1>6. CASE Chart!Observed
  BY <1>0, <1>6, SettleStep DEF Chart!Observed, LastTimerKnows
<1>7. CASE Chart!Measure
  <2> DEFINE m == Head(measures)
             w == IF m.label > m.width THEN m.label ELSE yAxisWidth
  <2>1. /\ measures # <<>> /\ Chart!Settle(source, maxToggled, seen, w, Tail(measures)) /\ cardSeen' = cardSeen
    BY <1>7 DEF Chart!Measure
  <2>2. m \in Labels /\ Tail(measures) \in Seq(Labels)
    BY <1>0, <2>1, HeadTailProperties
  <2>3. w \in Nat /\ cardSeen
    BY <1>0, <2>1, <2>2 DEF Labels
  <2>4. CASE w # yAxisWidth
    BY <1>0, <2>1, <2>2, <2>3, <2>4, SettleStep
  <2>5. CASE w = yAxisWidth
    <3>1. display # 0 => \/ yAxisWidth >= Label[display]
                         \/ /\ Tail(measures) # <<>>
                            /\ Tail(measures)[Len(Tail(measures))] = [label |-> Label[display], width |-> yAxisWidth]
      <4> SUFFICES ASSUME display # 0, ~(yAxisWidth >= Label[display])
                   PROVE  /\ Tail(measures) # <<>>
                          /\ Tail(measures)[Len(Tail(measures))] = [label |-> Label[display], width |-> yAxisWidth]
        OBVIOUS
      <4>1. measures[Len(measures)] = [label |-> Label[display], width |-> yAxisWidth]
        BY <1>0 DEF LastTimerKnows
      <4>2. Label[display] \in Nat
        BY <1>0, DrawingAssumption
      <4>3. Len(measures) \in Nat /\ Len(measures) # 0 /\ m = measures[1]
        BY <1>0, <2>1
      <4>4. Len(measures) # 1
        <5> SUFFICES ASSUME Len(measures) = 1 PROVE FALSE
          OBVIOUS
        <5>1. m = [label |-> Label[display], width |-> yAxisWidth]
          BY <4>1, <4>3
        <5>2. m.label = Label[display] /\ m.width = yAxisWidth
          BY <5>1
        <5>3. Label[display] > yAxisWidth
          BY <1>0, <4>2
        <5> QED
          BY <1>0, <2>5, <4>2, <5>2, <5>3
      <4>5. Len(Tail(measures)) = Len(measures) - 1 /\ Len(Tail(measures)) >= 1
        BY <1>0, <2>1, <4>3, <4>4, HeadTailProperties
      <4>6. Tail(measures)[Len(Tail(measures))] = measures[Len(measures)]
        BY <1>0, <2>1, <4>3, <4>5, HeadTailProperties
      <4>7. Tail(measures) # <<>>
        <5>1. Tail(measures) \in Seq(Labels)
          BY <1>0, <2>1, <4>3, HeadTailProperties
        <5>2. \A s \in Seq(Labels) : Len(s) >= 1 => s # <<>>
          BY EmptySeq, LenProperties
        <5> QED
          BY <4>5, <5>1, <5>2
      <4> QED
        BY <4>1, <4>6, <4>7
    <3> HIDE DEF w
    <3> QED
      BY <1>0, <2>1, <2>2, <2>3, <2>5, <3>1, SettleStep
  <2> QED
    BY <2>4, <2>5
<1>8. CASE \E b \in Bars : Chart!FilterTimer(b) \/ Chart!ClearFilter(b) \/ \E t \in Texts \cup {0} : Chart!Type(b, t)
  <2>1. UNCHANGED <<source, maxToggled, onScreen, cardSeen, seen, display, displayMax, areas, yAxisWidth, measures>>
    BY <1>8 DEF Chart!FilterTimer, Chart!ClearFilter, Chart!Type, Chart!canvas
  <2> QED
    BY <2>1 DEF ChartInv, Chart!VisibleFresh, LastTimerKnows
<1> QED
  BY <1>2, <1>3, <1>4, <1>5, <1>6, <1>7, <1>8 DEF Chart!Next, Chart!Browser

\* When no timer runs, the labels fit.
LEMMA ChartFresh == ChartInv => Chart!VisibleFresh /\ Chart!LabelsFit
  BY DEF ChartInv, LastTimerKnows, Chart!LabelsFit

-----------------------------------------------------------------------------
(* The history: types, and the page that is shown.                         *)

\* The filter of the history is the filter of the lemmas.
LEMMA HistFilter ==
    ASSUME NEW S, NEW s \in Seq(S), NEW ps, ps \subseteq DOMAIN s
    PROVE  Hist!ElementsAt(s, ps) \in Seq(S) /\ Len(Hist!ElementsAt(s, ps)) \in Nat
<1>1. Hist!ElementsAt(s, ps) = ElementsAt(s, ps)
  BY DEF Hist!ElementsAt, ElementsAt, Hist!Rank, Rank, Hist!Cardinality, Cardinality
<1> QED
  BY <1>1, ElementsAtProperties

\* The number of pages; the first one exists where there are rows.
LEMMA FirstPage ==
    ASSUME NEW L \in Nat, NEW size \in Nat, size # 0
    PROVE  (L + size - 1) \div size \in Nat /\ (L > 0 => 0 < (L + size - 1) \div size)
OBVIOUS

\* setPageSize: the page with the row at the top exists.
LEMMA SamePage ==
    ASSUME NEW L \in Nat, NEW size \in Nat, size # 0, NEW n \in Nat, n # 0, NEW i \in Nat,
           L > 0 => i < (L + size - 1) \div size
    PROVE  (i * size) \div n \in Nat /\ (L > 0 => (i * size) \div n < (L + n - 1) \div n)
OBVIOUS

HistTyped ==
    /\ Hist!TypeOK
    /\ pager \in [index : Nat, size : PageSizes]
    /\ Hist!PageExists

\* How many rows pass the filter.
LEMMA RowCount ==
    ASSUME NEW d \in Seq(Hist!Records), NEW f
    PROVE  Len(Hist!Filtered(d, f)) \in Nat
<1> DEFINE ps == {i \in DOMAIN d : d[i].id \in f}
<1>1. Hist!Filtered(d, f) = Hist!ElementsAt(d, ps)
  BY DEF Hist!Filtered, Hist!Filter
<1>2. ps \subseteq DOMAIN d
  OBVIOUS
<1> HIDE DEF ps
<1> QED
  BY <1>1, <1>2, HistFilter

\* The history when the page is opened.
LEMMA HistTypedInit == Hist!Init => HistTyped
<1> SUFFICES ASSUME Hist!Init PROVE HistTyped
  OBVIOUS
<1> USE DEF Hist!Init
<1>1. 1 \in Hist!RecordIds /\ 2 \in Hist!RecordIds /\ made \in 0 .. MaxRecords /\ steps \in 0 .. MaxSteps
  BY SizesAssumption DEF Hist!RecordIds
<1>2. hHub \in Seq(Hist!Records)
  BY <1>1 DEF Hist!Records
<1>3. hWire \in Seq(Hist!Messages) /\ hData \in Seq(Hist!Records)
  OBVIOUS
<1>4. pager \in [index : Nat, size : PageSizes]
  BY SizesAssumption DEF Hist!StoredPages
<1>5. found \subseteq Hist!RecordIds
  OBVIOUS
<1>6. Hist!PageExists
  <2>1. Len(Hist!Filtered(hData, found)) = 0
    <3>1. {i \in DOMAIN hData : hData[i].id \in found} = {}
      OBVIOUS
    <3>2. Hist!Filtered(hData, found) = ElementsAt(hData, {})
      BY <3>1 DEF Hist!Filtered, Hist!Filter, Hist!ElementsAt, ElementsAt, Hist!Rank, Rank, Hist!Cardinality, Cardinality
    <3> QED
      BY <3>2, FS_EmptySet DEF ElementsAt
  <2> QED
    BY <2>1 DEF Hist!PageExists
<1> QED
  BY <1>1, <1>2, <1>3, <1>4, <1>5, <1>6 DEF HistTyped, Hist!TypeOK

\* An event leaves a list of records.
LEMMA OnEventTyped ==
    ASSUME NEW d \in Seq(Hist!Records), NEW m \in Hist!Messages PROVE Hist!OnEvent(d, m) \in Seq(Hist!Records)
<1>0. m.record \in Hist!Records /\ m.action \in {"create", "update", "delete"}
  BY DEF Hist!Messages
<1>1. CASE m.action = "create"
  <2>1. <<m.record>> \o d \in Seq(Hist!Records)
    BY <1>0, ConcatProperties
  <2> QED
    BY <1>1, <2>1 DEF Hist!OnEvent
<1>2. CASE m.action = "update"
  <2> DEFINE f == [i \in DOMAIN d |-> IF d[i].id = m.record.id THEN m.record ELSE d[i]]
  <2>1. \A i \in DOMAIN d : f[i] \in Hist!Records
    BY <1>0, Elements
  <2>2. f = [i \in DOMAIN d |-> f[i]]
    OBVIOUS
  <2>3. Hist!OnEvent(d, m) = f
    BY <1>2 DEF Hist!OnEvent
  <2> HIDE DEF f
  <2> QED
    BY <2>1, <2>2, <2>3, Mapped
<1>3. CASE m.action = "delete"
  <2> DEFINE ps == {i \in DOMAIN d : d[i].id # m.record.id}
  <2>1. Hist!OnEvent(d, m) = Hist!ElementsAt(d, ps)
    BY <1>3 DEF Hist!OnEvent, Hist!Filter
  <2>2. ps \subseteq DOMAIN d
    OBVIOUS
  <2> HIDE DEF ps
  <2> QED
    BY <2>1, <2>2, HistFilter
<1> QED
  BY <1>0, <1>1, <1>2, <1>3

\* Records that leave the hub, and the messages about them.
LEMMA RemoveTyped ==
    ASSUME HistTyped, NEW ids, Hist!RemoveIds(ids)
    PROVE  hHub' \in Seq(Hist!Records) /\ hWire' \in Seq(Hist!Messages)
<1> DEFINE in == {i \in DOMAIN hHub : hHub[i].id \in ids}
           rest == {i \in DOMAIN hHub : hHub[i].id \notin ids}
           out == Hist!ElementsAt(hHub, in)
           msgs == [i \in DOMAIN out |-> [action |-> "delete", record |-> out[i]]]
<1>0. hHub \in Seq(Hist!Records) /\ hWire \in Seq(Hist!Messages)
  BY DEF HistTyped, Hist!TypeOK
<1>1. in \subseteq DOMAIN hHub /\ rest \subseteq DOMAIN hHub
  OBVIOUS
<1>2. hHub' = Hist!ElementsAt(hHub, rest) /\ hWire' = IF hSub = "live" THEN hWire \o msgs ELSE hWire
  BY DEF Hist!RemoveIds, Hist!Filter, Hist!Tell
<1> HIDE DEF in, rest
<1>3. hHub' \in Seq(Hist!Records) /\ out \in Seq(Hist!Records)
  BY <1>0, <1>1, <1>2, HistFilter
<1> HIDE DEF out
<1>4. msgs \in Seq(Hist!Messages)
  <2>1. \A i \in DOMAIN out : [action |-> "delete", record |-> out[i]] \in Hist!Messages
    BY <1>3, Elements DEF Hist!Messages
  <2>2. DOMAIN out = 1 .. Len(out) /\ Len(out) \in Nat
    BY <1>3, LenProperties
  <2>3. msgs \in [1 .. Len(out) -> Hist!Messages]
    BY <2>1, <2>2
  <2> QED
    BY <2>2, <2>3, SeqDef
<1> HIDE DEF msgs
<1> QED
  BY <1>0, <1>2, <1>3, <1>4, ConcatProperties

\* Every step of the history keeps the types and a page that exists.
LEMMA HistTypedStep == HistTyped /\ Hist!Next => HistTyped'
<1> SUFFICES ASSUME HistTyped, Hist!Next PROVE HistTyped'
  OBVIOUS
<1> USE DEF Hist!server, Hist!link, Hist!job
<1>0. /\ made \in 0 .. MaxRecords /\ hHub \in Seq(Hist!Records)
      /\ hLoad \in {"sent", "failed", "done"} /\ hSub \in {"opening", "live", "failed"}
      /\ hWire \in Seq(Hist!Messages) /\ hData \in Seq(Hist!Records)
      /\ picked \subseteq Nat /\ confirming \in BOOLEAN
      /\ del \subseteq Hist!Deletions /\ gone \subseteq Hist!RecordIds
      /\ pager \in [index : Nat, size : PageSizes] /\ found \subseteq Hist!RecordIds /\ steps \in 0 .. MaxSteps
      /\ Hist!PageExists
  BY DEF HistTyped, Hist!TypeOK
<1> DEFINE Server == made' \in 0 .. MaxRecords /\ hHub' \in Seq(Hist!Records)
           Link == /\ hLoad' \in {"sent", "failed", "done"} /\ hSub' \in {"opening", "live", "failed"}
                   /\ hWire' \in Seq(Hist!Messages)
           Job == confirming' \in BOOLEAN /\ del' \subseteq Hist!Deletions /\ gone' \subseteq Hist!RecordIds
           Shown == /\ hData' \in Seq(Hist!Records) /\ found' \subseteq Hist!RecordIds
                    /\ pager' \in [index : Nat, size : PageSizes] /\ Hist!PageExists'
           Done == steps' \in 0 .. MaxSteps
<1>1. SUFFICES Server /\ Link /\ Job /\ Shown /\ picked' \subseteq Nat /\ Done
  BY <1>1 DEF HistTyped, Hist!TypeOK
<1>2. MaxSteps \in Nat /\ MaxRecords \in Nat /\ PageSizes \subseteq Nat \ {0}
  BY SizesAssumption
\* What is left alone.
<1>3. ASSUME UNCHANGED <<made, hHub>> PROVE Server
  BY <1>0, <1>3
<1>4. ASSUME UNCHANGED <<hLoad, hSub, hWire>> PROVE Link
  BY <1>0, <1>4
<1>5. ASSUME UNCHANGED <<confirming, del, gone>> PROVE Job
  BY <1>0, <1>5
<1>6. ASSUME UNCHANGED <<hData, pager, found>> PROVE Shown
  BY <1>0, <1>6 DEF Hist!PageExists
<1>7. ASSUME UNCHANGED steps PROVE Done
  BY <1>0, <1>7
<1>8. ASSUME Hist!Step PROVE Done
  BY <1>0, <1>2, <1>8 DEF Hist!Step
<1>9. ASSUME UNCHANGED picked PROVE picked' \subseteq Nat
  BY <1>0, <1>9
\* Another list or another filter.
<1>10. ASSUME pager' = Hist!PageReset(pager), hData' \in Seq(Hist!Records), found' \subseteq Hist!RecordIds
       PROVE  Shown
  <2>1. pager' \in [index : Nat, size : PageSizes] /\ pager'.index = 0
    BY <1>0, <1>10 DEF Hist!PageReset
  <2>2. Len(Hist!Filtered(hData', found')) \in Nat /\ pager'.size \in Nat /\ pager'.size # 0
    BY <1>2, <1>10, <2>1, RowCount
  <2>3. Hist!PageExists'
    BY <2>1, <2>2, FirstPage DEF Hist!PageExists, Hist!PageCount
  <2> QED
    BY <1>10, <2>1, <2>3
<1> HIDE DEF Server, Link, Job, Shown, Done
<1>11. CASE Hist!Loaded
  <2>1. Link
    BY <1>0, <1>11 DEF Hist!Loaded, Link
  <2>2. Shown
    BY <1>0, <1>10, <1>11 DEF Hist!Loaded, Hist!SetData
  <2> QED
    BY <1>3, <1>5, <1>7, <1>9, <1>11, <2>1, <2>2 DEF Hist!Loaded
<1>12. CASE Hist!LoadFails
  <2>1. Link
    BY <1>0, <1>12 DEF Hist!LoadFails, Link
  <2> QED
    BY <1>3, <1>5, <1>6, <1>7, <1>9, <1>12, <2>1 DEF Hist!LoadFails
<1>13. CASE Hist!Subscribed
  <2>1. Link
    BY <1>0, <1>13 DEF Hist!Subscribed, Link
  <2> QED
    BY <1>3, <1>5, <1>6, <1>7, <1>9, <1>13, <2>1 DEF Hist!Subscribed
<1>14. CASE Hist!Deliver
  <2>1. hWire # <<>> /\ hWire' = Tail(hWire) /\ UNCHANGED <<hLoad, hSub>>
    BY <1>14 DEF Hist!Deliver
  <2>2. Head(hWire) \in Hist!Messages /\ Tail(hWire) \in Seq(Hist!Messages)
    BY <1>0, <2>1, HeadTailProperties
  <2>3. Link
    BY <1>0, <2>1, <2>2 DEF Link
  <2>4. Hist!OnEvent(hData, Head(hWire)) \in Seq(Hist!Records)
    BY <1>0, <2>2, OnEventTyped
  <2>5. Shown
    BY <1>0, <1>10, <1>14, <2>4 DEF Hist!Deliver, Hist!SetData
  <2> QED
    BY <1>3, <1>5, <1>7, <1>9, <1>14, <2>3, <2>5 DEF Hist!Deliver
<1>15. ASSUME NEW f \in {Hist!RecordIds, {1}}, Hist!SetFilter(f)
       PROVE  Server /\ Link /\ Job /\ Shown /\ picked' \subseteq Nat /\ Done
  <2>1. f \subseteq Hist!RecordIds
    BY SizesAssumption DEF Hist!RecordIds
  <2>2. Shown
    BY <1>0, <1>10, <1>15, <2>1 DEF Hist!SetFilter
  <2> QED
    BY <1>3, <1>4, <1>5, <1>8, <1>9, <1>15, <2>2 DEF Hist!SetFilter
<1>16. ASSUME NEW i \in Hist!PageTargets, Hist!GoToPage(i)
       PROVE  Server /\ Link /\ Job /\ Shown /\ picked' \subseteq Nat /\ Done
  <2> DEFINE L == Len(Hist!Filtered(hData, found))
             pages == Hist!PageCount(hData, found, pager.size)
  <2>1. pager' = [pager EXCEPT !.index = i] /\ UNCHANGED <<hData, found>>
    BY <1>16 DEF Hist!GoToPage
  <2>2. pager.index \in Nat /\ pager.size \in Nat /\ pager.size # 0 /\ L \in Nat
    BY <1>0, <1>2, RowCount
  <2>3. pages \in Nat /\ (L > 0 => 0 < pages) /\ (L > 0 => pager.index < pages)
    BY <1>0, <2>2, FirstPage DEF Hist!PageExists, Hist!PageCount
  <2>4. \/ pager.index > 0 /\ i \in {0, pager.index - 1}
        \/ pager.index < pages - 1 /\ i \in {pager.index + 1, pages - 1}
    BY DEF Hist!PageTargets
  <2>5. Hist!PageExists = (L > 0 => pager.index < pages)
    BY DEF Hist!PageExists
  <2> HIDE DEF L, pages
  <2>6. i \in Nat /\ (L > 0 => i < pages)
    BY <2>2, <2>3, <2>4
  <2>7. pager' \in [index : Nat, size : PageSizes] /\ pager'.index = i /\ pager'.size = pager.size
    BY <1>0, <2>1, <2>6
  <2>8. Shown
    BY <1>0, <2>1, <2>6, <2>7 DEF Shown, Hist!PageExists, L, pages
  <2> QED
    BY <1>3, <1>4, <1>5, <1>8, <1>9, <1>16, <2>8 DEF Hist!GoToPage
<1>17. ASSUME NEW n \in PageSizes, Hist!SetPageSize(n) PROVE Server /\ Link /\ Job /\ Shown /\ picked' \subseteq Nat /\ Done
  <2> DEFINE L == Len(Hist!Filtered(hData, found))
  <2>1. pager' = [index |-> (pager.index * pager.size) \div n, size |-> n] /\ UNCHANGED <<hData, found>>
    BY <1>17 DEF Hist!SetPageSize
  <2>2. L \in Nat
    BY <1>0, RowCount
  <2>3. pager.index \in Nat /\ pager.size \in Nat /\ pager.size # 0 /\ n \in Nat /\ n # 0
    BY <1>0, <1>2
  <2>4. L > 0 => pager.index < (L + pager.size - 1) \div pager.size
    BY <1>0 DEF Hist!PageExists, Hist!PageCount
  <2> HIDE DEF L
  <2>5. LET j == (pager.index * pager.size) \div n IN j \in Nat /\ (L > 0 => j < (L + n - 1) \div n)
    BY <2>2, <2>3, <2>4, SamePage
  <2>6. pager' \in [index : Nat, size : PageSizes] /\ pager'.size = n
        /\ (L > 0 => pager'.index < (L + n - 1) \div n)
    BY <2>1, <2>5
  <2>7. Shown
    BY <1>0, <2>1, <2>6 DEF Shown, Hist!PageExists, Hist!PageCount, L
  <2> QED
    BY <1>3, <1>4, <1>5, <1>8, <1>9, <1>17, <2>7 DEF Hist!SetPageSize
<1>18. Hist!OnPage \subseteq Nat
  BY <1>0, LenProperties DEF Hist!OnPage
<1>19. ASSUME NEW i \in Hist!OnPage, Hist!Toggle(i) PROVE Server /\ Link /\ Job /\ Shown /\ picked' \subseteq Nat /\ Done
  <2>1. picked' \subseteq Nat
    BY <1>0, <1>18, <1>19 DEF Hist!Toggle
  <2> QED
    BY <1>3, <1>4, <1>5, <1>6, <1>8, <1>19, <2>1 DEF Hist!Toggle
<1>20. CASE Hist!ToggleAll
  <2>1. picked' \subseteq Nat
    BY <1>0, <1>18, <1>20 DEF Hist!ToggleAll
  <2> QED
    BY <1>3, <1>4, <1>5, <1>6, <1>8, <1>20, <2>1 DEF Hist!ToggleAll
<1>21. CASE Hist!OpenDelete
  <2>1. Job
    BY <1>0, <1>21 DEF Hist!OpenDelete, Job
  <2> QED
    BY <1>3, <1>4, <1>6, <1>8, <1>9, <1>21, <2>1 DEF Hist!OpenDelete
<1>22. CASE Hist!CancelDelete
  <2>1. Job
    BY <1>0, <1>22 DEF Hist!CancelDelete, Job
  <2> QED
    BY <1>3, <1>4, <1>6, <1>8, <1>9, <1>22, <2>1 DEF Hist!CancelDelete
<1>23. CASE Hist!handleBulkDelete
  <2>1. Hist!SelectedIds \subseteq [row : Nat, id : Hist!RecordIds]
    <3>1. DOMAIN hData \subseteq Nat
      BY <1>0, LenProperties
    <3>2. \A i \in DOMAIN hData : hData[i].id \in Hist!RecordIds
      <4>1. \A i \in DOMAIN hData : hData[i] \in Hist!Records
        BY <1>0, Elements
      <4> QED
        BY <4>1 DEF Hist!Records
    <3> QED
      BY <3>1, <3>2 DEF Hist!SelectedIds
  <2>2. Hist!IdsOf(Hist!SelectedIds) \subseteq Hist!RecordIds
    BY <2>1 DEF Hist!IdsOf
  <2>3. [click |-> steps, left |-> Hist!SelectedIds, chosen |-> Hist!IdsOf(Hist!SelectedIds)] \in Hist!Deletions
    BY <1>0, <2>1, <2>2 DEF Hist!Deletions
  <2>4. Job
    BY <1>0, <1>23, <2>3 DEF Hist!handleBulkDelete, Job
  <2> QED
    BY <1>3, <1>4, <1>6, <1>7, <1>9, <1>23, <2>4 DEF Hist!handleBulkDelete
<1>24. ASSUME NEW d \in del, Hist!SendBatch(d) PROVE Server /\ Link /\ Job /\ Shown /\ picked' \subseteq Nat /\ Done
  <2> DEFINE ids == Hist!IdsOf(Hist!NextBatch(d))
             rest == [d EXCEPT !.left = @ \ Hist!NextBatch(d)]
  <2>1. Hist!NextBatch(d) \subseteq d.left
    BY DEF Hist!NextBatch, Hist!FirstOf
  <2>2. ids \subseteq Hist!RecordIds
    BY <1>0, <2>1 DEF Hist!IdsOf, Hist!Deletions
  <2>3. rest \in Hist!Deletions
    BY <1>0 DEF Hist!Deletions
  <2> HIDE DEF ids, rest
  <2>4. CASE Hist!RemoveIds(ids) /\ gone' = gone \cup ids /\ del' = (del \ {d}) \cup {rest}
    <3>1. hHub' \in Seq(Hist!Records) /\ hWire' \in Seq(Hist!Messages)
      BY <2>4, RemoveTyped
    <3>2. Job
      BY <1>0, <1>24, <2>2, <2>3, <2>4 DEF Hist!SendBatch, Job
    <3> QED
      BY <1>0, <1>6, <1>7, <1>9, <1>24, <3>1, <3>2 DEF Hist!SendBatch, Server, Link
  <2>5. CASE del' = del \ {d} /\ UNCHANGED <<hHub, hWire, gone>>
    <3>1. Job
      BY <1>0, <1>24, <2>5 DEF Hist!SendBatch, Job
    <3> QED
      BY <1>3, <1>4, <1>6, <1>7, <1>9, <1>24, <2>5, <3>1 DEF Hist!SendBatch
  <2> QED
    BY <1>24, <2>4, <2>5 DEF Hist!SendBatch, ids, rest
<1>25. ASSUME NEW d \in del, Hist!BulkDeleted(d) PROVE Server /\ Link /\ Job /\ Shown /\ picked' \subseteq Nat /\ Done
  <2>1. Job /\ picked' \subseteq Nat
    BY <1>0, <1>25 DEF Hist!BulkDeleted, Job
  <2> QED
    BY <1>3, <1>4, <1>6, <1>7, <1>25, <2>1 DEF Hist!BulkDeleted
<1>26. ASSUME NEW msgs \in Seq(Hist!Messages), Hist!Tell(msgs) PROVE hWire' \in Seq(Hist!Messages)
  BY <1>0, <1>26, ConcatProperties DEF Hist!Tell
<1>27. CASE Hist!HubCreate
  <2> DEFINE r == [id |-> made', resolved |-> FALSE]
             msg == [action |-> "create", record |-> r]
  <2>1. made' \in 0 .. MaxRecords /\ r \in Hist!Records
    BY <1>0, <1>2, <1>27 DEF Hist!HubCreate, Hist!Records, Hist!RecordIds
  <2>2. hHub' = <<r>> \o hHub /\ Hist!Tell(<<msg>>)
    BY <1>27 DEF Hist!HubCreate
  <2>3. msg \in Hist!Messages
    BY <2>1 DEF Hist!Messages
  <2> HIDE DEF r, msg
  <2>4. hHub' \in Seq(Hist!Records)
    BY <1>0, <2>1, <2>2, ConcatProperties
  <2>5. hWire' \in Seq(Hist!Messages)
    <3>1. <<msg>> \in Seq(Hist!Messages)
      BY <2>3
    <3> QED
      BY <1>26, <2>2, <3>1
  <2> QED
    BY <1>0, <1>5, <1>6, <1>8, <1>9, <1>27, <2>1, <2>4, <2>5 DEF Hist!HubCreate, Server, Link
<1>28. ASSUME NEW i \in DOMAIN hHub, Hist!HubResolve(i) PROVE Server /\ Link /\ Job /\ Shown /\ picked' \subseteq Nat /\ Done
  <2> DEFINE msg == [action |-> "update", record |-> hHub'[i]]
  <2>1. hHub' = [hHub EXCEPT ![i].resolved = TRUE] /\ Hist!Tell(<<msg>>)
    BY <1>28 DEF Hist!HubResolve
  <2>2. \A j \in DOMAIN hHub : hHub[j] \in Hist!Records
    BY <1>0, Elements
  <2>3. hHub' = [j \in DOMAIN hHub |-> hHub'[j]] /\ \A j \in DOMAIN hHub : hHub'[j] \in Hist!Records
    BY <2>1, <2>2 DEF Hist!Records
  <2>4. hHub' \in Seq(Hist!Records)
    BY <1>0, <2>3, Mapped
  <2>5. msg \in Hist!Messages
    BY <2>3 DEF Hist!Messages
  <2> HIDE DEF msg
  <2>6. hWire' \in Seq(Hist!Messages)
    <3>1. <<msg>> \in Seq(Hist!Messages)
      BY <2>5
    <3> QED
      BY <1>26, <2>1, <3>1
  <2> QED
    BY <1>0, <1>5, <1>6, <1>8, <1>9, <1>28, <2>4, <2>6 DEF Hist!HubResolve, Server, Link
<1>29. CASE Hist!HubPrune
  <2>1. hHub' \in Seq(Hist!Records) /\ hWire' \in Seq(Hist!Messages)
    BY <1>29, RemoveTyped DEF Hist!HubPrune
  <2> QED
    BY <1>0, <1>5, <1>6, <1>8, <1>9, <1>29, <2>1 DEF Hist!HubPrune, Server, Link
<1> QED
  BY <1>11, <1>12, <1>13, <1>14, <1>15, <1>16, <1>17, <1>19, <1>20, <1>21, <1>22, <1>23, <1>24, <1>25, <1>27, <1>28,
     <1>29 DEF Hist!Next

\* formatDuration rounds a time in seconds.
LEMMA Rounds ==
    ASSUME NEW t \in Nat
    PROVE  LET d == Hist!formatDuration(t)
               v == d[1] * 3600 + d[2] * 60 + d[3]
           IN  /\ d[2] < 60 /\ d[3] < 58
               /\ v <= t + 2 /\ t < v + (IF d[1] = 0 THEN 1 ELSE 60)
<1> DEFINE s == t % 60
           m == (t % 3600) \div 60
           h == t \div 3600
<1>1. /\ s \in 0 .. 59 /\ m \in 0 .. 59 /\ h \in Nat
      /\ t = 3600 * h + 60 * m + s
  OBVIOUS
<1> QED
  BY <1>1 DEF Hist!formatDuration

\* The durations of the history are rounded.
LEMMA HistRounds == Hist!DurationRounds
  BY Rounds, SizesAssumption DEF Hist!DurationRounds

-----------------------------------------------------------------------------
(* The page of a system: types, tabs and arrow keys.                       *)

\* At least two tabs, all different.
DifferentTabs(t) == t \in Seq(Sys!Tabs) /\ Len(t) \in Nat /\ Len(t) >= 2 /\ \A i, j \in DOMAIN t : t[i] = t[j] => i = j

\* One more tab, another one.
LEMMA AnotherTab ==
    ASSUME NEW t, DifferentTabs(t), NEW x \in Sys!Tabs, \A i \in DOMAIN t : t[i] # x
    PROVE  /\ DifferentTabs(t \o <<x>>)
           /\ \A i \in DOMAIN (t \o <<x>>) : (t \o <<x>>)[i] = x \/ \E j \in DOMAIN t : (t \o <<x>>)[i] = t[j]
<1> DEFINE u == Append(t, x)
<1>1. t \in Seq(Sys!Tabs) /\ Len(t) \in Nat /\ Len(t) >= 2 /\ \A i, j \in DOMAIN t : t[i] = t[j] => i = j
  BY DEF DifferentTabs
<1>2. u = t \o <<x>>
  BY <1>1, AppendIsConcat
<1>3. u \in Seq(Sys!Tabs) /\ Len(u) = Len(t) + 1 /\ \A i \in 1 .. Len(t) : u[i] = t[i]
  BY <1>1, AppendProperties
<1>4. u[Len(t) + 1] = x
  BY <1>1, AppendProperties
<1> HIDE DEF u
<1>5. DOMAIN t = 1 .. Len(t) /\ DOMAIN u = 1 .. Len(t) + 1
  BY <1>1, <1>3, LenProperties
<1>6. \A i \in DOMAIN u : i = Len(t) + 1 \/ i \in DOMAIN t
  BY <1>1, <1>5
<1>7. \A i, j \in DOMAIN u : u[i] = u[j] => i = j
  BY <1>1, <1>3, <1>4, <1>5, <1>6
<1>8. \A i \in DOMAIN u : u[i] = x \/ \E j \in DOMAIN t : u[i] = t[j]
  BY <1>3, <1>4, <1>5, <1>6
<1> QED
  BY <1>1, <1>2, <1>3, <1>7, <1>8 DEF DifferentTabs

\* The tabs of a page are such.
LEMMA TabsOfShape ==
    ASSUME NEW s, NEW c \in BOOLEAN
    PROVE  DifferentTabs(Sys!TabsOf(s, c))
<1> DEFINE cd == <<"core", "disk">>
           a == cd \o (IF Sys!HasGpu(s) THEN <<"gpu">> ELSE <<>>)
<1>1. cd \in Seq(Sys!Tabs) /\ Len(cd) = 2 /\ DOMAIN cd = {1, 2} /\ cd[1] = "core" /\ cd[2] = "disk"
  BY DEF Sys!Tabs
<1>2. DifferentTabs(cd)
  BY <1>1 DEF DifferentTabs
<1>3. \A i \in DOMAIN cd : cd[i] # "gpu" /\ cd[i] # "containers"
  BY <1>1
<1> HIDE DEF cd
<1>4. DifferentTabs(a) /\ \A i \in DOMAIN a : a[i] # "containers"
  <2>1. CASE Sys!HasGpu(s)
    <3>1. a = cd \o <<"gpu">>
      BY <2>1
    <3>2. "gpu" \in Sys!Tabs /\ "gpu" # "containers"
      BY DEF Sys!Tabs
    <3> QED
      BY <1>2, <1>3, <3>1, <3>2, AnotherTab
  <2>2. CASE ~Sys!HasGpu(s)
    BY <1>1, <1>2, <1>3, <2>2, ConcatEmptySeq
  <2> QED
    BY <2>1, <2>2
<1>5. Sys!TabsOf(s, c) = a \o (IF c THEN <<"containers">> ELSE <<>>)
  BY DEF Sys!TabsOf, a, cd
<1> HIDE DEF a
<1>6. "containers" \in Sys!Tabs
  BY DEF Sys!Tabs
<1>7. CASE c
  BY <1>4, <1>5, <1>6, <1>7, AnotherTab
<1>8. CASE ~c
  BY <1>4, <1>5, <1>8, ConcatEmptySeq DEF DifferentTabs
<1> QED
  BY <1>7, <1>8

\* The index after and before an index, and back.
LEMMA ThereAndBack ==
    ASSUME NEW n \in Nat, n >= 2, NEW i \in 0 .. n - 1, NEW left \in BOOLEAN
    PROVE  LET j == Sys!NextIndex(i, n, left) IN j \in 0 .. n - 1 /\ Sys!NextIndex(j, n, ~left) = i
<1>1. (i + 1) % n = (IF i = n - 1 THEN 0 ELSE i + 1)
  OBVIOUS
<1>2. (i + n - 1) % n = (IF i = 0 THEN n - 1 ELSE i - 1)
  OBVIOUS
<1>3. CASE left
  <2> DEFINE j == IF i = 0 THEN n - 1 ELSE i - 1
  <2>1. j \in 0 .. n - 1 /\ (j + 1) % n = i
    OBVIOUS
  <2> HIDE DEF j
  <2> QED
    BY <1>2, <1>3, <2>1 DEF j, Sys!NextIndex
<1>4. CASE ~left
  <2> DEFINE j == IF i = n - 1 THEN 0 ELSE i + 1
  <2>1. j \in 0 .. n - 1 /\ (j + n - 1) % n = i
    OBVIOUS
  <2> HIDE DEF j
  <2> QED
    BY <1>1, <1>4, <2>1 DEF j, Sys!NextIndex
<1> QED
  BY <1>3, <1>4

\* The tab after a tab.
LEMMA TabAfter ==
    ASSUME NEW tabs, DifferentTabs(tabs), NEW k \in DOMAIN tabs, NEW left \in BOOLEAN
    PROVE  LET j == Sys!NextIndex(k - 1, Len(tabs), left)
           IN  j + 1 \in DOMAIN tabs /\ j \in 0 .. Len(tabs) - 1 /\ Sys!TabAt(tabs, tabs[k], left) = {tabs[j + 1]}
<1> USE DEF DifferentTabs
<1> DEFINE n == Len(tabs)
           j == Sys!NextIndex(k - 1, n, left)
<1>1. DOMAIN tabs = 1 .. n
  BY LenProperties
<1>2. k - 1 \in 0 .. n - 1
  BY <1>1
<1>3. j \in 0 .. n - 1
  BY <1>2, ThereAndBack
<1>4. (CHOOSE i \in DOMAIN tabs : tabs[i] = tabs[k]) = k
  OBVIOUS
<1>5. \E i \in DOMAIN tabs : tabs[i] = tabs[k]
  OBVIOUS
<1>6. Sys!TabAt(tabs, tabs[k], left) = IF j < n THEN {tabs[j + 1]} ELSE {}
  BY <1>4, <1>5 DEF Sys!TabAt
<1> HIDE DEF j
<1> QED
  BY <1>1, <1>3, <1>6 DEF j

\* A key leads to a tab, and two lead back.
LEMMA KeysCycle ==
    ASSUME NEW tabs, DifferentTabs(tabs), NEW t, NEW left \in BOOLEAN
    PROVE  /\ Sys!TabAt(tabs, t, left) # {}
           /\ (\E j \in DOMAIN tabs : tabs[j] = t) =>
                  \E u \in Sys!TabAt(tabs, t, left) : Sys!TabAt(tabs, u, ~left) = {t}
<1> USE DEF DifferentTabs
<1> DEFINE n == Len(tabs)
<1>1. CASE \E j \in DOMAIN tabs : tabs[j] = t
  <2>1. PICK k \in DOMAIN tabs : tabs[k] = t
    BY <1>1
  <2> DEFINE j == Sys!NextIndex(k - 1, n, left)
  <2>2. j + 1 \in DOMAIN tabs /\ j \in 0 .. n - 1 /\ Sys!TabAt(tabs, t, left) = {tabs[j + 1]}
    BY <2>1, TabAfter
  <2>3. k - 1 \in 0 .. n - 1 /\ k \in Nat
    BY LenProperties
  <2>4. Sys!NextIndex(j, n, ~left) = k - 1
    BY <2>3, ThereAndBack
  <2> HIDE DEF j
  <2>5. Sys!TabAt(tabs, tabs[j + 1], ~left) = {tabs[k - 1 + 1]}
    <3>1. Sys!NextIndex((j + 1) - 1, n, ~left) = k - 1
      BY <2>2, <2>4 DEF Sys!NextIndex
    <3> DEFINE h == j + 1
    <3>2. h \in DOMAIN tabs /\ Sys!NextIndex(h - 1, n, ~left) = k - 1
      BY <2>2, <3>1
    <3> HIDE DEF h
    <3>3. Sys!TabAt(tabs, tabs[h], ~left) = {tabs[k - 1 + 1]}
      BY <3>2, TabAfter
    <3> QED
      BY <3>3 DEF h
  <2>6. k - 1 + 1 = k
    BY <2>3
  <2> QED
    BY <2>1, <2>2, <2>5, <2>6
<1>2. CASE ~\E j \in DOMAIN tabs : tabs[j] = t
  <2>1. Sys!TabAt(tabs, t, left) = IF (IF left THEN n - 2 ELSE 0) < n THEN {tabs[(IF left THEN n - 2 ELSE 0) + 1]} ELSE {}
    BY <1>2 DEF Sys!TabAt
  <2>2. (IF left THEN n - 2 ELSE 0) < n
    OBVIOUS
  <2> QED
    BY <1>2, <2>1, <2>2
<1> QED
  BY <1>1, <1>2

\* A key leads to a tab there is.
LEMMA TabReached ==
    ASSUME NEW tabs, DifferentTabs(tabs), NEW t, NEW left \in BOOLEAN, NEW u \in Sys!TabAt(tabs, t, left)
    PROVE  u \in Sys!Tabs
<1> USE DEF DifferentTabs
<1> DEFINE n == Len(tabs)
<1>0. DOMAIN tabs = 1 .. n
  BY LenProperties
<1>1. CASE \E j \in DOMAIN tabs : tabs[j] = t
  <2>1. PICK k \in DOMAIN tabs : tabs[k] = t
    BY <1>1
  <2> DEFINE j == Sys!NextIndex(k - 1, n, left)
  <2>2. j + 1 \in DOMAIN tabs /\ Sys!TabAt(tabs, t, left) = {tabs[j + 1]}
    BY <2>1, TabAfter
  <2> HIDE DEF j
  <2> QED
    BY <2>2, Elements
<1>2. CASE ~\E j \in DOMAIN tabs : tabs[j] = t
  <2> DEFINE k == IF left THEN n - 2 ELSE 0
  <2>1. Sys!TabAt(tabs, t, left) = IF k < n THEN {tabs[k + 1]} ELSE {}
    BY <1>2 DEF Sys!TabAt
  <2>2. k + 1 \in 1 .. n
    OBVIOUS
  <2> HIDE DEF k
  <2> QED
    BY <1>0, <2>1, <2>2, Elements
<1> QED
  BY <1>1, <1>2

\* Both layouts draw the same charts, but for the tabs that were never visited.
LEMMA LayoutsAgree ==
    ASSUME NEW p
    PROVE  Sys!defaultLayout(p) = Sys!tabbedLayout(p)
               \cup (IF "disk" \in p.tabs THEN {} ELSE Sys!DiskTab(p))
               \cup (IF "containers" \in p.tabs THEN {} ELSE Sys!ContainersTab(p))
<1>1. Sys!GpuTab(p) = Sys!GpuPowerChart(p) \cup Sys!GpuDetailCharts(p)
  <2>1. CASE Sys!HasGpu(p.s)
    BY <2>1 DEF Sys!GpuTab
  <2>2. CASE ~Sys!HasGpu(p.s)
    <3>1. Sys!LastGpus(p.s) = {} /\ ~Sys!hasGpuPowerData(p.s)
      BY <2>2 DEF Sys!HasGpu, Sys!hasGpuData
    <3>2. Sys!GpuPowerChart(p) = {} /\ Sys!GpuDetailCharts(p) = {}
      BY <3>1 DEF Sys!GpuPowerChart, Sys!GpuDetailCharts, Sys!hasGpuEnginesData
    <3> QED
      BY <2>2, <3>2 DEF Sys!GpuTab
  <2> QED
    BY <2>1, <2>2
<1> QED
  BY <1>1 DEF Sys!defaultLayout, Sys!tabbedLayout, Sys!CoreTab, Sys!DiskTab, Sys!ContainersTab

SysTyped == Sys!TypeOK /\ activeTab \in mountedTabs /\ tabsRef = Sys!TabsOf(points, contained)

\* The sheets that stay are among those there were.
LEMMA SheetsKept ==
    ASSUME NEW m, NEW p, NEW x, NEW y, x \subseteq y
    PROVE  Sys!KeptSheets(m, p, x) \subseteq x /\ Sys!KeptSheets(m, p, x) \subseteq Sys!KeptSheets(m, p, y)
  BY DEF Sys!KeptSheets

\* The page of a system when it is opened.
LEMMA SysTypedInit == Sys!Init => SysTyped
<1> SUFFICES ASSUME Sys!Init PROVE SysTyped
  OBVIOUS
<1> USE DEF Sys!Init
<1>1. <<"core", "disk">> = Sys!TabsOf(points, contained)
  <2>1. ~Sys!HasGpu(points)
    BY DEF Sys!HasGpu, Sys!hasGpuData, Sys!hasGpuPowerData, Sys!LastGpus, Sys!Latest
  <2>2. Sys!TabsOf(points, contained) = <<"core", "disk">> \o <<>> \o <<>>
    BY <2>1 DEF Sys!TabsOf
  <2>3. <<"core", "disk">> \in Seq(Sys!Tabs)
    BY DEF Sys!Tabs
  <2> QED
    BY <2>2, <2>3, ConcatEmptySeq
<1>2. tabsRef \in Seq(Sys!Tabs)
  BY DEF Sys!Tabs
<1>3. points \in Seq(Points) /\ Len(points) <= MaxPoints
  BY DrawingAssumption
<1>4. laid \in 0 .. MaxLaid /\ shownId \in Sys!SystemIds
  BY SizesAssumption DEF Sys!SystemIds
<1> QED
  BY <1>1, <1>2, <1>3, <1>4 DEF SysTyped, Sys!TypeOK, Sys!Tabs

\* A render keeps the types.
LEMMA RenderTyped ==
    ASSUME NEW x \in [had : SUBSET Sys!Sheets, open : SUBSET Sys!Sheets], x.open \subseteq x.had,
           contained' \in BOOLEAN, Sys!Render(x)
    PROVE  /\ tabsRef' = Sys!TabsOf(points', contained') /\ tabsRef' \in Seq(Sys!Tabs)
           /\ opened' \in [had : SUBSET Sys!Sheets, open : SUBSET Sys!Sheets] /\ opened'.open \subseteq opened'.had
<1> DEFINE p == [s |-> points', c |-> contained', v |-> Versions[shownId'], had |-> {}, tabs |-> mountedTabs']
           left == IF mode' = mode THEN x ELSE [had |-> {}, open |-> {}]
<1>1. left \in [had : SUBSET Sys!Sheets, open : SUBSET Sys!Sheets] /\ left.open \subseteq left.had
  OBVIOUS
<1>2. /\ tabsRef' = Sys!TabsOf(points', contained')
      /\ opened' = [had |-> Sys!KeptSheets(mode', p, left.had), open |-> Sys!KeptSheets(mode', p, left.open)]
  BY DEF Sys!Render
<1> HIDE DEF p, left
<1>3. /\ Sys!KeptSheets(mode', p, left.had) \subseteq left.had
      /\ Sys!KeptSheets(mode', p, left.open) \subseteq left.open
      /\ Sys!KeptSheets(mode', p, left.open) \subseteq Sys!KeptSheets(mode', p, left.had)
  BY <1>1, SheetsKept
<1>4. tabsRef' \in Seq(Sys!Tabs)
  BY <1>2, TabsOfShape DEF DifferentTabs
<1> QED
  BY <1>1, <1>2, <1>3, <1>4

\* Every step of the page keeps its types and its tabs.
LEMMA SysTypedStep == SysTyped /\ Sys!Next => SysTyped'
<1> SUFFICES ASSUME SysTyped, Sys!Next PROVE SysTyped'
  OBVIOUS
<1> DEFINE Opened == [had : SUBSET Sys!Sheets, open : SUBSET Sys!Sheets]
<1>0. /\ points \in Seq(Points) /\ Len(points) <= MaxPoints /\ contained \in BOOLEAN
      /\ shownId \in Sys!SystemIds /\ mode \in {"default", "tabs"}
      /\ activeTab \in mountedTabs /\ mountedTabs \subseteq Sys!Tabs /\ tabsRef \in Seq(Sys!Tabs)
      /\ opened \in Opened /\ opened.open \subseteq opened.had /\ laid \in 0 .. MaxLaid
  BY DEF SysTyped, Sys!TypeOK
<1> DEFINE Records == points' \in Seq(Points) /\ Len(points') <= MaxPoints /\ contained' \in BOOLEAN
           Where == shownId' \in Sys!SystemIds /\ mode' \in {"default", "tabs"}
           Visited == activeTab' \in mountedTabs' /\ mountedTabs' \subseteq Sys!Tabs
<1>1. ASSUME NEW x \in Opened, x.open \subseteq x.had, Sys!StepWith(x), Records, Where, Visited PROVE SysTyped'
  <2>1. /\ tabsRef' = Sys!TabsOf(points', contained') /\ tabsRef' \in Seq(Sys!Tabs)
        /\ opened' \in Opened /\ opened'.open \subseteq opened'.had
    BY <1>1, RenderTyped DEF Sys!StepWith
  <2>2. laid' \in 0 .. MaxLaid
    BY <1>0, <1>1, SizesAssumption DEF Sys!StepWith
  <2> QED
    BY <1>1, <2>1, <2>2 DEF SysTyped, Sys!TypeOK
<1>2. ASSUME Sys!Step, Records, Where, Visited PROVE SysTyped'
  BY <1>0, <1>1, <1>2 DEF Sys!Step
<1>3. ASSUME UNCHANGED <<points, contained>> PROVE Records
  BY <1>0, <1>3
<1>4. ASSUME UNCHANGED <<shownId, mode>> PROVE Where
  BY <1>0, <1>4
<1>5. ASSUME UNCHANGED <<activeTab, mountedTabs>> PROVE Visited
  BY <1>0, <1>5
<1>6. ASSUME points' = <<>>, contained' = FALSE PROVE Records
  <2>1. Len(<<>>) <= MaxPoints /\ <<>> \in Seq(Points)
    BY DrawingAssumption
  <2> QED
    BY <1>6, <2>1
<1>7. ASSUME NEW t \in Sys!Tabs, Sys!setActiveTab(t) PROVE Visited
  BY <1>0, <1>7 DEF Sys!setActiveTab
<1> HIDE DEF Records, Where, Visited, Opened
<1>8. ASSUME NEW r \in Points, Sys!Arrive(r) PROVE SysTyped'
  <2>1. points' = IF Len(points) < MaxPoints THEN Append(points, r) ELSE Append(Tail(points), r)
    BY <1>8 DEF Sys!Arrive
  <2>2. points' \in Seq(Points) /\ Len(points') <= MaxPoints
    <3>0. MaxPoints \in Nat /\ MaxPoints # 0 /\ Len(points) \in Nat
      BY <1>0, DrawingAssumption, LenProperties
    <3>1. CASE Len(points) < MaxPoints
      <4>1. points' \in Seq(Points) /\ Len(points') = Len(points) + 1
        BY <1>0, <2>1, <3>1, AppendProperties
      <4> QED
        BY <3>0, <3>1, <4>1
    <3>2. CASE ~(Len(points) < MaxPoints)
      <4>1. points # <<>>
        BY <1>0, <3>0, <3>2, EmptySeq
      <4>2. Tail(points) \in Seq(Points) /\ Len(Tail(points)) = Len(points) - 1
        BY <1>0, <4>1, HeadTailProperties
      <4>3. points' \in Seq(Points) /\ Len(points') = Len(points) - 1 + 1
        BY <2>1, <3>2, <4>2, AppendProperties
      <4> QED
        BY <1>0, <3>0, <4>3
    <3> QED
      BY <3>1, <3>2
  <2>3. Records
    BY <1>0, <1>8, <2>2 DEF Sys!Arrive, Records
  <2> QED
    BY <1>2, <1>4, <1>5, <1>8, <2>3 DEF Sys!Arrive
<1>9. CASE Sys!ContainersArrive
  <2>1. Records
    BY <1>0, <1>9 DEF Sys!ContainersArrive, Records
  <2> QED
    BY <1>2, <1>4, <1>5, <1>9, <2>1 DEF Sys!ContainersArrive
<1>10. ASSUME NEW m \in {"default", "tabs"}, Sys!setDisplayMode(m) PROVE SysTyped'
  <2>1. Where
    BY <1>0, <1>10 DEF Sys!setDisplayMode, Where
  <2> QED
    BY <1>2, <1>3, <1>5, <1>10, <2>1 DEF Sys!setDisplayMode
<1>11. ASSUME NEW t \in Sys!Tabs, Sys!SelectTab(t) PROVE SysTyped'
  BY <1>2, <1>3, <1>4, <1>7, <1>11 DEF Sys!SelectTab
<1>12. ASSUME NEW i \in Sys!SystemIds, Sys!Navigate(i) PROVE SysTyped'
  <2>1. Where
    BY <1>0, <1>12 DEF Sys!Navigate, Where
  <2> QED
    BY <1>2, <1>5, <1>6, <1>12, <2>1 DEF Sys!Navigate
<1>13. ASSUME NEW left \in BOOLEAN, Sys!TabKey(left) PROVE SysTyped'
  <2>1. PICK t \in Sys!TabAt(tabsRef, activeTab, left) : Sys!setActiveTab(t)
    BY <1>13 DEF Sys!TabKey
  <2>2. t \in Sys!Tabs
    BY <1>0, TabReached, TabsOfShape DEF SysTyped
  <2> QED
    BY <1>2, <1>3, <1>4, <1>7, <1>13, <2>1, <2>2 DEF Sys!TabKey
<1>14. ASSUME NEW left \in BOOLEAN, Sys!SystemKey(left) PROVE SysTyped'
  <2>1. Where
    BY <1>0, <1>14 DEF Sys!SystemKey, Where
  <2>2. Visited
    BY <1>14 DEF Sys!SystemKey, Visited, Sys!Tabs
  <2> QED
    BY <1>2, <1>6, <1>14, <2>1, <2>2 DEF Sys!SystemKey
<1>15. ASSUME NEW x \in Sys!Sheets, Sys!ToggleSheet(x) PROVE SysTyped'
  <2> DEFINE o == IF x \in opened.open THEN [opened EXCEPT !.open = @ \ {x}]
                  ELSE [had |-> opened.had \cup {x}, open |-> {x}]
  <2>1. o \in Opened /\ o.open \subseteq o.had
    BY <1>0 DEF Opened
  <2>2. Sys!StepWith(o)
    BY <1>15 DEF Sys!ToggleSheet
  <2> HIDE DEF o
  <2> QED
    BY <1>1, <1>3, <1>4, <1>5, <1>15, <2>1, <2>2 DEF Sys!ToggleSheet
<1> QED
  BY <1>8, <1>9, <1>10, <1>11, <1>12, <1>13, <1>14, <1>15 DEF Sys!Next

\* What the page of a system shows is there.
LEMMA SysShown == SysTyped => Sys!TabsLoseNothing /\ Sys!ArrowsCycle
<1> SUFFICES ASSUME SysTyped PROVE Sys!TabsLoseNothing /\ Sys!ArrowsCycle
  OBVIOUS
<1>1. Sys!TabsLoseNothing
  <2> DEFINE p == Sys!Page
  <2>1. p.tabs = mountedTabs
    BY DEF Sys!Page
  <2> HIDE DEF p
  <2>2. Sys!defaultLayout(p) = Sys!tabbedLayout(p)
            \cup (IF "disk" \in mountedTabs THEN {} ELSE Sys!DiskTab(p))
            \cup (IF "containers" \in mountedTabs THEN {} ELSE Sys!ContainersTab(p))
    BY <2>1, LayoutsAgree
  <2> QED
    BY <2>2 DEF SysTyped, Sys!TabsLoseNothing, p
<1>2. DifferentTabs(tabsRef)
  BY TabsOfShape DEF SysTyped, Sys!TypeOK
<1>3. Sys!ArrowsCycle
  BY <1>2, KeysCycle DEF Sys!ArrowsCycle
<1> QED
  BY <1>1, <1>3

-----------------------------------------------------------------------------
(* The systems table: types.                                               *)

\* Records of systems, one of each.
SystemLists == {l \in Seq(Home!Systems) : \A i, j \in DOMAIN l : l[i].id = l[j].id => i = j}

HomeTyped ==
    /\ list \in SystemLists
    /\ dialog.open \in BOOLEAN /\ events \in 0 .. MaxEvents
    /\ \A k \in DOMAIN rendered : rendered[k].sys \in Home!Systems
    /\ \A r \in requests : r.id \in Ids /\ r.status \in {"pending", "paused", "deleted"}

\* A filter leaves records of systems, one of each.
LEMMA SystemsFiltered ==
    ASSUME NEW l \in SystemLists, NEW ps, ps \subseteq DOMAIN l
    PROVE  Home!ElementsAt(l, ps) \in SystemLists
<1> DEFINE e == ElementsAt(l, ps)
<1>0. l \in Seq(Home!Systems) /\ \A i, j \in DOMAIN l : l[i].id = l[j].id => i = j
  BY DEF SystemLists
<1>1. Home!ElementsAt(l, ps) = e
  BY DEF Home!ElementsAt, ElementsAt, Home!Rank, Rank, Home!Cardinality, Cardinality
<1>2. /\ e \in Seq(Home!Systems)
      /\ \A k, m \in DOMAIN e : \E i, j \in ps : e[k] = l[i] /\ e[m] = l[j] /\ (k # m => i # j)
  BY <1>0, ElementsAtProperties
<1> HIDE DEF e
<1>3. \A k, m \in DOMAIN e : e[k].id = e[m].id => k = m
  BY <1>0, <1>2
<1> QED
  BY <1>1, <1>2, <1>3 DEF SystemLists

\* The rows that the status filter leaves.
LEMMA RowsTyped == ASSUME NEW l \in SystemLists, NEW f PROVE Home!FilteredData(l, f) \in SystemLists
<1> DEFINE ps == {i \in DOMAIN l : l[i].status = f}
<1>1. Home!FilteredData(l, f) = IF f = "all" THEN l ELSE Home!ElementsAt(l, ps)
  BY DEF Home!FilteredData, Home!Filter
<1>2. ps \subseteq DOMAIN l
  OBVIOUS
<1> HIDE DEF ps
<1> QED
  BY <1>1, <1>2, SystemsFiltered

\* The record of a row.
LEMMA RowTyped ==
    ASSUME NEW rows \in SystemLists, NEW view, NEW k \in Home!RowKeys(rows, view)
    PROVE  Home!RowOf(rows, view, k) \in Home!Systems
<1>1. \E i \in DOMAIN rows : Home!RowKey(rows, view, i) = k
  BY DEF Home!RowKeys
<1>2. (CHOOSE i \in DOMAIN rows : Home!RowKey(rows, view, i) = k) \in DOMAIN rows
  BY <1>1
<1> QED
  BY <1>2, Elements DEF Home!RowOf, SystemLists

\* A render of a list of systems.
LEMMA PageTyped ==
    ASSUME HomeTyped, NEW l \in SystemLists, NEW u, Home!Page(l, u)
    PROVE  /\ list' \in SystemLists /\ dialog'.open \in BOOLEAN
           /\ \A k \in DOMAIN rendered' : rendered'[k].sys \in Home!Systems
<1> DEFINE rows == Home!FilteredData(l, u.status)
           keys == IF Home!FilterThrows(l, u) THEN {} ELSE Home!RowKeys(rows, u.view)
<1>1. rows \in SystemLists
  BY RowsTyped
<1>2. /\ rendered' = [k \in keys |->
            IF u.view = ui.view /\ k \in DOMAIN rendered /\ Home!SameDeps(rendered[k], Home!RowOf(rows, u.view, k), u)
            THEN rendered[k] ELSE Home!Cells(Home!RowOf(rows, u.view, k), u)]
      /\ dialog' = Home!DialogAfter /\ list' = l
  BY DEF Home!Page, Home!Render
<1>3. keys \subseteq Home!RowKeys(rows, u.view)
  OBVIOUS
<1> HIDE DEF rows, keys
<1>4. ASSUME NEW k \in keys PROVE rendered'[k].sys \in Home!Systems
  <2>1. Home!RowOf(rows, u.view, k) \in Home!Systems
    BY <1>1, <1>3, RowTyped
  <2>2. rendered'[k].sys = Home!RowOf(rows, u.view, k)
    BY <1>2 DEF Home!SameDeps, Home!Cells
  <2> QED
    BY <2>1, <2>2
<1>5. dialog'.open \in BOOLEAN
  BY <1>2 DEF HomeTyped, Home!DialogAfter, Home!NoDialog
<1> QED
  BY <1>2, <1>4, <1>5

\* Another status of a system ...
LEMMA ChangedTyped ==
    ASSUME list \in SystemLists, NEW id, NEW s \in Home!Statuses, NEW c \in Home!Levels
    PROVE  Home!Changed(id, s, c) \in SystemLists
<1> DEFINE f == Home!Changed(id, s, c)
<1>0. list \in Seq(Home!Systems) /\ \A i, j \in DOMAIN list : list[i].id = list[j].id => i = j
  BY DEF SystemLists
<1>1. f = [i \in DOMAIN list |-> IF list[i].id = id THEN [list[i] EXCEPT !.status = s, !.level = c] ELSE list[i]]
  BY DEF Home!Changed
<1> HIDE DEF f
<1>2. ASSUME NEW i \in DOMAIN list PROVE f[i] \in Home!Systems /\ f[i].id = list[i].id
  <2>1. list[i] \in Home!Systems
    BY <1>0, Elements
  <2> QED
    BY <1>1, <2>1 DEF Home!Systems
<1>3. f = [i \in DOMAIN list |-> f[i]] /\ DOMAIN f = DOMAIN list
  BY <1>1
<1>4. f \in Seq(Home!Systems)
  BY <1>0, <1>2, <1>3, Mapped
<1>5. \A i, j \in DOMAIN f : f[i].id = f[j].id => i = j
  BY <1>0, <1>2, <1>3
<1> QED
  BY <1>4, <1>5 DEF SystemLists, f

\* ... one system less ...
LEMMA WithoutTyped == ASSUME list \in SystemLists, NEW id PROVE Home!Without(id) \in SystemLists
<1> DEFINE ps == {i \in DOMAIN list : list[i].id # id}
<1>1. Home!Without(id) = Home!ElementsAt(list, ps)
  BY DEF Home!Without, Home!Filter
<1>2. ps \subseteq DOMAIN list
  OBVIOUS
<1> HIDE DEF ps
<1> QED
  BY <1>1, <1>2, SystemsFiltered

\* ... and one more.
LEMMA EnrolledTyped ==
    ASSUME list \in SystemLists, NEW r \in Home!Systems, \A i \in DOMAIN list : list[i].id # r.id
    PROVE  Append(list, r) \in SystemLists
<1> DEFINE u == Append(list, r)
<1>0. list \in Seq(Home!Systems) /\ Len(list) \in Nat /\ DOMAIN list = 1 .. Len(list)
      /\ \A i, j \in DOMAIN list : list[i].id = list[j].id => i = j
  BY LenProperties DEF SystemLists
<1>1. u \in Seq(Home!Systems) /\ Len(u) = Len(list) + 1 /\ \A i \in 1 .. Len(list) : u[i] = list[i]
  BY <1>0, AppendProperties
<1>2. u[Len(list) + 1] = r
  BY <1>0, AppendProperties
<1> HIDE DEF u
<1>3. DOMAIN u = 1 .. Len(list) + 1
  BY <1>1, LenProperties
<1>4. \A i \in DOMAIN u : i = Len(list) + 1 \/ i \in DOMAIN list
  BY <1>0, <1>3
<1>5. \A i, j \in DOMAIN u : u[i].id = u[j].id => i = j
  BY <1>0, <1>1, <1>2, <1>4
<1> QED
  BY <1>1, <1>5 DEF SystemLists, u

\* The systems table at first.
LEMMA HomeTypedInit == Home!Init => HomeTyped
<1> SUFFICES ASSUME Home!Init PROVE HomeTyped
  OBVIOUS
<1> DEFINE n == Cardinality(Ids) - 1
<1>1. n \in Nat /\ 1 .. n \subseteq Ids
  <2>1. Cardinality(Ids) \in Nat /\ Cardinality(Ids) # 0 /\ Ids = 1 .. Cardinality(Ids)
    BY SizesAssumption, FS_CardinalityType, FS_EmptySet
  <2> QED
    BY <2>1
<1>2. /\ list = [i \in 1 .. n |-> [id |-> i, status |-> "up", level |-> "good"]]
      /\ rendered = [i \in DOMAIN list |-> Home!Cells(list[i], ui)]
      /\ dialog = Home!NoDialog /\ requests = {} /\ events = 0
  BY SameCardinality DEF Home!Init
<1> HIDE DEF n
<1>3. \A i \in 1 .. n : list[i] \in Home!Systems /\ list[i].id = i
  BY <1>1, <1>2 DEF Home!Systems, Home!Statuses, Home!Levels
<1>4. list \in Seq(Home!Systems)
  <2>1. list \in [1 .. n -> Home!Systems]
    BY <1>2, <1>3
  <2> QED
    BY <1>1, <2>1, SeqDef
<1>5. list \in SystemLists
  BY <1>2, <1>3, <1>4 DEF SystemLists
<1>6. \A k \in DOMAIN rendered : rendered[k].sys \in Home!Systems
  BY <1>2, <1>3 DEF Home!Cells
<1> QED
  BY <1>2, <1>5, <1>6, SizesAssumption DEF HomeTyped, Home!NoDialog

\* Every step of the table.
LEMMA HomeTypedStep == ASSUME HomeTyped, HomeInv, Home!Next PROVE HomeTyped'
<1> DEFINE Shown == /\ list' \in SystemLists /\ dialog'.open \in BOOLEAN
                    /\ \A k \in DOMAIN rendered' : rendered'[k].sys \in Home!Systems
           Counted == events' \in 0 .. MaxEvents
           Wanted == \A r \in requests' : r.id \in Ids /\ r.status \in {"pending", "paused", "deleted"}
<1>0. SUFFICES Shown /\ Counted /\ Wanted
  BY <1>0 DEF HomeTyped
<1>1. list \in SystemLists
  BY DEF HomeTyped
<1>2. ASSUME UNCHANGED <<list, rendered>>, dialog'.open \in BOOLEAN PROVE Shown
  BY <1>2 DEF HomeTyped
<1>3. ASSUME events < MaxEvents, events' = events + 1 PROVE Counted
  BY <1>3, SizesAssumption DEF HomeTyped
<1>4. ASSUME requests' \subseteq requests PROVE Wanted
  BY <1>4 DEF HomeTyped
<1>5. ASSUME NEW l \in SystemLists, NEW u, Home!Page(l, u) PROVE Shown
  BY <1>5, PageTyped
<1>6. \A k \in DOMAIN rendered : rendered[k].sys.id \in Ids
  BY DEF HomeTyped, Home!Systems
<1> HIDE DEF Shown, Counted, Wanted
<1>7. ASSUME NEW u, Home!Set(u) PROVE Shown /\ Counted /\ Wanted
  BY <1>1, <1>3, <1>4, <1>5, <1>7 DEF Home!Set, Home!Event
<1>8. CASE \/ Home!SetFilter
           \/ \E s \in {"all", "up", "down", "paused"} : Home!SetStatusFilter(s)
           \/ \E v \in {"table", "grid"} : Home!SetViewMode(v)
           \/ \E c \in Columns \cup {"system"} : Home!SetSorting(c)
           \/ \E c \in Columns : Home!ToggleVisibility(c)
  <2>1. \E u : Home!Set(u)
    BY <1>8 DEF Home!SetFilter, Home!SetStatusFilter, Home!SetViewMode, Home!SetSorting, Home!ToggleVisibility
  <2> QED
    BY <1>7, <2>1
<1>9. CASE Home!ConfirmDelete
  <2> DEFINE id == rendered[dialog.key].sys.id
  <2>1. /\ dialog.open /\ Home!Event /\ requests' = requests \cup {[id |-> id, status |-> "deleted"]}
        /\ dialog' = Home!NoDialog /\ UNCHANGED <<list, rendered>>
    BY <1>9 DEF Home!ConfirmDelete
  <2>2. id \in Ids
    BY <1>6, <2>1 DEF HomeInv
  <2> HIDE DEF id
  <2>3. Wanted
    BY <2>1, <2>2 DEF HomeTyped, Wanted
  <2> QED
    BY <1>2, <1>3, <2>1, <2>3 DEF Home!Event, Home!NoDialog
<1>10. CASE Home!CancelDelete
  BY <1>2, <1>3, <1>4, <1>10 DEF Home!CancelDelete, Home!Event, Home!NoDialog
<1>11. CASE Home!Reload
  <2>1. /\ rendered' = [k \in Home!RowKeys(list, ui'.view) |-> Home!Cells(Home!RowOf(list, ui'.view, k), ui')]
        /\ dialog' = Home!NoDialog /\ list' = list /\ requests' = requests
        /\ events < MaxEvents /\ events' = events + 1
    BY <1>11 DEF Home!Reload
  <2>2. \A k \in DOMAIN rendered' : rendered'[k].sys \in Home!Systems
    BY <1>1, <2>1, RowTyped DEF Home!Cells
  <2>3. Shown
    BY <1>1, <2>1, <2>2 DEF Shown, Home!NoDialog
  <2> QED
    BY <1>3, <1>4, <2>1, <2>3
<1>12. ASSUME NEW k \in DOMAIN rendered, Home!TogglePause(k) PROVE Shown /\ Counted /\ Wanted
  <2> DEFINE s == IF rendered[k].sys.status = "paused" THEN "pending" ELSE "paused"
             q == [id |-> rendered[k].sys.id, status |-> s]
  <2>1. Home!Event /\ requests' = requests \cup {q} /\ UNCHANGED <<list, rendered, dialog>>
    BY <1>12 DEF Home!TogglePause
  <2>2. q.id \in Ids /\ q.status \in {"pending", "paused", "deleted"}
    BY <1>6
  <2> HIDE DEF q
  <2>3. Wanted
    BY <2>1, <2>2 DEF HomeTyped, Wanted
  <2>4. dialog'.open \in BOOLEAN
    BY <2>1 DEF HomeTyped
  <2> QED
    BY <1>2, <1>3, <2>1, <2>3, <2>4 DEF Home!Event
<1>13. ASSUME NEW k \in DOMAIN rendered, Home!OpenDelete(k) PROVE Shown /\ Counted /\ Wanted
  BY <1>2, <1>3, <1>4, <1>13 DEF Home!OpenDelete, Home!Event
<1>14. ASSUME NEW r \in requests, Home!Handle(r) PROVE Shown /\ Counted /\ Wanted
  <2>1. requests' = requests \ {r} /\ events' = events
    BY <1>14 DEF Home!Handle
  <2>2. Counted /\ Wanted
    BY <1>4, <2>1 DEF HomeTyped, Counted
  <2>3. CASE UNCHANGED <<list, ui, storage, rendered, dialog>>
    BY <1>2, <2>2, <2>3 DEF HomeTyped
  <2>4. ASSUME NEW i \in DOMAIN list,
               Home!Page(IF r.status = "deleted" THEN Home!Without(r.id)
                         ELSE Home!Changed(r.id, r.status, list[i].level), ui)
        PROVE  Shown
    <3>1. CASE r.status = "deleted"
      BY <1>1, <1>5, <2>4, <3>1, WithoutTyped
    <3>2. CASE r.status # "deleted"
      <4>1. r.status \in Home!Statuses
        BY <3>2 DEF HomeTyped, Home!Statuses
      <4>2. list[i].level \in Home!Levels
        <5>1. list[i] \in Home!Systems
          BY <1>1, Elements DEF SystemLists
        <5> QED
          BY <5>1 DEF Home!Systems
      <4>3. Home!Changed(r.id, r.status, list[i].level) \in SystemLists
        BY <1>1, <4>1, <4>2, ChangedTyped
      <4> QED
        BY <1>5, <2>4, <3>2, <4>3
    <3> QED
      BY <3>1, <3>2
  <2> QED
    BY <1>14, <2>2, <2>3, <2>4 DEF Home!Handle
<1>15. ASSUME NEW id \in Ids, Home!HubEnroll(id) PROVE Shown /\ Counted /\ Wanted
  <2> DEFINE r == [id |-> id, status |-> "up", level |-> "good"]
  <2>1. r \in Home!Systems /\ r.id = id
    BY DEF Home!Systems, Home!Statuses, Home!Levels
  <2>2. Home!Event /\ Home!Page(Append(list, r), ui) /\ requests' = requests /\ \A i \in DOMAIN list : list[i].id # id
    BY <1>15 DEF Home!HubEnroll
  <2> HIDE DEF r
  <2>3. Append(list, r) \in SystemLists
    BY <1>1, <2>1, <2>2, EnrolledTyped
  <2> QED
    BY <1>3, <1>4, <1>5, <2>2, <2>3 DEF Home!Event
<1>16. ASSUME NEW id \in Ids, Home!HubDelete(id) PROVE Shown /\ Counted /\ Wanted
  <2>1. Home!Without(id) \in SystemLists
    BY <1>1, WithoutTyped
  <2> QED
    BY <1>3, <1>4, <1>5, <1>16, <2>1 DEF Home!HubDelete, Home!Event
<1>17. ASSUME NEW id \in Ids, NEW s \in {"up", "down"}, NEW c \in Home!Levels, Home!HubChange(id, s, c)
       PROVE  Shown /\ Counted /\ Wanted
  <2>1. Home!Changed(id, s, c) \in SystemLists
    BY <1>1, ChangedTyped DEF Home!Statuses
  <2> QED
    BY <1>3, <1>4, <1>5, <1>17, <2>1 DEF Home!HubChange, Home!Event
<1> QED
  BY <1>8, <1>9, <1>10, <1>11, <1>12, <1>13, <1>14, <1>15, <1>16, <1>17 DEF Home!Next, Home!User

\* The types of the table.
LEMMA HomeTypes == HomeTyped /\ RowInv => Home!TypeOK
  BY DEF HomeTyped, SystemLists, RowInv, Uis, Storages, Home!TypeOK

-----------------------------------------------------------------------------
(* The table of containers: types.                                         *)

ContTyped ==
    /\ Cont!TypeOK
    /\ sheet \in [for : Containers \cup {0}, open : BOOLEAN, full : BOOLEAN]
    /\ sheet.open => sheet.for \in Containers

\* The table at first.
LEMMA ContTypedInit == Cont!Init => ContTyped
<1> SUFFICES ASSUME Cont!Init PROVE ContTyped
  OBVIOUS
<1> USE DEF Cont!Init, Cont!All, Cont!NoOne
<1>1. clock \in 0 .. MaxTime /\ openings \in 0 .. MaxOpened /\ cHub \subseteq Cont!Records
  BY SizesAssumption DEF Cont!Records
<1>2. fetch \in Cont!Fetches
  BY DEF Cont!Fetches
<1>3. sheet \in [for : Containers \cup {0}, open : BOOLEAN, full : BOOLEAN] /\ ~sheet.open
  OBVIOUS
<1>4. /\ scope \in Cont!Systems \cup {0} /\ cData = {} /\ loaded = FALSE /\ ports = TRUE /\ term = Containers
      /\ logs = 0 /\ logReqs = {} /\ refreshing = FALSE
  OBVIOUS
<1> QED
  BY <1>1, <1>2, <1>3, <1>4 DEF ContTyped, Cont!TypeOK

\* Another request for logs.
LEMMA LogsTyped ==
    ASSUME ContTyped, NEW c \in Containers, NEW b \in BOOLEAN, Cont!GetLogs(c, b)
    PROVE  logReqs' \subseteq Cont!LogReqs /\ openings' \in 0 .. MaxOpened
<1>0. logReqs \subseteq Cont!LogReqs /\ openings \in 0 .. MaxOpened /\ MaxOpened \in Nat
  BY SizesAssumption DEF ContTyped, Cont!TypeOK
<1>1. openings' \in 1 .. MaxOpened
  BY <1>0 DEF Cont!GetLogs
<1>2. \A r \in Cont!LogReqs : [r EXCEPT !.cancelled = TRUE] \in Cont!LogReqs
  BY DEF Cont!LogReqs
<1>3. [n |-> openings', for |-> c, cancelled |-> FALSE, refresh |-> b] \in Cont!LogReqs
  BY <1>1 DEF Cont!LogReqs
<1>4. logReqs' = {[r EXCEPT !.cancelled = TRUE] : r \in logReqs}
                     \cup {[n |-> openings', for |-> c, cancelled |-> FALSE, refresh |-> b]}
  BY DEF Cont!GetLogs
<1>5. openings' \in 0 .. MaxOpened
  BY <1>0, <1>1
<1> QED
  BY <1>0, <1>2, <1>3, <1>4, <1>5

\* Every step of the table.
LEMMA ContTypedStep == ContTyped /\ Cont!Next => ContTyped'
<1> SUFFICES ASSUME ContTyped, Cont!Next PROVE ContTyped'
  OBVIOUS
<1> USE DEF Cont!list, Cont!panel, Cont!All, Cont!NoOne
<1> DEFINE Sheets == [for : Containers \cup {0}, open : BOOLEAN, full : BOOLEAN]
<1>0. /\ scope \in Cont!Systems \cup {0} /\ clock \in 0 .. MaxTime
      /\ cHub \subseteq Cont!Records /\ fetch \in Cont!Fetches
      /\ cData \subseteq Cont!Records /\ loaded \in BOOLEAN /\ ports \in BOOLEAN /\ term \subseteq Containers
      /\ logs \in Containers \cup {0} /\ logReqs \subseteq Cont!LogReqs
      /\ refreshing \in BOOLEAN /\ openings \in 0 .. MaxOpened
      /\ sheet \in Sheets /\ (sheet.open => sheet.for \in Containers)
  BY DEF ContTyped, Cont!TypeOK
<1> DEFINE World == /\ scope' \in Cont!Systems \cup {0} /\ clock' \in 0 .. MaxTime
                    /\ cHub' \subseteq Cont!Records /\ fetch' \in Cont!Fetches
           Table == /\ cData' \subseteq Cont!Records /\ loaded' \in BOOLEAN /\ ports' \in BOOLEAN
                    /\ term' \subseteq Containers
           Logs == /\ logs' \in Containers \cup {0} /\ logReqs' \subseteq Cont!LogReqs
                   /\ refreshing' \in BOOLEAN /\ openings' \in 0 .. MaxOpened
           Open == sheet' \in Sheets /\ (sheet'.open => sheet'.for \in Containers)
<1>1. SUFFICES World /\ Table /\ Logs /\ Open
  BY <1>1 DEF ContTyped, Cont!TypeOK
<1>2. ASSUME UNCHANGED <<scope, clock, cHub, fetch>> PROVE World
  BY <1>0, <1>2
<1>3. ASSUME UNCHANGED <<cData, loaded, ports, term>> PROVE Table
  BY <1>0, <1>3
<1>4. ASSUME UNCHANGED <<logs, logReqs, refreshing, openings>> PROVE Logs
  BY <1>0, <1>4
<1>5. ASSUME UNCHANGED sheet PROVE Open
  BY <1>0, <1>5
<1>6. ASSUME UNCHANGED <<scope, clock, cHub>>, fetch' = Cont!NoFetch PROVE World
  BY <1>0, <1>6 DEF Cont!NoFetch, Cont!Fetches
<1>7. ASSUME NEW d, d \subseteq Cont!Records, Cont!SetData(d) PROVE Table /\ Logs /\ Open
  BY <1>0, <1>7 DEF Cont!SetData
<1> HIDE DEF World, Table, Logs, Open, Sheets
<1>8. CASE Cont!FetchAnswer
  <2> DEFINE items == {r \in cHub : fetch.sys = Cont!All \/ SystemOf[r.id] = fetch.sys}
  <2>1. items \subseteq Cont!Records
    BY <1>0
  <2>2. World
    BY <1>6, <1>8 DEF Cont!FetchAnswer
  <2>3. \/ Cont!SetData(IF fetch.sys = Cont!All THEN {} ELSE {r \in cData : SystemOf[r.id] # fetch.sys})
        \/ \E first, last \in items : Cont!SetData(Cont!Merged(items, cData, Cont!Max2(first.updated, last.updated)))
    BY <1>8 DEF Cont!FetchAnswer
  <2> HIDE DEF items
  <2>4. (IF fetch.sys = Cont!All THEN {} ELSE {r \in cData : SystemOf[r.id] # fetch.sys}) \subseteq Cont!Records
    BY <1>0
  <2>5. \A t : Cont!Merged(items, cData, t) \subseteq Cont!Records
    BY <1>0, <2>1 DEF Cont!Merged
  <2> QED
    BY <1>7, <2>2, <2>3, <2>4, <2>5
<1>9. CASE Cont!FetchFails
  BY <1>3, <1>4, <1>5, <1>6, <1>9 DEF Cont!FetchFails
<1>10. ASSUME NEW s \in Cont!Systems, NEW g \in SUBSET cHub, Cont!Update(s, g) PROVE World /\ Table /\ Logs /\ Open
  <2> DEFINE mine == {r \in cHub : SystemOf[r.id] = s}
  <2>1. clock' \in 0 .. MaxTime
    BY <1>0, <1>10, SizesAssumption DEF Cont!Update
  <2>2. cHub' = (cHub \ mine) \cup {[r EXCEPT !.updated = clock'] : r \in mine \ g}
    BY <1>10 DEF Cont!Update
  <2>3. \A r \in Cont!Records : [r EXCEPT !.updated = clock'] \in Cont!Records
    BY <2>1 DEF Cont!Records
  <2>4. cHub' \subseteq Cont!Records
    BY <1>0, <2>2, <2>3
  <2>5. fetch' \in Cont!Fetches
    <3>1. [on |-> TRUE, sys |-> s] \in Cont!Fetches
      BY DEF Cont!Fetches
    <3> QED
      BY <1>0, <1>10, <3>1 DEF Cont!Update
  <2>6. World
    BY <1>0, <1>10, <2>1, <2>4, <2>5 DEF Cont!Update, World
  <2> QED
    BY <1>3, <1>4, <1>5, <1>10, <2>6 DEF Cont!Update
<1>11. ASSUME NEW cs \in {Containers, Matching}, Cont!SetFilter(cs) PROVE World /\ Table /\ Logs /\ Open
  <2>1. Table
    BY <1>0, <1>11, SizesAssumption DEF Cont!SetFilter, Table
  <2> QED
    BY <1>2, <1>4, <1>5, <1>11, <2>1 DEF Cont!SetFilter
<1>12. ASSUME NEW r \in cData, Cont!OpenSheet(r) PROVE World /\ Table /\ Logs /\ Open
  <2>1. r.id \in Containers
    BY <1>0 DEF Cont!Records
  <2>2. Open
    BY <1>12, <2>1 DEF Cont!OpenSheet, Open, Sheets
  <2>3. refreshing' = refreshing /\ \/ logs' = 0 /\ Cont!GetLogs(r.id, FALSE)
                                    \/ UNCHANGED <<logs, logReqs, openings>>
    BY <1>12 DEF Cont!OpenSheet
  <2>4. Logs
    <3>1. CASE logs' = 0 /\ Cont!GetLogs(r.id, FALSE)
      BY <1>0, <2>1, <2>3, <3>1, LogsTyped DEF Logs
    <3>2. CASE UNCHANGED <<logs, logReqs, openings>>
      BY <1>4, <2>3, <3>2
    <3> QED
      BY <2>3, <3>1, <3>2
  <2> QED
    BY <1>2, <1>3, <1>12, <2>2, <2>4 DEF Cont!OpenSheet
<1>13. CASE Cont!CloseSheet
  <2>1. Open
    BY <1>0, <1>13 DEF Cont!CloseSheet, Open, Sheets
  <2> QED
    BY <1>2, <1>3, <1>4, <1>13, <2>1 DEF Cont!CloseSheet
<1>14. CASE Cont!Fullscreen
  <2>1. Open
    BY <1>0, <1>14 DEF Cont!Fullscreen, Open, Sheets
  <2> QED
    BY <1>2, <1>3, <1>4, <1>14, <2>1 DEF Cont!Fullscreen
<1>15. CASE Cont!RefreshLogs
  <2>1. sheet.for \in Containers /\ Cont!GetLogs(sheet.for, TRUE) /\ refreshing' = TRUE /\ logs' = logs
    BY <1>0, <1>15 DEF Cont!RefreshLogs
  <2>2. Logs
    BY <1>0, <2>1, LogsTyped DEF Logs
  <2> QED
    BY <1>2, <1>3, <1>5, <1>15, <2>2 DEF Cont!RefreshLogs
<1>16. ASSUME NEW r \in logReqs, Cont!LogsAnswer(r) PROVE World /\ Table /\ Logs /\ Open
  <2>1. r.for \in Containers
    BY <1>0 DEF Cont!LogReqs
  <2>2. logReqs' \subseteq logReqs /\ openings' = openings /\ logs' \in {r.for, 0} /\ refreshing' \in {FALSE, refreshing}
    BY <1>16 DEF Cont!LogsAnswer, Cont!Refreshed
  <2>3. Logs
    BY <1>0, <2>1, <2>2 DEF Logs
  <2> QED
    BY <1>2, <1>3, <1>5, <1>16, <2>3 DEF Cont!LogsAnswer
<1> QED
  BY <1>8, <1>9, <1>10, <1>11, <1>12, <1>13, <1>14, <1>15, <1>16 DEF Cont!Next, Cont!Answers

-----------------------------------------------------------------------------
(* The alerts sheet: types.                                                *)

\* Settings that an alert may have: its slider keeps the value in its range.
SetsOf(n) == {x \in Alert!Settings \cup {Alert!Off} : n \in Limited => x[1] \in 0 .. Top}
FormsOf(n) == {f \in [checked : BOOLEAN, value : Alert!Values, min : Alert!Minutes] : n \in Limited => f.value \in 1 .. Top}
FairCalls == {c \in Alert!Calls : c.set \in SetsOf(c.name)}
Alerts(a) == a \in [Alert!Keys -> Alert!Settings \cup {Alert!Off}] /\ \A k \in Alert!Keys : a[k] \in SetsOf(k[2])
Forms(f) == f \in [Kinds -> [checked : BOOLEAN, value : Alert!Values, min : Alert!Minutes]]
            /\ \A n \in Kinds : f[n] \in FormsOf(n)

AlertTyped ==
    /\ Alerts(aHub) /\ Alerts(aStore) /\ Forms(form)
    /\ \A i \in DOMAIN timers : timers[i] \in FairCalls
    /\ sent \subseteq FairCalls
    /\ initial \subseteq Alert!Keys /\ dropped \subseteq Alert!Keys
    /\ edits \in 0 .. MaxEdits

\* Off is a setting of every alert.
LEMMA OffTyped == ASSUME NEW n PROVE Alert!Off \in SetsOf(n)
  BY PagesAssumption DEF SetsOf, Alert!Off

\* The values of a form are settings.
LEMMA FormSet == ASSUME NEW n, NEW f \in FormsOf(n) PROVE <<f.value, f.min>> \in SetsOf(n)
<1>1. f.value \in Alert!Values /\ f.min \in 1 .. Top /\ (n \in Limited => f.value \in 0 .. Top)
  BY PagesAssumption DEF FormsOf, Alert!Minutes
<1>2. <<f.value, f.min>> \in Alert!Settings /\ <<f.value, f.min>>[1] = f.value
  BY <1>1 DEF Alert!Settings
<1> QED
  BY <1>1, <1>2 DEF SetsOf

\* Forms that mount.
LEMMA MountedForms ==
    ASSUME NEW a, Alerts(a), NEW s \in Hosts, NEW t PROVE Forms(Alert!Mounted(a, s, t))
<1> DEFINE F(n) == [checked |-> t = "system" /\ a[<<s, n>>] # Alert!Off,
                    value |-> IF a[<<s, n>>][1] = 0 THEN Alert!Start(n) ELSE a[<<s, n>>][1],
                    min |-> IF a[<<s, n>>][2] = 0 THEN Alert!DefaultMin ELSE a[<<s, n>>][2]]
<1>0. Top \in Nat /\ Top # 0 /\ Limited \cap Single = {}
  BY PagesAssumption
<1>1. ASSUME NEW n \in Kinds PROVE F(n) \in FormsOf(n)
  <2>1. a[<<s, n>>] \in SetsOf(n)
    BY DEF Alerts, Alert!Keys
  <2> DEFINE v == a[<<s, n>>][1]
             m == a[<<s, n>>][2]
  <2>2. v \in 0 .. Top + 1 /\ m \in 0 .. Top /\ (n \in Limited => v \in 0 .. Top)
    <3>1. CASE a[<<s, n>>] = Alert!Off
      BY <1>0, <3>1 DEF Alert!Off
    <3>2. CASE a[<<s, n>>] \in Alert!Settings
      BY <1>0, <2>1, <3>2 DEF SetsOf, Alert!Settings, Alert!Values, Alert!Raw
    <3> QED
      BY <2>1, <3>1, <3>2 DEF SetsOf
  <2>3. Alert!Start(n) \in 0 .. Top + 1 /\ (n \in Limited => Alert!Start(n) \in 1 .. Top) /\ Alert!DefaultMin \in 1 .. Top
    BY <1>0 DEF Alert!Start, Alert!DefaultMin
  <2> DEFINE x == IF v = 0 THEN Alert!Start(n) ELSE v
             y == IF m = 0 THEN Alert!DefaultMin ELSE m
  <2> HIDE DEF v, m
  <2>4. x \in 0 .. Top + 1 /\ (n \in Limited => x \in 1 .. Top) /\ y \in 1 .. Top
    BY <1>0, <2>2, <2>3
  <2>5. /\ F(n).value = x /\ F(n).min = y /\ F(n).checked \in BOOLEAN
        /\ F(n) = [checked |-> F(n).checked, value |-> x, min |-> y]
    BY DEF v, m
  <2> HIDE DEF F, x, y
  <2> QED
    BY <2>4, <2>5 DEF FormsOf, Alert!Values, Alert!Raw, Alert!Minutes
<1>2. Alert!Mounted(a, s, t) = [n \in Kinds |-> F(n)]
  BY DEF Alert!Mounted
<1> HIDE DEF F
<1> QED
  BY <1>1, <1>2 DEF Forms, FormsOf

\* The keys of a call are keys.
LEMMA CallKeys == ASSUME NEW c \in FairCalls PROVE Alert!KeysOf(c) \subseteq Alert!Keys /\ c \in AlertCalls
<1>1. c \in Alert!Calls
  BY DEF FairCalls
<1>2. Alert!Settings \cup {Alert!Off} \subseteq Nat \X Nat
  BY PagesAssumption DEF Alert!Settings, Alert!Values, Alert!Raw, Alert!Off
<1> QED
  BY <1>1, <1>2 DEF Alert!Calls, AlertCalls, Alert!KeysOf, Alert!Keys

\* The sheet before the first edit.
LEMMA AlertTypedInit == Alert!Init => AlertTyped
<1> SUFFICES ASSUME Alert!Init PROVE AlertTyped
  OBVIOUS
<1>0. Top \in Nat /\ Top # 0
  BY PagesAssumption
<1>1. Alerts(aHub)
  <2>1. PICK x \in Alert!Keys \cup {"none"} : aHub = [k \in Alert!Keys |-> IF k = x THEN <<1, 1>> ELSE Alert!Off]
    BY DEF Alert!Init
  <2>2. <<1, 1>> \in Alert!Settings /\ \A n : <<1, 1>> \in SetsOf(n)
    BY <1>0 DEF SetsOf, Alert!Settings, Alert!Values, Alert!Raw
  <2> QED
    BY <2>1, <2>2, OffTyped DEF Alerts
<1>2. shown.system \in Hosts
  BY PagesAssumption DEF Alert!Init
<1>3. Forms(form) /\ aStore = aHub
  BY <1>1, <1>2, MountedForms DEF Alert!Init
<1>4. DOMAIN timers = {} /\ sent = {} /\ dropped = {} /\ initial \subseteq Alert!Keys
  BY DEF Alert!Init, Alert!Existing
<1>5. edits \in 0 .. MaxEdits
  BY SizesAssumption DEF Alert!Init
<1> QED
  BY <1>1, <1>3, <1>4, <1>5 DEF AlertTyped

\* A call that is debounced.
LEMMA CallTyped ==
    ASSUME AlertTyped, AlertInv, NEW c \in FairCalls, Alert!Call(c)
    PROVE  (\A i \in DOMAIN timers' : timers'[i] \in FairCalls) /\ dropped' \subseteq Alert!Keys
<1>0. OneTimerEach(timers) /\ c \in AlertCalls
  BY CallKeys DEF AlertInv
<1> DEFINE d == Alert!Debounce(timers, c)
<1>1. /\ OneTimerEach(d) /\ Len(d) >= 1 /\ d[Len(d)] = c
      /\ Len(d) = 2 => \E i \in DOMAIN timers : d[1] = timers[i]
  BY <1>0, DebounceShape
<1>2. timers' = d /\ dropped' = (dropped \cup Alert!Waiting(timers, c.method)) \ Alert!KeysOf(c)
  BY DEF Alert!Call
<1> HIDE DEF d
<1>3. \A i \in DOMAIN d : d[i] \in FairCalls
  <2>1. Len(d) \in Nat /\ Len(d) <= 2 /\ DOMAIN d = 1 .. Len(d)
    BY <1>1, LenProperties DEF OneTimerEach
  <2>2. CASE Len(d) = 1
    BY <1>1, <2>1, <2>2
  <2>3. CASE Len(d) = 2
    <3>1. d[1] \in FairCalls /\ d[2] \in FairCalls
      BY <1>1, <2>3 DEF AlertTyped
    <3> QED
      BY <2>1, <2>3, <3>1
  <2> QED
    BY <1>1, <2>1, <2>2, <2>3
<1>4. Alert!Waiting(timers, c.method) \subseteq Alert!Keys
  BY CallKeys DEF AlertTyped, Alert!Waiting
<1> QED
  BY <1>2, <1>3, <1>4 DEF AlertTyped

\* Every step of the sheet.
LEMMA AlertTypedStep == ASSUME AlertTyped, AlertInv, Alert!Next PROVE AlertTyped'
<1>0. /\ Alerts(aHub) /\ Alerts(aStore) /\ Forms(form)
      /\ \A i \in DOMAIN timers : timers[i] \in FairCalls
      /\ sent \subseteq FairCalls /\ initial \subseteq Alert!Keys /\ dropped \subseteq Alert!Keys /\ edits \in 0 .. MaxEdits
      /\ shown.system \in Hosts
  BY DEF AlertTyped, AlertInv
<1>1. ASSUME Alert!Edit PROVE edits' \in 0 .. MaxEdits
  BY <1>0, <1>1, SizesAssumption DEF Alert!Edit
<1>2. Alert!Existing(aStore) \subseteq Alert!Keys
  BY DEF Alert!Existing
<1>3. ASSUME NEW s \in Hosts, Alert!OpenSheet(s) PROVE AlertTyped'
  <2>1. Forms(form')
    BY <1>0, <1>3, MountedForms DEF Alert!OpenSheet
  <2> QED
    BY <1>0, <1>1, <1>2, <1>3, <2>1 DEF Alert!OpenSheet, AlertTyped
<1>4. ASSUME NEW t, Alert!SelectTab(t) PROVE AlertTyped'
  <2>1. Forms(form')
    BY <1>0, <1>4, MountedForms DEF Alert!SelectTab
  <2> QED
    BY <1>0, <1>1, <1>2, <1>4, <2>1 DEF Alert!SelectTab, AlertTyped
<1>5. CASE Alert!ToggleOverwrite
  BY <1>0, <1>1, <1>5 DEF Alert!ToggleOverwrite, AlertTyped
\* Edits: another form of an alert, and a call with its settings or to switch it off.
<1>6. ASSUME NEW n \in Kinds, NEW f \in FormsOf(n), form' = [form EXCEPT ![n] = f] PROVE Forms(form')
  BY <1>0, <1>6 DEF Forms, FormsOf
<1>7. ASSUME NEW n \in Kinds, NEW x \in SetsOf(n), NEW m \in {"POST", "DELETE"}
      PROVE  [method |-> m, name |-> n, set |-> x, systems |-> Alert!getSystemIds(n)] \in FairCalls
  BY SystemIdsTyped DEF FairCalls, Alert!Calls, SetsOf
<1> DEFINE Quiet == (\A i \in DOMAIN timers' : timers'[i] \in FairCalls) /\ dropped' \subseteq Alert!Keys
<1>8. ASSUME NEW n \in Kinds, NEW f \in FormsOf(n), Alert!sendUpsert(n, f.min, f.value) PROVE Quiet
  <2> DEFINE c == [method |-> "POST", name |-> n, set |-> <<f.value, f.min>>, systems |-> Alert!getSystemIds(n)]
  <2>1. c \in FairCalls
    BY <1>7, FormSet
  <2>2. Alert!Call(c) \/ UNCHANGED <<timers, dropped>>
    BY <1>8 DEF Alert!sendUpsert
  <2> HIDE DEF c
  <2> QED
    BY <1>0, <2>1, <2>2, CallTyped
<1>9. ASSUME Alert!Rest, Alert!Edit, Forms(form'), initial' \subseteq initial, Quiet PROVE AlertTyped'
  BY <1>0, <1>1, <1>9 DEF Alert!Rest, AlertTyped
<1>10. ASSUME NEW n \in Kinds PROVE form[n] \in FormsOf(n)
  BY <1>0, <1>10 DEF Forms
<1> HIDE DEF Quiet
<1>11. ASSUME NEW n \in Kinds, Alert!Check(n) PROVE AlertTyped'
  <2> DEFINE f == [form[n] EXCEPT !.checked = TRUE]
  <2>1. f \in FormsOf(n) /\ f.min = form[n].min /\ f.value = form[n].value
    BY <1>10 DEF FormsOf
  <2>2. /\ form' = [form EXCEPT ![n] = f] /\ Alert!sendUpsert(n, form[n].min, form[n].value)
        /\ initial' = initial /\ Alert!Rest /\ Alert!Edit
    BY <1>11 DEF Alert!Check
  <2> HIDE DEF f
  <2> QED
    BY <1>6, <1>8, <1>9, <1>10, <2>1, <2>2
<1>12. ASSUME NEW n \in Kinds, Alert!Uncheck(n) PROVE AlertTyped'
  <2> DEFINE f == [form[n] EXCEPT !.checked = FALSE]
             c == [method |-> "DELETE", name |-> n, set |-> Alert!Off, systems |-> Alert!getSystemIds(n)]
  <2>1. f \in FormsOf(n)
    BY <1>10 DEF FormsOf
  <2>2. form' = [form EXCEPT ![n] = f] /\ Alert!Call(c) /\ initial' \subseteq initial /\ Alert!Rest /\ Alert!Edit
    BY <1>12 DEF Alert!Uncheck, Alert!deleteAlerts
  <2>3. c \in FairCalls
    BY <1>7, OffTyped
  <2> HIDE DEF f, c
  <2>4. Quiet
    BY <2>2, <2>3, CallTyped DEF Quiet
  <2> QED
    BY <1>6, <1>9, <2>1, <2>2, <2>4
<1>13. ASSUME NEW n \in Kinds, Alert!CommitValue(n) PROVE AlertTyped'
  <2>1. form' = form /\ Alert!sendUpsert(n, form[n].min, form[n].value) /\ initial' = initial /\ Alert!Rest /\ Alert!Edit
    BY <1>13 DEF Alert!CommitValue
  <2> QED
    BY <1>0, <1>8, <1>9, <1>10, <2>1
<1>14. ASSUME NEW n \in Kinds, NEW v \in 1 .. Top, Alert!DragValue(n, v) PROVE AlertTyped'
  <2> DEFINE f == [form[n] EXCEPT !.value = v]
  <2>1. f \in FormsOf(n)
    BY <1>10, PagesAssumption DEF FormsOf, Alert!Values, Alert!Raw
  <2>2. form' = [form EXCEPT ![n] = f] /\ UNCHANGED <<initial, timers, dropped>> /\ Alert!Rest /\ Alert!Edit
    BY <1>14 DEF Alert!DragValue
  <2> HIDE DEF f
  <2>3. Quiet
    BY <1>0, <2>2 DEF Quiet
  <2> QED
    BY <1>6, <1>9, <2>1, <2>2, <2>3
<1>15. ASSUME NEW n \in Kinds, NEW v \in Alert!Raw, Alert!TypeValue(n, v) PROVE AlertTyped'
  <2> DEFINE f == [form[n] EXCEPT !.value = Alert!ClampValue(n, v)]
  <2>1. Alert!ClampValue(n, v) \in Alert!Values /\ (n \in Limited => Alert!ClampValue(n, v) \in 1 .. Top)
    BY PagesAssumption DEF Alert!ClampValue, Alert!Values, Alert!Raw
  <2>2. f \in FormsOf(n) /\ f.min = form[n].min /\ f.value = Alert!ClampValue(n, v)
    BY <1>10, <2>1 DEF FormsOf
  <2>3. /\ form' = [form EXCEPT ![n] = f] /\ Alert!sendUpsert(n, form[n].min, Alert!ClampValue(n, v))
        /\ initial' = initial /\ Alert!Rest /\ Alert!Edit
    BY <1>15 DEF Alert!TypeValue
  <2> HIDE DEF f
  <2> QED
    BY <1>6, <1>8, <1>9, <2>2, <2>3
<1>16. ASSUME NEW n \in Kinds, NEW v \in Alert!Raw, Alert!TypeMin(n, v) PROVE AlertTyped'
  <2> DEFINE f == [form[n] EXCEPT !.min = Alert!ClampMin(v)]
  <2>1. Alert!ClampMin(v) \in Alert!Minutes
    BY PagesAssumption DEF Alert!ClampMin, Alert!Minutes, Alert!Raw
  <2>2. f \in FormsOf(n) /\ f.min = Alert!ClampMin(v) /\ f.value = form[n].value
    BY <1>10, <2>1 DEF FormsOf
  <2>3. /\ form' = [form EXCEPT ![n] = f] /\ Alert!sendUpsert(n, Alert!ClampMin(v), form[n].value)
        /\ initial' = initial /\ Alert!Rest /\ Alert!Edit
    BY <1>16 DEF Alert!TypeMin
  <2> HIDE DEF f
  <2> QED
    BY <1>6, <1>8, <1>9, <2>2, <2>3
<1>17. CASE Alert!Send
  <2> DEFINE c == timers[1]
             open(method) == UNION {Alert!KeysOf(r) : r \in {q \in sent : q.method = method}}
  <2>1. timers # <<>> /\ timers \in Seq(AlertCalls)
    BY <1>17 DEF Alert!Send, AlertInv, OneTimerEach
  <2>2. Head(timers) = c /\ c \in FairCalls
    BY <1>0, <2>1, HeadTailProperties, HasFirst
  <2>3. /\ sent' = sent \cup {c} /\ timers' = Tail(timers)
        /\ dropped' = dropped \cup open(c.method) \cup ((open("POST") \cup open("DELETE")) \cap Alert!KeysOf(c))
    BY <1>17, <2>2 DEF Alert!Send
  <2>4. \A m : open(m) \subseteq Alert!Keys
    BY <1>0, CallKeys
  <2> HIDE DEF open, c
  <2>5. dropped' \subseteq Alert!Keys
    BY <1>0, <2>3, <2>4
  <2>6. \A i \in DOMAIN timers' : timers'[i] \in FairCalls
    <3>1. Len(timers) \in Nat /\ DOMAIN timers = 1 .. Len(timers) /\ Len(timers) # 0
      BY <2>1, LenProperties, EmptySeq
    <3>2. Len(Tail(timers)) = Len(timers) - 1 /\ Tail(timers) \in Seq(AlertCalls)
          /\ \A i \in 1 .. Len(Tail(timers)) : Tail(timers)[i] = timers[i + 1]
      BY <2>1, HeadTailProperties
    <3>3. DOMAIN Tail(timers) = 1 .. Len(timers) - 1
      BY <3>2, LenProperties
    <3> QED
      BY <1>0, <2>3, <3>1, <3>2, <3>3
  <2> QED
    BY <1>0, <1>17, <2>2, <2>3, <2>5, <2>6 DEF Alert!Send, Alert!page, AlertTyped
<1>18. ASSUME NEW c \in sent, Alert!Handle(c) PROVE AlertTyped'
  <2>1. c \in FairCalls /\ c.set \in SetsOf(c.name) /\ c.set \in Alert!Settings \cup {Alert!Off}
    BY <1>0 DEF FairCalls, SetsOf
  <2>2. aHub' = [k \in Alert!Keys |-> IF k \in Alert!KeysOf(c) THEN c.set ELSE aHub[k]]
    BY <1>18 DEF Alert!Handle, Alert!Handled
  <2>3. \A k \in Alert!KeysOf(c) : k[2] = c.name
    BY DEF Alert!KeysOf
  <2>4. Alerts(aHub')
    BY <1>0, <2>1, <2>2, <2>3 DEF Alerts
  <2> QED
    BY <1>0, <1>18, <2>4 DEF Alert!Handle, Alert!page, AlertTyped
<1>19. ASSUME NEW c \in sent, Alert!Fail(c) PROVE AlertTyped'
  <2>1. Alert!KeysOf(c) \subseteq Alert!Keys
    BY <1>0, CallKeys
  <2> QED
    BY <1>0, <1>19, <2>1 DEF Alert!Fail, Alert!page, AlertTyped
<1>20. CASE Alert!StoreUpdated
  BY <1>0, <1>20 DEF Alert!StoreUpdated, Alert!page, AlertTyped
<1> QED
  BY <1>3, <1>4, <1>5, <1>11, <1>12, <1>13, <1>14, <1>15, <1>16, <1>17, <1>18, <1>19, <1>20
  DEF Alert!Next, Alert!Editing

\* The types of the sheet.
LEMMA AlertTypes == ASSUME AlertTyped, AlertInv PROVE Alert!TypeOK
<1>1. timers \in Seq(Alert!Calls)
  <2>1. timers \in Seq(AlertCalls) /\ Len(timers) \in Nat /\ DOMAIN timers = 1 .. Len(timers)
    BY LenProperties DEF AlertInv, OneTimerEach
  <2>2. timers \in [1 .. Len(timers) -> AlertCalls]
    BY <2>1
  <2>3. timers \in [1 .. Len(timers) -> Alert!Calls]
    BY <2>1, <2>2 DEF AlertTyped, FairCalls
  <2> QED
    BY <2>1, <2>3, SeqDef
<1>2. \A n \in Limited : form[n].value \in 1 .. Top
  BY PagesAssumption DEF AlertTyped, Forms, FormsOf
<1>3. Len(timers) <= 2
  BY DEF AlertInv, OneTimerEach
<1> QED
  BY <1>1, <1>2, <1>3 DEF AlertTyped, AlertInv, Alerts, Forms, FairCalls, Alert!TypeOK

-----------------------------------------------------------------------------
(* A chart: types.                                                         *)

\* What a timer of the axis may carry.
Measures == [label : Chart!Widths, width : Chart!Widths]

ChartTyped ==
    /\ onScreen \in BOOLEAN /\ cardSeen \in BOOLEAN /\ seen \in BOOLEAN /\ displayMax \in BOOLEAN
    /\ areas.max \in BOOLEAN /\ areas.at \in BOOLEAN
    /\ yAxisWidth \in Chart!Widths /\ measures \in Seq(Measures)
    /\ filter \in Texts \cup {0} /\ inputs \in [Bars -> Texts \cup {0}]
    /\ acts \in 0 .. MaxActs

\* The chart before its card was seen.
LEMMA ChartTypedInit == Chart!Init => ChartTyped
<1> SUFFICES ASSUME Chart!Init PROVE ChartTyped
  OBVIOUS
<1>1. measures \in Seq(Measures)
  BY EmptySeq DEF Chart!Init
<1>2. areas.max \in BOOLEAN /\ areas.at \in BOOLEAN
  <2>1. areas = [key |-> Series[0], at |-> FALSE, max |-> FALSE]
    BY DEF Chart!Init
  <2> QED
    BY <2>1
<1>3. acts \in 0 .. MaxActs /\ yAxisWidth \in Chart!Widths
  BY SizesAssumption DEF Chart!Init, Chart!Widths
<1> QED
  BY <1>1, <1>2, <1>3 DEF ChartTyped, Chart!Init

\* The timers of a render carry labels of the axis.
LEMMA TicksTyped ==
    ASSUME NEW d \in Data \cup {0}, NEW w \in Chart!Widths, NEW changed
    PROVE  Chart!Ticks(d, w, changed) \in Seq(Measures)
<1>1. CASE changed /\ d # 0
  <2> DEFINE e == [label |-> Label[d], width |-> w]
  <2>1. e \in Measures
    BY <1>1 DEF Measures, Chart!Widths
  <2>2. Chart!Ticks(d, w, changed) = <<e>>
    BY <1>1 DEF Chart!Ticks
  <2> HIDE DEF e
  <2> QED
    BY <2>1, <2>2
<1>2. CASE ~(changed /\ d # 0)
  BY <1>2, EmptySeq DEF Chart!Ticks
<1> QED
  BY <1>1, <1>2

\* A render keeps the types of what the chart holds.
LEMMA SettleTyped ==
    ASSUME ChartTyped, ChartInv, NEW src \in Data \cup {0}, NEW max \in BOOLEAN, NEW vis \in BOOLEAN,
           NEW width \in Chart!Widths, NEW left \in Seq(Measures), Chart!Settle(src, max, vis, width, left)
    PROVE  /\ seen' \in BOOLEAN /\ displayMax' \in BOOLEAN /\ areas'.max \in BOOLEAN /\ areas'.at \in BOOLEAN
           /\ yAxisWidth' \in Chart!Widths /\ measures' \in Seq(Measures)
<1> DEFINE d == Chart!Updated(src, display, vis)
           m == IF vis THEN max ELSE displayMax
           a == Chart!AreasOf(src, max, m)
           changed == <<d, a, width>> # <<display, areas, yAxisWidth>>
<1>1. /\ displayMax' = m /\ areas' = a /\ seen' = (vis /\ d # 0) /\ yAxisWidth' = width
      /\ measures' = left \o Chart!Ticks(d, width, changed)
  BY DEF Chart!Settle
<1>2. d \in Data \cup {0}
  BY DEF Chart!Updated, ChartInv
<1>3. m \in BOOLEAN
  BY DEF ChartTyped
<1>4. a.max \in BOOLEAN /\ a.at \in BOOLEAN
  <2>1. areas.max \in BOOLEAN /\ areas.at \in BOOLEAN
    BY DEF ChartTyped
  <2>2. CASE a = areas
    BY <2>1, <2>2
  <2>3. CASE a = [key |-> Series[src], at |-> m, max |-> max]
    <3> HIDE DEF a, m
    <3> QED
      BY <1>3, <2>3
  <2> QED
    BY <2>2, <2>3 DEF Chart!AreasOf
<1> HIDE DEF d, m, a, changed
<1>5. Chart!Ticks(d, width, changed) \in Seq(Measures)
  BY <1>2, TicksTyped
<1>6. measures' \in Seq(Measures)
  BY <1>1, <1>5, ConcatProperties
<1>7. seen' \in BOOLEAN
  BY <1>1
<1> QED
  BY <1>1, <1>3, <1>4, <1>6, <1>7

\* Every step of the chart keeps its types.
LEMMA ChartTypedStep == ASSUME ChartTyped, ChartInv, Chart!Next PROVE ChartTyped'
<1>0. /\ onScreen \in BOOLEAN /\ cardSeen \in BOOLEAN /\ seen \in BOOLEAN /\ displayMax \in BOOLEAN
      /\ areas.max \in BOOLEAN /\ areas.at \in BOOLEAN
      /\ yAxisWidth \in Chart!Widths /\ measures \in Seq(Measures)
      /\ filter \in Texts \cup {0} /\ inputs \in [Bars -> Texts \cup {0}]
      /\ acts \in 0 .. MaxActs /\ source \in Data \cup {0} /\ display \in Data \cup {0} /\ maxToggled \in BOOLEAN
  BY DEF ChartTyped, ChartInv
<1> DEFINE Screen == onScreen' \in BOOLEAN /\ cardSeen' \in BOOLEAN
           Drawn == /\ seen' \in BOOLEAN /\ displayMax' \in BOOLEAN /\ areas'.max \in BOOLEAN /\ areas'.at \in BOOLEAN
                    /\ yAxisWidth' \in Chart!Widths /\ measures' \in Seq(Measures)
           Filters == filter' \in Texts \cup {0} /\ inputs' \in [Bars -> Texts \cup {0}]
           Acted == acts' \in 0 .. MaxActs
<1>1. SUFFICES Screen /\ Drawn /\ Filters /\ Acted
  BY <1>1 DEF ChartTyped
<1>2. ASSUME UNCHANGED <<onScreen, cardSeen>> PROVE Screen
  BY <1>0, <1>2
<1>3. ASSUME UNCHANGED <<seen, displayMax, areas, yAxisWidth, measures>> PROVE Drawn
  BY <1>0, <1>3
<1>4. ASSUME UNCHANGED <<filter, inputs>> PROVE Filters
  BY <1>0, <1>4
<1>5. ASSUME Chart!Act PROVE Acted
  BY <1>0, <1>5, SizesAssumption DEF Chart!Act
<1>6. ASSUME UNCHANGED acts PROVE Acted
  BY <1>0, <1>6
<1>7. ASSUME NEW src \in Data \cup {0}, NEW max \in BOOLEAN, Chart!Change(src, max) PROVE Drawn
  <2>1. CASE cardSeen
    <3>1. Chart!Settle(src, max, seen, yAxisWidth, measures)
      BY <1>7, <2>1 DEF Chart!Change
    <3> QED
      BY <1>0, <3>1, SettleTyped
  <2>2. CASE ~cardSeen
    <3>1. UNCHANGED <<seen, displayMax, areas, yAxisWidth, measures>>
      BY <1>7, <2>2 DEF Chart!Change
    <3> QED
      BY <1>3, <3>1
  <2> QED
    BY <2>1, <2>2
<1> HIDE DEF Screen, Drawn, Filters, Acted
<1>8. ASSUME NEW d \in Data \cup {0}, Chart!NewData(d) PROVE Screen /\ Drawn /\ Filters /\ Acted
  BY <1>0, <1>2, <1>4, <1>5, <1>7, <1>8 DEF Chart!NewData, Chart!bar
<1>9. CASE Chart!ToggleMax
  BY <1>0, <1>2, <1>4, <1>5, <1>7, <1>9 DEF Chart!ToggleMax, Chart!bar
<1>10. CASE Chart!Scroll
  <2>1. Screen
    BY <1>0, <1>10 DEF Chart!Scroll, Screen
  <2> QED
    BY <1>3, <1>4, <1>5, <1>10, <2>1 DEF Chart!Scroll, Chart!bar
<1>11. CASE Chart!CardObserved
  <2>1. /\ displayMax' = maxToggled /\ seen' = FALSE /\ yAxisWidth' = 0 /\ measures' = Chart!Ticks(source, 0, TRUE)
        /\ areas' = [key |-> Series[source], at |-> maxToggled, max |-> maxToggled]
    BY <1>11 DEF Chart!CardObserved
  <2>2. 0 \in Chart!Widths
    BY DEF Chart!Widths
  <2>3. measures' \in Seq(Measures)
    BY <1>0, <2>1, <2>2, TicksTyped
  <2>4. areas'.max \in BOOLEAN /\ areas'.at \in BOOLEAN
    BY <1>0, <2>1
  <2>5. Drawn
    BY <1>0, <2>1, <2>2, <2>3, <2>4 DEF Drawn
  <2>6. Screen
    BY <1>0, <1>11 DEF Chart!CardObserved, Screen
  <2> QED
    BY <1>4, <1>6, <1>11, <2>5, <2>6 DEF Chart!CardObserved, Chart!bar
<1>12. CASE Chart!Observed
  <2>1. Drawn
    BY <1>0, <1>12, SettleTyped DEF Chart!Observed, Drawn
  <2> QED
    BY <1>2, <1>4, <1>6, <1>12, <2>1 DEF Chart!Observed, Chart!bar
<1>13. CASE Chart!Measure
  <2> DEFINE m == Head(measures)
             w == IF m.label > m.width THEN m.label ELSE yAxisWidth
  <2>1. /\ measures # <<>> /\ Chart!Settle(source, maxToggled, seen, w, Tail(measures))
    BY <1>13 DEF Chart!Measure
  <2>2. m \in Measures /\ Tail(measures) \in Seq(Measures)
    BY <1>0, <2>1, HeadTailProperties
  <2>3. w \in Chart!Widths
    BY <1>0, <2>2 DEF Measures
  <2> HIDE DEF w
  <2>4. Drawn
    BY <1>0, <2>1, <2>2, <2>3, SettleTyped DEF Drawn
  <2> QED
    BY <1>2, <1>4, <1>6, <1>13, <2>4 DEF Chart!Measure, Chart!bar
<1>14. ASSUME NEW b \in Bars, NEW t \in Texts \cup {0},
              Chart!FilterTimer(b) \/ Chart!ClearFilter(b) \/ Chart!Type(b, t)
       PROVE  Screen /\ Drawn /\ Filters /\ Acted
  <2>1. Screen /\ Drawn
    BY <1>2, <1>3, <1>14 DEF Chart!FilterTimer, Chart!ClearFilter, Chart!Type, Chart!canvas
  <2>2. Acted
    BY <1>5, <1>6, <1>14 DEF Chart!FilterTimer, Chart!ClearFilter, Chart!Type
  <2>3. Filters
    BY <1>0, <1>14 DEF Chart!FilterTimer, Chart!ClearFilter, Chart!Type, Chart!Follow, Filters
  <2> QED
    BY <2>1, <2>2, <2>3
<1>15. 0 \in Texts \cup {0}
  OBVIOUS
<1> QED
  BY <1>8, <1>9, <1>10, <1>11, <1>12, <1>13, <1>14, <1>15 DEF Chart!Next, Chart!Browser

\* What the invariant of the copies leaves open is typed.
LEMMA ChartTypes == ChartTyped /\ ChartInv => Chart!TypeOK
  BY DEF ChartTyped, ChartInv, Measures, Chart!TypeOK

-----------------------------------------------------------------------------
(* The dialogs: types.                                                     *)

Bar == [ssh : Nat, sshLoading : BOOLEAN, install : Agents \cup {0}, delete : BOOLEAN,
        uninstall : BOOLEAN, deleteLoading : BOOLEAN]
Enrolling == [open : BOOLEAN, loading : BOOLEAN, token : Nat, install : BOOLEAN]
SigningIn == [loading : BOOLEAN, error : BOOLEAN]
Telegram == [ids : SUBSET (UserIds \cup {0}), loading : BOOLEAN]
HubSide == [agents : SUBSET Agents, uninstalled : SUBSET Agents, launches : SUBSET Nat, tokens : Nat,
            ids : SUBSET UserIds]

\* A call about an agent has its id; a revocation has a token.
AgentCalls == [part : Dialog!Parts, op : {"create", "install", "uninstall", "delete"}, id : Agents,
               gen : Nat, ids : SUBSET UserIds]
OtherCalls == [part : Dialog!Parts, op : {"load", "save", "test", "auth", "revoke", "enroll", "script"}, id : Nat,
               gen : Nat, ids : SUBSET UserIds]

DialogTyped ==
    /\ authenticated \in {"unknown", "no", "yes"} /\ viewing \in Agents \cup {0}
    /\ gen \in [Dialog!Parts -> Nat]
    /\ bar \in Bar /\ add \in Enrolling /\ signIn \in SigningIn /\ telegram \in Telegram
    /\ calls \subseteq AgentCalls \cup OtherCalls
    /\ hubSide \in HubSide
    /\ clicks \in 0 .. MaxClicks

\* The dialogs before the first click.
LEMMA DialogTypedInit == Dialog!Init => DialogTyped
<1> SUFFICES ASSUME Dialog!Init PROVE DialogTyped
  OBVIOUS
<1>1. gen = [p \in Dialog!Parts |-> 0] /\ calls = {Dialog!Call("telegram", "load", 0)}
  BY DEF Dialog!Init
<1>2. Dialog!Call("telegram", "load", 0) \in OtherCalls
  BY <1>1 DEF Dialog!Call, OtherCalls, Dialog!Parts
<1>3. bar \in Bar /\ add \in Enrolling /\ signIn \in SigningIn /\ telegram \in Telegram
  BY DEF Dialog!Init, Dialog!FreshBar, Dialog!FreshAdd, Dialog!FreshTelegram, Bar, Enrolling, SigningIn, Telegram
<1>4. hubSide \in HubSide
  BY DEF Dialog!Init, HubSide
<1>5. clicks \in 0 .. MaxClicks
  BY SizesAssumption DEF Dialog!Init
<1> QED
  BY <1>1, <1>2, <1>3, <1>4, <1>5 DEF Dialog!Init, DialogTyped

\* A request that a click sends.
LEMMA SendsTyped ==
    ASSUME DialogTyped, NEW c \in AgentCalls \cup OtherCalls, Dialog!Sends(c)
    PROVE  /\ calls' \subseteq AgentCalls \cup OtherCalls /\ clicks' \in 0 .. MaxClicks
           /\ UNCHANGED <<authenticated, viewing, gen, hubSide>>
<1>1. clicks' \in 0 .. MaxClicks
  BY SizesAssumption DEF DialogTyped, Dialog!Sends, Dialog!Click
<1> QED
  BY <1>1 DEF DialogTyped, Dialog!Sends, Dialog!Send

\* What the components send.
LEMMA CallsTyped ==
    ASSUME DialogTyped, NEW part \in Dialog!Parts
    PROVE  /\ \A a \in Agents, op \in {"create", "install", "uninstall", "delete"} :
                 Dialog!Call(part, op, a) \in AgentCalls
           /\ \A n \in Nat, op \in {"load", "save", "test", "auth", "revoke", "enroll", "script"} :
                 Dialog!Call(part, op, n) \in OtherCalls
<1>1. gen[part] \in Nat
  BY DEF DialogTyped
<1> QED
  BY <1>1 DEF Dialog!Call, AgentCalls, OtherCalls

\* The generation of a component that is mounted anew.
LEMMA GenTyped ==
    ASSUME DialogTyped, NEW part \in Dialog!Parts
    PROVE  [gen EXCEPT ![part] = @ + 1] \in [Dialog!Parts -> Nat]
  BY DEF DialogTyped

\* The bar of the page that is gone to.
LEMMA GotoTyped ==
    ASSUME DialogTyped, NEW i \in Agents \cup {0}, Dialog!Goto(i)
    PROVE  viewing' \in Agents \cup {0} /\ bar' \in Bar /\ gen' \in [Dialog!Parts -> Nat]
<1>1. Dialog!FreshBar \in Bar
  BY DEF Dialog!FreshBar, Bar
<1>2. [gen EXCEPT !["bar"] = @ + 1] \in [Dialog!Parts -> Nat]
  BY GenTyped DEF Dialog!Parts
<1> QED
  BY <1>1, <1>2 DEF DialogTyped, Dialog!Goto

\* Every step of the dialogs keeps their types.
LEMMA DialogTypedStep == ASSUME DialogTyped, Dialog!Next PROVE DialogTyped'
<1>0. /\ authenticated \in {"unknown", "no", "yes"} /\ viewing \in Agents \cup {0}
      /\ gen \in [Dialog!Parts -> Nat]
      /\ bar \in Bar /\ add \in Enrolling /\ signIn \in SigningIn /\ telegram \in Telegram
      /\ calls \subseteq AgentCalls \cup OtherCalls
      /\ hubSide \in HubSide
      /\ clicks \in 0 .. MaxClicks
  BY DEF DialogTyped
<1> DEFINE Auth == authenticated' \in {"unknown", "no", "yes"}
           View == viewing' \in Agents \cup {0} /\ gen' \in [Dialog!Parts -> Nat]
           OfBar == bar' \in Bar
           OfAdd == add' \in Enrolling
           OfLogin == signIn' \in SigningIn
           OfTelegram == telegram' \in Telegram
           Calls == calls' \subseteq AgentCalls \cup OtherCalls
           Hub == hubSide' \in HubSide
           Clicks == clicks' \in 0 .. MaxClicks
           All == Auth /\ View /\ OfBar /\ OfAdd /\ OfLogin /\ OfTelegram /\ Calls /\ Hub /\ Clicks
<1>1. SUFFICES All
  BY <1>1 DEF DialogTyped
<1>2. /\ UNCHANGED authenticated => Auth
      /\ UNCHANGED <<viewing, gen>> => View
      /\ UNCHANGED bar => OfBar
      /\ UNCHANGED add => OfAdd
      /\ UNCHANGED signIn => OfLogin
      /\ UNCHANGED telegram => OfTelegram
      /\ UNCHANGED calls => Calls
      /\ UNCHANGED hubSide => Hub
      /\ UNCHANGED clicks => Clicks
  BY <1>0
<1>3. Dialog!Click => Clicks
  BY <1>0, SizesAssumption DEF Dialog!Click
<1>4. ASSUME NEW c, Dialog!Answered(c) PROVE Calls /\ Clicks
  BY <1>0, <1>4 DEF Dialog!Answered
<1>5. ASSUME NEW c \in AgentCalls \cup OtherCalls, Dialog!Sends(c) PROVE Auth /\ View /\ Calls /\ Hub /\ Clicks
  BY <1>0, <1>5, SendsTyped
<1>6. ASSUME NEW c, NEW b \in Bar, Dialog!SetBar(c, b) PROVE OfBar
  BY <1>0, <1>6 DEF Dialog!SetBar
<1>7. ASSUME NEW c, NEW a \in Enrolling, Dialog!SetAdd(c, a) PROVE OfAdd
  BY <1>0, <1>7 DEF Dialog!SetAdd
<1>8. ASSUME NEW i \in Agents \cup {0}, Dialog!Goto(i) PROVE View /\ OfBar
  BY <1>8, GotoTyped
<1> HIDE DEF Auth, View, OfBar, OfAdd, OfLogin, OfTelegram, Calls, Hub, Clicks
<1>9. CASE Dialog!AuthChecked
  <2>1. Auth
    BY <1>9 DEF Dialog!AuthChecked, Auth
  <2> QED
    BY <1>2, <1>9, <2>1 DEF Dialog!AuthChecked
<1>10. CASE Dialog!LoginSubmit
  <2>1. OfLogin
    BY <1>10 DEF Dialog!LoginSubmit, OfLogin, SigningIn
  <2>2. Dialog!Call("signIn", "auth", 0) \in OtherCalls
    BY CallsTyped DEF Dialog!Parts
  <2>3. Dialog!Sends(Dialog!Call("signIn", "auth", 0)) /\ UNCHANGED <<bar, add, telegram>>
    BY <1>10 DEF Dialog!LoginSubmit
  <2> QED
    BY <1>2, <1>5, <2>1, <2>2, <2>3
<1>11. ASSUME NEW i \in Agents \cup {0}, Dialog!Navigate(i) PROVE All
  BY <1>2, <1>3, <1>8, <1>11 DEF Dialog!Navigate
<1>12. CASE Dialog!createSSHLaunch
  <2>1. OfBar
    BY <1>0, <1>12 DEF Dialog!createSSHLaunch, OfBar, Bar
  <2>2. Dialog!Call("bar", "create", viewing) \in AgentCalls
    BY <1>0, <1>12, CallsTyped DEF Dialog!createSSHLaunch, Dialog!Parts
  <2>3. Dialog!Sends(Dialog!Call("bar", "create", viewing)) /\ UNCHANGED <<add, signIn, telegram>>
    BY <1>12 DEF Dialog!createSSHLaunch
  <2> QED
    BY <1>2, <1>5, <2>1, <2>2, <2>3
<1>13. CASE Dialog!revokeSSHLaunch
  <2>1. bar.ssh \in Nat
    BY <1>0 DEF Bar
  <2>2. Dialog!Call("bar", "revoke", bar.ssh) \in OtherCalls
    BY <2>1, CallsTyped DEF Dialog!Parts
  <2>3. Dialog!Sends(Dialog!Call("bar", "revoke", bar.ssh)) /\ UNCHANGED <<bar, add, signIn, telegram>>
    BY <1>13 DEF Dialog!revokeSSHLaunch
  <2> QED
    BY <1>2, <1>5, <2>2, <2>3
<1>14. CASE Dialog!loadInstallScript
  <2>1. Dialog!Call("bar", "install", viewing) \in AgentCalls
    BY <1>0, <1>14, CallsTyped DEF Dialog!loadInstallScript, Dialog!Parts
  <2>2. Dialog!Sends(Dialog!Call("bar", "install", viewing)) /\ UNCHANGED <<bar, add, signIn, telegram>>
    BY <1>14 DEF Dialog!loadInstallScript
  <2> QED
    BY <1>2, <1>5, <2>1, <2>2
<1>15. CASE Dialog!DeleteDialog
  <2>1. OfBar
    BY <1>0, <1>15 DEF Dialog!DeleteDialog, OfBar, Bar
  <2> QED
    BY <1>2, <1>3, <1>15, <2>1 DEF Dialog!DeleteDialog
<1>16. CASE Dialog!deleteSystem
  <2> DEFINE op == Dialog!FirstDeleteCall(bar.uninstall)
  <2>1. OfBar
    BY <1>0, <1>16 DEF Dialog!deleteSystem, OfBar, Bar
  <2>2. Dialog!Sends(Dialog!Call("bar", op, viewing)) /\ UNCHANGED <<add, signIn, telegram>>
    BY <1>16 DEF Dialog!deleteSystem
  <2>3. op \in {"create", "install", "uninstall", "delete"} /\ viewing \in Agents
    BY <1>0, <1>16 DEF Dialog!FirstDeleteCall, Dialog!deleteSystem
  <2> HIDE DEF op
  <2>4. Dialog!Call("bar", op, viewing) \in AgentCalls
    BY <2>3, CallsTyped DEF Dialog!Parts
  <2> QED
    BY <1>2, <1>5, <2>1, <2>2, <2>4
<1>17. CASE Dialog!AddDialog
  <2>1. OfAdd
    BY <1>0, <1>17 DEF Dialog!AddDialog, Dialog!FreshAdd, OfAdd, Enrolling
  <2>2. [gen EXCEPT !["add"] = @ + 1] \in [Dialog!Parts -> Nat]
    BY GenTyped DEF Dialog!Parts
  <2>3. View
    BY <1>0, <1>17, <2>2 DEF Dialog!AddDialog, View
  <2> QED
    BY <1>2, <1>3, <1>17, <2>1, <2>3 DEF Dialog!AddDialog
<1>18. CASE Dialog!AddSubmit
  <2>1. OfAdd
    BY <1>0, <1>18 DEF Dialog!AddSubmit, OfAdd, Enrolling
  <2>2. Dialog!Call("add", "enroll", 0) \in OtherCalls
    BY CallsTyped DEF Dialog!Parts
  <2>3. Dialog!Sends(Dialog!Call("add", "enroll", 0)) /\ UNCHANGED <<bar, signIn, telegram>>
    BY <1>18 DEF Dialog!AddSubmit
  <2> QED
    BY <1>2, <1>5, <2>1, <2>2, <2>3
<1>19. ASSUME NEW ids \in SUBSET (UserIds \cup {0}), Dialog!TypeIds(ids) PROVE All
  <2>1. OfTelegram
    BY <1>0, <1>19 DEF Dialog!TypeIds, OfTelegram, Telegram
  <2> QED
    BY <1>2, <1>3, <1>19, <2>1 DEF Dialog!TypeIds
<1>20. CASE Dialog!SaveTelegram
  <2> DEFINE c == [Dialog!Call("telegram", "save", 0) EXCEPT !.ids = Dialog!Parsed(telegram.ids)]
  <2>1. OfTelegram
    BY <1>0, <1>20 DEF Dialog!SaveTelegram, OfTelegram, Telegram
  <2>2. Dialog!Sends(c) /\ UNCHANGED <<bar, add, signIn>>
    BY <1>20 DEF Dialog!SaveTelegram
  <2>3. Dialog!Call("telegram", "save", 0) \in OtherCalls
    BY CallsTyped DEF Dialog!Parts
  <2>4. Dialog!Parsed(telegram.ids) \subseteq UserIds
    <3>1. telegram.ids \subseteq UserIds \cup {0}
      BY <1>0 DEF Telegram
    <3> QED
      BY <3>1 DEF Dialog!Parsed
  <2>5. \A x \in OtherCalls, s \in SUBSET UserIds : [x EXCEPT !.ids = s] \in OtherCalls
    BY DEF OtherCalls
  <2>6. c \in OtherCalls
    BY <2>3, <2>4, <2>5
  <2> HIDE DEF c
  <2> QED
    BY <1>2, <1>5, <2>1, <2>2, <2>6
<1>21. CASE Dialog!TestTelegram
  <2>1. Dialog!Call("telegram", "test", 0) \in OtherCalls
    BY CallsTyped DEF Dialog!Parts
  <2>2. Dialog!Sends(Dialog!Call("telegram", "test", 0)) /\ UNCHANGED <<bar, add, signIn, telegram>>
    BY <1>21 DEF Dialog!TestTelegram
  <2> QED
    BY <1>2, <1>5, <2>1, <2>2
<1>22. CASE Dialog!Toasting
  BY <1>2, <1>22 DEF Dialog!Toasting, Dialog!Dismiss, Dialog!Removed
<1>23. ASSUME NEW c \in calls, Dialog!LoginAnswer(c) PROVE All
  <2>1. \A b \in BOOLEAN : [loading |-> FALSE, error |-> b] \in SigningIn
    BY DEF SigningIn
  <2>2. OfLogin
    BY <1>23, <2>1 DEF Dialog!LoginAnswer, OfLogin
  <2>3. Auth
    BY <1>0, <1>23 DEF Dialog!LoginAnswer, Auth
  <2> QED
    BY <1>2, <1>4, <1>23, <2>2, <2>3 DEF Dialog!LoginAnswer
<1>24. ASSUME NEW c \in calls, Dialog!SSHLaunchAnswer(c) PROVE All
  <2> DEFINE token == hubSide.tokens + 1
             more == [hubSide EXCEPT !.tokens = token, !.launches = @ \cup {token}]
  <2>1. token \in Nat
    BY <1>0 DEF HubSide
  <2> HIDE DEF token
  <2>2. more \in HubSide
    BY <1>0, <2>1 DEF HubSide
  <2>3. Dialog!SSHLoadingEnds([bar EXCEPT !.ssh = token]) \in Bar /\ Dialog!SSHLoadingEnds(bar) \in Bar
    BY <1>0, <2>1 DEF Dialog!SSHLoadingEnds, Bar
  <2>4. \/ hubSide' = more /\ Dialog!SetBar(c, Dialog!SSHLoadingEnds([bar EXCEPT !.ssh = token]))
        \/ Dialog!SetBar(c, Dialog!SSHLoadingEnds(bar)) /\ UNCHANGED hubSide
    BY <1>24 DEF Dialog!SSHLaunchAnswer, token
  <2>5. OfBar
    BY <1>6, <2>3, <2>4
  <2>6. Hub
    BY <1>2, <2>2, <2>4 DEF Hub
  <2> QED
    BY <1>2, <1>4, <1>24, <2>5, <2>6 DEF Dialog!SSHLaunchAnswer
<1>25. ASSUME NEW c \in calls, Dialog!RevokeAnswer(c) PROVE All
  <2>1. [bar EXCEPT !.ssh = 0] \in Bar
    BY <1>0 DEF Bar
  <2>2. [hubSide EXCEPT !.launches = @ \ {c.id}] \in HubSide
    BY <1>0 DEF HubSide
  <2>3. OfBar
    BY <1>2, <1>6, <1>25, <2>1 DEF Dialog!RevokeAnswer
  <2>4. Hub
    BY <1>2, <1>25, <2>2 DEF Dialog!RevokeAnswer, Hub
  <2> QED
    BY <1>2, <1>4, <1>25, <2>3, <2>4 DEF Dialog!RevokeAnswer
<1>26. ASSUME NEW c \in calls, Dialog!InstallAnswer(c) PROVE All
  <2>1. c.id \in Agents
    BY <1>0, <1>26 DEF Dialog!InstallAnswer, AgentCalls, OtherCalls
  <2>2. [bar EXCEPT !.install = c.id] \in Bar
    BY <1>0, <2>1 DEF Bar
  <2>3. OfBar
    BY <1>2, <1>6, <1>26, <2>2 DEF Dialog!InstallAnswer
  <2> QED
    BY <1>2, <1>4, <1>26, <2>3 DEF Dialog!InstallAnswer
<1>27. ASSUME NEW c \in calls, Dialog!UninstallAnswer(c) PROVE All
  <2>1. c \in AgentCalls
    BY <1>0, <1>27 DEF Dialog!UninstallAnswer, AgentCalls, OtherCalls
  <2>2. c.id \in Agents /\ [c EXCEPT !.op = "delete"] \in AgentCalls
    BY <2>1 DEF AgentCalls
  <2>3. [bar EXCEPT !.deleteLoading = FALSE] \in Bar
    BY <1>0 DEF Bar
  <2>4. [hubSide EXCEPT !.uninstalled = @ \cup {c.id}] \in HubSide
    BY <1>0, <2>2 DEF HubSide
  <2>5. OfBar
    BY <1>2, <1>6, <1>27, <2>3 DEF Dialog!UninstallAnswer
  <2>6. Hub
    BY <1>2, <1>27, <2>4 DEF Dialog!UninstallAnswer, Hub
  <2>7. Calls
    BY <1>0, <1>27, <2>2 DEF Dialog!UninstallAnswer, Calls
  <2> QED
    BY <1>2, <1>27, <2>5, <2>6, <2>7 DEF Dialog!UninstallAnswer
<1>28. ASSUME NEW c \in calls, Dialog!DeleteAnswer(c) PROVE All
  <2>1. [bar EXCEPT !.deleteLoading = FALSE] \in Bar
    BY <1>0 DEF Bar
  <2>2. [hubSide EXCEPT !.agents = @ \ {c.id}] \in HubSide
    BY <1>0 DEF HubSide
  <2>3. Hub
    BY <1>2, <1>28, <2>2 DEF Dialog!DeleteAnswer, Hub
  <2>4. OfBar /\ View
    BY <1>2, <1>6, <1>8, <1>28, <2>1 DEF Dialog!DeleteAnswer
  <2> QED
    BY <1>2, <1>4, <1>28, <2>3, <2>4 DEF Dialog!DeleteAnswer
<1>29. ASSUME NEW c \in calls, Dialog!AddAnswer(c) PROVE All
  <2>1. c.op = "enroll" => [c EXCEPT !.op = "script"] \in OtherCalls
    BY <1>0 DEF AgentCalls, OtherCalls
  <2>2. /\ [add EXCEPT !.token = 1] \in Enrolling
        /\ [add EXCEPT !.install = TRUE, !.loading = FALSE] \in Enrolling
        /\ [add EXCEPT !.loading = FALSE] \in Enrolling
    BY <1>0 DEF Enrolling
  <2>3. OfAdd
    BY <1>7, <1>29, <2>2 DEF Dialog!AddAnswer
  <2>4. Calls
    BY <1>0, <1>29, <2>1 DEF Dialog!AddAnswer, Dialog!Answered, Calls
  <2>5. /\ UNCHANGED <<authenticated, viewing, gen, bar, signIn, telegram, hubSide>>
        /\ UNCHANGED clicks \/ Dialog!Answered(c)
    BY <1>29 DEF Dialog!AddAnswer
  <2> QED
    BY <1>2, <1>4, <2>3, <2>4, <2>5
<1>30. ASSUME NEW c \in calls, Dialog!TelegramAnswer(c) PROVE All
  <2>1. c.ids \subseteq UserIds
    BY <1>0 DEF AgentCalls, OtherCalls
  <2>2. [hubSide EXCEPT !.ids = c.ids] \in HubSide /\ hubSide.ids \subseteq UserIds
    BY <1>0, <2>1 DEF HubSide
  <2>3. /\ [ids |-> hubSide.ids, loading |-> FALSE] \in Telegram
        /\ [ids |-> c.ids, loading |-> FALSE] \in Telegram
        /\ [telegram EXCEPT !.loading = FALSE] \in Telegram
    BY <1>0, <2>1, <2>2 DEF Telegram
  <2>4. OfTelegram
    BY <1>2, <1>30, <2>3 DEF Dialog!TelegramAnswer, OfTelegram
  <2>5. Hub
    BY <1>2, <1>30, <2>2 DEF Dialog!TelegramAnswer, Hub
  <2> QED
    BY <1>2, <1>4, <1>30, <2>4, <2>5 DEF Dialog!TelegramAnswer
<1> QED
  BY <1>9, <1>10, <1>11, <1>12, <1>13, <1>14, <1>15, <1>16, <1>17, <1>18, <1>19, <1>20, <1>21, <1>22, <1>23,
     <1>24, <1>25, <1>26, <1>27, <1>28, <1>29, <1>30 DEF Dialog!Next, Dialog!Answers, Dialog!Answer

\* With the toasts, what the dialogs hold is typed.
LEMMA DialogTypes == ASSUME DialogTyped, ToastInv PROVE Dialog!TypeOK
<1>1. \A c \in calls : c.part \in Dialog!Parts
  BY DEF DialogTyped, AgentCalls, OtherCalls
<1>2. hubSide.ids \subseteq UserIds /\ hubSide.agents \subseteq Agents
  BY DEF DialogTyped, HubSide
<1> QED
  BY <1>1, <1>2 DEF DialogTyped, ToastInv, Dialog!TypeOK, Bar, Enrolling, SigningIn, Telegram

-----------------------------------------------------------------------------
(* The pages together.                                                     *)

\* Answers of the containers page go where they belong, however requests for the
\* list and for logs overlap and are cancelled, for any containers and systems.
THEOREM AnswersPlacedTheorem == Spec => []AnswersPlaced
<1>1. Init => ContInv
  BY ContInit DEF Init
<1>2. ContInv /\ [Next]_vars => ContInv'
  <2> SUFFICES ASSUME ContInv, [Next]_vars PROVE ContInv'
    OBVIOUS
  <2>1. CASE ContOnly /\ Cont!Next
    BY <2>1, ContStep
  <2>2. CASE UNCHANGED contVars
    BY <2>2 DEF contVars, ContInv, ScopeKept, LogsAsked, Cont!LogsOwned
  <2> QED
    BY <2>1, <2>2 DEF Next, vars, HomeOnly, HistOnly, AlertOnly, SysOnly, ChartOnly, DialogOnly
<1>3. ContInv => AnswersPlaced
  BY DEF ContInv, OncePer, ScopeKept, AnswersPlaced, Cont!MergedOnce
<1> QED
  BY <1>1, <1>2, <1>3, PTL DEF Spec

\* The last choice of every key reaches the hub and a global edit every system the
\* first one was meant for, for any systems and alerts and any order of timers,
\* answers and failures.
THEOREM EditsReachTheorem == Spec => []EditsReach
<1>1. Init => AlertInv
  BY AlertInit DEF Init
<1>2. AlertInv /\ [Next]_vars => AlertInv'
  <2> SUFFICES ASSUME AlertInv, [Next]_vars PROVE AlertInv'
    OBVIOUS
  <2>1. CASE AlertOnly /\ Alert!Next
    BY <2>1, AlertStep
  <2>2. CASE UNCHANGED alertVars
    BY <2>2 DEF alertVars, AlertInv, Choices, ChoiceOnItsWay, TimersOf, SentOf, Alert!GlobalEditsReach,
                Alert!getSystemIds
  <2> QED
    BY <2>1, <2>2 DEF Next, vars, HomeOnly, HistOnly, ContOnly, SysOnly, ChartOnly, DialogOnly
<1>3. AlertInv => EditsReach
  <2> SUFFICES ASSUME AlertInv PROVE Alert!LastChoiceHolds
    BY DEF AlertInv, EditsReach
  <2> SUFFICES ASSUME timers = <<>>, sent = {}, NEW k \in DOMAIN chosen \ dropped PROVE aHub[k] = chosen[k]
    BY DEF Alert!LastChoiceHolds
  <2>1. TimersOf(k) = {} /\ SentOf(k) = {}
    BY DEF TimersOf, SentOf
  <2> QED
    BY <2>1 DEF AlertInv, Choices, ChoiceOnItsWay
<1> QED
  BY <1>1, <1>2, <1>3, PTL DEF Spec


RemoveInv == HistInv /\ ToastInv /\ UninstallInv /\ HomeInv

\* A removal that takes several steps hits what it was asked for, for any records,
\* toasts, systems and agents and any order of clicks, messages and answers.
THEOREM RemovesAskedTheorem == Spec => RemovesAsked
<1>1. Init => RemoveInv
  BY HistInit, ToastInit, UninstallInit, HomeInit DEF Init, RemoveInv
<1> DEFINE Sure == /\ gone' # gone => \E d \in del : gone' \ gone \subseteq d.chosen
                   /\ toasts # <<>> /\ toasts[1].open => toasts' # <<>>
<1>2. RemoveInv /\ [Next]_vars => RemoveInv' /\ Sure
  <2> SUFFICES ASSUME RemoveInv, [Next]_vars PROVE RemoveInv' /\ Sure
    OBVIOUS
  <2>1. ASSUME UNCHANGED histVars PROVE HistInv' /\ gone' = gone
    BY <2>1 DEF RemoveInv, HistInv, histVars
  <2>2. ASSUME UNCHANGED dialogVars PROVE ToastInv' /\ UninstallInv' /\ toasts' = toasts
    BY <2>2 DEF RemoveInv, ToastInv, UninstallInv, Dialog!UninstalledFirst, dialogVars
  <2>3. ASSUME UNCHANGED homeVars PROVE HomeInv'
    BY <2>3 DEF RemoveInv, HomeInv, GridRows, Home!GridDeletesAsked, homeVars
  <2>4. CASE HomeOnly /\ Home!Next
    BY <2>1, <2>2, <2>4, HomeStep DEF RemoveInv, HomeOnly
  <2>5. CASE HistOnly /\ Hist!Next
    BY <2>2, <2>3, <2>5, HistStep DEF RemoveInv, HistOnly
  <2>6. CASE DialogOnly /\ Dialog!Next
    BY <2>1, <2>3, <2>6, ToastStep, UninstallStep DEF RemoveInv, DialogOnly
  <2>7. CASE UNCHANGED <<histVars, dialogVars, homeVars>>
    BY <2>1, <2>2, <2>3, <2>7 DEF RemoveInv
  <2> QED
    BY <2>4, <2>5, <2>6, <2>7 DEF Next, vars, ContOnly, AlertOnly, SysOnly, ChartOnly
<1>3. RemoveInv /\ RemoveInv' /\ Sure =>
          /\ [gone' # gone => \E d \in del : gone' \ gone \subseteq d.chosen]_(Hist!vars)
          /\ [toasts # <<>> /\ toasts[1].open => toasts' # <<>>]_(Dialog!vars)
          /\ [page = "home" => Home!GridDeletesAsked']_homeVars
          /\ [page = "dialogs" => Dialog!UninstalledFirst']_dialogVars
  BY DEF RemoveInv, HomeInv, UninstallInv
<1> QED
  BY <1>1, <1>2, <1>3, PTL DEF Spec, RemovesAsked, Hist!DeletesChosen, Dialog!OpenToastStays

\* What a page keeps instead of rendering it anew is what it would render, for any
\* systems, columns, records and data: the rows of the systems table, the series of
\* the GPU charts, the data of a chart on the screen and the width of its axis.
THEOREM MemosFreshTheorem == Spec => []MemosFresh
<1> DEFINE Inv == RowInv /\ SeriesInv /\ ChartInv
<1>1. Init => Inv
  BY RowInit, SeriesInit, ChartInit DEF Init
<1>2. Inv /\ [Next]_vars => Inv'
  <2> SUFFICES ASSUME Inv, [Next]_vars PROVE Inv'
    OBVIOUS
  <2>1. RowInv'
    <3>1. CASE HomeOnly /\ Home!Next
      BY <3>1, RowStep
    <3>2. CASE UNCHANGED homeVars
      BY <3>2 DEF homeVars, RowInv, Home!RowsCurrent
    <3> QED
      BY <3>1, <3>2 DEF Next, vars, ContOnly, HistOnly, AlertOnly, SysOnly, ChartOnly, DialogOnly
  <2>2. SeriesInv'
    <3>1. CASE SysOnly /\ Sys!Next
      BY <3>1, SeriesStep
    <3>2. CASE UNCHANGED sysVars
      BY <3>2 DEF sysVars, SeriesInv
    <3> QED
      BY <3>1, <3>2 DEF Next, vars, HomeOnly, ContOnly, HistOnly, AlertOnly, ChartOnly, DialogOnly
  <2>3. ChartInv'
    <3>1. CASE ChartOnly /\ Chart!Next
      BY <3>1, ChartStep
    <3>2. CASE UNCHANGED chartVars
      BY <3>2 DEF chartVars, ChartInv, LastTimerKnows, Chart!VisibleFresh
    <3> QED
      BY <3>1, <3>2 DEF Next, vars, HomeOnly, ContOnly, HistOnly, AlertOnly, SysOnly, DialogOnly
  <2> QED
    BY <2>1, <2>2, <2>3
<1>3. Inv => MemosFresh
  BY SeriesFresh, ChartFresh DEF RowInv, MemosFresh
<1> QED
  BY <1>1, <1>2, <1>3, PTL DEF Spec

\* What every page keeps of its state, the page that is not shown too.
PagesTyped ==
    /\ page \in PageNames
    /\ HomeTyped /\ HomeInv /\ RowInv
    /\ ContTyped
    /\ HistTyped
    /\ AlertTyped /\ AlertInv
    /\ SysTyped
    /\ ChartTyped /\ ChartInv
    /\ DialogTyped /\ ToastInv

\* The pages when the browser is opened.
LEMMA PagesTypedInit == Init => PagesTyped
  BY HomeTypedInit, HomeInit, RowInit, ContTypedInit, HistTypedInit, AlertTypedInit, AlertInit, SysTypedInit,
     ChartTypedInit, ChartInit, DialogTypedInit, ToastInit DEF Init, PagesTyped

\* A step of one page keeps it, and leaves the others as they are.
LEMMA PagesTypedStep == PagesTyped /\ [Next]_vars => PagesTyped'
<1> SUFFICES ASSUME PagesTyped, [Next]_vars PROVE PagesTyped'
  OBVIOUS
<1>0. page' \in PageNames
  BY DEF PagesTyped, Next, vars, HomeOnly, ContOnly, HistOnly, AlertOnly, SysOnly, ChartOnly, DialogOnly
<1>1. (HomeTyped /\ HomeInv /\ RowInv)'
  <2>1. CASE Home!Next
    BY <2>1, HomeTypedStep, HomeStep, RowStep DEF PagesTyped
  <2>2. CASE UNCHANGED homeVars
    BY <2>2 DEF PagesTyped, homeVars, HomeTyped, HomeInv, GridRows, Home!GridDeletesAsked, RowInv, Home!RowsCurrent
  <2> QED
    BY <2>1, <2>2 DEF Next, vars, ContOnly, HistOnly, AlertOnly, SysOnly, ChartOnly, DialogOnly
<1>2. ContTyped'
  <2>1. CASE Cont!Next
    BY <2>1, ContTypedStep DEF PagesTyped
  <2>2. CASE UNCHANGED contVars
    BY <2>2 DEF PagesTyped, contVars, ContTyped, Cont!TypeOK
  <2> QED
    BY <2>1, <2>2 DEF Next, vars, HomeOnly, HistOnly, AlertOnly, SysOnly, ChartOnly, DialogOnly
<1>3. HistTyped'
  <2>1. CASE Hist!Next
    BY <2>1, HistTypedStep DEF PagesTyped
  <2>2. CASE UNCHANGED histVars
    BY <2>2 DEF PagesTyped, histVars, HistTyped, Hist!TypeOK, Hist!PageExists
  <2> QED
    BY <2>1, <2>2 DEF Next, vars, HomeOnly, ContOnly, AlertOnly, SysOnly, ChartOnly, DialogOnly
<1>4. (AlertTyped /\ AlertInv)'
  <2>1. CASE Alert!Next
    BY <2>1, AlertTypedStep, AlertStep DEF PagesTyped
  <2>2. CASE UNCHANGED alertVars
    <3>1. AlertTyped'
      BY <2>2 DEF PagesTyped, alertVars, AlertTyped
    <3>2. AlertInv'
      BY <2>2 DEF PagesTyped, alertVars, AlertInv, Choices, ChoiceOnItsWay, TimersOf, SentOf,
                  Alert!GlobalEditsReach, Alert!getSystemIds
    <3> QED
      BY <3>1, <3>2
  <2> QED
    BY <2>1, <2>2 DEF Next, vars, HomeOnly, ContOnly, HistOnly, SysOnly, ChartOnly, DialogOnly
<1>5. SysTyped'
  <2>1. CASE Sys!Next
    BY <2>1, SysTypedStep DEF PagesTyped
  <2>2. CASE UNCHANGED sysVars
    BY <2>2 DEF PagesTyped, sysVars, SysTyped, Sys!TypeOK
  <2> QED
    BY <2>1, <2>2 DEF Next, vars, HomeOnly, ContOnly, HistOnly, AlertOnly, ChartOnly, DialogOnly
<1>6. (ChartTyped /\ ChartInv)'
  <2>1. CASE Chart!Next
    BY <2>1, ChartTypedStep, ChartStep DEF PagesTyped
  <2>2. CASE UNCHANGED chartVars
    BY <2>2 DEF PagesTyped, chartVars, ChartTyped, ChartInv, LastTimerKnows, Chart!VisibleFresh
  <2> QED
    BY <2>1, <2>2 DEF Next, vars, HomeOnly, ContOnly, HistOnly, AlertOnly, SysOnly, DialogOnly
<1>7. (DialogTyped /\ ToastInv)'
  <2>1. CASE Dialog!Next
    BY <2>1, DialogTypedStep, ToastStep DEF PagesTyped
  <2>2. CASE UNCHANGED dialogVars
    BY <2>2 DEF PagesTyped, dialogVars, DialogTyped, ToastInv
  <2> QED
    BY <2>1, <2>2 DEF Next, vars, HomeOnly, ContOnly, HistOnly, AlertOnly, SysOnly, ChartOnly
<1> QED
  BY <1>0, <1>1, <1>2, <1>3, <1>4, <1>5, <1>6, <1>7 DEF PagesTyped

\* Every page keeps its state well-formed: the records of systems, containers and
\* alerts, the rows and the forms that are rendered from them, the requests and
\* timers under way, for any number of each and any order of what happens.
THEOREM TypeCorrect == Spec => []TypeOK
<1>1. PagesTyped => TypeOK
  BY HomeTypes, AlertTypes, ChartTypes, DialogTypes DEF PagesTyped, ContTyped, HistTyped, SysTyped, TypeOK
<1> QED
  BY <1>1, PagesTypedInit, PagesTypedStep, PTL DEF Spec

\* What is shown is there, for any records, filters and page sizes of the history,
\* any durations, and any records, tabs and layouts of the page of a system.
THEOREM ShownIsThereTheorem == Spec => []ShownIsThere
<1>1. PagesTyped => ShownIsThere
  BY HistRounds, SysShown DEF PagesTyped, HistTyped, ShownIsThere
<1> QED
  BY <1>1, PagesTypedInit, PagesTypedStep, PTL DEF Spec
=============================================================================
