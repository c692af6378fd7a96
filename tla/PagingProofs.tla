---------------------------- MODULE PagingProofs ----------------------------
(***************************************************************************)
(* Proof about Paging, for every page size, every number of rows and every *)
(* window: the tokens of a listing lead past every row.  The invariant     *)
(* (PagingInv) says where the rows are with respect to the token: a row    *)
(* due is seen or ahead of it, and, as long as nothing came in before it,  *)
(* the rows seen are the ones behind it.                                   *)
(***************************************************************************)
EXTENDS Paging, SequenceTheorems, TLAPS

-----------------------------------------------------------------------------
(* What a write does to a list.                                              *)

\* t is s with e put in at place p.
Inserts(t, s, p, e) ==
    /\ t \in Seq(Nat) /\ Len(t) = Len(s) + 1
    /\ \A j \in 1..(p - 1) : t[j] = s[j]
    /\ t[p] = e
    /\ \A j \in p..Len(s) : t[j + 1] = s[j]

\* t is s without its element at place i.
Removes(t, s, i) ==
    /\ t \in Seq(Nat) /\ Len(t) = Len(s) - 1
    /\ \A j \in 1..(i - 1) : t[j] = s[j]
    /\ \A j \in (i + 1)..Len(s) : t[j - 1] = s[j]

\* InsertAt, the place of a new row in the listings' order, moves the rows from there on by one.
LEMMA Inserted ==
    ASSUME NEW s \in Seq(Nat), NEW e \in Nat, NEW p \in 1..(Len(s) + 1)
    PROVE  Inserts(InsertAt(s, p, e), s, p, e)
<1> DEFINE front == SubSeq(s, 1, p - 1)
           back  == SubSeq(s, p, Len(s))
<1>1. /\ front \in Seq(Nat) /\ Len(front) = p - 1
      /\ \A j \in 1..(p - 1) : front[j] = s[j]
  BY SubSeqProperties
<1>2. /\ back \in Seq(Nat) /\ Len(back) = Len(s) - p + 1
      /\ \A j \in 1..(Len(s) - p + 1) : back[j] = s[p + j - 1]
  BY SubSeqProperties
<1>3. <<e>> \in Seq(Nat) /\ Len(<<e>>) = 1 /\ <<e>>[1] = e
  OBVIOUS
<1> HIDE DEF front, back
<1>4. /\ front \o <<e>> \in Seq(Nat) /\ Len(front \o <<e>>) = p
      /\ \A j \in 1..p : (front \o <<e>>)[j] = IF j < p THEN s[j] ELSE e
  <2>1. /\ front \o <<e>> \in Seq(Nat) /\ Len(front \o <<e>>) = Len(front) + 1
        /\ \A j \in 1..Len(front) : (front \o <<e>>)[j] = front[j]
        /\ (front \o <<e>>)[Len(front) + 1] = <<e>>[1]
    <3>1. \A j \in 1..Len(front) + Len(<<e>>) :
              (front \o <<e>>)[j] = IF j <= Len(front) THEN front[j] ELSE <<e>>[j - Len(front)]
      BY Zenon, <1>1, <1>3, ConcatProperties
    <3>2. Len(front) \in Nat /\ (Len(front) + 1) - Len(front) = 1 /\ ~(Len(front) + 1 <= Len(front))
      BY <1>1
    <3>3. /\ \A j \in 1..Len(front) : j \in 1..Len(front) + Len(<<e>>) /\ j <= Len(front)
          /\ Len(front) + 1 \in 1..Len(front) + Len(<<e>>) /\ Len(front) + Len(<<e>>) = Len(front) + 1
      BY <1>3, <3>2
    <3>4. front \o <<e>> \in Seq(Nat) /\ Len(front \o <<e>>) = Len(front) + Len(<<e>>)
      BY Zenon, <1>1, <1>3, ConcatProperties
    <3> QED
      BY Zenon, <3>1, <3>2, <3>3, <3>4
  <2> QED
    BY <1>1, <1>3, <2>1
<1> DEFINE most == front \o <<e>>
<1>5. /\ most \in Seq(Nat) /\ Len(most) = p
      /\ \A j \in 1..p : most[j] = IF j < p THEN s[j] ELSE e
  BY Zenon, <1>4
<1> HIDE DEF most
<1>6. /\ most \o back \in Seq(Nat) /\ Len(most \o back) = Len(most) + Len(back)
      /\ \A j \in 1..(Len(most) + Len(back)) :
             (most \o back)[j] = IF j <= Len(most) THEN most[j] ELSE back[j - Len(most)]
  BY <1>2, <1>5, ConcatProperties, Zenon
<1>7. Len(most \o back) = Len(s) + 1
  BY <1>2, <1>5, <1>6
<1>8. ASSUME NEW j \in 1..(p - 1)
      PROVE  (most \o back)[j] = s[j]
  <2>1. (most \o back)[j] = most[j]
    BY <1>2, <1>5, <1>6
  <2> QED BY <1>5, <2>1
<1>9. (most \o back)[p] = e
  <2>1. (most \o back)[p] = most[p]
    BY <1>2, <1>5, <1>6
  <2> QED BY <1>5, <2>1
<1>10. ASSUME NEW j \in p..Len(s)
       PROVE  (most \o back)[j + 1] = s[j]
  <2>1. /\ j + 1 \in 1..(Len(most) + Len(back)) /\ ~(j + 1 <= Len(most))
        /\ j + 1 - Len(most) = j + 1 - p
        /\ j + 1 - p \in 1..(Len(s) - p + 1) /\ p + (j + 1 - p) - 1 = j
    BY <1>2, <1>5
  <2>2. (most \o back)[j + 1] = back[j + 1 - Len(most)]
    BY <1>6, <2>1
  <2>3. back[j + 1 - p] = s[p + (j + 1 - p) - 1]
    BY Zenon, <1>2, <2>1
  <2> QED BY <2>1, <2>2, <2>3
<1> QED
  BY <1>6, <1>7, <1>8, <1>9, <1>10, Zenon DEF Inserts, InsertAt, front, back, most

\* RemoveAt, a row that a rewrite takes out of the filter, moves the rows after it back by one.
LEMMA Removed ==
    ASSUME NEW s \in Seq(Nat), NEW i \in 1..Len(s)
    PROVE  Removes(RemoveAt(s, i), s, i)
<1> DEFINE front == SubSeq(s, 1, i - 1)
           back  == SubSeq(s, i + 1, Len(s))
<1>1. /\ front \in Seq(Nat) /\ Len(front) = i - 1
      /\ \A j \in 1..(i - 1) : front[j] = s[j]
  BY SubSeqProperties
<1>2. /\ back \in Seq(Nat) /\ Len(back) = Len(s) - i
      /\ \A j \in 1..(Len(s) - i) : back[j] = s[i + j]
  BY SubSeqProperties
<1> HIDE DEF front, back
<1>3. /\ front \o back \in Seq(Nat) /\ Len(front \o back) = Len(front) + Len(back)
      /\ \A j \in 1..(Len(front) + Len(back)) :
             (front \o back)[j] = IF j <= Len(front) THEN front[j] ELSE back[j - Len(front)]
  BY <1>1, <1>2, ConcatProperties, Zenon
<1>4. Len(front \o back) = Len(s) - 1
  BY <1>1, <1>2, <1>3
<1>5. ASSUME NEW j \in 1..(i - 1)
      PROVE  (front \o back)[j] = s[j]
  <2>1. (front \o back)[j] = front[j]
    BY <1>1, <1>2, <1>3
  <2> QED BY <1>1, <2>1
<1>6. ASSUME NEW j \in (i + 1)..Len(s)
      PROVE  (front \o back)[j - 1] = s[j]
  <2>1. /\ j - 1 \in 1..(Len(front) + Len(back)) /\ ~(j - 1 <= Len(front))
        /\ (j - 1) - Len(front) = j - i
        /\ j - i \in 1..(Len(s) - i) /\ i + (j - i) = j
    BY <1>1, <1>2
  <2>2. (front \o back)[j - 1] = back[j - i]
    BY <1>3, <2>1, Zenon
  <2>3. back[j - i] = s[i + (j - i)]
    BY Zenon, <1>2, <2>1
  <2> QED BY <2>1, <2>2, <2>3
<1> QED
  BY <1>3, <1>4, <1>5, <1>6, Zenon DEF Removes, RemoveAt, front, back

\* No element of s occurs twice.
Unique(s) == \A j, k \in 1..Len(s) : s[j] = s[k] => j = k

\* A row that was not listed (new ids are counted up) makes no row of the list occur twice.
LEMMA InsertedUnique ==
    ASSUME NEW s \in Seq(Nat), Unique(s), NEW e \in Nat, \A j \in 1..Len(s) : s[j] # e,
           NEW p \in 1..(Len(s) + 1)
    PROVE  Unique(InsertAt(s, p, e))
<1> DEFINE t == InsertAt(s, p, e)
           from(m) == IF m < p THEN m ELSE m - 1
<1>1. Inserts(t, s, p, e)
  BY Zenon, Inserted
<1> HIDE DEF t
<1>2. /\ Len(t) = Len(s) + 1 /\ t[p] = e
      /\ \A j \in 1..(p - 1) : t[j] = s[j]
      /\ \A j \in p..Len(s) : t[j + 1] = s[j]
  BY Zenon, <1>1 DEF Inserts
<1>3. ASSUME NEW m \in 1..(Len(s) + 1), m # p
      PROVE  from(m) \in 1..Len(s) /\ t[m] = s[from(m)]
  <2>1. CASE m < p
    BY <1>2, <2>1
  <2>2. CASE m > p
    <3>1. m - 1 \in p..Len(s) /\ (m - 1) + 1 = m
      BY <2>2
    <3> QED BY <1>2, <2>2, <3>1
  <2> QED BY <1>3, <2>1, <2>2
<1>4. \A m \in 1..(Len(s) + 1) : m # p => t[m] # e
  BY Zenon, <1>3
<1>5. ASSUME NEW j \in 1..Len(t), NEW k \in 1..Len(t), t[j] = t[k]
      PROVE  j = k
  <2>1. CASE j = p \/ k = p
    BY Zenon, <1>2, <1>4, <1>5, <2>1
  <2>2. CASE j # p /\ k # p
    <3>1. /\ from(j) \in 1..Len(s) /\ from(k) \in 1..Len(s)
          /\ s[from(j)] = s[from(k)]
      BY Zenon, <1>2, <1>3, <1>5, <2>2
    <3>2. from(j) = from(k)
      BY <3>1, Zenon DEF Unique
    <3> QED BY <1>2, <2>2, <3>2
  <2> QED BY <2>1, <2>2
<1> QED BY <1>5 DEF Unique, t

\* After a row left, no row occurs twice and the row itself does not occur.
LEMMA RemovedUnique ==
    ASSUME NEW s \in Seq(Nat), Unique(s), NEW i \in 1..Len(s)
    PROVE  /\ Unique(RemoveAt(s, i))
           /\ \A j \in 1..Len(RemoveAt(s, i)) : RemoveAt(s, i)[j] # s[i]
<1> DEFINE t == RemoveAt(s, i)
           from(m) == IF m < i THEN m ELSE m + 1
<1>1. Removes(t, s, i)
  BY Zenon, Removed
<1> HIDE DEF t
<1>2. /\ Len(t) = Len(s) - 1
      /\ \A j \in 1..(i - 1) : t[j] = s[j]
      /\ \A j \in (i + 1)..Len(s) : t[j - 1] = s[j]
  BY Zenon, <1>1 DEF Removes
<1>3. ASSUME NEW m \in 1..Len(t)
      PROVE  from(m) \in 1..Len(s) /\ from(m) # i /\ t[m] = s[from(m)]
  <2>1. CASE m < i
    BY <1>2, <2>1
  <2>2. CASE m >= i
    <3>1. m + 1 \in (i + 1)..Len(s) /\ (m + 1) - 1 = m
      BY <1>2, <2>2
    <3>2. t[m] = s[m + 1]
      <4> DEFINE j == m + 1
      <4>1. j \in (i + 1)..Len(s) /\ j - 1 = m
        BY Zenon, <3>1
      <4> HIDE DEF j
      <4>2. t[j - 1] = s[j]
        BY Zenon, <1>2, <4>1
      <4> QED
        BY Zenon, <4>1, <4>2 DEF j
    <3> QED BY <2>2, <3>1, <3>2
  <2> QED BY <1>2, <2>1, <2>2
<1>4. \A m \in 1..Len(t) : t[m] # s[i]
  BY Zenon, <1>3 DEF Unique
<1>5. ASSUME NEW j \in 1..Len(t), NEW k \in 1..Len(t), t[j] = t[k]
      PROVE  j = k
  <2>1. from(j) = from(k)
    BY <1>3, <1>5, Zenon DEF Unique
  <2> QED BY <1>2, <2>1
<1> QED BY <1>4, <1>5 DEF Unique, t

\* The rows after a row came in are that row and the ones before.
LEMMA InsertedFrom ==
    ASSUME NEW s \in Seq(Nat), NEW e \in Nat, NEW p \in 1..(Len(s) + 1), NEW t,
           Inserts(t, s, p, e), NEW j \in 1..Len(t)
    PROVE  t[j] = e \/ \E k \in 1..Len(s) : t[j] = s[k]
<1>1. CASE j < p
  <2>1. j \in 1..(p - 1) /\ j \in 1..Len(s)
    BY <1>1
  <2>2. t[j] = s[j]
    BY Zenon, <2>1 DEF Inserts
  <2> QED BY <2>1, <2>2
<1>2. CASE j > p
  <2>1. j - 1 \in p..Len(s) /\ j - 1 \in 1..Len(s) /\ (j - 1) + 1 = j
    BY <1>2 DEF Inserts
  <2>2. t[(j - 1) + 1] = s[j - 1]
    BY <2>1, Zenon DEF Inserts
  <2> QED BY <2>1, <2>2
<1> QED BY <1>1, <1>2 DEF Inserts

\* The rows after a row left are rows from before.
LEMMA RemovedFrom ==
    ASSUME NEW s \in Seq(Nat), NEW i \in 1..Len(s), NEW t, Removes(t, s, i), NEW j \in 1..Len(t)
    PROVE  \E k \in 1..Len(s) : t[j] = s[k]
<1>1. CASE j < i
  <2>1. j \in 1..(i - 1) /\ j \in 1..Len(s)
    BY <1>1
  <2>2. t[j] = s[j]
    BY Zenon, <2>1 DEF Removes
  <2> QED BY <2>1, <2>2
<1>2. CASE j >= i
  <2>1. j + 1 \in (i + 1)..Len(s) /\ j + 1 \in 1..Len(s) /\ (j + 1) - 1 = j
    BY <1>2 DEF Removes
  <2>2. t[(j + 1) - 1] = s[j + 1]
    BY Zenon, <2>1 DEF Removes
  <2> QED BY <2>1, <2>2
<1> QED BY <1>1, <1>2 DEF Removes

-----------------------------------------------------------------------------
(* Listings and pages.                                                       *)

\* A new row comes to a place of the list or to the one after the last.
LEMMA PlacesInList ==
    ASSUME listing \in Listings, list \in Seq(Nat), NEW p \in Places
    PROVE  p \in 1..(Len(list) + 1)
<1>1. listing.grows \in {"front", "end", "anywhere"}
  BY DEF Listings, Memory, Table, ListTransactions, listTransactionsFromDB, ListEvents,
     listEventsFromDB, ListMeters, listMetersFromDB, ListEquipment, listEquipmentFromDB,
     ListPromotionalAwards, listPromotionalAwardsFromDB, ListSystemWindowEvents,
     listSystemWindowEventsFromDB, ListReportRuns, listReportRunsFromDB, ListConfigHistory,
     listConfigHistoryFromDB, ListDownloadLibraryChanges, listDownloadEntriesFromDB,
     ListAuditEvents, listAuditEventsFromDB, ListRemoteAccessActivities, activitiesFromDB
<1> QED
  BY <1>1 DEF Places

\* A page has the rows after its start, as many as its size, and its token is the place of its
\* last row; without a token it reaches the end of the list (LIMIT and OFFSET, items[start:end]).
LEMMA PageRows ==
    ASSUME list \in Seq(Nat), NEW start \in Nat, NEW n \in Nat \ {0}
    PROVE  /\ \A r : r \in Range(page(start, n)) <=>
                  \E j \in 1..Len(list) : start < j /\ j <= start + n /\ list[j] = r
           /\ \/ nextToken(start, n) = {start + n}
              \/ nextToken(start, n) = {} /\ Len(list) <= start + n
<1> DEFINE end == Least(start + n, Len(list))
           cut == SubSeq(list, start + 1, end)
<1>1. end \in Nat /\ end <= Len(list) /\ end <= start + n
      /\ (end = Len(list) \/ end = start + n)
  BY DEF Least
<1> HIDE DEF end
<1>2. \A j \in (start + 1)..end : list[j] \in Nat
  BY <1>1
<1>3. /\ cut \in Seq(Nat)
      /\ Len(cut) = IF start + 1 <= end THEN end - start ELSE 0
      /\ \A j \in 1..(end - start) : cut[j] = list[start + j]
  <2>1. start + 1 \in Int /\ end \in Int
    BY <1>1
  <2>2. /\ cut \in Seq(Nat)
        /\ Len(cut) = IF start + 1 <= end THEN end - (start + 1) + 1 ELSE 0
        /\ \A j \in 1..(end - (start + 1) + 1) : cut[j] = list[(start + 1) + j - 1]
    BY <1>2, <2>1, SubSeqProperties
  <2>3. Len(cut) = IF start + 1 <= end THEN end - start ELSE 0
    BY <1>1, <2>2
  <2>4. ASSUME NEW j \in 1..(end - start)
        PROVE  cut[j] = list[start + j]
    <3>1. j \in 1..(end - (start + 1) + 1) /\ (start + 1) + j - 1 = start + j
      BY <1>1
    <3> QED BY <2>2, <3>1
  <2> QED BY <2>2, <2>3, <2>4, Zenon
<1> HIDE DEF cut
<1>4. page(start, n) = cut
  BY Zenon DEF page, end, cut
<1>5. DOMAIN cut = 1..Len(cut)
  BY <1>3
<1>6. ASSUME NEW r, NEW j \in 1..Len(list), start < j, j <= start + n, list[j] = r
      PROVE  r \in Range(cut)
  <2>1. j - start \in DOMAIN cut /\ cut[j - start] = r
    BY <1>1, <1>3, <1>5, <1>6
  <2> QED BY <2>1 DEF Range
<1>7. ASSUME NEW r \in Range(cut)
      PROVE  \E j \in 1..Len(list) : start < j /\ j <= start + n /\ list[j] = r
  <2>1. PICK k \in DOMAIN cut : cut[k] = r
    BY Zenon DEF Range
  <2>2. k \in 1..(end - start)
    BY <1>1, <1>3, <1>5
  <2>3. list[start + k] = r
    BY Zenon, <1>3, <2>1, <2>2
  <2>4. start + k \in 1..Len(list) /\ start < start + k /\ start + k <= start + n
    BY <1>1, <2>2
  <2> QED BY <2>3, <2>4
<1>8. \/ nextToken(start, n) = {start + n}
      \/ nextToken(start, n) = {} /\ Len(list) <= start + n
  <2>1. CASE listing.rule = "full"
    <3>1. nextToken(start, n) = IF Len(cut) = n THEN {start + n} ELSE {}
      BY Zenon, <1>4, <2>1 DEF nextToken
    <3>2. Len(cut) # n => Len(list) <= start + n
      BY <1>1, <1>3
    <3> QED BY <3>1, <3>2
  <2>2. CASE listing.rule # "full"
    <3>1. nextToken(start, n) = IF end < Len(list) THEN {end} ELSE {}
      BY Zenon, <2>2 DEF nextToken, end
    <3>2. end < Len(list) => end = start + n
      BY <1>1
    <3>3. ~(end < Len(list)) => Len(list) <= start + n
      BY <1>1
    <3> QED BY <3>1, <3>2, <3>3
  <2> QED BY <2>1, <2>2
<1> QED
  BY Zenon, <1>4, <1>6, <1>7, <1>8

-----------------------------------------------------------------------------
(* The inductive invariant.                                                  *)

\* Row r is in the list at a place the reader has not passed, and at one it has.
Ahead(r)  == \E j \in 1..Len(list) : j > at /\ list[j] = r
Passed(r) == \E j \in 1..Len(list) : j <= at /\ list[j] = r

\* What the steps need to know of the types
Typed ==
    /\ listing \in Listings
    /\ made \in Nat /\ at \in Nat
    /\ list \in Seq(Nat)

\* Rows are numbered as they come, so that none is in the list twice.
Distinct ==
    /\ \A j \in 1..Len(list) : list[j] <= made
    /\ Unique(list)

\* No row due is lost.
Covering ==
    /\ ~receded /\ ~done => \A r \in due : r \in seen \/ Ahead(r)
    /\ ~receded /\ done => due \subseteq seen

\* No row is got twice.
Single ==
    /\ ~shifted /\ ~receded /\ ~done => \A r \in seen : Passed(r)
    /\ twice => shifted \/ receded

PagingInv == Typed /\ Distinct /\ Covering /\ Single

\* At the reader's first call every row is ahead.
LEMMA InitHolds ==
    ASSUME ConstantsAssumption, Init
    PROVE  PagingInv
<1>1. made \in Nat /\ list \in Seq(Nat) /\ Len(list) = made /\ \A j \in 1..made : list[j] = j
  BY DEF Init, ConstantsAssumption
<1>2. Typed
  BY Zenon, <1>1 DEF Init, Typed
<1>3. Distinct
  BY <1>1 DEF Distinct, Unique
<1>4. Covering
  BY <1>1 DEF Covering, Ahead, Init
<1>5. Single
  BY Zenon DEF Single, Init
<1> QED BY <1>2, <1>3, <1>4, <1>5 DEF PagingInv

\* A List call moves the rows of its page from ahead of the token to behind it.
LEMMA ReadStep ==
    ASSUME ConstantsAssumption, PagingInv,
           NEW size \in Sizes, NEW readable \in BOOLEAN, Read(size, readable)
    PROVE  PagingInv'
<1> DEFINE start == IF readable THEN at ELSE 0
           n     == pageSize(size)
           rows  == Range(page(start, n))
           next  == nextToken(start, n)
<1>1. start \in Nat /\ start <= at /\ (readable => start = at) /\ n \in Nat \ {0}
  BY DEF PagingInv, Typed, pageSize, ConstantsAssumption
<1>2. /\ ~done /\ UNCHANGED <<listing, list, made, due, receded>>
      /\ seen' = seen \cup rows
      /\ twice' = (twice \/ seen \cap rows # {})
      /\ done' = (next = {})
      /\ at' = IF next = {} THEN at ELSE CHOOSE m \in next : TRUE
      /\ shifted' = (shifted \/ ~readable)
  BY Zenon DEF Read
<1> HIDE DEF start, n
<1>3. /\ \A r : r \in rows <=>
             \E j \in 1..Len(list) : start < j /\ j <= start + n /\ list[j] = r
      /\ next = {start + n} \/ (next = {} /\ Len(list) <= start + n)
  BY Zenon, <1>1, PageRows DEF PagingInv, Typed
<1> HIDE DEF rows, next
<1>4. \/ ~done' /\ next # {} /\ at' = start + n
      \/ done' /\ at' = at /\ Len(list) <= start + n
  BY <1>2, <1>3, Zenon
<1>5. Typed'
  <2>1. at' \in Nat
    BY <1>1, <1>4 DEF PagingInv, Typed
  <2> QED BY <1>2, <2>1 DEF PagingInv, Typed
<1>6. Distinct'
  BY Zenon, <1>2 DEF PagingInv, Distinct, Unique
<1>7. Covering'
  <2> SUFFICES ASSUME ~receded, NEW r \in due
               PROVE  r \in seen' \/ (~done' /\ Ahead(r)')
    BY Zenon, <1>2 DEF Covering
  <2>1. r \in seen \/ Ahead(r)
    BY Zenon, <1>2 DEF PagingInv, Covering
  <2>2. CASE r \in seen
    BY Zenon, <1>2, <2>2
  <2>3. CASE Ahead(r)
    <3>1. PICK j \in 1..Len(list) : j > at /\ list[j] = r
      BY Zenon, <2>3 DEF Ahead
    <3>2. CASE j <= start + n
      <4>1. r \in rows
        BY <1>1, <1>3, <3>1, <3>2 DEF PagingInv, Typed
      <4> QED BY <1>2, <4>1
    <3>3. CASE j > start + n
      <4>1. ~done' /\ at' = start + n
        BY <1>1, <1>4, <3>3 DEF PagingInv, Typed
      <4>2. Ahead(r)'
        BY <1>2, <3>1, <3>3, <4>1, Zenon DEF Ahead
      <4> QED BY <4>1, <4>2
    <3> QED BY <1>1, <3>2, <3>3 DEF PagingInv, Typed
  <2> QED BY <2>1, <2>2, <2>3
<1>8. Single'
  <2>1. CASE shifted' \/ receded
    BY Zenon, <1>2, <2>1 DEF Single
  <2>2. CASE ~shifted' /\ ~receded
    <3>1. ~shifted /\ start = at /\ ~twice /\ \A r \in seen : Passed(r)
      BY <1>1, <1>2, <2>2, Zenon DEF PagingInv, Single
    <3>2. ASSUME NEW r \in seen, r \in rows
          PROVE  FALSE
      <4>1. PICK j \in 1..Len(list) : j <= at /\ list[j] = r
        BY Zenon, <3>1 DEF Passed
      <4>2. PICK k \in 1..Len(list) : at < k /\ list[k] = r
        BY Zenon, <1>3, <3>1, <3>2
      <4>3. j = k
        BY Zenon, <4>1, <4>2 DEF PagingInv, Distinct, Unique
      <4> QED BY <4>1, <4>2, <4>3 DEF PagingInv, Typed
    <3>3. ~twice'
      BY <1>2, <3>1, <3>2, Zenon
    <3>4. ASSUME ~done', NEW r \in seen'
          PROVE  Passed(r)'
      <4>1. at' = at + n
        BY Zenon, <1>4, <3>1, <3>4
      <4>2. PICK j \in 1..Len(list) : j <= at + n /\ list[j] = r
        <5>1. CASE r \in seen
          BY <1>1, <3>1, <5>1 DEF Passed, PagingInv, Typed
        <5>2. CASE r \in rows
          BY Zenon, <1>3, <3>1, <5>2
        <5> QED BY <1>2, <5>1, <5>2
      <4> QED BY <1>2, <4>1, <4>2, Zenon DEF Passed
    <3> QED BY <3>3, <3>4 DEF Single
  <2> QED BY <1>2, <2>1, <2>2
<1> QED
  BY Zenon, <1>5, <1>6, <1>7, <1>8 DEF PagingInv

\* A new row pushes rows further ahead, out of a full window at most, and never from ahead of the
\* token to behind it.
LEMMA InsertStep ==
    ASSUME ConstantsAssumption, PagingInv, NEW p \in Places, Insert(p)
    PROVE  PagingInv'
<1> DEFINE longer == InsertAt(list, p, made + 1)
           full   == Has("window") /\ Len(list) = Window
<1>1. /\ ~done /\ UNCHANGED <<listing, receded, at, done, seen, twice>>
      /\ made' = made + 1
      /\ list' = IF full THEN SubSeq(longer, 1, Window) ELSE longer
      /\ due' = IF full THEN due \ {list[Window]} ELSE due
      /\ shifted' = (shifted \/ p <= at)
  BY Zenon DEF Insert, reader
<1>2. /\ p \in 1..(Len(list) + 1) /\ made \in Nat /\ made + 1 \in Nat /\ at \in Nat
      /\ list \in Seq(Nat) /\ Unique(list) /\ Len(list) \in Nat
      /\ \A j \in 1..Len(list) : list[j] \in Nat /\ list[j] <= made /\ list[j] # made + 1
  BY PlacesInList DEF PagingInv, Typed, Distinct
<1>3. Inserts(longer, list, p, made + 1)
  BY Zenon, <1>2, Inserted
<1>4. Unique(longer)
  BY Zenon, <1>2, InsertedUnique
<1> HIDE DEF longer
<1>5. /\ longer \in Seq(Nat) /\ Len(longer) = Len(list) + 1 /\ longer[p] = made + 1
      /\ \A j \in 1..(p - 1) : longer[j] = list[j]
      /\ \A j \in p..Len(list) : longer[j + 1] = list[j]
  BY Zenon, <1>3 DEF Inserts
<1>6. \A j \in 1..Len(longer) : longer[j] <= made + 1
  <2> TAKE j \in 1..Len(longer)
  <2>1. longer[j] = made + 1 \/ \E k \in 1..Len(list) : longer[j] = list[k]
    BY <1>2, <1>3, InsertedFrom
  <2> QED BY <1>2, <2>1
<1>7. /\ list' \in Seq(Nat) /\ Len(list') \in Nat
      /\ Len(list) <= Len(list') /\ Len(list') <= Len(longer)
      /\ full => Len(list) = Window
      /\ ~full => Len(list') = Len(list) + 1
      /\ \A j \in 1..Len(list') : list'[j] = longer[j]
  <2>1. CASE ~full
    BY <1>1, <1>2, <1>5, <2>1
  <2>2. CASE full
    <3>1. Window \in Nat /\ Window = Len(list) /\ list' = SubSeq(longer, 1, Window)
      BY Zenon, <1>1, <2>2 DEF ConstantsAssumption
    <3>2. \A j \in 1..Window : longer[j] \in Nat
      BY <1>5, <3>1
    <3>3. /\ SubSeq(longer, 1, Window) \in Seq(Nat)
          /\ Len(SubSeq(longer, 1, Window)) = Window
          /\ \A j \in 1..Window : SubSeq(longer, 1, Window)[j] = longer[j]
      BY <3>1, <3>2, SubSeqProperties
    <3> QED BY <1>5, <2>2, <3>1, <3>3
  <2> QED BY <2>1, <2>2
<1>8. full => due' = due \ {list[Len(list)]}
  BY Zenon, <1>1, <1>7
<1> HIDE DEF full
<1>9. Typed'
  BY Zenon, <1>1, <1>2, <1>7 DEF PagingInv, Typed
<1>10. Distinct'
  <2>1. \A j \in 1..Len(list') : j \in 1..Len(longer)
    BY <1>5, <1>7
  <2>2. \A j \in 1..Len(list') : list'[j] <= made'
    BY Zenon, <1>1, <1>6, <1>7, <2>1
  <2>3. Unique(list')
    BY Zenon, <1>4, <1>7, <2>1 DEF Unique
  <2> QED BY <2>2, <2>3 DEF Distinct
<1>11. Covering'
  <2> SUFFICES ASSUME ~receded, NEW r \in due', Ahead(r)
               PROVE  Ahead(r)'
    BY Zenon, <1>1 DEF PagingInv, Covering
  <2>1. PICK j \in 1..Len(list) : j > at /\ list[j] = r
    BY Zenon DEF Ahead
  <2>2. full => j # Len(list)
    BY Zenon, <1>8, <2>1
  <2>3. CASE j < p
    <3>1. j \in 1..Len(list') /\ j \in 1..(p - 1)
      BY <1>2, <1>7, <2>3
    <3> QED BY <1>1, <1>5, <1>7, <2>1, <3>1, Zenon DEF Ahead
  <2>4. CASE j >= p
    <3>1. j + 1 \in 1..Len(list') /\ j \in p..Len(list) /\ j + 1 > at
      BY <1>2, <1>7, <2>1, <2>2, <2>4
    <3>2. list'[j + 1] = r
      BY <1>5, <1>7, <2>1, <3>1, Zenon
    <3> QED BY <1>1, <3>1, <3>2, Zenon DEF Ahead
  <2> QED BY <1>2, <2>3, <2>4
<1>12. Single'
  <2>1. twice' => shifted' \/ receded'
    BY <1>1, Zenon DEF PagingInv, Single
  <2>2. ASSUME ~shifted', ~receded', NEW r \in seen'
        PROVE  Passed(r)'
    <3>1. ~shifted /\ ~(p <= at) /\ ~receded
      BY <1>1, <2>2, Zenon
    <3>2. Passed(r)
      BY Zenon, <1>1, <2>2, <3>1 DEF PagingInv, Single
    <3>3. PICK j \in 1..Len(list) : j <= at /\ list[j] = r
      BY Zenon, <3>2 DEF Passed
    <3>4. j \in 1..Len(list') /\ j \in 1..(p - 1)
      <4>1. Len(list') \in Nat /\ Len(list) <= Len(list')
        BY Zenon, <1>7
      <4>2. p \in Nat /\ at \in Nat /\ Len(list) \in Nat
        BY <1>2
      <4> QED BY <3>1, <3>3, <4>1, <4>2
    <3> QED BY <1>1, <1>5, <1>7, <3>3, <3>4 DEF Passed
  <2> QED BY <2>1, <2>2 DEF Single
<1> QED
  BY Zenon, <1>9, <1>10, <1>11, <1>12 DEF PagingInv

\* A row that leaves draws a row from ahead of the token to behind it only if it was behind itself.
LEMMA LeaveStep ==
    ASSUME PagingInv, NEW i \in 1..Len(list), Leave(i)
    PROVE  PagingInv'
<1>1. /\ ~done /\ UNCHANGED <<listing, made, shifted, at, done, seen, twice>>
      /\ list' = RemoveAt(list, i)
      /\ due' = due \ {list[i]}
      /\ receded' = (receded \/ i <= at)
  BY DEF Leave, reader
<1>2. /\ made \in Nat /\ at \in Nat /\ list \in Seq(Nat) /\ Unique(list) /\ Len(list) \in Nat
      /\ \A j \in 1..Len(list) : list[j] <= made
  BY DEF PagingInv, Typed, Distinct
<1>3. Removes(list', list, i) /\ Unique(list')
  BY Zenon, <1>1, <1>2, Removed, RemovedUnique
<1>4. /\ list' \in Seq(Nat) /\ Len(list') = Len(list) - 1
      /\ \A j \in 1..(i - 1) : list'[j] = list[j]
      /\ \A j \in (i + 1)..Len(list) : list'[j - 1] = list[j]
  BY Zenon, <1>3 DEF Removes
<1>5. Typed'
  BY Zenon, <1>1, <1>2, <1>4 DEF PagingInv, Typed
<1>6. Distinct'
  <2>1. \A j \in 1..Len(list') : \E k \in 1..Len(list) : list'[j] = list[k]
    BY <1>2, <1>3, RemovedFrom
  <2>2. \A j \in 1..Len(list') : list'[j] <= made'
    BY Zenon, <1>1, <1>2, <2>1
  <2> QED BY <1>3, <2>2 DEF Distinct
<1>7. ~receded' => ~receded /\ ~(i <= at)
  BY <1>1, Zenon
<1>8. Covering'
  <2> SUFFICES ASSUME ~receded', NEW r \in due', Ahead(r)
               PROVE  Ahead(r)'
    BY Zenon, <1>1, <1>7 DEF PagingInv, Covering
  <2>1. PICK j \in 1..Len(list) : j > at /\ list[j] = r
    BY Zenon DEF Ahead
  <2>2. j # i
    BY Zenon, <1>1, <2>1
  <2>3. CASE j < i
    <3>1. j \in 1..(i - 1) /\ j \in 1..Len(list')
      BY <1>2, <1>4, <2>1, <2>3
    <3>2. list'[j] = r
      BY Zenon, <1>2, <1>4, <2>1, <3>1
    <3> QED BY <1>1, <2>1, <3>1, <3>2 DEF Ahead
  <2>4. CASE j > i
    <3>1. j - 1 \in 1..Len(list') /\ j \in (i + 1)..Len(list) /\ j - 1 > at
      BY <1>2, <1>4, <1>7, <2>1, <2>4
    <3>2. list'[j - 1] = r
      BY Zenon, <1>4, <2>1, <3>1
    <3> QED BY <1>1, <3>1, <3>2 DEF Ahead
  <2> QED BY <2>2, <2>3, <2>4
<1>9. Single'
  <2>1. twice' => shifted' \/ receded'
    BY <1>1, Zenon DEF PagingInv, Single
  <2>2. ASSUME ~shifted', ~receded', NEW r \in seen'
        PROVE  Passed(r)'
    <3>1. Passed(r)
      BY Zenon, <1>1, <1>7, <2>2 DEF PagingInv, Single
    <3>2. PICK j \in 1..Len(list) : j <= at /\ list[j] = r
      BY Zenon, <3>1 DEF Passed
    <3>3. j \in 1..Len(list') /\ j \in 1..(i - 1)
      BY <1>2, <1>4, <1>7, <2>2, <3>2
    <3> QED BY <1>1, <1>4, <3>2, <3>3 DEF Passed
  <2> QED BY <2>1, <2>2 DEF Single
<1> QED
  BY Zenon, <1>5, <1>6, <1>8, <1>9 DEF PagingInv

\* A row that moves does so only if it passes the token.
LEMMA MoveStep ==
    ASSUME PagingInv, NEW i \in 1..Len(list), NEW p \in Places, p <= Len(list), Move(i, p)
    PROVE  PagingInv'
<1> DEFINE mid == RemoveAt(list, i)
<1>1. /\ ~done /\ UNCHANGED <<listing, made, at, done, seen, twice>>
      /\ list' = InsertAt(mid, p, list[i])
      /\ due' = due \ {list[i]}
      /\ shifted' = (shifted \/ p <= at)
      /\ receded' = (receded \/ (i <= at /\ p > at))
  BY Zenon DEF Move, reader
<1>2. /\ made \in Nat /\ at \in Nat /\ list \in Seq(Nat) /\ Unique(list) /\ Len(list) \in Nat
      /\ \A j \in 1..Len(list) : list[j] <= made
      /\ list[i] \in Nat /\ p \in 1..Len(list)
  BY PlacesInList DEF PagingInv, Typed, Distinct
<1>3. Removes(mid, list, i) /\ Unique(mid) /\ \A j \in 1..Len(mid) : mid[j] # list[i]
  BY Zenon, <1>2, Removed, RemovedUnique
<1> HIDE DEF mid
<1>4. /\ mid \in Seq(Nat) /\ Len(mid) = Len(list) - 1
      /\ \A j \in 1..(i - 1) : mid[j] = list[j]
      /\ \A j \in (i + 1)..Len(list) : mid[j - 1] = list[j]
  BY Zenon, <1>3 DEF Removes
<1>5. p \in 1..(Len(mid) + 1)
  BY <1>2, <1>4
<1>6. Inserts(list', mid, p, list[i]) /\ Unique(list')
  BY <1>1, <1>2, <1>3, <1>4, <1>5, Inserted, InsertedUnique, Zenon
<1>7. /\ list' \in Seq(Nat) /\ Len(list') = Len(list)
      /\ \A j \in 1..(p - 1) : list'[j] = mid[j]
      /\ \A j \in p..Len(mid) : list'[j + 1] = mid[j]
  BY <1>2, <1>4, <1>6 DEF Inserts
<1>8. Typed'
  BY Zenon, <1>1, <1>2, <1>7 DEF PagingInv, Typed
<1>9. Distinct'
  <2>1. \A k \in 1..Len(mid) : \E j \in 1..Len(list) : mid[k] = list[j]
    BY <1>2, <1>3, RemovedFrom
  <2>2. \A k \in 1..Len(mid) : mid[k] <= made
    BY Zenon, <1>2, <2>1
  <2>3. ASSUME NEW j \in 1..Len(list')
        PROVE  list'[j] <= made'
    <3>1. Inserts(list', mid, p, list[i]) /\ mid \in Seq(Nat) /\ list[i] \in Nat
      BY Zenon, <1>2, <1>4, <1>6
    <3>2. list'[j] = list[i] \/ \E k \in 1..Len(mid) : list'[j] = mid[k]
      BY <1>5, <3>1, InsertedFrom
    <3> QED BY <1>1, <1>2, <2>2, <3>2
  <2> QED BY <1>6, <2>3 DEF Distinct
<1>10. ~receded' => ~receded /\ ~(i <= at /\ p > at)
  BY <1>1, Zenon
<1>11. Covering'
  <2> SUFFICES ASSUME ~receded', NEW r \in due', Ahead(r)
               PROVE  Ahead(r)'
    BY Zenon, <1>1, <1>10 DEF PagingInv, Covering
  <2>1. PICK j \in 1..Len(list) : j > at /\ list[j] = r
    BY Zenon DEF Ahead
  <2>2. j # i
    BY Zenon, <1>1, <2>1
  <2>3. PICK m \in 1..Len(mid) : mid[m] = r /\ (m = j \/ (m = j - 1 /\ j > i))
    <3>1. CASE j < i
      <4>1. j \in 1..Len(mid) /\ j \in 1..(i - 1)
        BY <1>2, <1>4, <3>1
      <4> QED BY <1>4, <2>1, <4>1
    <3>2. CASE j > i
      <4>1. j - 1 \in 1..Len(mid) /\ j \in (i + 1)..Len(list)
        BY <1>2, <1>4, <3>2
      <4> QED BY <1>4, <2>1, <3>2, <4>1, Zenon
    <3> QED BY <2>2, <3>1, <3>2
  <2>4. CASE m < p
    <3>1. m > at
      BY <1>2, <1>10, <2>1, <2>3, <2>4
    <3>2. m \in 1..Len(list') /\ m \in 1..(p - 1)
      BY <1>2, <1>4, <1>7, <2>4
    <3> QED BY <1>1, <1>7, <2>3, <3>1, <3>2 DEF Ahead
  <2>5. CASE m >= p
    <3>1. m + 1 > at /\ m + 1 \in 1..Len(list') /\ m \in p..Len(mid)
      BY <1>2, <1>4, <1>7, <2>1, <2>3, <2>5
    <3>2. list'[m + 1] = r
      BY Zenon, <1>7, <2>3, <3>1
    <3> QED BY <1>1, <3>1, <3>2 DEF Ahead
  <2> QED BY <1>2, <2>4, <2>5
<1>12. Single'
  <2>1. twice' => shifted' \/ receded'
    BY <1>1, Zenon DEF PagingInv, Single
  <2>2. ASSUME ~shifted', ~receded', NEW r \in seen'
        PROVE  Passed(r)'
    <3>1. ~shifted /\ ~(p <= at)
      BY <1>1, <2>2, Zenon
    <3>2. Passed(r)
      BY Zenon, <1>1, <1>10, <2>2, <3>1 DEF PagingInv, Single
    <3>3. PICK j \in 1..Len(list) : j <= at /\ list[j] = r
      BY Zenon, <3>2 DEF Passed
    <3>4. j \in 1..Len(list') /\ j \in 1..(p - 1) /\ j \in 1..(i - 1)
      BY <1>2, <1>7, <1>10, <2>2, <3>1, <3>3
    <3>5. list'[j] = r
      BY Zenon, <1>4, <1>7, <3>3, <3>4
    <3> QED BY <1>1, <3>3, <3>4, <3>5 DEF Passed
  <2> QED BY <2>1, <2>2 DEF Single
<1> QED
  BY <1>8, <1>9, <1>11, <1>12 DEF PagingInv

-----------------------------------------------------------------------------

\* Whatever listing a reader walks, of however many rows and with whatever page sizes, and
\* wherever rows come in, leave and move meanwhile, the tokens lead past every row that was
\* there all along in its place unless a passed row left or moved behind the token, and
\* show no row twice unless rows came before the token (the List calls' page_token).
THEOREM TokensCoverList ==
    ASSUME ConstantsAssumption
    PROVE  Spec => []PagesCoverList
<1>1. Init => PagingInv
  BY Zenon, InitHolds
<1>2. PagingInv /\ [Next]_vars => PagingInv'
  <2> SUFFICES ASSUME PagingInv, [Next]_vars
               PROVE  PagingInv'
    BY Zenon
  <2>1. ASSUME NEW size \in Sizes, NEW readable \in BOOLEAN, Read(size, readable)
        PROVE  PagingInv'
    BY Zenon, <2>1, ReadStep
  <2>2. ASSUME NEW p \in Places, Insert(p)
        PROVE  PagingInv'
    BY Zenon, <2>2, InsertStep
  <2>3. ASSUME NEW i \in 1..Len(list), Leave(i)
        PROVE  PagingInv'
    BY Zenon, <2>3, LeaveStep
  <2>4. ASSUME NEW i \in 1..Len(list), NEW p \in Places, p <= Len(list), Move(i, p)
        PROVE  PagingInv'
    BY Zenon, <2>4, MoveStep
  <2>5. CASE UNCHANGED vars
    BY Zenon, <2>5 DEF vars, writers, reader, PagingInv, Typed, Distinct, Unique, Covering, Single,
       Ahead, Passed
  <2> QED
    BY Zenon, <2>1, <2>2, <2>3, <2>4, <2>5 DEF Next
<1>3. PagingInv => PagesCoverList
  BY Zenon DEF PagingInv, Covering, Single, PagesCoverList
<1> QED
  BY <1>1, <1>2, <1>3, PTL DEF Spec

=============================================================================
