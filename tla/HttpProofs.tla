----------------------------- MODULE HttpProofs -----------------------------
(* Theorems about HttpClients, for lists, pages and numbers of changes,    *)
(* failures and calls of any size.                                         *)
EXTENDS HttpClients, FiniteSetTheorems, FunctionTheorems, TLAPS

ListOK == /\ place \in [Entries -> Nat]
          /\ \A e, f \in Listed : place[e] = place[f] => e = f

CallOK == TypeOK /\ kept \subseteq Listed

\* The entries of the list that stay and were not read yet are on a page that
\* is still to come.
ReadInv ==
    /\ status = "running" /\ call \in Reads =>
         /\ \A e \in kept : e \in items \/ place[e] > (page - 1) * size
         /\ call.query /\ page = 1 => kept \subseteq Matching
    /\ Done(Readers) => kept \subseteq items

\* Nothing is read that was not listed since the attempt began.
SinceInv == /\ Listed \subseteq since \/ status # "running" \/ call \notin Reads
            /\ items \subseteq since

SendInv == call.verb \in {"POST", "PATCH"}
             => applied \in Nat /\ applied <= 1 /\ (status = "running" => applied = 0)

IInv == ListOK /\ CallOK /\ ReadInv /\ SinceInv /\ SendInv

-----------------------------------------------------------------------------
(* The places of a list.                                                   *)

\* Among the entries a query asks for, none is behind its place in the list.
LEMMA PlaceBound ==
    ASSUME ListOK, NEW e \in Matching \cap Listed
    PROVE  PlaceIn(e, TRUE) \in Nat \ {0} /\ PlaceIn(e, TRUE) <= place[e]
<1> DEFINE before == {m \in Matching : 0 < place[m] /\ place[m] <= place[e]}
           at == [m \in before |-> place[m]]
<1>1. before \subseteq Listed /\ e \in before /\ place[e] \in Nat \ {0}
  BY EntriesAssumption DEF Listed, ListOK
<1>2. \A m \in before : place[m] \in 1..place[e]
  BY <1>1 DEF ListOK, Listed
<1>3. at \in Injection(before, 1..place[e])
  BY <1>1, <1>2 DEF ListOK, Injection, IsInjective
<1>4. IsFiniteSet(1..place[e]) /\ Cardinality(1..place[e]) = place[e]
  <2>1. \A n \in Nat \ {0} : IsFiniteSet(1..n) /\ Cardinality(1..n) = n
    <3> SUFFICES ASSUME NEW n \in Nat \ {0}
                 PROVE  IsFiniteSet(1..n) /\ Cardinality(1..n) = n
      OBVIOUS
    <3>1. 1 \in Int /\ n \in Int /\ ~(1 > n) /\ n - 1 + 1 = n
      OBVIOUS
    <3>2. IsFiniteSet(1..n) /\ Cardinality(1..n) = IF 1 > n THEN 0 ELSE n - 1 + 1
      BY <3>1, FS_Interval
    <3> QED
      BY <3>1, <3>2
  <2> QED
    BY <1>1, <2>1
<1>5. IsFiniteSet(before) /\ Cardinality(before) <= place[e]
  BY <1>3, <1>4, FS_Injection
<1>6. Cardinality(before) \in Nat /\ Cardinality(before) # 0
  BY <1>1, <1>5, FS_CardinalityType, FS_EmptySet
<1>7. PlaceIn(e, TRUE) = Cardinality(before)
  BY DEF PlaceIn
<1> HIDE DEF before
<1> QED
  BY <1>1, <1>5, <1>6, <1>7

\* An entry that is not on the page asked for is before it or behind it, and
\* when it is behind it there is a next page.
LEMMA BehindPage ==
    ASSUME ListOK, NEW p \in Nat \ {0}, NEW k \in Nat \ {0}, NEW q \in BOOLEAN,
           q => p = 1, NEW e \in Asked(q), e \notin Page(p, k, q),
           place[e] > (p - 1) * k
    PROVE  place[e] > p * k /\ HasNext(p, k, q)
<1>1. e \in Listed /\ place[e] \in Nat \ {0} /\ (p - 1) * k \in Nat /\ p * k \in Nat
  BY EntriesAssumption DEF Asked, Listed, ListOK
<1>2. CASE q
  <2>1. PlaceIn(e, q) \in Nat \ {0} /\ PlaceIn(e, q) <= place[e]
    BY <1>2, PlaceBound DEF Asked
  <2>2. PlaceIn(e, q) > (p - 1) * k
    <3>1. p - 1 = 0 /\ 0 * k = 0
      BY <1>2
    <3> QED
      BY <2>1, <3>1
  <2>3. PlaceIn(e, q) > p * k
    BY <1>1, <2>1, <2>2 DEF Page
  <2> QED
    BY <1>1, <2>1, <2>3 DEF HasNext
<1>3. CASE ~q
  <2>1. PlaceIn(e, q) = place[e]
    BY <1>3 DEF PlaceIn
  <2>2. place[e] > p * k
    BY <1>1, <2>1 DEF Page
  <2> QED
    BY <2>1, <2>2 DEF HasNext
<1> QED
  BY <1>2, <1>3

LEMMA LengthType == Length \in Nat
<1>1. IsFiniteSet(Listed)
  BY EntriesAssumption, FS_Subset DEF Listed
<1> QED
  BY <1>1, FS_CardinalityType DEF Length

LEMMA ChangedKeepsList == ASSUME ListOK, Changed PROVE ListOK'
<1> USE DEF ListOK, Listed
<1>1. ASSUME NEW e \in Entries, place[e] = 0, NEW i \in 1..(Length + 1),
             InsertEffect(e, i)
      PROVE  ListOK'
  <2>1. i \in Nat \ {0}
    BY <1>1, LengthType
  <2>2. \A f \in Entries : place'[f] = IF f = e THEN i
                             ELSE IF place[f] >= i THEN place[f] + 1 ELSE place[f]
    BY <1>1 DEF InsertEffect
  <2>3. place' \in [Entries -> Nat]
    BY <1>1, <2>1 DEF InsertEffect
  <2> QED
    BY <2>1, <2>2, <2>3
<1>2. ASSUME NEW e \in Entries, place[e] > 0, RemoveEffect(e)
      PROVE  ListOK'
  <2>1. \A f \in Entries : place'[f] = IF f = e THEN 0
                             ELSE IF place[f] > place[e] THEN place[f] - 1 ELSE place[f]
    BY <1>2 DEF RemoveEffect
  <2>2. place' \in [Entries -> Nat]
    BY <1>2 DEF RemoveEffect
  <2> QED
    BY <1>2, <2>1, <2>2
<1>3. ASSUME NEW e \in Entries, place[e] > 0, RenewEffect(e)
      PROVE  ListOK'
  <2>1. \A f \in Entries : place'[f] = IF f = e THEN 1
                             ELSE IF 0 < place[f] /\ place[f] < place[e]
                             THEN place[f] + 1 ELSE place[f]
    BY <1>3 DEF RenewEffect
  <2>2. place' \in [Entries -> Nat]
    BY <1>3 DEF RenewEffect
  <2> QED
    BY <1>3, <2>1, <2>2
<1> QED
  BY <1>1, <1>2, <1>3 DEF Changed

-----------------------------------------------------------------------------
(* The invariant.                                                          *)

LEMMA InitInv == ASSUME Init PROVE IInv
<1>1. PICK S \in SUBSET Entries : place \in ListsOf(S)
  BY DEF Init
<1>2. ListOK
  <2>1. Cardinality(S) \in Nat
    BY EntriesAssumption, FS_Subset, FS_CardinalityType
  <2>2. place \in [Entries -> Nat]
    BY <1>1, <2>1 DEF ListsOf
  <2> QED
    BY <1>1, <2>2 DEF ListOK, ListsOf, Listed
<1>3. TypeOK
  BY <1>2, SizesAssumption, BoundsAssumption DEF Init, TypeOK, ListOK, Attempts
<1> QED
  BY <1>2, <1>3 DEF IInv, Init, CallOK, ReadInv, SinceInv, SendInv,
     NoCall, Done, Readers

LEMMA StartKeeps ==
    ASSUME IInv, NEW c \in CallType, NEW k \in Sizes, Start(c, k)
    PROVE  IInv'
<1> USE DEF IInv
<1>1. k \in Nat \ {0}
  BY SizesAssumption
<1>2. ListOK'
  BY DEF Start, ListOK, Listed
<1>3. Asked(c.query) \subseteq Listed
  BY DEF Asked
<1>4. CallOK'
  <2>1. TypeOK'
    BY <1>2, <1>3, BoundsAssumption
       DEF Start, CallOK, TypeOK, ListOK, BeginHistory, NewItems, Listed, Attempts
  <2> QED
    BY <1>3, <2>1 DEF Start, CallOK, BeginHistory, Listed
<1>5. ReadInv'
  <2>1. (page' - 1) * size' = 0
    <3>1. page' - 1 = 0 /\ 0 * k = 0
      BY <1>1 DEF Start
    <3> QED
      BY <3>1 DEF Start
  <2>2. \A e \in kept' : place'[e] > 0
    BY <1>3 DEF Start, BeginHistory, Listed
  <2>3. c.query => Asked(c.query) \subseteq Matching
    BY DEF Asked
  <2> QED
    BY <2>1, <2>2, <2>3 DEF Start, BeginHistory, ReadInv, Done
<1>6. SinceInv'
  BY DEF Start, BeginHistory, NewItems, SinceInv, Listed
<1>7. SendInv'
  BY DEF Start, SendInv
<1> QED
  BY <1>2, <1>4, <1>5, <1>6, <1>7

LEMMA ReadPageKeeps == ASSUME IInv, ReadPage PROVE IInv'
<1> USE DEF IInv
<1>1. call \in Reads /\ status = "running" /\ call' = call /\ place' = place
      /\ kept' = kept /\ since' = since /\ applied' = applied
      /\ items' = items \cup Page(page, size, Query)
  BY DEF ReadPage
<1>2. call.query \in BOOLEAN /\ call.verb = "GET"
  BY <1>1 DEF Reads
<1>3. Query \in BOOLEAN /\ (Query => page = 1)
  BY <1>2 DEF Query
<1>4. Page(page, size, Query) \subseteq Listed
  BY DEF Page, Asked
<1>5. page \in Nat \ {0} /\ size \in Nat \ {0}
  BY SizesAssumption DEF CallOK, TypeOK
<1>6. ListOK'
  BY <1>1 DEF ListOK, Listed
<1>7. CallOK'
  BY <1>1, <1>4 DEF ReadPage, CallOK, TypeOK, NextSize, Listed
<1>8. ASSUME NEW e \in kept, e \notin items'
      PROVE  place[e] > page * size /\ HasNext(page, size, Query)
  <2>1. e \in Asked(Query)
    BY <1>1, <1>2, <1>8 DEF ReadInv, CallOK, Asked, Query
  <2>2. e \notin Page(page, size, Query) /\ place[e] > (page - 1) * size
    BY <1>1, <1>8 DEF ReadInv
  <2> QED
    BY <1>3, <1>5, <2>1, <2>2, BehindPage
<1>9. ReadInv'
  <2>1. CASE HasNext(page, size, Query)
    <3>1. page' = page + 1 /\ size' = size /\ status' = status
      BY <2>1 DEF ReadPage, NextSize
    <3>2. page' - 1 = page /\ page' # 1
      BY <1>5, <3>1
    <3> QED
      BY <1>1, <1>8, <3>1, <3>2 DEF ReadInv, Done
  <2>2. CASE ~HasNext(page, size, Query)
    <3>1. status' = "returned"
      BY <2>2 DEF ReadPage
    <3>2. kept \subseteq items'
      BY <1>8, <2>2
    <3> QED
      BY <1>1, <3>1, <3>2 DEF ReadInv
  <2> QED
    BY <2>1, <2>2
<1>10. SinceInv'
  BY <1>1, <1>4 DEF SinceInv, Listed
<1>11. SendInv'
  BY <1>1, <1>2 DEF SendInv
<1> QED
  BY <1>6, <1>7, <1>9, <1>10, <1>11

LEMMA ReadFailsKeeps == ASSUME IInv, ReadFails PROVE IInv'
<1> USE DEF IInv
<1>1. call \in Reads /\ status = "running"
      /\ UNCHANGED <<place, call, size, applied, calls, changes>>
  BY DEF ReadFails
<1>2. call.verb = "GET"
  BY <1>1 DEF Reads
<1>3. ListOK'
  BY <1>1 DEF ListOK, Listed
<1>4. SendInv'
  BY <1>1, <1>2 DEF SendInv
<1>5. CASE attempt <= Limit
  <2>1. page' = 1 /\ items' = {} /\ kept' = Listed /\ since' = Listed
        /\ status' = status /\ attempt' = attempt + 1
    BY <1>5 DEF ReadFails, Again, NextAttempt, BeginHistory, Asked
  <2>2. attempt \in Nat \ {0}
    BY BoundsAssumption DEF CallOK, TypeOK, Attempts
  <2>3. call.op = "get_cbs_tags" /\ attempt <= RetryCount
    BY <1>5, <2>2 DEF Limit
  <2>4. call.query = FALSE
    BY <1>1, <2>3 DEF CallOK, TypeOK, CallType, Sends, Reads, NoCall
  <2>5. CallOK'
    <3>1. attempt' \in Attempts
      BY <2>1, <2>2, <2>3, BoundsAssumption DEF Attempts
    <3> QED
      BY <1>1, <1>3, <2>1, <3>1 DEF CallOK, TypeOK, ListOK, Listed
  <2>6. ReadInv'
    <3>1. (page' - 1) * size' = 0
      <4>1. page' - 1 = 0 /\ size' \in Nat
        BY <1>1, <2>1, SizesAssumption DEF CallOK, TypeOK
      <4>2. \A x \in Nat : 0 * x = 0
        OBVIOUS
      <4> QED
        BY <4>1, <4>2
    <3> QED
      BY <1>1, <2>1, <2>4, <3>1 DEF ReadInv, Done, Listed
  <2>7. SinceInv'
    BY <1>1, <2>1 DEF SinceInv, Listed
  <2> QED
    BY <1>3, <1>4, <2>5, <2>6, <2>7
<1>6. CASE ~(attempt <= Limit)
  <2>1. status' = "raised" /\ UNCHANGED <<page, items, attempt, kept, since>>
    BY <1>6 DEF ReadFails
  <2>2. CallOK' /\ ReadInv' /\ SinceInv'
    BY <1>1, <2>1 DEF CallOK, TypeOK, ReadInv, SinceInv, Done, Listed
  <2> QED
    BY <1>3, <1>4, <2>2
<1> QED
  BY <1>5, <1>6

LEMMA SendKeeps == ASSUME IInv, Send PROVE IInv'
<1> USE DEF IInv
<1>1. call \in Sends /\ status = "running"
      /\ UNCHANGED <<place, call, page, size, items, kept, since, calls, changes>>
  BY DEF Send
<1>2. call.op \in {"mgr", "rest"} /\ call.op \notin Readers /\ call \notin Reads
  BY <1>1 DEF Sends, Reads, Readers
<1>3. status' \in {"running", "returned", "raised"}
      /\ (attempt' = attempt \/ (attempt <= Total[call.op] /\ attempt' = attempt + 1))
      /\ (applied' = applied \/ applied' = applied + 1)
  BY <1>1 DEF Send, SendAgain
<1>4. attempt' \in Attempts
  <2>1. attempt \in Nat \ {0} /\ Total[call.op] \in Nat
    BY <1>2, BoundsAssumption DEF CallOK, TypeOK, Attempts
  <2>2. CASE attempt' = attempt
    BY <2>2 DEF CallOK, TypeOK
  <2>3. CASE attempt <= Total[call.op] /\ attempt' = attempt + 1
    <3>1. attempt' \in 1..(1 + Total[call.op])
      BY <2>1, <2>3
    <3> QED
      BY <1>2, <3>1 DEF Attempts
  <2> QED
    BY <1>3, <2>2, <2>3
<1>5. ListOK' /\ CallOK'
  BY <1>1, <1>3, <1>4 DEF ListOK, CallOK, TypeOK, Listed
<1>6. ReadInv' /\ SinceInv'
  BY <1>1, <1>2 DEF ReadInv, SinceInv, Done, Listed
<1>7. SendInv'
  <2>1. CASE call.verb \in SentAgain
    BY <1>1, <2>1 DEF SendInv, SentAgain
  <2>2. CASE call.verb \notin SentAgain
    BY <1>1, <2>2 DEF SendInv, Send, SendAgain
  <2> QED
    BY <2>1, <2>2
<1> QED
  BY <1>5, <1>6, <1>7

LEMMA ChangeKeeps == ASSUME IInv, Change PROVE IInv'
<1> USE DEF IInv
<1>1. UNCHANGED clientVars /\ changes' \in 0..MaxChanges
      /\ kept' = {e \in kept : place'[e] >= place[e]}
      /\ since' = since \cup {e \in Entries : place'[e] > 0}
  BY BoundsAssumption DEF Change, CallOK, TypeOK
<1>2. ListOK'
  BY ChangedKeepsList DEF Change
<1>3. kept' \subseteq Listed' /\ Listed' \subseteq since'
  BY <1>1, <1>2 DEF CallOK, Listed, ListOK
<1>4. CallOK'
  BY <1>1, <1>2, <1>3 DEF clientVars, CallOK, TypeOK, ListOK, Listed
<1>5. ReadInv'
  <2>1. (page - 1) * size \in Nat
    BY SizesAssumption DEF CallOK, TypeOK
  <2>2. \A e \in kept' : place[e] \in Nat /\ place'[e] \in Nat /\ place'[e] >= place[e]
    BY <1>1, <1>2 DEF CallOK, ListOK, TypeOK
  <2>3. ASSUME NEW x \in Nat, NEW e \in kept', place[e] > x PROVE place'[e] > x
    BY <2>2, <2>3
  <2> QED
    BY <1>1, <2>1, <2>3 DEF clientVars, ReadInv, Done
<1>6. SinceInv' /\ SendInv'
  BY <1>1, <1>3 DEF clientVars, SinceInv, SendInv
<1> QED
  BY <1>2, <1>4, <1>5, <1>6

LEMMA StepKeeps == ASSUME IInv, [Next]_vars PROVE IInv'
<1>1. CASE \E c \in CallType, k \in Sizes : Start(c, k)
  BY <1>1, StartKeeps
<1>2. CASE ReadPage
  BY <1>2, ReadPageKeeps
<1>3. CASE ReadFails
  BY <1>3, ReadFailsKeeps
<1>4. CASE Send
  BY <1>4, SendKeeps
<1>5. CASE Change
  BY <1>5, ChangeKeeps
<1>6. CASE UNCHANGED vars
  BY <1>6 DEF vars, IInv, ListOK, CallOK, TypeOK, ReadInv, SinceInv, SendInv,
              Done, Listed
<1> QED
  BY <1>1, <1>2, <1>3, <1>4, <1>5, <1>6 DEF Next, Step

LEMMA Invariance == Spec => []IInv
<1>1. Init => IInv
  BY InitInv
<1>2. IInv /\ [Next]_vars => IInv'
  BY StepKeeps
<1> QED
  BY <1>1, <1>2, PTL DEF Spec

-----------------------------------------------------------------------------
(* The theorems.                                                           *)

\* TypeOK: among others, the decorator and the adapters keep to the number of
\* attempts they were given.
THEOREM TypeCorrect == Spec => []TypeOK
<1>1. IInv => TypeOK
  BY DEF IInv, CallOK
<1> QED
  BY <1>1, Invariance, PTL

\* NothingMissed: reading a list page by page misses none of the entries that
\* stay in it and are not moved forward, for any list, page size and changes.
THEOREM NothingIsMissed == Spec => []NothingMissed
<1>1. IInv => NothingMissed
  BY DEF IInv, ReadInv, NothingMissed
<1> QED
  BY <1>1, Invariance, PTL

\* NothingStale: nothing that was gone when the attempt began is returned.
THEOREM NothingIsStale == Spec => []NothingStale
<1>1. IInv => NothingStale
  BY DEF IInv, SinceInv, NothingStale
<1> QED
  BY <1>1, Invariance, PTL

\* AtMostOnce: no POST or PATCH is carried out twice by one call.
THEOREM SentAtMostOnce == Spec => []AtMostOnce
<1>1. IInv => AtMostOnce
  BY DEF IInv, SendInv, AtMostOnce
<1> QED
  BY <1>1, Invariance, PTL
-----------------------------------------------------------------------------
(* The newest release.                                                     *)

\* No major or minor number has two digits.
OneDigit(tags) == \A e \in Releases(tags) : Version[e][1] < 10 /\ Version[e][2] < 10

\* A release is three numbers, the last of them below ten.
LEMMA ReleaseNumbers ==
    ASSUME NEW tags \in SUBSET Entries, OneDigit(tags), NEW e \in Releases(tags)
    PROVE  /\ Version[e][1] \in 0..9 /\ Version[e][2] \in 0..9
           /\ Version[e][3] \in 0..9
<1>1. Version[e] \in Nat \X Nat \X Nat
  BY VersionAssumption DEF Releases, IsRelease
<1>2. /\ Version[e][1] \in Nat /\ Version[e][2] \in Nat
      /\ Version[e][3] \in Nat /\ Version[e][3] <= 9
  BY <1>1 DEF Releases, IsRelease
<1> QED
  BY <1>2 DEF OneDigit

\* Numbers of one digit are sorted as strings as they are as numbers.
LEMMA KeyOrder ==
    ASSUME NEW m \in 0..9, NEW n \in 0..9
    PROVE  Key(m) > Key(n) <=> m > n
BY DEF Key

\* The order of one-digit releases, number by number, is that of the numbers
\* their digits make.
LEMMA DigitOrder ==
    ASSUME NEW a \in 0..9, NEW b \in 0..9, NEW c \in 0..9,
           NEW x \in 0..9, NEW y \in 0..9, NEW z \in 0..9,
           ~(a > x) , ~(a = x /\ b > y), ~(a = x /\ b = y /\ c > z)
    PROVE  100 * a + 10 * b + c <= 100 * x + 10 * y + z
OBVIOUS

\* A release that is not current has two majors above its own, and a current
\* one has not: the current one has the larger major.
LEMMA CurrentAbove ==
    ASSUME NEW tags \in SUBSET Entries, OneDigit(tags),
           NEW e \in Releases(tags), e \notin Current(tags), NEW l \in Current(tags)
    PROVE  Version[l][1] > Version[e][1]
<1> DEFINE above(m) == {n \in Majors(tags) : Key(n) > Key(m)}
<1>1. \A n \in Majors(tags) : n \in 0..9
  BY ReleaseNumbers DEF Majors
<1>2. l \in Releases(tags) /\ Version[l][1] \in Majors(tags)
  BY DEF Current, Majors
<1>3. Version[e][1] \in Majors(tags)
  BY DEF Majors
<1>4. PICK m \in CurrentMajors(tags) : StartsWith(l, m)
  BY DEF Current
<1>5. Version[l][1] = m
  <2>1. Version[l][1] \div 10 = 0
    BY <1>1, <1>2
  <2> QED
    BY <1>4, <2>1 DEF StartsWith
<1>6. Cardinality(above(Version[l][1])) < 2
  BY <1>4, <1>5 DEF CurrentMajors
<1>7. ~(Cardinality(above(Version[e][1])) < 2)
  BY <1>3 DEF Current, StartsWith, CurrentMajors
<1>8. CASE Version[l][1] <= Version[e][1]
  <2>1. above(Version[e][1]) \subseteq above(Version[l][1])
    BY <1>1, <1>2, <1>3, <1>8, KeyOrder
  <2>2. IsFiniteSet(above(Version[l][1]))
    <3>1. IsFiniteSet(0..9)
      <4>1. 0 \in Int /\ 9 \in Int
        OBVIOUS
      <4> QED
        BY <4>1, FS_Interval
    <3>2. above(Version[l][1]) \subseteq 0..9
      BY <1>1
    <3> QED
      BY <3>1, <3>2, FS_Subset
  <2>3. /\ IsFiniteSet(above(Version[e][1]))
        /\ Cardinality(above(Version[e][1])) <= Cardinality(above(Version[l][1]))
    BY <2>1, <2>2, FS_Subset
  <2>4. /\ Cardinality(above(Version[e][1])) \in Nat
        /\ Cardinality(above(Version[l][1])) \in Nat
    BY <2>2, <2>3, FS_CardinalityType
  <2> HIDE DEF above
  <2> QED
    BY <1>6, <1>7, <2>3, <2>4
<1> QED
  BY <1>1, <1>2, <1>3, <1>8

\* Nothing among the tags is newer than the one cbs_latest takes.
LEMMA NoneNewer ==
    ASSUME NEW tags \in SUBSET Entries, OneDigit(tags),
           NEW e \in Releases(tags), NEW l \in Latest(tags)
    PROVE  100 * Version[e][1] + 10 * Version[e][2] + Version[e][3]
             <= 100 * Version[l][1] + 10 * Version[l][2] + Version[l][3]
<1> DEFINE a == Version[e][1]  b == Version[e][2]  c == Version[e][3]
           x == Version[l][1]  y == Version[l][2]  z == Version[l][3]
<1>1. l \in Current(tags) /\ l \in Releases(tags)
  BY DEF Latest, Current
<1>2. /\ a \in 0..9 /\ b \in 0..9 /\ c \in 0..9
      /\ x \in 0..9 /\ y \in 0..9 /\ z \in 0..9
  BY <1>1, ReleaseNumbers
<1>3. ~(a > x) /\ ~(a = x /\ b > y) /\ ~(a = x /\ b = y /\ c > z)
  <2>1. CASE e \in Current(tags)
    <3>1. ~Later(Version[e], Version[l])
      BY <2>1 DEF Latest
    <3> QED
      BY <1>2, <3>1, KeyOrder DEF Later
  <2>2. CASE e \notin Current(tags)
    <3>1. x > a
      BY <1>1, <2>2, CurrentAbove
    <3> QED
      BY <1>2, <3>1
  <2> QED
    BY <2>1, <2>2
<1> HIDE DEF a, b, c, x, y, z
<1>4. 100 * a + 10 * b + c <= 100 * x + 10 * y + z
  BY <1>2, <1>3, DigitOrder
<1> QED
  BY <1>4 DEF a, b, c, x, y, z

\* cbs_latest is the newest release of all that stayed in the list while
\* get_cbs_tags read it, page by page and over failed attempts, as long as no
\* major or minor number has two digits.
THEOREM NewestIsLatest == Spec => []LatestIsNewest
<1>1. IInv => LatestIsNewest
  <2> SUFFICES ASSUME IInv, Done({"get_cbs_tags"}), OneDigit(items),
                      NEW e \in Releases(kept), NEW l \in Latest(items)
               PROVE  100 * Version[e][1] + 10 * Version[e][2] + Version[e][3]
                        <= 100 * Version[l][1] + 10 * Version[l][2] + Version[l][3]
    BY DEF LatestIsNewest, OneDigit
  <2>1. items \in SUBSET Entries
    BY DEF IInv, CallOK, TypeOK
  <2>2. e \in Releases(items)
    BY DEF IInv, ReadInv, Done, Readers, Releases
  <2> QED
    BY <2>1, <2>2, NoneNewer
<1> QED
  BY <1>1, Invariance, PTL
=============================================================================
