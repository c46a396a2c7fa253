-------------------------- MODULE OpsSummary_proofs --------------------------
(* Theorems about the summary, for any list of states, any size of a page and *)
(* any number of changes in GFire while the calls are made.                  *)
EXTENDS OpsSummary, FiniteSetTheorems, TLAPS

\* The call for k is behind us.
Made(k) == \E i \in 1..(next - 1) : Calls[i] = k

\* What the answer says of k is what it may say.
TrueOf(k) ==
    \/ summary[k] \in was[k]
    \/ k \in failed \union hidden /\ summary[k] = 0
    \/ k \in JobState /\ summary[k] = PageSize /\ \E n \in was[k] : n > PageSize

\* The jobs as they were counted, and those that are still to be counted as they are.
MixedWith(c) == [k \in JobState |-> IF Made(k) THEN summary[k] ELSE c[k]]

Mixed == MixedWith(held)

CloseSoFar ==
    failed = {} /\ (\A k \in JobState : \A n \in was[k] : n <= PageSize) =>
        /\ Jobs(Mixed) <= Jobs(held) + moves
        /\ Jobs(held) <= Jobs(Mixed) + moves

\* The inductive invariant.
OInv ==
    /\ TypeOK
    /\ pc = "idle" => next = 1
    /\ pc = "done" => next = Len(Calls) + 1
    /\ \A k \in Kind : /\ pc # "idle" => held[k] \in was[k]
                       /\ IF Made(k) THEN TrueOf(k) ELSE summary[k] = 0
    /\ CloseSoFar

-----------------------------------------------------------------------------
(* The decoders.                                                           *)

\* The least of a set of numbers is the one that is below the others.
LEMMA LeastIs ==
    ASSUME NEW S \in SUBSET Nat, NEW j \in S, \A i \in S : j <= i
    PROVE  S # {} /\ Min(S) = j
<1>1. \A i \in S : i \in Nat
  OBVIOUS
<1>2. \A x \in S : (\A y \in S : x =< y) => x = j
  BY <1>1
<1>3. \A y \in S : j =< y
  OBVIOUS
<1> QED
  BY <1>2, <1>3, Zenon DEF Min

\* A body without numbers counts for nothing, and of one with one number that is what
\* counts.
LEMMA FirstNumber ==
    ASSUME NEW f
    PROVE  /\ (\A i \in 1..3 : f[NumberKeys[i]].type # "number") => firstInt(f) = 0
           /\ \A j \in 1..3 :
                /\ f[NumberKeys[j]].type = "number"
                /\ \A i \in 1..3 : i # j => f[NumberKeys[i]].type # "number"
                => firstInt(f) = f[NumberKeys[j]].n
<1> DEFINE I == {i \in 1..Len(NumberKeys) : f[NumberKeys[i]].type = "number"}
<1>1. Len(NumberKeys) = 3
  BY DEF NumberKeys
<1>2. firstInt(f) = LET given == IF I # {} THEN Min(I) ELSE 0
                    IN  IF given = 0 THEN 0 ELSE f[NumberKeys[given]].n
  BY Zenon DEF firstInt, SelectInSeq
<1>3. ASSUME \A i \in 1..3 : f[NumberKeys[i]].type # "number" PROVE firstInt(f) = 0
  <2>1. I = {}
    BY <1>1, <1>3
  <2> QED
    BY <1>2, <2>1
<1>4. ASSUME NEW j \in 1..3, f[NumberKeys[j]].type = "number",
             \A i \in 1..3 : i # j => f[NumberKeys[i]].type # "number"
      PROVE  firstInt(f) = f[NumberKeys[j]].n
  <2>1. I \in SUBSET Nat /\ j \in I /\ \A i \in I : j <= i
    BY <1>1, <1>4
  <2>2. I # {} /\ Min(I) = j
    BY <2>1, LeastIs
  <2> HIDE DEF I
  <2>3. j # 0
    OBVIOUS
  <2> QED
    BY <1>2, <2>2, <2>3
<1> QED
  BY <1>3, <1>4

\* Of a body with one list that is what counts, unless it is empty.
LEMMA FirstList ==
    ASSUME NEW f, \A i \in 1..4 : f[ListKeys[i]].n \in Nat
    PROVE  /\ (\A i \in 1..4 : f[ListKeys[i]].n = 0) => CountInObject(f) = firstInt(f)
           /\ \A j \in 1..4 :
                /\ f[ListKeys[j]].n > 0
                /\ \A i \in 1..4 : i # j => f[ListKeys[i]].n = 0
                => CountInObject(f) = f[ListKeys[j]].n
<1> DEFINE I == {i \in 1..Len(ListKeys) : f[ListKeys[i]].n > 0}
<1>1. Len(ListKeys) = 4
  BY DEF ListKeys
<1>2. CountInObject(f) = LET filled == IF I # {} THEN Min(I) ELSE 0
                         IN  IF filled = 0 THEN firstInt(f) ELSE f[ListKeys[filled]].n
  BY Zenon DEF CountInObject, SelectInSeq
<1>3. ASSUME \A i \in 1..4 : f[ListKeys[i]].n = 0 PROVE CountInObject(f) = firstInt(f)
  <2>1. I = {}
    BY <1>1, <1>3
  <2> QED
    BY <1>2, <2>1
<1>4. ASSUME NEW j \in 1..4, f[ListKeys[j]].n > 0,
             \A i \in 1..4 : i # j => f[ListKeys[i]].n = 0
      PROVE  CountInObject(f) = f[ListKeys[j]].n
  <2>1. I \in SUBSET Nat /\ j \in I /\ \A i \in I : j <= i
    BY <1>1, <1>4
  <2>2. I # {} /\ Min(I) = j
    BY <2>1, LeastIs
  <2> HIDE DEF I
  <2>3. j # 0
    OBVIOUS
  <2> QED
    BY <1>2, <2>2, <2>3
<1> QED
  BY <1>3, <1>4

\* A page of jobs counts for what there is, up to its size, and a number for itself,
\* whatever is empty beside them; or the body is refused.
LEMMA JobsCounted ==
    ASSUME NEW n \in Nat, NEW r \in JobReplies(n)
    PROVE  LET c == decodeJobCount(r)
           IN  c = Failed \/ c = n \/ (c = PageSize /\ n > PageSize)
<1> DEFINE page == IF n < PageSize THEN n ELSE PageSize
<1>p. page \in Nat /\ (page = n \/ (page = PageSize /\ n > PageSize)) /\ (page = 0 => n = 0)
  BY SummaryAssumption
<1>r. \/ r = Array(page)
      \/ \E j \in 1..4 : r = With(ListKeys[j], List(page))
      \/ \E j \in 1..3 : r = With(NumberKeys[j], Number(n))
      \/ \E i \in 1..4, j \in 1..3, v \in Empty \union {Other} :
             r = WithBoth(ListKeys[i], v, NumberKeys[j], Number(n))
      \/ \E i \in 1..4, j \in 1..4, v \in Empty :
             r = WithBoth(ListKeys[i], v, ListKeys[j], List(page))
      \/ r = WithBoth("jobs", List(page), "total", Number(n))
      \/ r = WithBoth("total", Null, "count", Number(n))
  BY DEF JobReplies, ToSet, ListKeys, NumberKeys
<1> HIDE DEF page
<1>k. /\ \A i \in 1..4 : ListKeys[i] \in Key
      /\ \A i \in 1..3 : NumberKeys[i] \in Key
      /\ \A i \in 1..4, j \in 1..3 : ListKeys[i] # NumberKeys[j]
      /\ \A i, j \in 1..4 : ListKeys[i] = ListKeys[j] => i = j
      /\ \A i, j \in 1..3 : NumberKeys[i] = NumberKeys[j] => i = j
      /\ ListKeys[1] = "jobs" /\ NumberKeys[1] = "total" /\ NumberKeys[2] = "count"
  BY DEF ListKeys, NumberKeys, Key
<1>v. \A v \in Empty \union {Other} : v.n = 0 /\ v.type # "number"
  BY DEF Empty, List, Null, Other
<1>o. ASSUME NEW f, r = Object(f)
      PROVE  decodeJobCount(r) \in {CountInObject(f), Failed}
  <2>1. r.form = "object" /\ r.field = f
    BY <1>o DEF Object
  <2> QED
    BY <2>1 DEF decodeJobCount
<1>P. ASSUME NEW f, NEW j \in 1..4,
             \A i \in 1..4 : f[ListKeys[i]].n = IF i = j THEN page ELSE 0,
             \/ \A i \in 1..3 : f[NumberKeys[i]].type # "number"
             \/ page > 0
      PROVE  CountInObject(f) = page
  <2>1. CASE page = 0
    <3>1. firstInt(f) = 0
      BY <1>P, <2>1, FirstNumber
    <3> QED
      BY <1>P, <2>1, <3>1, FirstList
  <2>2. CASE page > 0
    BY <1>p, <1>P, <2>2, FirstList
  <2> QED
    BY <1>p, <2>1, <2>2
<1>N. ASSUME NEW f, NEW j \in 1..3,
             \A i \in 1..4 : f[ListKeys[i]].n = 0,
             f[NumberKeys[j]] = Number(n),
             \A i \in 1..3 : i # j => f[NumberKeys[i]].type # "number"
      PROVE  CountInObject(f) = n
  <2>1. f[NumberKeys[j]].type = "number" /\ f[NumberKeys[j]].n = n
    BY <1>N DEF Number
  <2>2. firstInt(f) = n
    BY <1>N, <2>1, FirstNumber
  <2> QED
    BY <1>N, <2>2, FirstList
<1>1. CASE r = Array(page)
  BY <1>1, <1>p DEF decodeJobCount, Array
<1>2. ASSUME NEW j \in 1..4, r = With(ListKeys[j], List(page))
      PROVE  decodeJobCount(r) \in {page, Failed}
  <2>1. PICK f : f = [NoField EXCEPT ![ListKeys[j]] = List(page)]
    OBVIOUS
  <2>2. r = Object(f)
    BY <1>2, <2>1 DEF With
  <2>3. /\ f[ListKeys[j]] = List(page)
        /\ \A k \in Key : k # ListKeys[j] => f[k] = NoJson
    BY <1>k, <2>1 DEF NoField
  <2>4. /\ \A i \in 1..4 : f[ListKeys[i]].n = IF i = j THEN page ELSE 0
        /\ \A i \in 1..3 : f[NumberKeys[i]].type # "number"
    BY <1>k, <2>3 DEF List, NoJson
  <2> QED
    BY <1>o, <1>P, <2>2, <2>4
<1>3. ASSUME NEW j \in 1..3, r = With(NumberKeys[j], Number(n))
      PROVE  decodeJobCount(r) \in {n, Failed}
  <2>1. PICK f : f = [NoField EXCEPT ![NumberKeys[j]] = Number(n)]
    OBVIOUS
  <2>2. r = Object(f)
    BY <1>3, <2>1 DEF With
  <2>3. /\ f[NumberKeys[j]] = Number(n)
        /\ \A k \in Key : k # NumberKeys[j] => f[k] = NoJson
    BY <1>k, <2>1 DEF NoField
  <2>4. /\ \A i \in 1..4 : f[ListKeys[i]].n = 0
        /\ \A i \in 1..3 : i # j => f[NumberKeys[i]].type # "number"
    BY <1>k, <2>3 DEF NoJson
  <2> QED
    BY <1>o, <1>N, <2>2, <2>3, <2>4
<1>4. ASSUME NEW i \in 1..4, NEW j \in 1..3, NEW v \in Empty \union {Other},
             r = WithBoth(ListKeys[i], v, NumberKeys[j], Number(n))
      PROVE  decodeJobCount(r) \in {n, Failed}
  <2>1. PICK f : f = [NoField EXCEPT ![ListKeys[i]] = v, ![NumberKeys[j]] = Number(n)]
    OBVIOUS
  <2>2. r = Object(f)
    BY <1>4, <2>1 DEF WithBoth
  <2>3. /\ f[ListKeys[i]] = v /\ f[NumberKeys[j]] = Number(n)
        /\ \A k \in Key : k \notin {ListKeys[i], NumberKeys[j]} => f[k] = NoJson
    BY <1>k, <2>1 DEF NoField
  <2>4. /\ \A l \in 1..4 : f[ListKeys[l]].n = 0
        /\ \A l \in 1..3 : l # j => f[NumberKeys[l]].type # "number"
    BY <1>k, <1>v, <2>3 DEF NoJson
  <2> QED
    BY <1>o, <1>N, <2>2, <2>3, <2>4
<1>5. ASSUME NEW i \in 1..4, NEW j \in 1..4, NEW v \in Empty,
             r = WithBoth(ListKeys[i], v, ListKeys[j], List(page))
      PROVE  decodeJobCount(r) \in {page, Failed}
  <2>1. PICK f : f = [NoField EXCEPT ![ListKeys[i]] = v, ![ListKeys[j]] = List(page)]
    OBVIOUS
  <2>2. r = Object(f)
    BY <1>5, <2>1 DEF WithBoth
  <2>3. /\ f[ListKeys[j]] = List(page) /\ (i # j => f[ListKeys[i]] = v)
        /\ \A k \in Key : k \notin {ListKeys[i], ListKeys[j]} => f[k] = NoJson
    BY <1>k, <2>1 DEF NoField
  <2>4. /\ \A l \in 1..4 : f[ListKeys[l]].n = IF l = j THEN page ELSE 0
        /\ \A l \in 1..3 : f[NumberKeys[l]].type # "number"
    BY <1>k, <1>v, <2>3 DEF NoJson, List
  <2> QED
    BY <1>o, <1>P, <2>2, <2>4
<1>6. ASSUME r = WithBoth("jobs", List(page), "total", Number(n))
      PROVE  decodeJobCount(r) \in {page, n, Failed}
  <2>1. PICK f : f = [NoField EXCEPT !["jobs"] = List(page), !["total"] = Number(n)]
    OBVIOUS
  <2>2. r = Object(f)
    BY <1>6, <2>1 DEF WithBoth
  <2>3. /\ f["jobs"] = List(page) /\ f["total"] = Number(n)
        /\ \A k \in Key : k \notin {"jobs", "total"} => f[k] = NoJson
    BY <2>1 DEF NoField, Key
  <2>4. /\ \A i \in 1..4 : f[ListKeys[i]].n = IF i = 1 THEN page ELSE 0
        /\ \A i \in 1..3 : i # 1 => f[NumberKeys[i]].type # "number"
        /\ f[NumberKeys[1]] = Number(n)
    BY <1>k, <2>3 DEF List, NoJson
  <2>5. CASE page = 0
    BY <1>o, <1>N, <2>2, <2>4, <2>5
  <2>6. CASE page > 0
    BY <1>o, <1>P, <2>2, <2>4, <2>6
  <2> QED
    BY <1>p, <2>5, <2>6
<1>7. ASSUME r = WithBoth("total", Null, "count", Number(n))
      PROVE  decodeJobCount(r) \in {n, Failed}
  <2>1. PICK f : f = [NoField EXCEPT !["total"] = Null, !["count"] = Number(n)]
    OBVIOUS
  <2>2. r = Object(f)
    BY <1>7, <2>1 DEF WithBoth
  <2>3. /\ f["total"] = Null /\ f["count"] = Number(n)
        /\ \A k \in Key : k \notin {"total", "count"} => f[k] = NoJson
    BY <2>1 DEF NoField, Key
  <2>4. /\ \A i \in 1..4 : f[ListKeys[i]].n = 0
        /\ \A i \in 1..3 : i # 2 => f[NumberKeys[i]].type # "number"
        /\ f[NumberKeys[2]] = Number(n)
    BY <1>k, <2>3 DEF Null, NoJson
  <2> QED
    BY <1>o, <1>N, <2>2, <2>4
<1> QED
  BY <1>p, <1>r, <1>1, <1>2, <1>3, <1>4, <1>5, <1>6, <1>7

NameLists == {<<"servers">>, <<"recurring", "jobs", "items", "data">>}

\* What decodeNamedListCount does with an object: the first list or null, then the first
\* number or null.
LEMMA NamedDecoded ==
    ASSUME NEW keys \in NameLists, NEW f, NEW r, r = Object(f)
    PROVE  /\ \A j \in 1..Len(keys) :
                /\ f[keys[j]].type \in {"list", "null"}
                /\ \A i \in 1..Len(keys) : i # j => f[keys[i]].type \notin {"list", "null"}
                => decodeNamedListCount(r, keys) = f[keys[j]].n
           /\ \A j \in 1..2 :
                /\ \A i \in 1..Len(keys) : f[keys[i]].type \notin {"list", "null"}
                /\ f[CountKeys[j]].type \in {"number", "null"}
                /\ \A i \in 1..2 : i < j => f[CountKeys[i]].type \notin {"number", "null"}
                => decodeNamedListCount(r, keys) = f[CountKeys[j]].n
<1> DEFINE L == {i \in 1..Len(keys) : f[keys[i]].type \in {"list", "null"}}
           I == {i \in 1..Len(CountKeys) : f[CountKeys[i]].type \in {"number", "null"}}
           list   == IF L # {} THEN Min(L) ELSE 0
           number == IF I # {} THEN Min(I) ELSE 0
<1>c. Len(CountKeys) = 2 /\ Len(keys) \in Nat
  BY DEF CountKeys, NameLists
<1>f. r.form = "object" /\ r.field = f
  BY DEF Object
<1>d. decodeNamedListCount(r, keys) =
        CASE r.form = "array" -> r.n
          [] r.form = "object" /\ list # 0 -> r.field[keys[list]].n
          [] r.form = "object" /\ list = 0 /\ number # 0 -> r.field[CountKeys[number]].n
          [] r.form = "object" /\ list = 0 /\ number = 0 -> 0
          [] OTHER -> Failed
  BY <1>f, Zenon DEF decodeNamedListCount, SelectInSeq
<1>1. ASSUME NEW j \in 1..Len(keys), f[keys[j]].type \in {"list", "null"},
             \A i \in 1..Len(keys) : i # j => f[keys[i]].type \notin {"list", "null"}
      PROVE  decodeNamedListCount(r, keys) = f[keys[j]].n
  <2>1. L \in SUBSET Nat /\ j \in L /\ \A i \in L : j <= i
    BY <1>c, <1>1
  <2>2. list = j /\ j # 0
    BY <2>1, LeastIs
  <2> HIDE DEF list, number
  <2> QED
    BY <1>d, <1>f, <2>2
<1>2. ASSUME NEW j \in 1..2,
             \A i \in 1..Len(keys) : f[keys[i]].type \notin {"list", "null"},
             f[CountKeys[j]].type \in {"number", "null"},
             \A i \in 1..2 : i < j => f[CountKeys[i]].type \notin {"number", "null"}
      PROVE  decodeNamedListCount(r, keys) = f[CountKeys[j]].n
  <2>1. list = 0
    BY <1>2
  <2>2. I \in SUBSET Nat /\ j \in I /\ \A i \in I : j <= i
    BY <1>c, <1>2
  <2>3. number = j /\ j # 0
    BY <2>2, LeastIs
  <2> HIDE DEF list, number
  <2> QED
    BY <1>d, <1>f, <2>1, <2>3
<1> QED
  BY <1>1, <1>2

LEMMA NamesAre ==
    ASSUME NEW keys \in NameLists
    PROVE  /\ Len(keys) \in Nat /\ DOMAIN keys = 1..Len(keys)
           /\ ToSet(keys) = {keys[i] : i \in 1..Len(keys)}
           /\ \A i \in 1..Len(keys) : keys[i] \in Key \ {"total", "count"}
           /\ \A i, j \in 1..Len(keys) : keys[i] = keys[j] => i = j
           /\ Len(CountKeys) = 2 /\ CountKeys[1] = "total" /\ CountKeys[2] = "count"
           /\ ToSet(CountKeys) = {"total", "count"}
<1>1. CASE keys = <<"servers">>
  BY <1>1 DEF Key, CountKeys, ToSet
<1>2. CASE keys = <<"recurring", "jobs", "items", "data">>
  BY <1>2 DEF Key, CountKeys, ToSet
<1> QED
  BY <1>1, <1>2 DEF NameLists

\* A list under one of its names counts for its length, and where there is none, a
\* number for itself.
LEMMA NamedCounted ==
    ASSUME NEW keys \in NameLists, NEW n \in Nat, NEW r \in NamedReplies(keys, n)
    PROVE  decodeNamedListCount(r, keys) = n
<1>k. /\ Len(keys) \in Nat
      /\ \A i \in 1..Len(keys) : keys[i] \in Key \ {"total", "count"}
      /\ \A i, j \in 1..Len(keys) : keys[i] = keys[j] => i = j
      /\ CountKeys[1] = "total" /\ CountKeys[2] = "count"
  BY NamesAre
<1>r. \/ r = Array(n)
      \/ \E j \in 1..Len(keys) : r = With(keys[j], List(n))
      \/ \E j \in 1..2 : r = With(CountKeys[j], Number(n))
      \/ \E i \in 1..Len(keys), j \in 1..2 : r = WithBoth(keys[i], Other, CountKeys[j], Number(n))
  BY <1>k, NamesAre DEF NamedReplies
<1>N. ASSUME NEW f, r = Object(f), NEW j \in 1..2, f[CountKeys[j]] = Number(n),
             \A k \in Key : k # CountKeys[j] => f[k].type \in {"absent", "other"}
      PROVE  decodeNamedListCount(r, keys) = n
  <2>1. \A i \in 1..Len(keys) : f[keys[i]].type \notin {"list", "null"}
    BY <1>k, <1>N
  <2>2. f[CountKeys[j]].type = "number" /\ f[CountKeys[j]].n = n
    BY <1>N DEF Number
  <2>3. \A i \in 1..2 : i < j => f[CountKeys[i]].type \notin {"number", "null"}
    BY <1>k, <1>N DEF Key
  <2> QED
    BY <1>N, <2>1, <2>2, <2>3, NamedDecoded
<1>1. CASE r = Array(n)
  BY <1>1 DEF Array, decodeNamedListCount
<1>2. ASSUME NEW j \in 1..Len(keys), r = With(keys[j], List(n))
      PROVE  decodeNamedListCount(r, keys) = n
  <2>1. PICK f : f = [NoField EXCEPT ![keys[j]] = List(n)]
    OBVIOUS
  <2>2. r = Object(f)
    BY <1>2, <2>1 DEF With
  <2>3. /\ f[keys[j]].type = "list" /\ f[keys[j]].n = n
        /\ \A i \in 1..Len(keys) : i # j => f[keys[i]].type \notin {"list", "null"}
    BY <1>k, <2>1 DEF NoField, NoJson, List
  <2> QED
    BY <2>2, <2>3, NamedDecoded
<1>3. ASSUME NEW j \in 1..2, r = With(CountKeys[j], Number(n))
      PROVE  decodeNamedListCount(r, keys) = n
  <2>1. PICK f : f = [NoField EXCEPT ![CountKeys[j]] = Number(n)]
    OBVIOUS
  <2>2. r = Object(f)
    BY <1>3, <2>1 DEF With
  <2>3. CountKeys[j] \in Key
    BY <1>k DEF Key
  <2>4. /\ f[CountKeys[j]] = Number(n)
        /\ \A k \in Key : k # CountKeys[j] => f[k].type \in {"absent", "other"}
    BY <2>1, <2>3 DEF NoField, NoJson
  <2> QED
    BY <1>N, <2>2, <2>4
<1>4. ASSUME NEW i \in 1..Len(keys), NEW j \in 1..2,
             r = WithBoth(keys[i], Other, CountKeys[j], Number(n))
      PROVE  decodeNamedListCount(r, keys) = n
  <2>1. PICK f : f = [NoField EXCEPT ![keys[i]] = Other, ![CountKeys[j]] = Number(n)]
    OBVIOUS
  <2>2. r = Object(f)
    BY <1>4, <2>1 DEF WithBoth
  <2>3. CountKeys[j] \in Key /\ keys[i] \in Key
    BY <1>k DEF Key
  <2>4. /\ f[CountKeys[j]] = Number(n)
        /\ \A k \in Key : k # CountKeys[j] => f[k].type \in {"absent", "other"}
    BY <2>1, <2>3 DEF NoField, NoJson, Other
  <2> QED
    BY <1>N, <2>2, <2>4
<1> QED
  BY <1>r, <1>1, <1>2, <1>3, <1>4

\* A list that is empty, or a null, is read as nothing, whatever number is behind it.
LEMMA HiddenIsZero ==
    ASSUME NEW keys \in NameLists, NEW n \in Nat, NEW r \in HidingReplies(keys, n)
    PROVE  decodeNamedListCount(r, keys) = 0
<1>k. /\ Len(keys) \in Nat
      /\ \A i \in 1..Len(keys) : keys[i] \in Key \ {"total", "count"}
      /\ \A i, j \in 1..Len(keys) : keys[i] = keys[j] => i = j
      /\ CountKeys[1] = "total" /\ CountKeys[2] = "count"
  BY NamesAre
<1>r. \/ \E j \in 1..Len(keys), v \in Empty, k \in {"total", "count"} :
            r = WithBoth(keys[j], v, k, Number(n))
      \/ r = WithBoth("total", Null, "count", Number(n))
  BY <1>k, NamesAre DEF HidingReplies
<1>1. ASSUME NEW j \in 1..Len(keys), NEW v \in Empty, NEW k \in {"total", "count"},
             r = WithBoth(keys[j], v, k, Number(n))
      PROVE  decodeNamedListCount(r, keys) = 0
  <2>1. PICK f : f = [NoField EXCEPT ![keys[j]] = v, ![k] = Number(n)]
    OBVIOUS
  <2>2. r = Object(f)
    BY <1>1, <2>1 DEF WithBoth
  <2>3. f[keys[j]] = v /\ \A i \in 1..Len(keys) : i # j => f[keys[i]] = NoJson
    BY <1>k, <2>1 DEF NoField
  <2>4. v.type \in {"list", "null"} /\ v.n = 0
    BY DEF Empty, List, Null
  <2>5. \A i \in 1..Len(keys) : i # j => f[keys[i]].type \notin {"list", "null"}
    BY <2>3 DEF NoJson
  <2> QED
    BY <2>2, <2>3, <2>4, <2>5, NamedDecoded
<1>2. ASSUME r = WithBoth("total", Null, "count", Number(n))
      PROVE  decodeNamedListCount(r, keys) = 0
  <2>1. PICK f : f = [NoField EXCEPT !["total"] = Null, !["count"] = Number(n)]
    OBVIOUS
  <2>2. r = Object(f)
    BY <1>2, <2>1 DEF WithBoth
  <2>3. /\ \A i \in 1..Len(keys) : f[keys[i]].type \notin {"list", "null"}
        /\ f[CountKeys[1]].type = "null" /\ f[CountKeys[1]].n = 0
    BY <1>k, <2>1 DEF NoField, NoJson, Null, Key
  <2>4. 1 \in 1..2 /\ \A i \in 1..2 : ~(i < 1)
    OBVIOUS
  <2> QED
    BY <2>2, <2>3, <2>4, NamedDecoded
<1> QED
  BY <1>r, <1>1, <1>2

\* The depth of a queue is read, and the count of its jobs only where there is none.
LEMMA DepthRead ==
    ASSUME NEW n \in Nat, NEW q \in Queues(n)
    PROVE  DepthOf(q) = n
<1> DEFINE I == {i \in 1..Len(DepthKeys) : q[DepthKeys[i]].type = "number"}
<1>k. /\ Len(DepthKeys) = 3 /\ DepthKeys[1] = "depth"
      /\ DepthKeys[2] = "jobs_count" /\ DepthKeys[3] = "count"
  BY DEF DepthKeys
<1>3. DepthOf(q) = LET given == IF I # {} THEN Min(I) ELSE 0
                   IN  IF given = 0 THEN 0 ELSE q[DepthKeys[given]].n
  BY Zenon DEF DepthOf, SelectInSeq
<1>4. ASSUME NEW j \in 1..3, q[DepthKeys[j]] = Number(n),
             \A i \in 1..3 : i < j => q[DepthKeys[i]].type # "number"
      PROVE  DepthOf(q) = n
  <2>1. I \in SUBSET Nat /\ j \in I /\ \A i \in I : j <= i
    BY <1>k, <1>4 DEF Number
  <2>2. I # {} /\ Min(I) = j
    BY <2>1, LeastIs
  <2>3. q[DepthKeys[j]].n = n /\ j # 0
    BY <1>4 DEF Number
  <2> HIDE DEF I
  <2> QED
    BY <1>3, <2>2, <2>3
<1>5. \E j \in 1..3 : /\ q[DepthKeys[j]] = Number(n)
                      /\ \A i \in 1..3 : i < j => q[DepthKeys[i]].type # "number"
  BY <1>k DEF Queues, NoJson, Null
<1> QED
  BY <1>4, <1>5

\* Wherever the body has its queue, it is found, or the body is refused.
LEMMA QueueFound ==
    ASSUME NEW n \in Nat, NEW r \in QueueReplies(n), decodeQueueSummaries(r) # <<>>
    PROVE  decodeQueueSummaries(r)[1].depth = n
<1>k. /\ Len(QueueKeys) = 4 /\ ToSet(QueueKeys) = {QueueKeys[i] : i \in 1..4}
      /\ \A i, j \in 1..4 : QueueKeys[i] = QueueKeys[j] => i = j
  BY DEF QueueKeys, ToSet
<1>n. mapQueueSummaries(<<>>) = <<>>
  BY DEF mapQueueSummaries
<1>q. ASSUME NEW q \in Queues(n) PROVE mapQueueSummaries(<<q>>)[1].depth = n
  <2>1. mapQueueSummaries(<<q>>)[1].depth = DepthOf(q)
    BY DEF mapQueueSummaries
  <2> QED
    BY <2>1, DepthRead
<1>m. \E q \in Queues(n) : decodeQueueSummaries(r) = mapQueueSummaries(<<q>>)
  <2>1. ASSUME NEW q \in Queues(n), r.form = "array", r.items = <<q>>
        PROVE  decodeQueueSummaries(r) = mapQueueSummaries(<<q>>)
    BY <2>1 DEF decodeQueueSummaries
  <2>o. ASSUME r.form = "object"
        PROVE  decodeQueueSummaries(r) = mapQueueSummaries(QueuesInObject(r.field, r.own))
    BY <2>o DEF decodeQueueSummaries
  <2> DEFINE F == {i \in 1..Len(QueueKeys) : r.field[QueueKeys[i]].items # <<>>}
             filled == IF F # {} THEN Min(F) ELSE 0
  <2>d. QueuesInObject(r.field, r.own) =
          CASE filled # 0 -> r.field[QueueKeys[filled]].items
            [] filled = 0 /\ FitsQueue(r.own) /\ r.own.name.n > 0 -> <<r.own>>
            [] OTHER -> <<>>
    BY Zenon DEF QueuesInObject, SelectInSeq
  <2>2. ASSUME NEW q \in Queues(n), NEW j \in 1..4, r.form = "object",
               r.field = [NoList EXCEPT ![QueueKeys[j]] = ListOf(q)]
        PROVE  decodeQueueSummaries(r) = mapQueueSummaries(<<q>>)
    <3>1. /\ r.field[QueueKeys[j]].items = <<q>>
          /\ \A i \in 1..4 : i # j => r.field[QueueKeys[i]].items = <<>>
      BY <1>k, <2>2 DEF NoList, ListOf
    <3>e. F = {i \in 1..4 : r.field[QueueKeys[i]].items # <<>>}
      BY <1>k
    <3>o. <<q>> # <<>>
      OBVIOUS
    <3> HIDE DEF F
    <3>2. F \in SUBSET Nat /\ j \in F /\ \A i \in F : j <= i
      <4>1. F \subseteq 1..4
        BY ONLY <3>e
      <4>2. r.field[QueueKeys[j]].items # <<>>
        BY ONLY <3>1, <3>o
      <4>3. j \in F
        BY ONLY <3>e, <4>2, j \in 1..4
      <4>4. \A i \in F : i = j
        BY ONLY <3>1, <3>e, j \in 1..4
      <4> QED
        BY ONLY <4>1, <4>3, <4>4, j \in 1..4
    <3>3. filled = j /\ j # 0
      BY <3>2, LeastIs
    <3> HIDE DEF filled
    <3>4. QueuesInObject(r.field, r.own) = <<q>>
      BY <2>d, <3>1, <3>3
    <3> QED
      BY <2>2, <2>o, <3>4
  <2>3. ASSUME NEW q \in Queues(n), NEW j \in 1..4, NEW t, r.form = "object",
               r.field = [NoList EXCEPT ![QueueKeys[j]] = [type |-> t, items |-> <<>>]], r.own = q
        PROVE  decodeQueueSummaries(r) = mapQueueSummaries(<<q>>)
    <3>1. \A i \in 1..4 : r.field[QueueKeys[i]].items = <<>>
      BY <1>k, <2>3 DEF NoList
    <3>2. filled = 0
      BY <1>k, <3>1
    <3> HIDE DEF filled
    <3>3. QueuesInObject(r.field, r.own) \in {<<q>>, <<>>}
      BY <2>d, <2>3, <3>2
    <3> QED
      BY <1>n, <2>3, <2>o, <3>3
  <2>4. \/ \E q \in Queues(n) :
              r = [form |-> "array", items |-> <<q>>, field |-> NoList, own |-> NoQueue]
        \/ \E q \in Queues(n), k \in ToSet(QueueKeys) :
              r = [form |-> "object", items |-> <<>>,
                   field |-> [NoList EXCEPT ![k] = ListOf(q)], own |-> NoQueue]
        \/ \E q \in Queues(n), k \in ToSet(QueueKeys), t \in {"list", "null", "other"} :
              r = [form |-> "object", items |-> <<>>,
                   field |-> [NoList EXCEPT ![k] = [type |-> t, items |-> <<>>]], own |-> q]
    <3>1. \/ r \in {[form |-> "array", items |-> <<q>>, field |-> NoList, own |-> NoQueue] :
                      q \in Queues(n)}
          \/ r \in {[form |-> "object", items |-> <<>>,
                      field |-> [NoList EXCEPT ![k] = ListOf(q)], own |-> NoQueue] :
                      q \in Queues(n), k \in ToSet(QueueKeys)}
          \/ r \in {[form |-> "object", items |-> <<>>,
                      field |-> [NoList EXCEPT ![k] = [type |-> t, items |-> <<>>]], own |-> q] :
                      q \in Queues(n), k \in ToSet(QueueKeys), t \in {"list", "null", "other"}}
      BY ONLY r \in QueueReplies(n) DEF QueueReplies
    <3> QED
      BY ONLY <3>1
  <2> HIDE DEF F, filled
  <2>5. \A k \in ToSet(QueueKeys) : \E j \in 1..4 : k = QueueKeys[j]
    BY <1>k
  <2>6. ASSUME NEW q \in Queues(n),
               r = [form |-> "array", items |-> <<q>>, field |-> NoList, own |-> NoQueue]
        PROVE  decodeQueueSummaries(r) = mapQueueSummaries(<<q>>)
    <3>1. r.form = "array" /\ r.items = <<q>>
      BY ONLY <2>6
    <3> QED
      BY <2>1, <3>1
  <2>7. ASSUME NEW q \in Queues(n), NEW k \in ToSet(QueueKeys),
               r = [form |-> "object", items |-> <<>>,
                    field |-> [NoList EXCEPT ![k] = ListOf(q)], own |-> NoQueue]
        PROVE  decodeQueueSummaries(r) = mapQueueSummaries(<<q>>)
    <3>1. PICK j \in 1..4 : k = QueueKeys[j]
      BY <2>5
    <3>2. r.form = "object" /\ r.field = [NoList EXCEPT ![QueueKeys[j]] = ListOf(q)]
      BY ONLY <2>7, <3>1
    <3> QED
      BY ONLY <2>2, <3>2, q \in Queues(n), j \in 1..4
  <2>8. ASSUME NEW q \in Queues(n), NEW k \in ToSet(QueueKeys), NEW t,
               r = [form |-> "object", items |-> <<>>,
                    field |-> [NoList EXCEPT ![k] = [type |-> t, items |-> <<>>]], own |-> q]
        PROVE  decodeQueueSummaries(r) = mapQueueSummaries(<<q>>)
    <3>1. PICK j \in 1..4 : k = QueueKeys[j]
      BY <2>5
    <3>2. /\ r.form = "object" /\ r.own = q
          /\ r.field = [NoList EXCEPT ![QueueKeys[j]] = [type |-> t, items |-> <<>>]]
      BY ONLY <2>8, <3>1
    <3> QED
      BY ONLY <2>3, <3>2, q \in Queues(n), j \in 1..4
  <2> QED
    BY Zenon, <2>4, <2>6, <2>7, <2>8
<1> QED
  BY <1>m, <1>q

\* A call that succeeds tells what GFire has, or a full page of more jobs.
LEMMA ResultIs ==
    ASSUME TypeOK, NEW k \in Kind, NEW n \in Results(k)
    PROVE  /\ n = held[k] \/ (k \in JobState /\ n = PageSize /\ held[k] > PageSize)
           /\ n \in 0..MaxHeld
<1>1. held[k] \in 0..MaxHeld /\ held[k] \in Nat /\ MaxHeld \in Nat /\ PageSize \in Nat
  BY SummaryAssumption DEF TypeOK
<1>2. /\ "queues" \notin JobState /\ "servers" \notin JobState /\ "recurring" \notin JobState
  BY SummaryAssumption
<1>3. CASE k \in JobState
  <2>1. PICK r \in JobReplies(held[k]) : n = decodeJobCount(r) /\ n # Failed
    BY <1>2, <1>3 DEF Results
  <2> QED
    BY <1>1, <1>3, <2>1, JobsCounted
<1>4. CASE k = "queues"
  <2>1. PICK r \in QueueReplies(held["queues"]) :
            decodeQueueSummaries(r) # <<>> /\ n = decodeQueueSummaries(r)[1].depth
    BY <1>2, <1>4 DEF Results
  <2> QED
    BY <1>1, <1>4, <2>1, QueueFound
<1>5. CASE k \in {"servers", "recurring"}
  <2>1. PICK r \in NamedReplies(NamesFor(k), held[k]) :
            n = decodeNamedListCount(r, NamesFor(k))
    BY <1>2, <1>5 DEF Results
  <2>2. NamesFor(k) \in NameLists
    BY DEF NamesFor, NameLists
  <2> QED
    BY <1>1, <1>5, <2>1, <2>2, NamedCounted
<1> QED
  BY <1>3, <1>4, <1>5 DEF Kind

-----------------------------------------------------------------------------
(* The list of calls.                                                      *)

Name == Kind \union {"version"}

\* Putting one list behind another.
LEMMA Joined ==
    ASSUME NEW s \in Seq(Name), NEW t \in Seq(Name)
    PROVE  /\ s \o t \in Seq(Name) /\ Len(s \o t) = Len(s) + Len(t)
           /\ \A i \in 1..Len(s) : (s \o t)[i] = s[i]
           /\ \A i \in 1..Len(t) : (s \o t)[Len(s) + i] = t[i]
OBVIOUS

\* Every kind is asked for once, and the version.
LEMMA CallList ==
    /\ Len(Calls) \in Nat /\ DOMAIN Calls = 1..Len(Calls)
    /\ \A i \in 1..Len(Calls) : Calls[i] \in Kind \union {"version"}
    /\ \A i, j \in 1..Len(Calls) : Calls[i] = Calls[j] => i = j
    /\ \A k \in Kind : \E i \in 1..Len(Calls) : Calls[i] = k
    /\ "version" \notin Kind
<1> DEFINE N == Len(JobStates)
<1>1. /\ JobStates \in Seq(STRING) /\ N \in Nat
      /\ DOMAIN JobStates = 1..N
      /\ \A i, j \in 1..N : JobStates[i] = JobStates[j] => i = j
  BY SummaryAssumption
<1>2. /\ \A i \in 1..N : JobStates[i] \in JobState
      /\ \A k \in JobState : \E i \in 1..N : JobStates[i] = k
  BY <1>1 DEF JobState, ToSet
<1>3. \A i \in 1..N : JobStates[i] \notin {"queues", "servers", "recurring", "version"}
  BY <1>2, SummaryAssumption
<1>s. JobStates \in Seq(Name)
  BY <1>1, <1>2 DEF Name, Kind
<1>e. "queues" \in Name /\ "servers" \in Name /\ "recurring" \in Name /\ "version" \in Name
  BY DEF Name, Kind
<1>4. PICK head : head = <<"queues">>
  OBVIOUS
<1>5. PICK tail : tail = <<"servers", "recurring", "version">>
  OBVIOUS
<1>h. head \in Seq(Name) /\ Len(head) = 1 /\ head[1] = "queues"
  <2>1. <<"queues">> \in Seq(Name)
    BY <1>e
  <2>2. Len(head) = 1 /\ head[1] = "queues"
    BY <1>4
  <2> QED
    BY <1>4, <2>1, <2>2
<1>t. /\ tail \in Seq(Name) /\ Len(tail) = 3
      /\ tail[1] = "servers" /\ tail[2] = "recurring" /\ tail[3] = "version"
  <2>1. <<"servers", "recurring", "version">> \in Seq(Name)
    BY <1>e
  <2>2. /\ Len(tail) = 3
        /\ tail[1] = "servers" /\ tail[2] = "recurring" /\ tail[3] = "version"
    BY <1>5
  <2> QED
    BY <1>5, <2>1, <2>2
<1>6. PICK front : front = head \o JobStates
  OBVIOUS
<1>c. Calls = front \o tail
  BY <1>4, <1>5, <1>6, Zenon DEF Calls
<1>f. /\ front \in Seq(Name) /\ Len(front) = 1 + N
      /\ front[1] = "queues"
      /\ \A i \in 1..N : front[1 + i] = JobStates[i]
  <2>1. /\ front \in Seq(Name) /\ Len(front) = Len(head) + Len(JobStates)
        /\ \A i \in 1..Len(head) : front[i] = head[i]
        /\ \A i \in 1..Len(JobStates) : front[Len(head) + i] = JobStates[i]
    BY <1>6, <1>h, <1>s, Joined
  <2> QED
    BY <1>1, <1>h, <2>1
<1> HIDE DEF N
<1>7. /\ Calls \in Seq(Name) /\ Len(Calls) = 1 + N + 3
      /\ \A i \in 1..(1 + N) : Calls[i] = front[i]
      /\ \A i \in 1..3 : Calls[1 + N + i] = tail[i]
  <2>1. /\ Calls \in Seq(Name) /\ Len(Calls) = Len(front) + Len(tail)
        /\ \A i \in 1..Len(front) : Calls[i] = front[i]
        /\ \A i \in 1..Len(tail) : Calls[Len(front) + i] = tail[i]
    BY <1>c, <1>f, <1>t, Joined
  <2> QED
    BY <1>1, <1>f, <1>t, <2>1
<1>8. /\ Calls[1] = "queues"
      /\ \A i \in 1..N : Calls[i + 1] = JobStates[i]
      /\ Calls[N + 2] = "servers" /\ Calls[N + 3] = "recurring" /\ Calls[N + 4] = "version"
  <2>1. \A i \in 1..N : /\ i + 1 \in 1..(1 + N) /\ i + 1 = 1 + i
    BY <1>1
  <2>2. \A i \in 1..N : Calls[i + 1] = JobStates[i]
    BY <1>f, <1>7, <2>1
  <2>3. 1 \in 1..(1 + N) /\ N + 2 = 1 + N + 1 /\ N + 3 = 1 + N + 2 /\ N + 4 = 1 + N + 3
    BY <1>1
  <2> QED
    BY <1>f, <1>t, <1>7, <2>2, <2>3
<1>9. ASSUME NEW i \in 1..(N + 4)
      PROVE  i = 1 \/ i - 1 \in 1..N \/ i = N + 2 \/ i = N + 3 \/ i = N + 4
  BY <1>1
<1>10. ASSUME NEW i \in 1..(N + 4), i - 1 \in 1..N
       PROVE  Calls[i] = JobStates[i - 1]
  <2>1. (i - 1) + 1 = i
    BY <1>1
  <2> QED
    BY <1>8, <1>10, <2>1
<1>11. ASSUME NEW i \in 1..(N + 4), NEW j \in 1..(N + 4), Calls[i] = Calls[j]
       PROVE  i = j
  <2>1. CASE i - 1 \in 1..N /\ j - 1 \in 1..N
    <3>1. i - 1 = j - 1
      BY <1>1, <1>10, <1>11, <2>1
    <3> QED
      BY <1>1, <3>1
  <2>2. CASE i - 1 \in 1..N /\ j - 1 \notin 1..N
    <3>1. Calls[j] \in {"queues", "servers", "recurring", "version"}
      BY <1>8, <1>9, <2>2
    <3> QED
      BY <1>3, <1>10, <1>11, <2>2, <3>1
  <2>3. CASE i - 1 \notin 1..N /\ j - 1 \in 1..N
    <3>1. Calls[i] \in {"queues", "servers", "recurring", "version"}
      BY <1>8, <1>9, <2>3
    <3> QED
      BY <1>3, <1>10, <1>11, <2>3, <3>1
  <2>4. CASE i - 1 \notin 1..N /\ j - 1 \notin 1..N
    BY <1>8, <1>9, <1>11, <2>4
  <2> QED
    BY <2>1, <2>2, <2>3, <2>4
<1>12. ASSUME NEW i \in 1..(N + 4) PROVE Calls[i] \in Kind \union {"version"}
  BY <1>2, <1>8, <1>9, <1>10 DEF Kind
<1>13. ASSUME NEW k \in Kind PROVE \E i \in 1..(N + 4) : Calls[i] = k
  <2>1. CASE k \in JobState
    <3>1. PICK i \in 1..N : JobStates[i] = k
      BY <1>2, <2>1
    <3>2. i + 1 \in 1..(N + 4)
      BY <1>1
    <3> QED
      BY <1>8, <3>1, <3>2
  <2>2. CASE k \in {"queues", "servers", "recurring"}
    <3>1. 1 \in 1..(N + 4) /\ N + 2 \in 1..(N + 4) /\ N + 3 \in 1..(N + 4)
      BY <1>1
    <3> QED
      BY <1>8, <2>2, <3>1
  <2> QED
    BY <2>1, <2>2 DEF Kind
<1>14. "version" \notin Kind
  BY SummaryAssumption DEF Kind
<1> QED
  BY <1>1, <1>7, <1>11, <1>12, <1>13, <1>14

-----------------------------------------------------------------------------
(* Counting jobs.                                                          *)

Counts(c) == \A k \in JobState : c[k] \in 0..MaxHeld

\* There are finitely many jobs.
LEMMA JobsAreFinite ==
    ASSUME NEW c
    PROVE  IsFiniteSet(JobsOf(c)) /\ Jobs(c) \in Nat
<1>1. JobStates \in [1..Len(JobStates) -> JobState] /\ Len(JobStates) \in Nat
  BY SummaryAssumption DEF JobState, ToSet
<1>2. JobStates \in Surjection(1..Len(JobStates), JobState)
  BY <1>1 DEF Surjection, JobState, ToSet
<1>3. IsFiniteSet(JobState)
  BY <1>1, <1>2, FS_Interval, FS_Surjection
<1>4. IsFiniteSet(1..MaxHeld)
  BY SummaryAssumption, FS_Interval
<1>5. IsFiniteSet(JobState \X (1..MaxHeld))
  BY <1>3, <1>4, FS_Product
<1>6. JobsOf(c) \in SUBSET (JobState \X (1..MaxHeld))
  BY DEF JobsOf
<1>7. IsFiniteSet(JobsOf(c))
  BY <1>5, <1>6, FS_Subset
<1> QED
  BY <1>7, FS_CardinalityType DEF Jobs

\* The jobs are the same if each state has as many.
LEMMA SameJobs ==
    ASSUME NEW c, NEW d, \A k \in JobState : c[k] = d[k]
    PROVE  Jobs(c) = Jobs(d)
<1>1. \A job \in JobState \X (1..MaxHeld) : c[job[1]] = d[job[1]]
  OBVIOUS
<1>2. JobsOf(c) = JobsOf(d)
  BY <1>1 DEF JobsOf
<1> QED
  BY <1>2 DEF Jobs

\* One more in one state is one more altogether.
LEMMA OneMore ==
    ASSUME NEW c, NEW d, Counts(c), Counts(d), NEW k \in JobState, d[k] = c[k] + 1,
           \A l \in JobState : l # k => c[l] = d[l]
    PROVE  Jobs(d) = Jobs(c) + 1
<1> DEFINE new == <<k, d[k]>>
<1>0. MaxHeld \in Nat /\ c[k] \in 0..MaxHeld /\ d[k] \in 1..MaxHeld
  BY SummaryAssumption DEF Counts
<1>1. new \in JobsOf(d) /\ new \notin JobsOf(c)
  BY <1>0 DEF JobsOf
<1>2. ASSUME NEW job \in JobState \X (1..MaxHeld)
      PROVE  job[2] <= d[job[1]] <=> (job[2] <= c[job[1]] \/ job = new)
  <2>1. PICK l \in JobState, i \in 1..MaxHeld : job = <<l, i>>
    OBVIOUS
  <2>2. CASE l = k
    <3>1. i <= d[k] <=> (i <= c[k] \/ i = d[k])
      BY <1>0
    <3> QED
      BY <2>1, <2>2, <3>1
  <2>3. CASE l # k
    BY <2>1, <2>3
  <2> QED
    BY <2>2, <2>3
<1>3. JobsOf(d) = JobsOf(c) \union {new}
  BY <1>1, <1>2 DEF JobsOf
<1> HIDE DEF new
<1> QED
  BY <1>1, <1>3, JobsAreFinite, FS_AddElement DEF Jobs

\* One more of a kind is one job more if jobs are meant, and is counted if its call is
\* still to come.
LEMMA OneOfAKind ==
    ASSUME TypeOK, NEW k \in Kind,
           NEW c \in [Kind -> 0..MaxHeld], NEW d \in [Kind -> 0..MaxHeld], d[k] = c[k] + 1,
           \A l \in Kind : l # k => c[l] = d[l]
    PROVE  /\ Jobs(d) = Jobs(c) + (IF k \in JobState THEN 1 ELSE 0)
           /\ Jobs(MixedWith(d)) =
                Jobs(MixedWith(c)) + (IF k \in JobState /\ ~Made(k) THEN 1 ELSE 0)
<1>0. /\ JobState \subseteq Kind /\ summary \in [Kind -> 0..MaxHeld]
      /\ Jobs(c) \in Nat /\ Jobs(MixedWith(c)) \in Nat
  BY JobsAreFinite DEF Kind, TypeOK
<1> DEFINE mc == MixedWith(c)
           md == MixedWith(d)
<1>1. \A l \in JobState : /\ mc[l] = IF Made(l) THEN summary[l] ELSE c[l]
                          /\ md[l] = IF Made(l) THEN summary[l] ELSE d[l]
  BY DEF MixedWith
<1>2. Counts(c) /\ Counts(d)
  BY <1>0 DEF Counts
<1> HIDE DEF mc, md
<1>3. Counts(mc) /\ Counts(md)
  BY <1>0, <1>1 DEF Counts
<1>4. Jobs(d) = Jobs(c) + (IF k \in JobState THEN 1 ELSE 0)
  <2>1. CASE k \in JobState
    BY <1>0, <1>2, <2>1, OneMore
  <2>2. CASE k \notin JobState
    BY <1>0, <2>2, SameJobs
  <2> QED
    BY <2>1, <2>2
<1>5. Jobs(md) = Jobs(mc) + (IF k \in JobState /\ ~Made(k) THEN 1 ELSE 0)
  <2>1. CASE k \in JobState /\ ~Made(k)
    <3>1. md[k] = mc[k] + 1 /\ \A l \in JobState : l # k => mc[l] = md[l]
      BY <1>0, <1>1, <2>1
    <3> QED
      BY <1>3, <2>1, <3>1, OneMore
  <2>2. CASE ~(k \in JobState /\ ~Made(k))
    <3>1. \A l \in JobState : mc[l] = md[l]
      BY <1>0, <1>1, <2>2
    <3>2. Jobs(mc) = Jobs(md) /\ Jobs(mc) \in Nat
      BY <3>1, SameJobs, JobsAreFinite
    <3> QED
      BY <2>2, <3>2
  <2> QED
    BY <2>1, <2>2
<1> QED
  BY <1>4, <1>5 DEF mc, md

-----------------------------------------------------------------------------
(* The steps.                                                              *)

LEMMA OInvInit == Init => OInv
<1> SUFFICES ASSUME Init PROVE OInv
  OBVIOUS
<1>1. TypeOK
  <2>1. held \in [Kind -> 0..MaxHeld] /\ moves \in 0..MaxMoves
    BY SummaryAssumption, HeldAssumption DEF Init
  <2>2. next \in 1..(Len(Calls) + 1)
    BY CallList DEF Init
  <2>3. summary \in [Kind -> 0..MaxHeld] /\ was \in [Kind -> SUBSET (0..MaxHeld)]
    BY SummaryAssumption DEF Init, Zero
  <2> QED
    BY <2>1, <2>2, <2>3 DEF Init, TypeOK
<1>2. \A k \in Kind : ~Made(k) /\ summary[k] = 0
  BY DEF Init, Made, Zero
<1>3. Jobs(Mixed) = Jobs(held)
  <2>1. \A k \in JobState : Mixed[k] = held[k]
    BY <1>2 DEF Mixed, MixedWith, Kind
  <2> QED
    BY <2>1, SameJobs
<1>4. CloseSoFar
  BY <1>3, JobsAreFinite DEF CloseSoFar, Init
<1> QED
  BY <1>1, <1>2, <1>4 DEF Init, OInv

\* A change in GFire costs one at most.
LEMMA ChangeKeeps ==
    ASSUME OInv, NEW new \in [Kind -> 0..MaxHeld], Change(new),
           Jobs(MixedWith(new)) + Jobs(held) <= Jobs(Mixed) + Jobs(new) + 1,
           Jobs(Mixed) + Jobs(new) <= Jobs(MixedWith(new)) + Jobs(held) + 1
    PROVE  OInv'
<1>t. TypeOK /\ MaxMoves \in Nat /\ moves \in Nat
  BY SummaryAssumption DEF OInv, TypeOK
<1>c. /\ pc = "calling" /\ moves < MaxMoves /\ held' = new /\ moves' = moves + 1
      /\ was' = [k \in Kind |-> was[k] \union {new[k]}]
      /\ UNCHANGED <<pc, next, summary, cancelled, failed, hidden>>
  BY DEF Change
<1>1. TypeOK'
  BY <1>t, <1>c DEF TypeOK
<1>2. ASSUME NEW k \in Kind
      PROVE  /\ held'[k] \in was'[k] /\ was[k] \subseteq was'[k]
             /\ Made(k)' <=> Made(k)
  BY <1>c DEF Made
<1>3. ASSUME NEW k \in Kind, TrueOf(k) PROVE TrueOf(k)'
  BY <1>c, <1>2, <1>3 DEF TrueOf
<1>4. ASSUME NEW k \in Kind
      PROVE  /\ pc' # "idle" => held'[k] \in was'[k]
             /\ IF Made(k)' THEN TrueOf(k)' ELSE summary'[k] = 0
  BY <1>c, <1>2, <1>3 DEF OInv
<1>5. Mixed' = MixedWith(new)
  BY <1>c DEF Mixed, MixedWith, Made
<1>6. /\ Jobs(Mixed) \in Nat /\ Jobs(held) \in Nat
      /\ Jobs(MixedWith(new)) \in Nat /\ Jobs(new) \in Nat
  BY JobsAreFinite
<1>7. CloseSoFar'
  <2> SUFFICES ASSUME failed' = {}, \A k \in JobState : \A n \in was'[k] : n <= PageSize
               PROVE  /\ Jobs(MixedWith(new)) <= Jobs(new) + (moves + 1)
                      /\ Jobs(new) <= Jobs(MixedWith(new)) + (moves + 1)
    BY <1>c, <1>5, Zenon DEF CloseSoFar, Jobs, JobsOf
  <2>1. failed = {} /\ \A k \in JobState : \A n \in was[k] : n <= PageSize
    BY <1>c, <1>2 DEF Kind
  <2>2. /\ Jobs(Mixed) <= Jobs(held) + moves
        /\ Jobs(held) <= Jobs(Mixed) + moves
    BY <2>1 DEF OInv, CloseSoFar
  <2> QED
    BY <1>t, <1>6, <2>2
<1> QED
  BY <1>1, <1>4, <1>7, <1>c DEF OInv

\* GFire at work keeps the invariant.
LEMMA GFireKeeps ==
    ASSUME OInv, Move \/ Grow \/ Shrink
    PROVE  OInv'
<1>t. /\ TypeOK /\ held \in [Kind -> 0..MaxHeld] /\ MaxHeld \in Nat
      /\ JobState \subseteq Kind
      /\ Jobs(Mixed) \in Nat /\ Jobs(held) \in Nat
  BY SummaryAssumption, JobsAreFinite DEF OInv, TypeOK, Kind
<1>1. CASE Move
  <2>1. PICK a \in JobState, b \in JobState :
            /\ a # b /\ held[a] > 0 /\ held[b] < MaxHeld
            /\ Change([held EXCEPT ![a] = @ - 1, ![b] = @ + 1])
    BY <1>1 DEF Move
  <2>2. PICK less : less = [held EXCEPT ![a] = @ - 1]
    OBVIOUS
  <2>3. PICK new : new = [held EXCEPT ![a] = @ - 1, ![b] = @ + 1]
    OBVIOUS
  <2>4. /\ less \in [Kind -> 0..MaxHeld] /\ held[a] = less[a] + 1
        /\ \A l \in Kind : l # a => less[l] = held[l]
    BY <1>t, <2>1, <2>2
  <2>5. /\ new \in [Kind -> 0..MaxHeld] /\ new[b] = less[b] + 1
        /\ \A l \in Kind : l # b => less[l] = new[l]
    BY <1>t, <2>1, <2>2, <2>3
  <2>6. /\ Jobs(less) \in Nat /\ Jobs(MixedWith(less)) \in Nat
        /\ Jobs(new) \in Nat /\ Jobs(MixedWith(new)) \in Nat
    BY JobsAreFinite
  <2>7. /\ Jobs(held) = Jobs(less) + 1
        /\ Jobs(Mixed) = Jobs(MixedWith(less)) + (IF ~Made(a) THEN 1 ELSE 0)
    BY <1>t, <2>1, <2>4, OneOfAKind DEF Mixed
  <2>8. /\ Jobs(new) = Jobs(less) + 1
        /\ Jobs(MixedWith(new)) = Jobs(MixedWith(less)) + (IF ~Made(b) THEN 1 ELSE 0)
    BY <1>t, <2>1, <2>4, <2>5, OneOfAKind
  <2>9. /\ Jobs(MixedWith(new)) + Jobs(held) <= Jobs(Mixed) + Jobs(new) + 1
        /\ Jobs(Mixed) + Jobs(new) <= Jobs(MixedWith(new)) + Jobs(held) + 1
    BY <1>t, <2>6, <2>7, <2>8
  <2>10. Change(new)
    BY <2>1, <2>3
  <2> QED
    BY <2>5, <2>9, <2>10, ChangeKeeps
<1>2. CASE Grow
  <2>1. PICK k \in Kind : held[k] < MaxHeld /\ Change([held EXCEPT ![k] = @ + 1])
    BY <1>2 DEF Grow
  <2>2. PICK new : new = [held EXCEPT ![k] = @ + 1]
    OBVIOUS
  <2>3. /\ new \in [Kind -> 0..MaxHeld] /\ new[k] = held[k] + 1
        /\ \A l \in Kind : l # k => held[l] = new[l]
    BY <1>t, <2>1, <2>2
  <2>4. Jobs(new) \in Nat /\ Jobs(MixedWith(new)) \in Nat
    BY JobsAreFinite
  <2>5. /\ Jobs(new) = Jobs(held) + (IF k \in JobState THEN 1 ELSE 0)
        /\ Jobs(MixedWith(new)) =
             Jobs(Mixed) + (IF k \in JobState /\ ~Made(k) THEN 1 ELSE 0)
    BY <1>t, <2>3, OneOfAKind DEF Mixed
  <2>6. /\ Jobs(MixedWith(new)) + Jobs(held) <= Jobs(Mixed) + Jobs(new) + 1
        /\ Jobs(Mixed) + Jobs(new) <= Jobs(MixedWith(new)) + Jobs(held) + 1
    BY <1>t, <2>4, <2>5
  <2>7. Change(new)
    BY <2>1, <2>2
  <2> QED
    BY <2>3, <2>6, <2>7, ChangeKeeps
<1>3. CASE Shrink
  <2>1. PICK k \in Kind : held[k] > 0 /\ Change([held EXCEPT ![k] = @ - 1])
    BY <1>3 DEF Shrink
  <2>2. PICK new : new = [held EXCEPT ![k] = @ - 1]
    OBVIOUS
  <2>3. /\ new \in [Kind -> 0..MaxHeld] /\ held[k] = new[k] + 1
        /\ \A l \in Kind : l # k => new[l] = held[l]
    BY <1>t, <2>1, <2>2
  <2>4. Jobs(new) \in Nat /\ Jobs(MixedWith(new)) \in Nat
    BY JobsAreFinite
  <2>5. /\ Jobs(held) = Jobs(new) + (IF k \in JobState THEN 1 ELSE 0)
        /\ Jobs(Mixed) =
             Jobs(MixedWith(new)) + (IF k \in JobState /\ ~Made(k) THEN 1 ELSE 0)
    BY <1>t, <2>3, OneOfAKind DEF Mixed
  <2>6. /\ Jobs(MixedWith(new)) + Jobs(held) <= Jobs(Mixed) + Jobs(new) + 1
        /\ Jobs(Mixed) + Jobs(new) <= Jobs(MixedWith(new)) + Jobs(held) + 1
    BY <1>t, <2>4, <2>5
  <2>7. Change(new)
    BY <2>1, <2>2
  <2> QED
    BY <2>3, <2>6, <2>7, ChangeKeeps
<1> QED
  BY <1>1, <1>2, <1>3

\* A call that was made is one more behind us, and it was not made before.
LEMMA OneCall ==
    ASSUME TypeOK, next <= Len(Calls), next' = next + 1
    PROVE  /\ next \in 1..Len(Calls) /\ Calls[next] \in Kind \union {"version"}
           /\ next' \in 1..(Len(Calls) + 1)
           /\ ~Made(Calls[next])
           /\ \A k \in Kind : Made(k)' <=> (Made(k) \/ k = Calls[next])
<1>1. next \in 1..Len(Calls) /\ next' \in 1..(Len(Calls) + 1) /\ Len(Calls) \in Nat
  BY CallList DEF TypeOK
<1>2. ~Made(Calls[next])
  <2> SUFFICES ASSUME NEW i \in 1..(next - 1), Calls[i] = Calls[next] PROVE FALSE
    BY DEF Made
  <2>1. i \in 1..Len(Calls) /\ i # next
    BY <1>1
  <2> QED
    BY <1>1, <2>1, CallList
<1>3. 1..(next' - 1) = (1..(next - 1)) \union {next}
  BY <1>1
<1>4. \A k \in Kind : Made(k)' <=> (Made(k) \/ k = Calls[next])
  BY <1>3 DEF Made
<1> QED
  BY <1>1, <1>2, <1>4, CallList

\* A request begins, and nothing was said yet.
LEMMA StartKeeps ==
    ASSUME OInv, Start
    PROVE  OInv'
<1>1. TypeOK /\ next = 1 /\ held \in [Kind -> 0..MaxHeld]
  BY DEF OInv, Start, TypeOK
<1>2. TypeOK'
  BY <1>1 DEF Start, TypeOK
<1>3. /\ \A k \in Kind : ~Made(k)' /\ held'[k] \in was'[k] /\ summary'[k] = summary[k]
      /\ \A k \in Kind : ~Made(k) /\ summary[k] = 0
  BY <1>1 DEF Start, Made, OInv
<1>4. Jobs(Mixed)' = Jobs(held)'
  <2>1. PICK m, h : m = Mixed' /\ h = held'
    OBVIOUS
  <2>2. \A k \in JobState : m[k] = h[k]
    BY <1>3, <2>1 DEF Mixed, MixedWith, Kind
  <2>3. Jobs(m) = Jobs(h)
    BY <2>2, SameJobs
  <2> QED
    BY <2>1, <2>3 DEF Jobs, JobsOf
<1>5. Jobs(held)' \in Nat /\ moves' \in Nat
  <2>1. PICK h : h = held'
    OBVIOUS
  <2>2. Jobs(h) \in Nat
    BY JobsAreFinite
  <2> QED
    BY <1>2, <2>1, <2>2, SummaryAssumption DEF Jobs, JobsOf, TypeOK
<1>6. CloseSoFar'
  BY <1>4, <1>5 DEF CloseSoFar
<1> QED
  BY <1>2, <1>3, <1>6 DEF Start, OInv

\* A call that succeeds says what GFire has at that instant.
LEMMA CallKeeps ==
    ASSUME OInv, Call
    PROVE  OInv'
<1>c. /\ pc = "calling" /\ next <= Len(Calls) /\ next' = next + 1 /\ TypeOK
      /\ UNCHANGED <<held, moves, pc, cancelled, was, failed, hidden>>
  BY DEF Call, MakeCall, OInv
<1>1. /\ next \in 1..Len(Calls) /\ Calls[next] \in Kind \union {"version"}
      /\ next' \in 1..(Len(Calls) + 1)
      /\ ~Made(Calls[next])
      /\ \A k \in Kind : Made(k)' <=> (Made(k) \/ k = Calls[next])
  BY <1>c, OneCall
<1>k. "version" \notin Kind /\ JobState \subseteq Kind /\ Len(Calls) \in Nat
  BY CallList DEF Kind
<1>2. /\ summary' \in [Kind -> 0..MaxHeld]
      /\ \A k \in Kind : k # Calls[next] => summary'[k] = summary[k]
      /\ Calls[next] \in Kind =>
           \/ summary'[Calls[next]] = held[Calls[next]]
           \/ /\ Calls[next] \in JobState /\ summary'[Calls[next]] = PageSize
              /\ held[Calls[next]] > PageSize
  <2>1. summary \in [Kind -> 0..MaxHeld]
    BY <1>c DEF TypeOK
  <2>2. CASE Calls[next] = "version"
    BY <1>k, <2>1, <2>2 DEF Call
  <2>3. CASE Calls[next] \in Kind
    <3>1. PICK n \in Results(Calls[next]) : summary' = [summary EXCEPT ![Calls[next]] = n]
      BY <1>k, <2>3 DEF Call
    <3>2. PICK k \in Kind : k = Calls[next]
      BY <2>3
    <3>3. /\ n = held[k] \/ (k \in JobState /\ n = PageSize /\ held[k] > PageSize)
          /\ n \in 0..MaxHeld
      BY <1>c, <3>1, <3>2, ResultIs
    <3> QED
      BY <2>1, <3>1, <3>2, <3>3
  <2> QED
    BY <1>1, <2>2, <2>3
<1>3. TypeOK'
  BY <1>c, <1>1, <1>2 DEF TypeOK
<1>4. ASSUME NEW k \in Kind
      PROVE  /\ held'[k] \in was'[k]
             /\ IF Made(k)' THEN TrueOf(k)' ELSE summary'[k] = 0
  <2>1. held[k] \in was[k] /\ (IF Made(k) THEN TrueOf(k) ELSE summary[k] = 0)
    BY <1>c DEF OInv
  <2>2. CASE k = Calls[next]
    BY <1>c, <1>1, <1>2, <2>1, <2>2 DEF TrueOf
  <2>3. CASE k # Calls[next]
    BY <1>c, <1>1, <1>2, <2>1, <2>3 DEF TrueOf
  <2> QED
    BY <2>2, <2>3, <1>c, <2>1
<1>5. ASSUME failed = {}, \A k \in JobState : \A n \in was[k] : n <= PageSize
      PROVE  Jobs(Mixed)' = Jobs(Mixed)
  <2>1. PICK m : m = Mixed'
    OBVIOUS
  <2>2. ASSUME NEW k \in JobState PROVE m[k] = Mixed[k]
    <3>0. /\ m[k] = IF Made(k)' THEN summary'[k] ELSE held[k]
          /\ Mixed[k] = IF Made(k) THEN summary[k] ELSE held[k]
      BY <1>c, <2>1 DEF Mixed, MixedWith
    <3>1. CASE k = Calls[next]
      <4>1. held[k] \in was[k] /\ held[k] \in Nat /\ PageSize \in Nat
        BY <1>c, <1>k, SummaryAssumption DEF OInv, TypeOK
      <4>2. ~(held[k] > PageSize)
        BY <1>5, <4>1
      <4>3. summary'[k] = held[k]
        BY <1>k, <1>2, <3>1, <4>2
      <4> QED
        BY <1>1, <1>k, <3>0, <3>1, <4>3
    <3>2. CASE k # Calls[next]
      BY <1>1, <1>2, <1>k, <3>0, <3>2
    <3> QED
      BY <3>1, <3>2
  <2>3. Jobs(m) = Jobs(Mixed)
    BY <2>2, SameJobs
  <2> QED
    BY <2>1, <2>3 DEF Jobs, JobsOf
<1>6. CloseSoFar'
  <2> SUFFICES ASSUME failed' = {}, \A k \in JobState : \A n \in was'[k] : n <= PageSize
               PROVE  Jobs(Mixed)' <= Jobs(held)' + moves' /\ Jobs(held)' <= Jobs(Mixed)' + moves'
    BY DEF CloseSoFar
  <2>1. Jobs(held)' = Jobs(held)
    BY <1>c DEF Jobs, JobsOf
  <2>2. CloseSoFar
    BY DEF OInv
  <2> QED
    BY <1>c, <1>5, <2>1, <2>2 DEF CloseSoFar
<1> QED
  BY <1>c, <1>1, <1>3, <1>4, <1>6 DEF OInv

\* A call that fails leaves its zero.
LEMMA FailKeeps ==
    ASSUME OInv, CallFails
    PROVE  OInv'
<1>c. /\ pc = "calling" /\ next <= Len(Calls) /\ next' = next + 1 /\ TypeOK
      /\ failed' = failed \union {Calls[next]}
      /\ UNCHANGED <<held, moves, pc, summary, cancelled, was, hidden>>
  BY DEF CallFails, MakeCall, OInv
<1>1. /\ next \in 1..Len(Calls) /\ Calls[next] \in Kind \union {"version"}
      /\ next' \in 1..(Len(Calls) + 1)
      /\ ~Made(Calls[next])
      /\ \A k \in Kind : Made(k)' <=> (Made(k) \/ k = Calls[next])
  BY <1>c, OneCall
<1>2. TypeOK'
  BY <1>c, <1>1 DEF TypeOK
<1>3. ASSUME NEW k \in Kind
      PROVE  /\ held'[k] \in was'[k]
             /\ IF Made(k)' THEN TrueOf(k)' ELSE summary'[k] = 0
  <2>1. held[k] \in was[k] /\ (IF Made(k) THEN TrueOf(k) ELSE summary[k] = 0)
    BY <1>c DEF OInv
  <2>2. CASE k = Calls[next]
    BY <1>c, <1>1, <2>1, <2>2 DEF TrueOf
  <2>3. CASE k # Calls[next]
    BY <1>c, <1>1, <2>1, <2>3 DEF TrueOf
  <2> QED
    BY <2>2, <2>3
<1>4. CloseSoFar'
  BY <1>c DEF CloseSoFar
<1> QED
  BY <1>c, <1>1, <1>2, <1>3, <1>4, CallList DEF OInv

\* A call that is told a hidden number leaves its zero, too.
LEMMA HiddenKeeps ==
    ASSUME OInv, CallHidden
    PROVE  OInv'
<1>c. /\ pc = "calling" /\ next <= Len(Calls) /\ next' = next + 1 /\ TypeOK
      /\ Calls[next] \in {"servers", "recurring"}
      /\ hidden' = hidden \union {Calls[next]}
      /\ UNCHANGED <<held, moves, pc, cancelled, was, failed>>
  BY DEF CallHidden, MakeCall, OInv
<1>1. /\ next \in 1..Len(Calls) /\ Calls[next] \in Kind
      /\ next' \in 1..(Len(Calls) + 1)
      /\ ~Made(Calls[next])
      /\ \A k \in Kind : Made(k)' <=> (Made(k) \/ k = Calls[next])
  BY <1>c, OneCall DEF Kind
<1>2. summary' = summary
  <2>1. PICK call \in Kind : call = Calls[next]
    BY <1>1
  <2>2. PICK r \in HidingReplies(NamesFor(call), held[call]) :
            summary' = [summary EXCEPT ![call] = decodeNamedListCount(r, NamesFor(call))]
    BY <2>1 DEF CallHidden
  <2>3. NamesFor(call) \in NameLists /\ held[call] \in Nat
    BY <1>c, SummaryAssumption DEF NamesFor, NameLists, TypeOK
  <2>4. decodeNamedListCount(r, NamesFor(call)) = 0
    BY <2>2, <2>3, HiddenIsZero
  <2>5. summary[call] = 0 /\ summary \in [Kind -> 0..MaxHeld]
    BY <1>1, <1>c, <2>1 DEF OInv, TypeOK
  <2> QED
    BY <2>2, <2>4, <2>5
<1>3. TypeOK'
  BY <1>c, <1>1, <1>2 DEF TypeOK
<1>4. ASSUME NEW k \in Kind
      PROVE  /\ held'[k] \in was'[k]
             /\ IF Made(k)' THEN TrueOf(k)' ELSE summary'[k] = 0
  <2>1. held[k] \in was[k] /\ (IF Made(k) THEN TrueOf(k) ELSE summary[k] = 0)
    BY <1>c DEF OInv
  <2>2. CASE k = Calls[next]
    BY <1>c, <1>1, <1>2, <2>1, <2>2 DEF TrueOf
  <2>3. CASE k # Calls[next]
    BY <1>c, <1>1, <1>2, <2>1, <2>3 DEF TrueOf
  <2> QED
    BY <2>2, <2>3
<1>5. CloseSoFar'
  <2>1. \A k \in JobState : Made(k)' <=> Made(k)
    BY <1>c, <1>1, SummaryAssumption DEF Kind
  <2>2. Mixed' = Mixed
    BY <1>c, <1>2, <2>1 DEF Mixed, MixedWith
  <2>3. CloseSoFar
    BY DEF OInv
  <2> QED
    BY <1>c, <2>2, <2>3 DEF CloseSoFar, Jobs, JobsOf
<1> QED
  BY <1>c, <1>1, <1>3, <1>4, <1>5, CallList DEF OInv

\* The answer, the browser that leaves, and doing nothing.
LEMMA OthersKeep ==
    ASSUME OInv, Answer \/ Cancel \/ UNCHANGED vars
    PROVE  OInv'
<1>1. /\ UNCHANGED <<held, moves, next, summary, was, failed, hidden>> /\ TypeOK
      /\ pc' \in {pc, "done"} /\ cancelled' \in {TRUE, cancelled}
      /\ pc' # pc => pc = "calling" /\ next > Len(Calls)
  BY DEF Answer, Cancel, vars, OInv
<1>2. TypeOK'
  BY <1>1 DEF TypeOK
<1>3. \A k \in Kind : /\ Made(k)' <=> Made(k)
                      /\ TrueOf(k)' <=> TrueOf(k)
  BY <1>1 DEF Made, TrueOf
<1>4. CloseSoFar' <=> CloseSoFar
  BY <1>1 DEF CloseSoFar, Jobs, JobsOf, Mixed, MixedWith, Made
<1>5. next \in 1..(Len(Calls) + 1) /\ Len(Calls) \in Nat
  BY <1>1, CallList DEF TypeOK
<1> QED
  BY <1>1, <1>2, <1>3, <1>4, <1>5 DEF OInv

LEMMA OInvAlways == Spec => []OInv
<1>1. OInv /\ [Next]_vars => OInv'
  BY GFireKeeps, StartKeeps, CallKeeps, HiddenKeeps, FailKeeps, OthersKeep DEF Next
<1> QED
  BY <1>1, OInvInit, PTL DEF Spec

-----------------------------------------------------------------------------
\* No number of an answer is greater than what GFire can hold, for any form of its
\* answers.
THEOREM SummaryTypeCorrect == Spec => []TypeOK
<1>1. OInv => TypeOK
  BY DEF OInv
<1> QED
  BY <1>1, OInvAlways, PTL

\* Whatever fails, and for any list, number, null and empty list in an answer, a number
\* that is told was true during the request, or is the zero of a failure or of a number
\* that an empty list hides, or a full page of more jobs.
THEOREM ToldNumbersWereTrue == Spec => []NumbersWereTrue
<1>1. OInv => NumbersWereTrue
  <2> SUFFICES ASSUME OInv, pc = "done", NEW k \in Kind PROVE TrueOf(k)
    BY DEF NumbersWereTrue, TrueOf
  <2>1. Made(k)
    BY CallList DEF OInv, Made
  <2> QED
    BY <2>1 DEF OInv
<1> QED
  BY <1>1, OInvAlways, PTL

\* However jobs move between the thirteen calls, and among however many states, the
\* jobs of the answer are those of GFire up to one for each change.
THEOREM JobsAreClose == Spec => []SumIsClose
<1>1. OInv => SumIsClose
  <2> SUFFICES ASSUME OInv, pc = "done", failed = {},
                      \A k \in JobState : \A n \in was[k] : n <= PageSize
               PROVE  /\ Jobs(summary) <= Jobs(held) + moves
                      /\ Jobs(held) <= Jobs(summary) + moves
    BY DEF SumIsClose
  <2>1. ASSUME NEW k \in JobState PROVE Mixed[k] = summary[k]
    <3>1. Made(k)
      BY CallList DEF OInv, Made, Kind
    <3> QED
      BY <3>1 DEF Mixed, MixedWith
  <2>2. Jobs(Mixed) = Jobs(summary)
    BY <2>1, SameJobs
  <2> QED
    BY <2>2 DEF OInv, CloseSoFar
<1> QED
  BY <1>1, OInvAlways, PTL
=============================================================================
