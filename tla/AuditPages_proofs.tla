-------------------------- MODULE AuditPages_proofs --------------------------
(* Theorems about reading the trail page by page, for any number of events,  *)
(* readers and arrivals, whatever the size of a page.                        *)
EXTENDS AuditPages, FiniteSetTheorems, TLAPS

\* The rows of a listing down to e.
Above(e) == {f \in Visible : f = e \/ Newer(f, e)}

\* The place of e in a listing of what is visible.
Rank(e) == Cardinality(Above(e))

\* Newest first, and no row twice.
Sorted(pages) == \A i, j \in DOMAIN pages : i < j => Newer(pages[i], pages[j])

\* What a reader has got so far.  The second conjunct carries the rest: rows only move
\* down, so a row that was there at the beginning and stands above the next page cannot
\* have been missed.
SoFar(pages, had) ==
    /\ had \subseteq Visible /\ ToSet(pages) \subseteq Visible
    /\ \A e \in had : Rank(e) <= Len(pages) => e \in ToSet(pages)
    /\ Len(pages) <= Cardinality(Visible)
    /\ Len(pages) <= Cardinality(ToSet(pages)) + Cardinality(Visible \ had)
    /\ Visible \ had = {} => Sorted(pages)

ReadSoFar(d) ==
    /\ SoFar(reader[d].pages, reader[d].had)
    /\ reader[d].pc = "done" => reader[d].had \subseteq ToSet(reader[d].pages)

\* The inductive invariant.
PInv == TypeOK /\ \A d \in Reader : ReadSoFar(d)

-----------------------------------------------------------------------------
(* The order of a listing.                                                 *)

\* Of two rows one is the newer one, and who is newer than a newer one is newer.
LEMMA NewerIsTotal ==
    ASSUME TypeOK, NEW e \in Event, NEW f \in Event
    PROVE  /\ e # f => (Newer(e, f) <=> ~Newer(f, e))
           /\ ~Newer(e, e)
<1>1. createdAt[e] \in Nat /\ createdAt[f] \in Nat
  BY PagesAssumption DEF TypeOK
<1> QED
  BY <1>1, PagesAssumption DEF Newer

\* Whatever is visible is an event, and there are finitely many.
LEMMA VisibleIsFinite ==
    /\ Visible \subseteq Event /\ IsFiniteSet(Visible) /\ Cardinality(Visible) \in Nat
    /\ \A S \in SUBSET Event : IsFiniteSet(S) /\ Cardinality(S) \in Nat
    /\ \A S \in SUBSET Event : \A T \in SUBSET S : Cardinality(T) <= Cardinality(S)
<1>1. \A S \in SUBSET Event : IsFiniteSet(S) /\ Cardinality(S) \in Nat
  BY PagesAssumption, FS_Subset, FS_CardinalityType
<1>2. \A S \in SUBSET Event : \A T \in SUBSET S : Cardinality(T) <= Cardinality(S)
  BY <1>1, FS_Subset
<1>3. Visible \in SUBSET Event
  BY DEF Visible
<1> QED
  BY <1>1, <1>2, <1>3

\* Elements that are numbered from 1 to n without repetition are n.
LEMMA Counted ==
    ASSUME NEW n \in Nat, NEW s, NEW T,
           \A i \in 1..n : s[i] \in T,
           \A x \in T : \E i \in 1..n : s[i] = x,
           \A i, j \in 1..n : s[i] = s[j] => i = j
    PROVE  IsFiniteSet(T) /\ Cardinality(T) = n
<1> DEFINE S == 1..n
           f == [i \in S |-> s[i]]
<1>1. IsFiniteSet(S) /\ Cardinality(S) = n
  BY FS_Interval
<1>2. f \in Bijection(S, T)
  BY DEF Bijection, Injection, Surjection, IsInjective
<1>3. ExistsBijection(S, T)
  BY <1>2 DEF ExistsBijection
<1> HIDE DEF S, f
<1> QED
  BY <1>1, <1>3, FS_Bijection

\* A listing has every visible row once, at its rank.
LEMMA Listing ==
    ASSUME TypeOK, NEW s \in Orderings(Visible)
    PROVE  /\ s \in Seq(Event) /\ Len(s) = Cardinality(Visible) /\ Len(s) \in Nat
           /\ DOMAIN s = 1..Len(s)
           /\ \A i, j \in 1..Len(s) : s[i] = s[j] => i = j
           /\ \A i, j \in 1..Len(s) : i < j => Newer(s[i], s[j])
           /\ \A i \in 1..Len(s) : s[i] \in Visible /\ Rank(s[i]) = i
           /\ \A e \in Visible : \E i \in 1..Len(s) : s[i] = e
<1> DEFINE N == Cardinality(Visible)
<1>1. /\ N \in Nat /\ IsFiniteSet(Visible) /\ Visible \subseteq Event
  BY VisibleIsFinite
<1>2. /\ s \in [1..N -> Visible]
      /\ \A i, j \in 1..N : i # j => s[i] # s[j]
      /\ \A i, j \in 1..N : i < j => Newer(s[i], s[j])
  BY DEF Orderings, SetToSeqs
<1> HIDE DEF N
<1>3. s \in Seq(Event) /\ Len(s) = N /\ DOMAIN s = 1..N
  BY <1>1, <1>2
<1>4. \A e \in Visible : \E i \in 1..N : s[i] = e
  <2>1. s \in Injection(1..N, Visible)
    BY <1>2 DEF Injection, IsInjective
  <2>2. IsFiniteSet(1..N) /\ Cardinality(1..N) = N
    BY <1>1, FS_Interval
  <2>3. s \in Surjection(1..N, Visible)
    BY <1>1, <2>1, <2>2, FS_Injection DEF N
  <2> QED
    BY <2>3 DEF Surjection
<1>5. ASSUME NEW i \in 1..N PROVE Rank(s[i]) = i
  <2>1. Above(s[i]) = {s[j] : j \in 1..i}
    <3>1. ASSUME NEW f \in Above(s[i]) PROVE f \in {s[j] : j \in 1..i}
      <4>1. PICK j \in 1..N : s[j] = f
        BY <1>4, <3>1 DEF Above
      <4>2. ~(i < j)
        <5>1. SUFFICES ASSUME i < j PROVE FALSE
          OBVIOUS
        <5>2. Newer(s[i], f) /\ s[i] \in Event /\ f \in Event
          BY <1>1, <1>2, <4>1, <5>1
        <5>3. f # s[i]
          BY <1>2, <4>1, <5>1
        <5> QED
          BY <3>1, <5>2, <5>3, NewerIsTotal DEF Above
      <4> QED
        BY <1>1, <4>1, <4>2
    <3>2. ASSUME NEW j \in 1..i PROVE s[j] \in Above(s[i])
      <4>1. j \in 1..N /\ (j = i \/ j < i)
        BY <1>1
      <4> QED
        BY <1>2, <4>1 DEF Above
    <3> QED
      BY <3>1, <3>2
  <2>2. \A j, k \in 1..i : s[j] = s[k] => j = k
    BY <1>1, <1>2
  <2>3. i \in Nat
    BY <1>1
  <2>4. /\ \A j \in 1..i : s[j] \in Above(s[i])
        /\ \A x \in Above(s[i]) : \E j \in 1..i : s[j] = x
    BY <2>1
  <2>5. Cardinality(Above(s[i])) = i
    BY <2>2, <2>3, <2>4, Counted
  <2> QED
    BY <2>5 DEF Rank
<1>6. Len(s) = Cardinality(Visible)
  BY <1>3 DEF N
<1>7. \A i \in 1..N : s[i] \in Visible /\ Rank(s[i]) = i
  BY <1>2, <1>5
<1>8. \A i, j \in 1..N : s[i] = s[j] => i = j
  BY <1>2
<1>9. N = Len(s)
  BY <1>3
<1> QED
  BY <1>1, <1>2, <1>3, <1>4, <1>6, <1>7, <1>8, <1>9

\* A page is the next rows of the listing, as many as asked for if there are so many.
LEMMA PageIsNext ==
    ASSUME NEW s \in Seq(Event), NEW n \in 0..Len(s), NEW limit \in Nat \ {0}
    PROVE  LET page == Page(s, limit, n)
           IN  /\ page \in Seq(Event) /\ Len(page) \in Nat /\ Len(page) <= limit
               /\ n + Len(page) <= Len(s)
               /\ Len(page) < limit => n + Len(page) = Len(s)
               /\ \A i \in 1..Len(page) : page[i] = s[n + i]
<1> DEFINE last == IF n + limit < Len(s) THEN n + limit ELSE Len(s)
           page == SubSeq(s, n + 1, last)
<1>1. Len(s) \in Nat /\ n \in Nat /\ n <= Len(s) /\ limit > 0 /\ n >= 0
  OBVIOUS
<1>2. Page(s, limit, n) = page
  <2>1. ~(limit <= 0) /\ ~(n < 0)
    BY <1>1
  <2> QED
    BY <2>1, Zenon DEF Page
<1>3. last \in Nat /\ n <= last /\ last <= Len(s) /\ last - n <= limit
      /\ (last - n < limit => last = Len(s))
  BY <1>1
<1> HIDE DEF last
<1>4. page = [i \in 1..(last - n) |-> s[n + i]]
  BY <1>1, <1>3
<1>5. \A i \in 1..(last - n) : n + i \in 1..Len(s) /\ s[n + i] \in Event
  BY <1>1, <1>3
<1>6. page \in Seq(Event) /\ Len(page) = last - n
  BY <1>1, <1>3, <1>4, <1>5
<1> QED
  BY <1>1, <1>2, <1>3, <1>4, <1>6

-----------------------------------------------------------------------------
(* One more page.                                                          *)

\* A sequence has no more elements than its length.
LEMMA NoMoreThanLength ==
    ASSUME NEW pages \in Seq(Event)
    PROVE  /\ ToSet(pages) \subseteq Event
           /\ Cardinality(ToSet(pages)) <= Len(pages)
<1> DEFINE S == 1..Len(pages)
           T == ToSet(pages)
<1>0. Len(pages) \in Nat
  OBVIOUS
<1>1. IsFiniteSet(S) /\ Cardinality(S) = Len(pages)
  BY <1>0, FS_Interval
<1>2. DOMAIN pages = S /\ pages \in [S -> Event]
  OBVIOUS
<1>3. T = {pages[i] : i \in S}
  BY <1>2 DEF ToSet
<1>4. pages \in Surjection(S, T)
  BY <1>2, <1>3 DEF Surjection
<1> HIDE DEF S, T
<1>5. Cardinality(T) <= Cardinality(S)
  BY <1>1, <1>4, FS_Surjection
<1> QED
  BY <1>0, <1>1, <1>2, <1>3, <1>5 DEF T

\* Putting one sequence behind another.
LEMMA Behind ==
    ASSUME NEW s \in Seq(Event), NEW t \in Seq(Event)
    PROVE  /\ s \o t \in Seq(Event) /\ Len(s \o t) = Len(s) + Len(t)
           /\ \A i \in 1..Len(s) : (s \o t)[i] = s[i]
           /\ \A i \in 1..Len(t) : (s \o t)[Len(s) + i] = t[i]
           /\ ToSet(s \o t) = ToSet(s) \union ToSet(t)
<1>1. /\ s \o t \in Seq(Event) /\ Len(s \o t) = Len(s) + Len(t)
      /\ Len(s) \in Nat /\ Len(t) \in Nat
      /\ \A i \in 1..Len(s) : (s \o t)[i] = s[i]
      /\ \A i \in 1..Len(t) : (s \o t)[Len(s) + i] = t[i]
  OBVIOUS
<1>2. /\ DOMAIN s = 1..Len(s) /\ DOMAIN t = 1..Len(t)
      /\ DOMAIN (s \o t) = 1..(Len(s) + Len(t))
  BY <1>1
<1>3. ASSUME NEW i \in 1..(Len(s) + Len(t)) PROVE (s \o t)[i] \in ToSet(s) \union ToSet(t)
  <2>1. CASE i <= Len(s)
    BY <1>1, <1>2, <2>1 DEF ToSet
  <2>2. CASE i > Len(s)
    <3>1. i - Len(s) \in 1..Len(t) /\ i = Len(s) + (i - Len(s))
      BY <1>1, <2>2
    <3>2. (s \o t)[i] = t[i - Len(s)]
      BY <1>1, <3>1
    <3> QED
      BY <1>2, <3>1, <3>2 DEF ToSet
  <2> QED
    BY <1>1, <2>1, <2>2
<1>4. ASSUME NEW i \in 1..Len(s) PROVE s[i] \in ToSet(s \o t)
  BY <1>1, <1>2 DEF ToSet
<1>5. ASSUME NEW i \in 1..Len(t) PROVE t[i] \in ToSet(s \o t)
  <2>1. Len(s) + i \in 1..(Len(s) + Len(t))
    BY <1>1
  <2> QED
    BY <1>1, <1>2, <2>1 DEF ToSet
<1>6. ToSet(s \o t) \subseteq ToSet(s) \union ToSet(t)
  BY <1>2, <1>3 DEF ToSet
<1>7. ToSet(s) \subseteq ToSet(s \o t)
  BY <1>2, <1>4 DEF ToSet
<1>8. ToSet(t) \subseteq ToSet(s \o t)
  BY <1>2, <1>5 DEF ToSet
<1> QED
  BY <1>1, <1>6, <1>7, <1>8

\* A page leaves no gap behind it, repeats at most as many rows as arrived, and is in
\* order behind the pages before it if none did.
LEMMA PageAdds ==
    ASSUME TypeOK, NEW s \in Orderings(Visible), NEW limit \in Nat \ {0},
           NEW pages \in Seq(Event), NEW had, SoFar(pages, had)
    PROVE  LET page == Page(s, limit, Len(pages))
           IN  /\ pages \o page \in Seq(Event)
               /\ SoFar(pages \o page, had)
               /\ Len(page) < limit => had \subseteq ToSet(pages \o page)
<1> DEFINE n    == Len(pages)
           page == Page(s, limit, n)
           m    == Len(page)
           new  == pages \o page
           D    == ToSet(pages)
           P    == ToSet(page)
           V    == Visible
           T    == {s[i] : i \in 1..n}
<1>s. /\ s \in Seq(Event) /\ Len(s) = Cardinality(V) /\ Len(s) \in Nat
      /\ \A i, j \in 1..Len(s) : s[i] = s[j] => i = j
      /\ \A i, j \in 1..Len(s) : i < j => Newer(s[i], s[j])
      /\ \A i \in 1..Len(s) : s[i] \in V /\ Rank(s[i]) = i
      /\ \A e \in V : \E i \in 1..Len(s) : s[i] = e
  BY Listing
<1>v. /\ V \subseteq Event /\ had \subseteq V /\ D \subseteq V
      /\ n \in Nat /\ n <= Len(s)
      /\ n <= Cardinality(D) + Cardinality(V \ had)
      /\ \A e \in had : Rank(e) <= n => e \in D
  BY <1>s, VisibleIsFinite DEF SoFar
<1>f. \A S \in SUBSET V : IsFiniteSet(S) /\ Cardinality(S) \in Nat
  BY <1>v, VisibleIsFinite
<1>p. /\ page \in Seq(Event) /\ m \in Nat /\ m <= limit /\ n + m <= Len(s)
      /\ m < limit => n + m = Len(s)
      /\ \A i \in 1..m : page[i] = s[n + i]
  <2>1. n \in 0..Len(s)
    BY <1>s, <1>v
  <2> HIDE DEF n
  <2> QED
    BY <1>s, <2>1, PageIsNext
<1> HIDE DEF page
<1>n. /\ new \in Seq(Event) /\ Len(new) = n + m /\ ToSet(new) = D \union P
      /\ \A i \in 1..n : new[i] = pages[i]
      /\ \A i \in 1..m : new[n + i] = s[n + i]
  BY <1>p, Behind
<1>d. DOMAIN new = 1..(n + m)
  BY <1>n
<1>i. /\ \A i \in 1..m : s[n + i] \in P
      /\ \A x \in P : \E i \in 1..m : s[n + i] = x
  <2>1. DOMAIN page = 1..m
    BY <1>p
  <2> QED
    BY <1>p, <2>1 DEF ToSet
<1>P. P \subseteq V
  BY <1>s, <1>v, <1>p, <1>i
<1> HIDE DEF n, m, V, new
\* The rows above the page, and the page itself, are as many as they should be.
<1>1. /\ T \subseteq V /\ Cardinality(T) = n
  <2>1. /\ \A i \in 1..n : s[i] \in T
        /\ \A x \in T : \E i \in 1..n : s[i] = x
        /\ \A i, j \in 1..n : s[i] = s[j] => i = j
    BY <1>s, <1>v
  <2>2. T \subseteq V
    BY <1>s, <1>v
  <2> HIDE DEF T
  <2> QED
    BY <1>v, <2>1, <2>2, Counted
<1>2. Cardinality(P) = m
  <2>1. /\ \A i \in 1..m : page[i] \in P
        /\ \A x \in P : \E i \in 1..m : page[i] = x
    BY <1>p, <1>i
  <2>2. ASSUME NEW i \in 1..m, NEW j \in 1..m, page[i] = page[j] PROVE i = j
    <3>1. /\ n + i \in 1..Len(s) /\ n + j \in 1..Len(s)
          /\ s[n + i] = s[n + j]
      BY <1>v, <1>p, <2>2
    <3>2. n + i = n + j
      BY <1>s, <3>1
    <3> QED
      BY <1>v, <1>p, <3>2
  <2> HIDE DEF P
  <2> QED
    BY <1>p, <2>1, <2>2, Counted
<1>3. T \intersect P = {}
  <2> SUFFICES ASSUME NEW i \in 1..n, NEW j \in 1..m, s[i] = s[n + j] PROVE FALSE
    BY <1>i
  <2>1. i \in 1..Len(s) /\ n + j \in 1..Len(s) /\ i # n + j
    BY <1>v, <1>p, <1>s
  <2> QED
    BY <1>s, <2>1
\* Those above the page were read before, or have arrived.
<1>4. T \subseteq (V \ had) \union (D \ P)
  <2> SUFFICES ASSUME NEW e \in T, e \in had PROVE e \in D \ P
    BY <1>1
  <2>1. PICK i \in 1..n : e = s[i]
    OBVIOUS
  <2>2. Rank(e) = i
    BY <1>s, <1>v, <2>1
  <2> QED
    BY <1>v, <1>3, <2>1, <2>2
<1> HIDE DEF T, D, P
<1>5. \A e \in had : Rank(e) <= Len(new) => e \in ToSet(new)
  <2> SUFFICES ASSUME NEW e \in had, Rank(e) <= n + m PROVE e \in D \union P
    BY <1>n
  <2>1. PICK k \in 1..Len(s) : s[k] = e
    BY <1>s, <1>v
  <2>2. k <= n + m /\ Rank(e) = k
    BY <1>s, <2>1
  <2>3. CASE k <= n
    BY <1>v, <2>2, <2>3
  <2>4. CASE k > n
    <3>1. k - n \in 1..m /\ n + (k - n) = k
      BY <1>s, <1>v, <1>p, <2>1, <2>2, <2>4
    <3> QED
      BY <1>i, <2>1, <3>1
  <2> QED
    BY <1>s, <1>v, <2>3, <2>4
<1>6. m < limit => had \subseteq ToSet(new)
  <2> SUFFICES ASSUME m < limit, NEW e \in had PROVE e \in ToSet(new)
    OBVIOUS
  <2>1. PICK k \in 1..Len(s) : s[k] = e
    BY <1>s, <1>v
  <2>2. Rank(e) <= Len(new)
    BY <1>s, <1>n, <1>p, <2>1
  <2> QED
    BY <1>5, <2>2
<1>7. Len(new) <= Cardinality(ToSet(new)) + Cardinality(V \ had)
  <2> DEFINE A == V \ had
             Q == D \ P
  <2>1. /\ A \in SUBSET V /\ Q \in SUBSET V /\ P \in SUBSET V
        /\ A \union Q \in SUBSET V /\ D \union P = Q \union P /\ Q \intersect P = {}
    BY <1>v, <1>P
  <2>2. T \subseteq A \union Q
    BY <1>4
  <2> HIDE DEF A, Q
  <2>3. IsFiniteSet(A) /\ IsFiniteSet(Q) /\ IsFiniteSet(P) /\ IsFiniteSet(A \union Q)
    BY <1>f, <2>1
  <2>4. Cardinality(A \union Q) = Cardinality(A) + Cardinality(Q) - Cardinality(A \intersect Q)
    BY <2>3, FS_Union
  <2>5. Cardinality(Q \union P) = Cardinality(Q) + Cardinality(P) - Cardinality(Q \intersect P)
    BY <2>3, FS_Union
  <2>6. Cardinality(Q \intersect P) = 0
    BY <2>1, FS_EmptySet
  <2>7. n <= Cardinality(A \union Q)
    BY <1>1, <2>2, <2>3, FS_Subset
  <2>8. /\ Cardinality(A) \in Nat /\ Cardinality(Q) \in Nat
        /\ Cardinality(A \intersect Q) \in Nat
    <3>1. A \intersect Q \in SUBSET V
      BY <2>1
    <3> QED
      BY <1>f, <2>1, <3>1
  <2>9. n + m <= Cardinality(Q \union P) + Cardinality(A)
    BY <1>2, <1>v, <1>p, <2>4, <2>5, <2>6, <2>7, <2>8
  <2> QED
    BY <1>n, <2>1, <2>9 DEF A
<1>8. ASSUME V \ had = {} PROVE Sorted(new)
  <2>1. T \subseteq D
    BY <1>4, <1>8
  <2>2. Cardinality(D) <= n
    BY NoMoreThanLength DEF D, n
  <2>3. T = D
    <3>1. IsFiniteSet(D) /\ Cardinality(T) <= Cardinality(D)
      BY <1>f, <1>v, <2>1, FS_Subset
    <3>2. Cardinality(D) \in Nat
      BY <1>f, <1>v
    <3>3. Cardinality(T) = Cardinality(D)
      BY <1>1, <1>v, <2>2, <3>1, <3>2
    <3> QED
      BY <2>1, <3>1, <3>3, FS_Subset
  <2>4. Sorted(pages)
    BY <1>8 DEF SoFar, V
  <2>5. DOMAIN pages = 1..n /\ DOMAIN new = 1..(n + m)
    BY <1>d DEF n
  <2>6. \A i \in 1..n : \E k \in 1..n : pages[i] = s[k]
    BY <2>3, <2>5 DEF D, T, ToSet
  <2>o. ASSUME NEW k \in 1..(n + m), k > n PROVE new[k] = s[k]
    <3>1. k - n \in 1..m /\ n + (k - n) = k
      BY <1>v, <1>p, <2>o
    <3>2. new[n + (k - n)] = s[n + (k - n)]
      BY <1>n, <3>1
    <3> QED
      BY <3>1, <3>2
  <2> SUFFICES ASSUME NEW i \in 1..(n + m), NEW j \in 1..(n + m), i < j
               PROVE  Newer(new[i], new[j])
    BY <2>5 DEF Sorted
  <2>7. CASE j <= n
    <3>1. i \in 1..n /\ j \in 1..n
      BY <1>v, <1>p, <2>7
    <3> QED
      BY <1>n, <2>4, <2>5, <3>1 DEF Sorted
  <2>8. CASE j > n
    <3>1. new[j] = s[j] /\ j \in 1..Len(s)
      BY <2>o, <2>8, <1>s, <1>v, <1>p
    <3>2. CASE i <= n
      <4>1. PICK k \in 1..n : pages[i] = s[k]
        BY <1>v, <1>p, <2>6, <3>2
      <4>2. k < j /\ k \in 1..Len(s)
        BY <1>v, <1>s, <2>8
      <4>3. new[i] = s[k]
        BY <1>n, <1>v, <1>p, <3>2, <4>1
      <4> QED
        BY <1>s, <3>1, <4>2, <4>3
    <3>3. CASE i > n
      <4>2. new[i] = s[i] /\ i \in 1..Len(s)
        BY <2>o, <3>3, <1>s, <1>v, <1>p
      <4> QED
        BY <1>s, <3>1, <4>2
    <3> QED
      BY <1>v, <1>p, <3>2, <3>3
  <2> QED
    BY <1>v, <1>p, <2>7, <2>8
<1> QED
  BY <1>s, <1>v, <1>p, <1>n, <1>P, <1>5, <1>6, <1>7, <1>8 DEF SoFar, V, D, P, n, m, new, page

-----------------------------------------------------------------------------
(* Rows that arrive.                                                       *)

\* Whatever arrives, the rows that were there only move down, and keep their order.
LEMMA RowsOnlyMoveDown ==
    ASSUME TypeOK, Visible \subseteq Visible', Visible' \subseteq Event,
           \A e \in Visible : createdAt'[e] = createdAt[e],
           NEW pages \in Seq(Event), NEW had, SoFar(pages, had)
    PROVE  SoFar(pages, had)'
<1>v. /\ Visible \subseteq Event /\ had \subseteq Visible /\ ToSet(pages) \subseteq Visible
      /\ Len(pages) \in Nat
      /\ \A e \in had : Rank(e) <= Len(pages) => e \in ToSet(pages)
      /\ Len(pages) <= Cardinality(Visible)
      /\ Len(pages) <= Cardinality(ToSet(pages)) + Cardinality(Visible \ had)
      /\ Visible \ had = {} => Sorted(pages)
  BY VisibleIsFinite DEF SoFar
<1>f. /\ \A S \in SUBSET Event : IsFiniteSet(S) /\ Cardinality(S) \in Nat
      /\ \A S \in SUBSET Event : \A T \in SUBSET S : Cardinality(T) <= Cardinality(S)
  BY VisibleIsFinite
<1>1. \A e, f \in Visible : Newer(e, f)' <=> Newer(e, f)
  BY DEF Newer
<1>2. ASSUME NEW e \in had PROVE Rank(e) \in Nat /\ Rank(e)' \in Nat /\ Rank(e) <= Rank(e)'
  <2>1. Above(e) \subseteq Above(e)'
    BY <1>v, <1>1 DEF Above
  <2>2. Above(e) \in SUBSET Event /\ Above(e)' \in SUBSET Event
    BY <1>v DEF Above
  <2> QED
    BY <1>f, <2>1, <2>2 DEF Rank
<1>3. \A e \in had : Rank(e)' <= Len(pages) => e \in ToSet(pages)
  BY <1>v, <1>2
<1>4. /\ Cardinality(Visible) \in Nat /\ Cardinality(Visible') \in Nat
      /\ Cardinality(Visible) <= Cardinality(Visible')
  BY <1>v, <1>f
<1>5. /\ Cardinality(Visible \ had) \in Nat /\ Cardinality(Visible' \ had) \in Nat
      /\ Cardinality(Visible \ had) <= Cardinality(Visible' \ had)
  <2>1. /\ Visible' \ had \in SUBSET Event /\ Visible \ had \in SUBSET Event
        /\ Visible \ had \in SUBSET (Visible' \ had)
    BY <1>v
  <2> QED
    BY <1>f, <2>1
<1>6. Cardinality(ToSet(pages)) \in Nat
  BY <1>v, <1>f
<1>7. ASSUME Visible' \ had = {} PROVE Sorted(pages)'
  <2>1. Sorted(pages)
    BY <1>v, <1>7
  <2>2. \A i \in DOMAIN pages : pages[i] \in Visible
    BY <1>v DEF ToSet
  <2>3. \A i, j \in DOMAIN pages : i < j => Newer(pages[i], pages[j])'
    BY <1>1, <2>1, <2>2 DEF Sorted
  <2> QED
    BY <2>3 DEF Sorted
<1>8. Len(pages) <= Cardinality(Visible')
  BY <1>v, <1>4
<1>9. Len(pages) <= Cardinality(ToSet(pages)) + Cardinality(Visible' \ had)
  BY <1>v, <1>5, <1>6
<1>10. had \subseteq Visible' /\ ToSet(pages) \subseteq Visible'
  BY <1>v
<1> QED
  BY <1>3, <1>7, <1>8, <1>9, <1>10 DEF SoFar

\* Nothing that a reader has got so far is disturbed when rows arrive.
LEMMA ReadersKeep ==
    ASSUME PInv, TypeOK', UNCHANGED reader, Visible \subseteq Visible',
           \A e \in Visible : createdAt'[e] = createdAt[e]
    PROVE  PInv'
<1> SUFFICES ASSUME NEW d \in Reader PROVE ReadSoFar(d)'
  BY DEF PInv
<1>1. reader[d] \in Reading /\ ReadSoFar(d) /\ TypeOK
  BY DEF PInv, TypeOK
<1>2. PICK pages \in Seq(Event), had \in SUBSET Event :
          pages = reader[d].pages /\ had = reader[d].had
  BY <1>1 DEF Reading
<1>3. SoFar(pages, had)
  BY <1>1, <1>2 DEF ReadSoFar
<1>4. Visible' \subseteq Event
  BY DEF Visible
<1>5. SoFar(pages, had)'
  BY <1>1, <1>3, <1>4, RowsOnlyMoveDown
<1> QED
  BY <1>1, <1>2, <1>5 DEF ReadSoFar

-----------------------------------------------------------------------------
(* The steps.                                                              *)

\* One reader moves on, and the trail stays as it is.
LEMMA OneReader ==
    ASSUME PInv, NEW d \in Reader, NEW new \in Reading,
           SoFar(new.pages, new.had), new.pc = "done" => new.had \subseteq ToSet(new.pages),
           reader' = [reader EXCEPT ![d] = new], UNCHANGED <<clock, row, createdAt>>
    PROVE  PInv'
<1>1. TypeOK /\ Visible' = Visible
  BY DEF PInv, Visible
<1>2. reader \in [Reader -> Reading] /\ reader' \in [Reader -> Reading]
  BY <1>1 DEF TypeOK
<1>3. /\ \A e, f : Newer(e, f)' = Newer(e, f)
      /\ \A e : Rank(e)' = Rank(e)
  BY <1>1 DEF Newer, Rank, Above
<1>4. ASSUME NEW pages, NEW had, SoFar(pages, had) PROVE SoFar(pages, had)'
  <2>1. Sorted(pages) => Sorted(pages)'
    BY <1>3 DEF Sorted
  <2> QED
    BY <1>1, <1>3, <1>4, <2>1 DEF SoFar
<1>5. ASSUME NEW q \in Reader PROVE ReadSoFar(q)'
  <2>1. PICK pages, had, at : /\ pages = reader'[q].pages /\ had = reader'[q].had
                             /\ at = reader'[q].pc
    OBVIOUS
  <2>2. SoFar(pages, had) /\ (at = "done" => had \subseteq ToSet(pages))
    <3>1. CASE q = d
      BY <1>2, <2>1, <3>1
    <3>2. CASE q # d
      BY <1>2, <2>1, <3>2 DEF PInv, ReadSoFar
    <3> QED
      BY <3>1, <3>2
  <2>3. SoFar(pages, had)'
    BY <1>4, <2>2
  <2> QED
    BY <2>1, <2>2, <2>3 DEF ReadSoFar
<1>6. ASSUME NEW q \in Reader PROVE ToSet(reader'[q].pages) \subseteq Visible'
  BY <1>5, <1>6 DEF ReadSoFar, SoFar
<1>7. TypeOK'
  BY <1>1, <1>2, <1>6 DEF TypeOK
<1> QED
  BY <1>5, <1>7 DEF PInv

\* Whoever has just started has got nothing, and missed nothing.
LEMMA NothingYet ==
    ASSUME NEW had \in SUBSET Visible
    PROVE  <<>> \in Seq(Event) /\ ToSet(<<>>) = {} /\ SoFar(<<>>, had)
<1>n. <<>> \in Seq(Event)
  OBVIOUS
<1>0. PICK none : none = <<>>
  OBVIOUS
<1>1. Len(none) = 0 /\ DOMAIN none = {}
  BY <1>0
<1>2. ToSet(none) = {}
  BY <1>1 DEF ToSet
<1>3. ASSUME NEW e \in had PROVE ~(Rank(e) <= 0)
  <2>1. Above(e) \in SUBSET Event /\ e \in Above(e)
    BY VisibleIsFinite DEF Above
  <2> QED
    BY <2>1, VisibleIsFinite, FS_EmptySet DEF Rank
<1>4. /\ Cardinality(Visible) \in Nat /\ Cardinality({}) = 0
      /\ Cardinality(Visible \ had) \in Nat
  <2>1. Visible \ had \in SUBSET Event
    BY VisibleIsFinite
  <2> QED
    BY <2>1, VisibleIsFinite, FS_EmptySet
<1>5. Sorted(none)
  BY <1>1 DEF Sorted
<1>6. SoFar(none, had)
  BY <1>1, <1>2, <1>3, <1>4, <1>5 DEF SoFar
<1> QED
  BY <1>n, <1>0, <1>2, <1>6

\* At the beginning nobody has read anything.
LEMMA PInvInit == Init => PInv
<1> SUFFICES ASSUME Init PROVE PInv
  OBVIOUS
<1>1. ASSUME NEW d \in Reader
      PROVE  reader[d].pc = "idle" /\ reader[d].pages = <<>> /\ reader[d].had = {}
  BY DEF Init
<1>2. <<>> \in Seq(Event) /\ ToSet(<<>>) = {} /\ SoFar(<<>>, {})
  BY NothingYet
<1>3. reader \in [Reader -> Reading]
  BY <1>2 DEF Init, Reading
<1>4. clock \in 0..MaxTime /\ createdAt \in [Event -> 0..MaxTime]
  BY PagesAssumption DEF Init
<1>5. row \in [Event -> {"planned", "begun", "visible", "lost"}]
  BY DEF Init
<1>6. \A d \in Reader : ToSet(reader[d].pages) \subseteq Visible
  BY <1>1, <1>2, Zenon
<1>7. TypeOK
  BY <1>3, <1>4, <1>5, <1>6 DEF TypeOK
<1>8. ASSUME NEW d \in Reader PROVE ReadSoFar(d)
  <2> HIDE DEF Init
  <2>1. SoFar(reader[d].pages, reader[d].had) /\ reader[d].pc # "done"
    BY <1>1, <1>2
  <2> QED
    BY <2>1 DEF ReadSoFar
<1> QED
  BY <1>7, <1>8 DEF PInv

\* Writing an event leaves every reader with what it has.
LEMMA WriteKeeps ==
    ASSUME PInv, Write
    PROVE  PInv'
<1>t. TypeOK /\ \A d \in Reader : ToSet(reader[d].pages) \subseteq Visible
  BY DEF PInv, TypeOK
<1>1. CASE Tick
  <2>1. Visible' = Visible
    BY <1>1 DEF Tick, Visible
  <2>2. TypeOK'
    BY <1>1, <1>t, <2>1, PagesAssumption DEF Tick, TypeOK
  <2> QED
    BY <1>1, <2>1, <2>2, ReadersKeep DEF Tick
<1>2. ASSUME NEW e \in Event, BeginInsert(e) PROVE PInv'
  <2>1. Visible' = Visible /\ e \notin Visible
    BY <1>2, <1>t DEF BeginInsert, Visible, TypeOK
  <2>2. TypeOK'
    BY <1>2, <1>t, <2>1 DEF BeginInsert, TypeOK
  <2>3. \A f \in Visible : createdAt'[f] = createdAt[f]
    BY <1>2, <1>t, <2>1 DEF BeginInsert, TypeOK
  <2> QED
    BY <1>2, <2>1, <2>2, <2>3, ReadersKeep DEF BeginInsert
<1>3. ASSUME NEW e \in Event, EndInsert(e) PROVE PInv'
  <2>1. Visible \subseteq Visible'
    BY <1>3, <1>t DEF EndInsert, Visible, TypeOK
  <2>2. TypeOK'
    BY <1>3, <1>t, <2>1 DEF EndInsert, TypeOK
  <2> QED
    BY <1>3, <2>1, <2>2, ReadersKeep DEF EndInsert
<1> QED
  BY <1>1, <1>2, <1>3 DEF Write

\* A page that was not answered leaves everything as it was.
LEMMA StandingStill ==
    ASSUME PInv, UNCHANGED vars
    PROVE  PInv'
<1>1. Visible' = Visible
  BY DEF vars, Visible
<1>2. TypeOK'
  BY <1>1 DEF vars, PInv, TypeOK
<1> QED
  BY <1>1, <1>2, ReadersKeep DEF vars

\* Starting, being refused and getting a page keep the invariant.
LEMMA ReadKeeps ==
    ASSUME PInv, NEW d \in Reader, Read(d)
    PROVE  PInv'
<1>t. TypeOK /\ reader \in [Reader -> Reading] /\ reader[d] \in Reading /\ ReadSoFar(d)
  BY DEF PInv, TypeOK
<1>1. CASE Start(d)
  <2>1. PICK raw \in Limit : reader' = [reader EXCEPT ![d] =
            [pc |-> "reading", limit |-> raw, pages |-> <<>>, had |-> Visible]]
    BY <1>1 DEF Start
  <2>2. PICK new : new = [pc |-> "reading", limit |-> raw, pages |-> <<>>, had |-> Visible]
    OBVIOUS
  <2>5. <<>> \in Seq(Event) /\ SoFar(<<>>, Visible)
    BY NothingYet
  <2>4. new \in Reading
    BY <2>2, <2>5, VisibleIsFinite DEF Reading
  <2>6. SoFar(new.pages, new.had) /\ new.pc = "reading"
    BY <2>2, <2>5
  <2>7. reader' = [reader EXCEPT ![d] = new] /\ UNCHANGED <<clock, row, createdAt>>
    BY <1>1, <2>1, <2>2 DEF Start
  <2> QED
    BY <2>4, <2>6, <2>7, OneReader
<1>2. CASE Refuse(d)
  <2>1. PICK new : new = [reader[d] EXCEPT !.pc = "refused"]
    OBVIOUS
  <2>2. /\ new \in Reading /\ new.pages = reader[d].pages /\ new.had = reader[d].had
        /\ new.pc = "refused"
    BY <1>t, <2>1 DEF Reading
  <2>3. reader' = [reader EXCEPT ![d] = new] /\ UNCHANGED <<clock, row, createdAt>>
    BY <1>2, <1>t, <2>1 DEF Refuse
  <2>4. SoFar(new.pages, new.had)
    BY <1>t, <2>2 DEF ReadSoFar
  <2> QED
    BY <2>2, <2>3, <2>4, OneReader
<1>3. CASE Fetch(d)
  <2>0. PICK pages, had, limit : /\ pages = reader[d].pages /\ had = reader[d].had
                                /\ limit = LimitOf(reader[d].limit)
    OBVIOUS
  <2>1. pages \in Seq(Event) /\ had \in SUBSET Event /\ SoFar(pages, had)
    BY <1>t, <2>0 DEF Reading, ReadSoFar
  <2>2. limit \in Nat \ {0}
    BY <1>3, <1>t, <2>0, PagesAssumption DEF Fetch, LimitIsValid, LimitOf, Reading
  <2>3. PICK s \in Orderings(Visible) :
            reader' = [reader EXCEPT
                         ![d].pages = @ \o Page(s, limit, Len(reader[d].pages)),
                         ![d].pc = IF Len(Page(s, limit, Len(reader[d].pages))) < limit
                                   THEN "done" ELSE @]
    BY <1>3, <2>0 DEF Fetch
  <2>4. PICK page : page = Page(s, limit, Len(pages))
    OBVIOUS
  <2>5. /\ pages \o page \in Seq(Event) /\ SoFar(pages \o page, had)
        /\ Len(page) < limit => had \subseteq ToSet(pages \o page)
    BY <1>t, <2>1, <2>2, <2>4, PageAdds
  <2>6. PICK new : new = [reader[d] EXCEPT !.pages = pages \o page,
                                          !.pc = IF Len(page) < limit THEN "done" ELSE @]
    OBVIOUS
  <2>7. reader' = [reader EXCEPT ![d] = new]
    BY <1>t, <2>0, <2>3, <2>4, <2>6
  <2>8. /\ new \in Reading /\ new.pages = pages \o page /\ new.had = had
        /\ new.pc = "done" => Len(page) < limit
    BY <1>t, <1>3, <2>0, <2>5, <2>6 DEF Reading, Fetch
  <2> QED
    BY <1>3, <2>5, <2>7, <2>8, OneReader DEF Fetch
<1>4. CASE FetchFails(d)
  BY <1>4, StandingStill DEF FetchFails
<1> QED
  BY <1>1, <1>2, <1>3, <1>4 DEF Read

LEMMA PInvAlways == Spec => []PInv
<1>1. PInv /\ [Next]_vars => PInv'
  BY StandingStill, WriteKeeps, ReadKeeps DEF Next
<1> QED
  BY <1>1, PInvInit, PTL DEF Spec

-----------------------------------------------------------------------------
\* Readers are only ever given rows that are committed.
THEOREM PagesTypeCorrect == Spec => []TypeOK
<1>1. PInv => TypeOK
  BY DEF PInv
<1> QED
  BY <1>1, PInvAlways, PTL

\* Reading to the end finds every event there was, however many are written meanwhile,
\* wherever they turn up, and whatever the size of a page.
THEOREM NothingIsMissed == Spec => []NothingMissed
<1>1. PInv => NothingMissed
  BY DEF PInv, ReadSoFar, NothingMissed
<1> QED
  BY <1>1, PInvAlways, PTL

\* No arrival costs more than one repeated row, and without arrivals the pages put
\* together are the listing.
THEOREM RepetitionsAreArrivals == Spec => []RepeatsNeedArrivals
<1>1. PInv => RepeatsNeedArrivals
  BY DEF PInv, ReadSoFar, SoFar, Sorted, RepeatsNeedArrivals, Arrived
<1> QED
  BY <1>1, PInvAlways, PTL
=============================================================================
