------------------------- MODULE HttpExchange_proofs -------------------------
(* Theorems about the headers and the paths of one exchange, for every CORS  *)
(* setting, every base path, every request and every header that GFire sends.*)
EXTENDS HttpExchange, FiniteSetTheorems, WellFoundedInduction, TLAPS

\* What a header's values are made of.
HeaderValue == Value \union (Origin \ {""}) \union {"Origin", "*"}

\* What withCORS sets for this request.
CorsHeader ==
    IF Allows(server.cors, request.origin)
    THEN [NoHeader EXCEPT !["Access-Control-Allow-Origin"] = <<request.origin>>,
                          !["Vary"] = <<"Origin">>]
    ELSE NoHeader

\* The header of the response is that of withCORS, with GFire's behind it at the end.
Composed ==
    /\ stage = "cors" => header = NoHeader
    /\ stage \in {"handler", "sent", "copy"} => header = CorsHeader
    /\ stage = "done" /\ status # 200 => header = CorsHeader
    /\ stage = "done" /\ status = 200 => header = Copied(CorsHeader, answer)

\* Nothing is answered before it is sent, and nothing sent is without an answer.
Ordered ==
    /\ stage \in {"cors", "handler", "sent"} => answer = NoHeader
    /\ stage \in {"cors", "handler"} => upstream = None
    /\ stage \in {"sent", "copy"} => upstream # None
    /\ stage # "done" => status = 0
    /\ stage = "done" /\ status # 200 => answer = NoHeader

\* The inductive invariant: the header is always one of three that can be computed
\* from the request, the setting and GFire's answer.
HInv == TypeOK /\ Composed /\ Ordered

-----------------------------------------------------------------------------
\* What is put before something ends in it.
LEMMA ConcatEnds ==
    ASSUME NEW T, NEW s \in Seq(T), NEW t \in Seq(T)
    PROVE  IsSuffix(t, s \o t)
<1>1. /\ Len(s) \in Nat /\ Len(t) \in Nat
      /\ Len(s \o t) = Len(s) + Len(t)
      /\ \A i \in 1..Len(t) : (s \o t)[Len(s) + i] = t[i]
  OBVIOUS
<1>2. /\ Reverse(t) = [i \in 1..Len(t) |-> t[(Len(t) - i) + 1]]
      /\ Reverse(s \o t) = [i \in 1..Len(s \o t) |-> (s \o t)[(Len(s \o t) - i) + 1]]
  BY DEF Reverse
<1>3. /\ Reverse(t) \in Seq(T) /\ Reverse(s \o t) \in Seq(T)
      /\ Len(Reverse(t)) = Len(t) /\ Len(Reverse(s \o t)) = Len(s) + Len(t)
  BY <1>1, <1>2
<1>4. \A i \in 1..Len(t) : Reverse(s \o t)[i] = Reverse(t)[i]
  <2> SUFFICES ASSUME NEW i \in 1..Len(t)
               PROVE  Reverse(s \o t)[i] = Reverse(t)[i]
    OBVIOUS
  <2>1. (Len(t) - i) + 1 \in 1..Len(t) /\ i \in 1..Len(s \o t)
    BY <1>1
  <2>2. (Len(s \o t) - i) + 1 = Len(s) + ((Len(t) - i) + 1)
    BY <1>1
  <2> QED
    BY <1>1, <1>2, <2>1, <2>2
<1>5. SubSeq(Reverse(t), 1, Len(t)) = SubSeq(Reverse(s \o t), 1, Len(t))
  BY <1>1, <1>3, <1>4
<1> QED
  BY <1>1, <1>3, <1>5 DEF IsSuffix, IsPrefix

\* The empty header is one, and so is GFire's.
LEMMA AnswerIsHeader == NoHeader \in Header /\ (TypeOK => answer \in Header)
<1>1. \A n \in HeaderName : <<>> \in Seq(HeaderValue)
  OBVIOUS
<1>2. NoHeader \in Header
  BY <1>1 DEF NoHeader, Header, HeaderValue
<1>3. TypeOK => answer \in Answer \union {NoHeader}
  BY DEF TypeOK
<1>4. Answer \subseteq Header
  BY ExchangeAssumption
<1> QED
  BY <1>2, <1>3, <1>4

\* withCORS sets one value, or none, and only in its own two names.
LEMMA CorsHeaderIsShort ==
    ASSUME TypeOK
    PROVE  /\ CorsHeader \in Header
           /\ \A n \in HeaderName : CorsHeader[n] = <<>> \/ (n \in CorsName /\ Len(CorsHeader[n]) = 1)
           /\ CorsHeader["Access-Control-Allow-Origin"] # <<>> =>
                /\ CorsHeader["Access-Control-Allow-Origin"] = <<request.origin>>
                /\ Allows(server.cors, request.origin)
<1>1. NoHeader \in Header /\ \A n \in HeaderName : NoHeader[n] = <<>>
  BY AnswerIsHeader DEF NoHeader
<1>2. CASE ~Allows(server.cors, request.origin)
  BY <1>1, <1>2 DEF CorsHeader, HeaderName, CorsName
<1>3. CASE Allows(server.cors, request.origin)
  <2>1. request.origin \in HeaderValue
    BY <1>3 DEF Allows, Origins, TypeOK, HeaderValue
  <2>2. <<request.origin>> \in Seq(HeaderValue) /\ <<"Origin">> \in Seq(HeaderValue)
    <3>1. "Origin" \in HeaderValue
      BY DEF HeaderValue
    <3>2. \A v \in HeaderValue : <<v>> \in Seq(HeaderValue)
      OBVIOUS
    <3> QED
      BY <2>1, <3>1, <3>2
  <2>3. CorsName \subseteq HeaderName
    BY DEF HeaderName
  <2>4. CorsHeader = [n \in HeaderName |->
            IF n = "Vary" THEN <<"Origin">>
            ELSE IF n = "Access-Control-Allow-Origin" THEN <<request.origin>> ELSE <<>>]
    BY <1>3, <2>3 DEF CorsHeader, NoHeader, CorsName
  <2>5. CorsHeader \in [HeaderName -> Seq(HeaderValue)]
    BY <2>2, <2>4
  <2>6. \A n \in HeaderName : CorsHeader[n] = <<>> \/ (n \in CorsName /\ Len(CorsHeader[n]) = 1)
    BY <2>4 DEF CorsName
  <2>7. CorsHeader["Access-Control-Allow-Origin"] = <<request.origin>>
    BY <2>3, <2>4 DEF CorsName
  <2> QED
    BY <1>3, <2>5, <2>6, <2>7 DEF Header, HeaderValue
<1> QED
  BY <1>2, <1>3

\* A header with another behind it is a header.
LEMMA CopiedType ==
    ASSUME NEW to \in Header, NEW from \in Header
    PROVE  /\ Copied(to, from) \in Header
           /\ \A n \in HeaderName :
                Copied(to, from)[n] = IF Skipped(n, from) THEN to[n] ELSE to[n] \o from[n]
<1>1. DOMAIN to = HeaderName /\ \A n \in HeaderName : to[n] \in Seq(HeaderValue) /\ from[n] \in Seq(HeaderValue)
  BY DEF Header, HeaderValue
<1>2. \A n \in HeaderName : to[n] \o from[n] \in Seq(HeaderValue)
  BY <1>1
<1>3. \A n \in HeaderName :
        Copied(to, from)[n] = IF Skipped(n, from) THEN to[n] ELSE to[n] \o from[n]
  BY <1>1 DEF Copied
<1>4. Copied(to, from) \in [HeaderName -> Seq(HeaderValue)]
  BY <1>1, <1>2 DEF Copied
<1> QED
  BY <1>3, <1>4 DEF Header, HeaderValue

-----------------------------------------------------------------------------
\* At the beginning there is nothing in the header.
LEMMA HInvInit == Init => HInv
<1> SUFFICES ASSUME Init PROVE HInv
  OBVIOUS
<1>1. NoHeader \in Header
  BY AnswerIsHeader
<1> QED
  BY <1>1 DEF Init, HInv, TypeOK, Composed, Ordered, None, Stage

\* Every step keeps the invariant.
LEMMA HInvStep ==
    ASSUME HInv, [Next]_vars
    PROVE  HInv'
<1>h. /\ CorsHeader \in Header /\ NoHeader \in Header
      /\ TypeOK /\ Composed /\ Ordered
  BY CorsHeaderIsShort, AnswerIsHeader DEF HInv
<1>c. UNCHANGED <<server, request>> => CorsHeader' = CorsHeader
  BY DEF CorsHeader, Allows
<1>n. "none" \notin Method
  BY ExchangeAssumption
<1>1. CASE Cors
  <2>1. header' = CorsHeader
    BY <1>1, <1>h DEF Cors, Composed, CorsHeader
  <2>2. stage' \in {"handler", "done"} /\ status' \in {0, 204} /\ (stage' = "done" => status' = 204)
        /\ (stage' = "handler" => status' = 0)
    BY <1>1, <1>h DEF Cors, Ordered
  <2>3. UNCHANGED <<server, request, upstream, answer>> /\ upstream = None /\ answer = NoHeader
    BY <1>1, <1>h DEF Cors, Ordered
  <2>4. TypeOK'
    BY <1>h, <2>1, <2>2, <2>3 DEF TypeOK, Stage
  <2> QED
    BY <1>c, <2>1, <2>2, <2>3, <2>4 DEF HInv, Composed, Ordered
<1>2. CASE RefuseMethod
  <2>1. TypeOK'
    BY <1>2, <1>h DEF RefuseMethod, TypeOK, Stage, Ordered
  <2> QED
    BY <1>2, <1>h, <1>c, <2>1 DEF RefuseMethod, HInv, Composed, Ordered
<1>3. CASE Send
  <2>1. \/ /\ upstream'.method = request.method
           /\ status' = 0 /\ stage' = "sent"
        \/ /\ upstream' = upstream
           /\ status' = 502 /\ stage' = "done"
    BY <1>3, <1>h DEF Send, Proxied, Ordered
  <2>2. /\ stage = "handler" /\ request.method \in Method \ {"OPTIONS"}
        /\ UNCHANGED <<server, request, answer, header>>
    BY <1>3, <1>h DEF Send, TypeOK
  <2>3. stage' = "sent" => upstream' # None
    BY <1>n, <2>1, <2>2 DEF None
  <2>4. TypeOK'
    BY <1>h, <2>1, <2>2 DEF TypeOK, Stage, Ordered
  <2> QED
    BY <1>h, <1>c, <2>1, <2>2, <2>3, <2>4 DEF HInv, Composed, Ordered
<1>4. CASE Receive
  <2>1. TypeOK'
    BY <1>4, <1>h DEF Receive, TypeOK, Stage
  <2> QED
    BY <1>4, <1>h, <1>c, <2>1 DEF Receive, HInv, Composed, Ordered
<1>5. CASE CopyHeaders
  <2>1. header = CorsHeader /\ upstream # None /\ answer \in Header
    BY <1>5, <1>h, AnswerIsHeader DEF CopyHeaders, Composed, Ordered
  <2>2. header' = Copied(CorsHeader, answer) /\ header' \in Header
    BY <1>5, <1>h, <2>1, CopiedType DEF CopyHeaders
  <2>3. status' = 200 /\ stage' = "done" /\ UNCHANGED <<server, request, upstream, answer>>
    BY <1>5 DEF CopyHeaders
  <2>4. TypeOK'
    BY <1>h, <2>1, <2>2, <2>3 DEF TypeOK, Stage
  <2> QED
    BY <1>c, <2>2, <2>3, <2>4 DEF HInv, Composed, Ordered
<1>6. CASE UNCHANGED vars
  BY <1>6, <1>h, <1>c DEF vars, HInv, TypeOK, Composed, Ordered
<1> QED
  BY <1>1, <1>2, <1>3, <1>4, <1>5, <1>6 DEF Next

\* The invariant holds at the beginning, and so always.
LEMMA HInvAlways == Spec => []HInv
<1>1. HInv /\ [Next]_vars => HInv'
  BY HInvStep
<1> QED
  BY <1>1, HInvInit, PTL DEF Spec

-----------------------------------------------------------------------------
\* Only what was sent is answered by GFire, and no header gets a value that nobody set.
THEOREM ExchangeTypeCorrect == Spec => []TypeOK
<1>1. HInv => TypeOK
  BY DEF HInv
<1> QED
  BY <1>1, HInvAlways, PTL

\* Whatever GFire sends, what concerns its connection stays behind and the rest comes
\* through behind the headers of withCORS.
THEOREM HeadersGoEndToEnd == Spec => []EndToEnd
<1>1. HInv => EndToEnd
  <2> SUFFICES ASSUME HInv, stage = "done", status = 200, NEW n \in HeaderName
               PROVE  IF n \in HopByHop \union ConnectionNames(answer)
                      THEN header[n] = <<>> \/ (n \in CorsName /\ Len(header[n]) = 1)
                      ELSE IsSuffix(answer[n], header[n])
    BY DEF EndToEnd
  <2>1. TypeOK /\ header = Copied(CorsHeader, answer)
    BY DEF HInv, Composed
  <2>2. CorsHeader \in Header /\ answer \in Header
    BY <2>1, CorsHeaderIsShort, AnswerIsHeader
  <2>3. header[n] = IF Skipped(n, answer) THEN CorsHeader[n] ELSE CorsHeader[n] \o answer[n]
    BY <2>1, <2>2, CopiedType
  <2>4. CASE n \in HopByHop \union ConnectionNames(answer)
    BY <2>1, <2>3, <2>4, CorsHeaderIsShort DEF Skipped
  <2>5. CASE n \notin HopByHop \union ConnectionNames(answer)
    <3>1. CorsHeader[n] \in Seq(HeaderValue) /\ answer[n] \in Seq(HeaderValue)
      BY <2>2 DEF Header, HeaderValue
    <3>2. header[n] = CorsHeader[n] \o answer[n]
      BY <2>3, <2>5 DEF Skipped
    <3> QED
      BY <2>5, <3>1, <3>2, ConcatEnds
  <2> QED
    BY <2>4, <2>5
<1> QED
  BY <1>1, HInvAlways, PTL

\* A preflight is answered by withCORS only, which is there only with an origin to allow.
Preflight == status = 204 => CorsApplies(server.cors)

LEMMA PreflightAlways == Spec => []Preflight
<1>1. Init => Preflight
  BY DEF Init, Preflight
<1>2. Preflight /\ [Next]_vars => Preflight'
  <2> SUFFICES ASSUME Preflight, [Next]_vars, status' = 204 PROVE CorsApplies(server.cors)'
    BY DEF Preflight
  <2>1. server' = server
    BY DEF Next, Cors, RefuseMethod, Send, Receive, CopyHeaders, vars
  <2>2. CorsApplies(server.cors)
    BY DEF Next, Cors, RefuseMethod, Send, Receive, CopyHeaders, vars, Preflight
  <2> QED
    BY <2>1, <2>2
<1> QED
  BY <1>1, <1>2, PTL DEF Spec

\* The proxy opens the console to no origin that is not in its setting: any other word
\* about origins that a browser gets is GFire's.  Without a setting it leaves OPTIONS to
\* the handlers.
THEOREM OriginsAreListed == Spec => []AllowedOrigin
<1>1. HInv /\ Preflight => AllowedOrigin
  <2> DEFINE N    == "Access-Control-Allow-Origin"
             told == header[N]
             own  == answer[N]
  <2> SUFFICES ASSUME HInv, Preflight
               PROVE  /\ own = <<>> /\ told # <<>> =>
                           /\ told = <<request.origin>> /\ request.origin # ""
                           /\ \E p \in ToSet(server.cors) : TrimOf[p] = request.origin
                      /\ Len(told) > 1 => own # <<>>
                      /\ status = 204 => \E p \in ToSet(server.cors) : TrimOf[p] # ""
    BY DEF AllowedOrigin
  <2>1. TypeOK /\ N \in HeaderName
    BY DEF HInv, HeaderName, CorsName
  <2>2. CorsHeader \in Header /\ answer \in Header
    BY <2>1, CorsHeaderIsShort, AnswerIsHeader
  <2>3. CorsHeader[N] \in Seq(HeaderValue) /\ own \in Seq(HeaderValue)
    BY <2>1, <2>2 DEF Header, HeaderValue
  <2>4. told \in {<<>>, CorsHeader[N], CorsHeader[N] \o own}
    <3>1. header \in {NoHeader, CorsHeader, Copied(CorsHeader, answer)}
      BY <2>1 DEF HInv, Composed, TypeOK, Stage
    <3>2. Copied(CorsHeader, answer)[N] \in {CorsHeader[N], CorsHeader[N] \o own}
      BY <2>1, <2>2, CopiedType
    <3> QED
      BY <2>1, <3>1, <3>2 DEF NoHeader
  <2>5. own = <<>> => told \in {<<>>, CorsHeader[N]}
    BY <2>3, <2>4
  <2>6. CorsHeader[N] # <<>> =>
          /\ CorsHeader[N] = <<request.origin>> /\ request.origin # ""
          /\ \E p \in ToSet(server.cors) : TrimOf[p] = request.origin
    BY <2>1, CorsHeaderIsShort DEF Allows, Origins
  <2>7. Len(CorsHeader[N]) <= 1
    <3>1. CASE CorsHeader[N] = <<>>
      BY <3>1
    <3>2. CASE CorsHeader[N] = <<request.origin>>
      <4>1. Len(<<request.origin>>) = 1
        OBVIOUS
      <4>2. Len(CorsHeader[N]) = 1
        BY <3>2, <4>1, Zenon
      <4> QED
        BY <4>2
    <3> QED
      BY <2>6, <3>1, <3>2
  <2>8. status = 204 => \E p \in ToSet(server.cors) : TrimOf[p] # ""
    <3>1. status = 204 => \E o \in Origins(server.cors) : TRUE
      BY DEF Preflight, CorsApplies
    <3>2. \A o \in Origins(server.cors) : \E p \in ToSet(server.cors) : TrimOf[p] = o /\ o # ""
      BY Zenon DEF Origins
    <3> QED
      BY <3>1, <3>2, Zenon
  <2>9. own = <<>> /\ told # <<>> =>
          /\ told = <<request.origin>> /\ request.origin # ""
          /\ \E p \in ToSet(server.cors) : TrimOf[p] = request.origin
    BY <2>5, <2>6
  <2>10. Len(told) > 1 => own # <<>>
    BY <2>5, <2>7
  <2> QED
    BY <2>8, <2>9, <2>10
<1> QED
  BY <1>1, HInvAlways, PreflightAlways, PTL

-----------------------------------------------------------------------------
(* Sequences of characters.                                                *)

\* The least of some numbers.
LEMMA MinIn ==
    ASSUME NEW S \in SUBSET Nat, S # {}
    PROVE  Min(S) \in S /\ \A x \in S : Min(S) <= x
<1> DEFINE R == {ss \in Nat \X Nat : ss[1] < ss[2]}
<1>1. IsWellFoundedOn(R, Nat)
  BY NatLessThanWellFounded, Zenon DEF OpToRel
<1>2. \A x, y \in Nat : x < y => <<x, y>> \in R
  OBVIOUS
<1> HIDE DEF R
<1>3. PICK m \in S : \A y \in S : ~ (<<y, m>> \in R)
  BY <1>1, WFMin
<1>4. ASSUME NEW y \in S PROVE m <= y
  <2>1. m \in Nat /\ y \in Nat
    OBVIOUS
  <2>2. ~(y < m)
    BY <1>2, <1>3, <2>1
  <2> QED
    BY <2>1, <2>2
<1> QED
  BY <1>4, Zenon DEF Min

\* The greatest of numbers below a bound.
LEMMA MaxIn ==
    ASSUME NEW n \in Nat, NEW S \in SUBSET (1..n), S # {}
    PROVE  Max(S) \in S /\ \A x \in S : x <= Max(S)
<1> DEFINE T == {n - x : x \in S}
<1>1. T \in SUBSET Nat /\ T # {}
  <2>1. \A x \in S : n - x \in Nat
    OBVIOUS
  <2> QED
    BY <2>1
<1>2. PICK m \in S : n - m = Min(T)
  BY <1>1, MinIn
<1>3. \A x \in S : n - m <= n - x
  BY <1>1, <1>2, MinIn
<1>4. \A y \in S : m >= y
  BY <1>3
<1>5. Max(S) \in S /\ \A y \in S : Max(S) >= y
  BY <1>4, Zenon DEF Max
<1> QED
  BY <1>5

\* A part of a path.
LEMMA PartOf ==
    ASSUME NEW s \in Seq(Char), NEW m \in 1..Len(s) + 1, NEW n \in 0..Len(s), m <= n + 1
    PROVE  /\ SubSeq(s, m, n) \in Seq(Char)
           /\ Len(SubSeq(s, m, n)) = (n + 1) - m
           /\ \A i \in 1..(n + 1) - m : SubSeq(s, m, n)[i] = s[m + i - 1]
OBVIOUS

\* One path behind another.
LEMMA Behind ==
    ASSUME NEW s \in Seq(Char), NEW t \in Seq(Char)
    PROVE  /\ s \o t \in Seq(Char) /\ Len(s \o t) = Len(s) + Len(t)
           /\ \A i \in 1..Len(s) : (s \o t)[i] = s[i]
           /\ \A i \in 1..Len(t) : (s \o t)[Len(s) + i] = t[i]
OBVIOUS

\* Two paths with the same characters are the same.
LEMMA SamePath ==
    ASSUME NEW s \in Seq(Char), NEW t \in Seq(Char), Len(s) = Len(t),
           \A i \in 1..Len(s) : s[i] = t[i]
    PROVE  s = t
OBVIOUS

\* One path, a character, and another path behind it.
LEMMA Joined ==
    ASSUME NEW s \in Seq(Char), NEW t \in Seq(Char), NEW mark \in Char
    PROVE  /\ s \o <<mark>> \o t \in Seq(Char)
           /\ Len(s \o <<mark>> \o t) = Len(s) + 1 + Len(t)
           /\ \A i \in 1..Len(s) : (s \o <<mark>> \o t)[i] = s[i]
           /\ (s \o <<mark>> \o t)[Len(s) + 1] = mark
           /\ \A i \in 1..Len(t) : (s \o <<mark>> \o t)[Len(s) + 1 + i] = t[i]
<1>1. /\ <<mark>> \in Seq(Char) /\ Len(<<mark>>) = 1 /\ <<mark>>[1] = mark
      /\ Len(s) \in Nat /\ Len(t) \in Nat
  OBVIOUS
<1>2. /\ s \o <<mark>> \in Seq(Char) /\ Len(s \o <<mark>>) = Len(s) + 1
      /\ \A i \in 1..Len(s) : (s \o <<mark>>)[i] = s[i]
      /\ (s \o <<mark>>)[Len(s) + 1] = mark
  BY <1>1, Behind
<1> DEFINE r == s \o <<mark>>
<1> HIDE DEF r
<1>3. /\ r \in Seq(Char) /\ Len(r) = Len(s) + 1
      /\ \A i \in 1..Len(s) : r[i] = s[i]
      /\ r[Len(s) + 1] = mark
  BY <1>2 DEF r
<1>4. /\ r \o t \in Seq(Char) /\ Len(r \o t) = Len(r) + Len(t)
      /\ \A i \in 1..Len(r) : (r \o t)[i] = r[i]
      /\ \A i \in 1..Len(t) : (r \o t)[Len(r) + i] = t[i]
  BY <1>3, Behind
<1>5. /\ r \o t \in Seq(Char)
      /\ Len(r \o t) = Len(s) + 1 + Len(t)
      /\ \A i \in 1..Len(s) : (r \o t)[i] = s[i]
      /\ (r \o t)[Len(s) + 1] = mark
      /\ \A i \in 1..Len(t) : (r \o t)[Len(s) + 1 + i] = t[i]
  BY <1>1, <1>3, <1>4
<1> QED
  BY <1>5 DEF r

-----------------------------------------------------------------------------
(* What is cut off.                                                        *)

\* From the left, everything up to some place is cut off, and what stands there is not.
LEMMA TrimLeftIs ==
    ASSUME NEW s \in Seq(Char), NEW cut
    PROVE  \E n \in 0..Len(s) :
              /\ TrimLeft(s, cut) = SubSeq(s, n + 1, Len(s))
              /\ \A i \in 1..n : s[i] \in cut
              /\ n < Len(s) => s[n + 1] \notin cut
<1> DEFINE I == {i \in 1..Len(s) : s[i] \notin cut}
<1>1. TrimLeft(s, cut) = LET first == IF I # {} THEN Min(I) ELSE 0
                         IN  IF first = 0 THEN <<>> ELSE SubSeq(s, first, Len(s))
  BY Zenon DEF TrimLeft, SelectInSeq
<1>2. I \in SUBSET Nat /\ Len(s) \in Nat
  OBVIOUS
<1>3. CASE I = {}
  <2>1. TrimLeft(s, cut) = <<>>
    BY <1>1, <1>3, Zenon
  <2>2. SubSeq(s, Len(s) + 1, Len(s)) = <<>>
    OBVIOUS
  <2>3. Len(s) \in 0..Len(s) /\ \A i \in 1..Len(s) : s[i] \in cut
    BY <1>2, <1>3
  <2> QED
    BY <2>1, <2>2, <2>3
<1>4. CASE I # {}
  <2>1. Min(I) \in I /\ \A x \in I : Min(I) <= x
    BY <1>2, <1>4, MinIn
  <2> DEFINE m == Min(I)
  <2>2. m \in 1..Len(s) /\ s[m] \notin cut /\ \A i \in 1..Len(s) : i < m => s[i] \in cut
    <3>1. m \in I /\ \A x \in I : m <= x
      BY <2>1
    <3> HIDE DEF m
    <3>2. m \in 1..Len(s) /\ s[m] \notin cut
      BY <3>1
    <3>3. ASSUME NEW i \in 1..Len(s), i < m PROVE s[i] \in cut
      BY <1>2, <3>1, <3>2, <3>3
    <3> QED
      BY <3>2, <3>3
  <2>3. TrimLeft(s, cut) = IF m = 0 THEN <<>> ELSE SubSeq(s, m, Len(s))
    BY <1>1, <1>4, Zenon
  <2> HIDE DEF m, I
  <2>4. m # 0 /\ m - 1 \in 0..Len(s) /\ (m - 1) + 1 = m
    BY <1>2, <2>2
  <2>5. TrimLeft(s, cut) = SubSeq(s, (m - 1) + 1, Len(s))
    BY <2>3, <2>4
  <2>6. /\ \A i \in 1..m - 1 : s[i] \in cut
        /\ s[(m - 1) + 1] \notin cut
    BY <1>2, <2>2, <2>4
  <2> QED
    BY <2>4, <2>5, <2>6
<1> QED
  BY <1>3, <1>4

\* The same from the right.
LEMMA TrimRightIs ==
    ASSUME NEW s \in Seq(Char), NEW cut
    PROVE  \E n \in 0..Len(s) :
              /\ TrimRight(s, cut) = SubSeq(s, 1, n)
              /\ \A i \in n + 1..Len(s) : s[i] \in cut
              /\ n > 0 => s[n] \notin cut
<1> DEFINE I == {i \in 1..Len(s) : s[i] \notin cut}
           last == IF I # {} THEN Max(I) ELSE 0
<1>1. TrimRight(s, cut) = SubSeq(s, 1, last)
  BY Zenon DEF TrimRight, SelectLastInSeq
<1>2. Len(s) \in Nat /\ I \in SUBSET (1..Len(s))
  OBVIOUS
<1>3. CASE I = {}
  <2>1. last = 0
    BY <1>3
  <2> QED
    BY <1>1, <1>2, <1>3, <2>1
<1>4. CASE I # {}
  <2>1. Max(I) \in I /\ \A x \in I : x <= Max(I)
    BY <1>2, <1>4, MaxIn
  <2>2. last = Max(I)
    BY <1>4
  <2>3. last \in 1..Len(s) /\ s[last] \notin cut /\ \A i \in last + 1..Len(s) : s[i] \in cut
    <3>1. last \in I /\ \A x \in I : x <= last
      BY <2>1, <2>2
    <3> HIDE DEF last
    <3>2. last \in 1..Len(s) /\ s[last] \notin cut
      BY <3>1
    <3>3. ASSUME NEW i \in last + 1..Len(s) PROVE s[i] \in cut
      BY <1>2, <3>1, <3>2
    <3> QED
      BY <3>2, <3>3
  <2> HIDE DEF last, I
  <2> QED
    BY <1>1, <1>2, <2>3
<1> QED
  BY <1>3, <1>4

\* What is before a mark ends at the first one, or with the path.
LEMMA BeforeIs ==
    ASSUME NEW s \in Seq(Char), NEW mark
    PROVE  \E n \in 0..Len(s) :
              /\ Before(s, mark) = SubSeq(s, 1, n)
              /\ \A i \in 1..n : s[i] # mark
              /\ n < Len(s) => s[n + 1] = mark
<1> DEFINE I == {i \in 1..Len(s) : s[i] = mark}
<1>1. Before(s, mark) = LET at == IF I # {} THEN Min(I) ELSE 0
                        IN  IF at = 0 THEN s ELSE SubSeq(s, 1, at - 1)
  BY Zenon DEF Before, SelectInSeq
<1>2. I \in SUBSET Nat /\ Len(s) \in Nat
  OBVIOUS
<1>3. CASE I = {}
  <2>1. Before(s, mark) = s
    BY <1>1, <1>3, Zenon
  <2>2. SubSeq(s, 1, Len(s)) = s
    OBVIOUS
  <2>3. Len(s) \in 0..Len(s) /\ ~(Len(s) < Len(s)) /\ \A i \in 1..Len(s) : s[i] # mark
    BY <1>2, <1>3
  <2>4. Before(s, mark) = SubSeq(s, 1, Len(s))
    BY <2>1, <2>2
  <2> HIDE DEF I
  <2> QED
    BY <2>3, <2>4
<1>4. CASE I # {}
  <2>1. Min(I) \in I /\ \A x \in I : Min(I) <= x
    BY <1>2, <1>4, MinIn
  <2> DEFINE m == Min(I)
  <2>2. m \in 1..Len(s) /\ s[m] = mark /\ \A i \in 1..Len(s) : i < m => s[i] # mark
    <3>1. m \in I /\ \A x \in I : m <= x
      BY <2>1
    <3> HIDE DEF m
    <3>2. m \in 1..Len(s) /\ s[m] = mark
      BY <3>1
    <3>3. ASSUME NEW i \in 1..Len(s), i < m PROVE s[i] # mark
      BY <1>2, <3>1, <3>2, <3>3
    <3> QED
      BY <3>2, <3>3
  <2>3. Before(s, mark) = IF m = 0 THEN s ELSE SubSeq(s, 1, m - 1)
    BY <1>1, <1>4, Zenon
  <2> HIDE DEF m, I
  <2>4. m # 0 /\ m - 1 \in 0..Len(s) /\ (m - 1) + 1 = m
    BY <1>2, <2>2
  <2>5. Before(s, mark) = SubSeq(s, 1, m - 1)
    BY <2>3, <2>4
  <2>6. /\ \A i \in 1..m - 1 : s[i] # mark
        /\ s[(m - 1) + 1] = mark
    BY <1>2, <2>2, <2>4
  <2> QED
    BY <2>4, <2>5, <2>6
<1> QED
  BY <1>3, <1>4

\* One place at which a cut may be is the only one.
LEMMA TrimLeftAt ==
    ASSUME NEW s \in Seq(Char), NEW cut, NEW n \in 0..Len(s),
           \A i \in 1..n : s[i] \in cut, n < Len(s) => s[n + 1] \notin cut
    PROVE  TrimLeft(s, cut) = SubSeq(s, n + 1, Len(s))
<1>1. PICK m \in 0..Len(s) :
          /\ TrimLeft(s, cut) = SubSeq(s, m + 1, Len(s))
          /\ \A i \in 1..m : s[i] \in cut
          /\ m < Len(s) => s[m + 1] \notin cut
  BY TrimLeftIs
<1>2. m \in Nat /\ n \in Nat /\ Len(s) \in Nat
  OBVIOUS
<1>3. ~(m < n)
  <2> SUFFICES ASSUME m < n PROVE FALSE
    OBVIOUS
  <2>1. m + 1 \in 1..n /\ m < Len(s)
    BY <1>2
  <2> QED
    BY <1>1, <2>1
<1>4. ~(n < m)
  <2> SUFFICES ASSUME n < m PROVE FALSE
    OBVIOUS
  <2>1. n + 1 \in 1..m /\ n < Len(s)
    BY <1>2
  <2> QED
    BY <1>1, <2>1
<1>5. m = n
  BY <1>2, <1>3, <1>4
<1> QED
  BY <1>1, <1>5

\* The same from the right.
LEMMA TrimRightAt ==
    ASSUME NEW s \in Seq(Char), NEW cut, NEW n \in 0..Len(s),
           \A i \in n + 1..Len(s) : s[i] \in cut, n > 0 => s[n] \notin cut
    PROVE  TrimRight(s, cut) = SubSeq(s, 1, n)
<1>1. PICK m \in 0..Len(s) :
          /\ TrimRight(s, cut) = SubSeq(s, 1, m)
          /\ \A i \in m + 1..Len(s) : s[i] \in cut
          /\ m > 0 => s[m] \notin cut
  BY TrimRightIs
<1>2. m \in Nat /\ n \in Nat /\ Len(s) \in Nat
  OBVIOUS
<1>3. ~(m < n)
  <2> SUFFICES ASSUME m < n PROVE FALSE
    OBVIOUS
  <2>1. n \in m + 1..Len(s) /\ n > 0
    BY <1>2
  <2> QED
    BY <1>1, <2>1
<1>4. ~(n < m)
  <2> SUFFICES ASSUME n < m PROVE FALSE
    OBVIOUS
  <2>1. m \in n + 1..Len(s) /\ m > 0
    BY <1>2
  <2> QED
    BY <1>1, <2>1
<1>5. m = n
  BY <1>2, <1>3, <1>4
<1> QED
  BY <1>1, <1>5

\* The same for what is before a mark.
LEMMA BeforeAt ==
    ASSUME NEW s \in Seq(Char), NEW mark, NEW n \in 0..Len(s),
           \A i \in 1..n : s[i] # mark, n < Len(s) => s[n + 1] = mark
    PROVE  Before(s, mark) = SubSeq(s, 1, n)
<1>1. PICK m \in 0..Len(s) :
          /\ Before(s, mark) = SubSeq(s, 1, m)
          /\ \A i \in 1..m : s[i] # mark
          /\ m < Len(s) => s[m + 1] = mark
  BY BeforeIs
<1>2. m \in Nat /\ n \in Nat /\ Len(s) \in Nat
  OBVIOUS
<1>3. ~(m < n)
  <2> SUFFICES ASSUME m < n PROVE FALSE
    OBVIOUS
  <2>1. m + 1 \in 1..n /\ m < Len(s)
    BY <1>2
  <2> QED
    BY <1>1, <2>1
<1>4. ~(n < m)
  <2> SUFFICES ASSUME n < m PROVE FALSE
    OBVIOUS
  <2>1. n + 1 \in 1..m /\ n < Len(s)
    BY <1>2
  <2> QED
    BY <1>1, <2>1
<1>5. m = n
  BY <1>2, <1>3, <1>4
<1> QED
  BY <1>1, <1>5

\* Whatever is cut off, a path is left.
LEMMA CutIsPath ==
    ASSUME NEW s \in Seq(Char), NEW cut, NEW mark
    PROVE  /\ TrimLeft(s, cut) \in Seq(Char) /\ TrimRight(s, cut) \in Seq(Char)
           /\ TrimSpace(s) \in Seq(Char)
           /\ Before(s, mark) \in Seq(Char) /\ After(s, mark) \in Seq(Char)
<1>1. Len(s) \in Nat
  OBVIOUS
<1>2. \A c : \A r \in Seq(Char) : TrimLeft(r, c) \in Seq(Char)
  <2> SUFFICES ASSUME NEW c, NEW r \in Seq(Char) PROVE TrimLeft(r, c) \in Seq(Char)
    OBVIOUS
  <2>1. PICK n \in 0..Len(r) : TrimLeft(r, c) = SubSeq(r, n + 1, Len(r))
    BY TrimLeftIs
  <2>2. n + 1 \in 1..Len(r) + 1 /\ Len(r) \in 0..Len(r) /\ n + 1 <= Len(r) + 1
    OBVIOUS
  <2> QED
    BY <2>1, <2>2, PartOf
<1>3. \A c : \A r \in Seq(Char) : TrimRight(r, c) \in Seq(Char)
  <2> SUFFICES ASSUME NEW c, NEW r \in Seq(Char) PROVE TrimRight(r, c) \in Seq(Char)
    OBVIOUS
  <2>1. PICK n \in 0..Len(r) : TrimRight(r, c) = SubSeq(r, 1, n)
    BY TrimRightIs
  <2>2. 1 \in 1..Len(r) + 1 /\ n \in 0..Len(r) /\ 1 <= n + 1
    OBVIOUS
  <2> QED
    BY <2>1, <2>2, PartOf
<1>4. PICK n \in 0..Len(s) : Before(s, mark) = SubSeq(s, 1, n)
  BY BeforeIs
<1>5. Before(s, mark) \in Seq(Char) /\ Len(Before(s, mark)) = n
  <2>1. 1 \in 1..Len(s) + 1 /\ n \in 0..Len(s) /\ 1 <= n + 1 /\ (n + 1) - 1 = n
    BY <1>1
  <2> QED
    BY <1>4, <2>1, PartOf
<1>6. After(s, mark) \in Seq(Char)
  <2>1. After(s, mark) = SubSeq(s, n + 2, Len(s))
    BY <1>5 DEF After
  <2>2. CASE n = Len(s)
    <3>1. SubSeq(s, n + 2, Len(s)) = <<>>
      BY <2>2
    <3> QED
      BY <2>1, <3>1
  <2>3. CASE n < Len(s)
    <3>1. n + 2 \in 1..Len(s) + 1 /\ Len(s) \in 0..Len(s) /\ n + 2 <= Len(s) + 1
      BY <1>1, <2>3
    <3> QED
      BY <2>1, <3>1, PartOf
  <2> QED
    BY <1>1, <2>2, <2>3
<1> QED
  BY <1>2, <1>3, <1>5, <1>6 DEF TrimSpace

\* What has none of the characters at its ends stays whole.
LEMMA NothingToTrim ==
    ASSUME NEW s \in Seq(Char), NEW cut, \A i \in 1..Len(s) : s[i] \notin cut
    PROVE  TrimLeft(s, cut) = s /\ TrimRight(s, cut) = s
<1>1. Len(s) \in Nat /\ SubSeq(s, 1, Len(s)) = s
  OBVIOUS
<1>2. TrimLeft(s, cut) = SubSeq(s, 0 + 1, Len(s))
  <2>1. 0 \in 0..Len(s) /\ (\A i \in 1..0 : s[i] \in cut) /\ (0 < Len(s) => s[0 + 1] \notin cut)
    BY <1>1
  <2> QED
    BY <2>1, TrimLeftAt
<1>3. TrimRight(s, cut) = SubSeq(s, 1, Len(s))
  <2>1. /\ Len(s) \in 0..Len(s) /\ (\A i \in Len(s) + 1..Len(s) : s[i] \in cut)
        /\ (Len(s) > 0 => s[Len(s)] \notin cut)
    BY <1>1
  <2> QED
    BY <2>1, TrimRightAt
<1> QED
  BY <1>1, <1>2, <1>3

\* Nothing is before or after a mark that is not there.
LEMMA NoMark ==
    ASSUME NEW s \in Seq(Char), NEW mark, \A i \in 1..Len(s) : s[i] # mark
    PROVE  Before(s, mark) = s /\ After(s, mark) = <<>>
<1>1. Len(s) \in Nat /\ SubSeq(s, 1, Len(s)) = s /\ SubSeq(s, Len(s) + 2, Len(s)) = <<>>
  OBVIOUS
<1>2. Before(s, mark) = SubSeq(s, 1, Len(s))
  <2>1. Len(s) \in 0..Len(s) /\ ~(Len(s) < Len(s))
    BY <1>1
  <2> QED
    BY <2>1, BeforeAt
<1> QED
  BY <1>1, <1>2 DEF After

\* The first mark is found wherever more of the path may stand behind it.
LEMMA BeforeOfJoined ==
    ASSUME NEW s \in Seq(Char), NEW t \in Seq(Char), NEW mark \in Char
    PROVE  Before(s \o <<mark>> \o t, mark) = Before(s, mark)
<1> DEFINE w == s \o <<mark>> \o t
<1>1. /\ w \in Seq(Char) /\ Len(w) = Len(s) + 1 + Len(t)
      /\ \A i \in 1..Len(s) : w[i] = s[i]
      /\ w[Len(s) + 1] = mark
  BY Joined
<1> HIDE DEF w
<1>2. PICK n \in 0..Len(s) :
          /\ Before(s, mark) = SubSeq(s, 1, n)
          /\ \A i \in 1..n : s[i] # mark
          /\ n < Len(s) => s[n + 1] = mark
  BY BeforeIs
<1>3. Len(s) \in Nat /\ Len(t) \in Nat /\ n \in Nat /\ n <= Len(s)
  OBVIOUS
<1>4. n \in 0..Len(w)
  BY <1>1, <1>3
<1>5. \A i \in 1..n : w[i] # mark
  BY <1>1, <1>2, <1>3
<1>6. n < Len(w) => w[n + 1] = mark
  <2>1. CASE n = Len(s)
    BY <1>1, <2>1
  <2>2. CASE n < Len(s)
    BY <1>1, <1>2, <1>3, <2>2
  <2> QED
    BY <1>3, <2>1, <2>2
<1>7. Before(w, mark) = SubSeq(w, 1, n)
  BY <1>1, <1>4, <1>5, <1>6, BeforeAt
<1>8. SubSeq(w, 1, n) = SubSeq(s, 1, n)
  <2>1. /\ SubSeq(w, 1, n) \in Seq(Char) /\ Len(SubSeq(w, 1, n)) = n
        /\ \A i \in 1..n : SubSeq(w, 1, n)[i] = w[i]
    BY <1>1, <1>3, <1>4
  <2>2. /\ SubSeq(s, 1, n) \in Seq(Char) /\ Len(SubSeq(s, 1, n)) = n
        /\ \A i \in 1..n : SubSeq(s, 1, n)[i] = s[i]
    BY <1>3
  <2>3. \A i \in 1..n : w[i] = s[i]
    BY <1>1, <1>3
  <2> QED
    BY <2>1, <2>2, <2>3, SamePath
<1>9. Before(w, mark) = Before(s, mark)
  BY <1>2, <1>7, <1>8
<1> QED
  BY <1>9 DEF w

\* What is behind the first mark.
LEMMA AfterOfJoined ==
    ASSUME NEW s \in Seq(Char), NEW t \in Seq(Char), NEW mark \in Char,
           \A i \in 1..Len(s) : s[i] # mark
    PROVE  After(s \o <<mark>> \o t, mark) = t
<1> DEFINE w == s \o <<mark>> \o t
<1>1. /\ w \in Seq(Char) /\ Len(w) = Len(s) + 1 + Len(t)
      /\ \A i \in 1..Len(t) : w[Len(s) + 1 + i] = t[i]
  BY Joined
<1>2. Before(w, mark) = s
  BY BeforeOfJoined, NoMark
<1> HIDE DEF w
<1>3. Len(s) \in Nat /\ Len(t) \in Nat /\ Len(w) \in Nat
  BY <1>1
<1>4. After(w, mark) = SubSeq(w, Len(s) + 2, Len(w))
  BY <1>2 DEF After
<1>5. /\ SubSeq(w, Len(s) + 2, Len(w)) \in Seq(Char)
      /\ Len(SubSeq(w, Len(s) + 2, Len(w))) = Len(t)
      /\ \A i \in 1..Len(t) : SubSeq(w, Len(s) + 2, Len(w))[i] = w[Len(s) + 1 + i]
  <2>1. /\ Len(s) + 2 \in 1..Len(w) + 1 /\ Len(w) \in 0..Len(w) /\ Len(s) + 2 <= Len(w) + 1
        /\ (Len(w) + 1) - (Len(s) + 2) = Len(t)
    BY <1>1, <1>3
  <2>2. /\ SubSeq(w, Len(s) + 2, Len(w)) \in Seq(Char)
        /\ Len(SubSeq(w, Len(s) + 2, Len(w))) = Len(t)
        /\ \A i \in 1..Len(t) : SubSeq(w, Len(s) + 2, Len(w))[i] = w[(Len(s) + 2) + i - 1]
    BY <1>1, <2>1, PartOf
  <2>3. \A i \in 1..Len(t) : (Len(s) + 2) + i - 1 = Len(s) + 1 + i
    BY <1>3
  <2> QED
    BY <2>2, <2>3
<1>6. After(w, mark) = t
  BY <1>1, <1>4, <1>5, SamePath
<1> QED
  BY <1>6 DEF w

\* A mark that comes later leaves what is before it.
LEMMA BeforeBehind ==
    ASSUME NEW s \in Seq(Char), NEW t \in Seq(Char), NEW mark,
           \A i \in 1..Len(s) : s[i] # mark
    PROVE  Before(s \o t, mark) = s \o Before(t, mark)
<1> DEFINE w == s \o t
<1>1. /\ w \in Seq(Char) /\ Len(w) = Len(s) + Len(t)
      /\ \A i \in 1..Len(s) : w[i] = s[i]
      /\ \A i \in 1..Len(t) : w[Len(s) + i] = t[i]
  BY Behind
<1> HIDE DEF w
<1>2. PICK n \in 0..Len(t) :
          /\ Before(t, mark) = SubSeq(t, 1, n)
          /\ \A i \in 1..n : t[i] # mark
          /\ n < Len(t) => t[n + 1] = mark
  BY BeforeIs
<1>3. Len(s) \in Nat /\ Len(t) \in Nat /\ n \in Nat /\ n <= Len(t)
  OBVIOUS
<1> DEFINE m == Len(s) + n
<1>4. m \in 0..Len(w) /\ m \in Nat
  BY <1>1, <1>3
<1>5. ASSUME NEW i \in 1..m PROVE w[i] # mark
  <2>1. CASE i \in 1..Len(s)
    BY <1>1, <2>1
  <2>2. CASE i \notin 1..Len(s)
    <3>1. i - Len(s) \in 1..n /\ i - Len(s) \in 1..Len(t) /\ Len(s) + (i - Len(s)) = i
      BY <1>3, <2>2
    <3> QED
      BY <1>1, <1>2, <3>1
  <2> QED
    BY <2>1, <2>2
<1>6. m < Len(w) => w[m + 1] = mark
  <2> SUFFICES ASSUME m < Len(w) PROVE w[m + 1] = mark
    OBVIOUS
  <2>1. n + 1 \in 1..Len(t) /\ n < Len(t) /\ m + 1 = Len(s) + (n + 1)
    BY <1>1, <1>3
  <2> QED
    BY <1>1, <1>2, <2>1
<1>7. Before(w, mark) = SubSeq(w, 1, m)
  <2> HIDE DEF m
  <2> QED
    BY <1>1, <1>4, <1>5, <1>6, BeforeAt
<1>8. SubSeq(w, 1, m) = s \o SubSeq(t, 1, n)
  <2>1. /\ SubSeq(t, 1, n) \in Seq(Char) /\ Len(SubSeq(t, 1, n)) = n
        /\ \A i \in 1..n : SubSeq(t, 1, n)[i] = t[i]
    BY <1>3
  <2> DEFINE r == SubSeq(t, 1, n)
             v == s \o r
             u == SubSeq(w, 1, m)
  <2>2. /\ u \in Seq(Char) /\ Len(u) = m
        /\ \A i \in 1..m : u[i] = w[i]
    <3> HIDE DEF m
    <3> QED
      BY <1>1, <1>4
  <2> HIDE DEF r, u
  <2>3. r \in Seq(Char) /\ Len(r) = n /\ \A i \in 1..n : r[i] = t[i]
    BY <2>1 DEF r
  <2>4. /\ v \in Seq(Char) /\ Len(v) = Len(s) + Len(r)
        /\ \A i \in 1..Len(s) : v[i] = s[i]
        /\ \A i \in 1..Len(r) : v[Len(s) + i] = r[i]
    BY <2>3, Behind
  <2> HIDE DEF v
  <2>5. ASSUME NEW i \in 1..m PROVE u[i] = v[i]
    <3>1. CASE i \in 1..Len(s)
      BY <1>1, <2>2, <2>4, <3>1
    <3>2. CASE i \notin 1..Len(s)
      <4>1. i - Len(s) \in 1..n /\ Len(s) + (i - Len(s)) = i
        BY <1>3, <3>2
      <4>2. PICK k \in 1..n : i = Len(s) + k
        BY <4>1
      <4>3. u[i] = w[Len(s) + k] /\ w[Len(s) + k] = t[k]
        <5>1. u[i] = w[i]
          BY <2>2
        <5>2. k \in 1..Len(t)
          BY <1>3
        <5>3. w[Len(s) + k] = t[k]
          BY <1>1, <5>2
        <5> QED
          BY <4>2, <5>1, <5>3
      <4>4. v[i] = r[k] /\ r[k] = t[k]
        BY <2>3, <2>4, <4>2
      <4> QED
        BY <4>3, <4>4
    <3> QED
      BY <3>1, <3>2
  <2>6. u = v
    BY <2>2, <2>3, <2>4, <2>5, SamePath
  <2> QED
    BY <2>6 DEF u, v, r
<1> QED
  BY <1>2, <1>7, <1>8 DEF w

-----------------------------------------------------------------------------
(* Segments.                                                               *)

\* How many segments begin up to here.
RankIn(S, i)  == Cardinality({j \in S : j <= i})
Rank(path, i) == RankIn(Starts(path), i)

\* Where the k-th one begins, and what it is.
StartOf(path, k) == NthOf(Starts(path), k)

SegmentAt(path, i) == Before(SubSeq(path, i, Len(path)), "/")

\* A path has finitely many segments.
LEMMA StartsFinite ==
    ASSUME NEW p \in Seq(Char)
    PROVE  /\ Starts(p) \subseteq 1..Len(p) /\ Len(p) \in Nat
           /\ \A S \in SUBSET (1..Len(p)) : IsFiniteSet(S) /\ Cardinality(S) \in Nat
<1>1. Starts(p) \subseteq 1..Len(p) /\ Len(p) \in Nat
  BY DEF Starts
<1>2. IsFiniteSet(1..Len(p))
  BY <1>1, FS_Interval
<1> QED
  BY <1>1, <1>2, FS_Subset, FS_CardinalityType

\* Positions have the ranks from one on, each its own.
LEMMA NthIn ==
    ASSUME NEW n \in Nat, NEW A \in SUBSET (1..n)
    PROVE  /\ \A i \in A : RankIn(A, i) \in 1..Cardinality(A)
           /\ \A k \in 1..Cardinality(A) : NthOf(A, k) \in A /\ RankIn(A, NthOf(A, k)) = k
           /\ \A i, j \in A : RankIn(A, i) = RankIn(A, j) => i = j
<1> DEFINE N  == Cardinality(A)
           Up(i) == {j \in A : j <= i}
           f  == [i \in A |-> RankIn(A, i)]
<1>1. /\ IsFiniteSet(A) /\ N \in Nat
      /\ \A S \in SUBSET A : IsFiniteSet(S) /\ Cardinality(S) \in Nat
  <2>1. IsFiniteSet(1..n)
    BY FS_Interval
  <2> QED
    BY <2>1, FS_Subset, FS_CardinalityType
<1>2. \A i \in A : RankIn(A, i) = Cardinality(Up(i))
  BY DEF RankIn
<1>3. \A S \in SUBSET A : \A T \in SUBSET S :
          Cardinality(T) <= Cardinality(S) /\ (Cardinality(T) = Cardinality(S) => S = T)
  BY <1>1, FS_Subset
<1>4. ASSUME NEW i \in A PROVE RankIn(A, i) \in 1..N
  <2>1. Up(i) \in SUBSET A /\ i \in Up(i)
    BY <1>1
  <2>2. Cardinality(Up(i)) \in Nat /\ Cardinality(Up(i)) <= N /\ Cardinality(Up(i)) # 0
    BY <1>1, <1>3, <2>1, FS_EmptySet
  <2> QED
    BY <1>1, <1>2, <2>2
<1>5. ASSUME NEW i \in A, NEW j \in A, RankIn(A, i) = RankIn(A, j) PROVE i = j
  <2>1. \A x, y \in A : x < y => RankIn(A, x) # RankIn(A, y)
    <3> SUFFICES ASSUME NEW x \in A, NEW y \in A, x < y PROVE RankIn(A, x) # RankIn(A, y)
      OBVIOUS
    <3>1. Up(x) \in SUBSET Up(y) /\ Up(y) \in SUBSET A
      <4>1. \A z \in A : z <= x => z <= y
        BY <1>1
      <4> QED
        BY <4>1
    <3>2. y \in Up(y) /\ y \notin Up(x)
      BY <1>1
    <3> QED
      BY <1>2, <1>3, <3>1, <3>2
  <2> QED
    BY <1>1, <1>5, <2>1
<1>6. f \in Injection(A, 1..N)
  BY <1>4, <1>5 DEF Injection, IsInjective
<1>7. IsFiniteSet(1..N) /\ Cardinality(1..N) = N
  BY <1>1, FS_Interval
<1>8. f \in Surjection(A, 1..N)
  BY <1>6, <1>7, FS_Injection
<1>9. ASSUME NEW k \in 1..N PROVE NthOf(A, k) \in A /\ RankIn(A, NthOf(A, k)) = k
  <2>1. \E i \in A : RankIn(A, i) = k
    BY <1>8 DEF Surjection
  <2> QED
    BY <2>1, Zenon DEF NthOf, RankIn
<1> QED
  BY <1>4, <1>5, <1>9

\* The segments of a path have ranks of their own.
LEMMA Nth ==
    ASSUME NEW p \in Seq(Char)
    PROVE  /\ \A i \in Starts(p) : Rank(p, i) \in 1..Cardinality(Starts(p))
           /\ \A k \in 1..Cardinality(Starts(p)) :
                 StartOf(p, k) \in Starts(p) /\ Rank(p, StartOf(p, k)) = k
           /\ \A i, j \in Starts(p) : Rank(p, i) = Rank(p, j) => i = j
<1>1. Len(p) \in Nat /\ Starts(p) \in SUBSET (1..Len(p))
  BY StartsFinite
<1> QED
  BY <1>1, NthIn DEF Rank, StartOf

\* Whatever is unescaped, a path is left; without an escape, the same.
LEMMA UnescapeIsPath ==
    ASSUME NEW s \in Seq(Char), WellEscaped(s)
    PROVE  /\ Unescape(s) \in Seq(Char)
           /\ (\A i \in 1..Len(s) : s[i] # "%") => Unescape(s) = s
<1> DEFINE A == Kept(s)
           N == Cardinality(A)
           u == [k \in 1..N |-> CharAt(s, NthOf(A, k))]
<1>1. Len(s) \in Nat /\ A \in SUBSET (1..Len(s))
  BY DEF Kept
<1>2. N \in Nat
  <2>1. IsFiniteSet(1..Len(s))
    BY <1>1, FS_Interval
  <2> QED
    BY <1>1, <2>1, FS_Subset, FS_CardinalityType
<1>3. \A i \in 1..Len(s) : CharAt(s, i) \in Char
  <2>1. \A i \in 1..Len(s) : s[i] \in Char
    OBVIOUS
  <2>2. DOMAIN s = 1..Len(s)
    OBVIOUS
  <2>3. \A i \in 1..Len(s) : s[i] = "%" => <<s[i + 1], s[i + 2]>> \in DOMAIN Escaped
    BY <2>2, Zenon DEF WellEscaped
  <2> QED
    BY <2>1, <2>3, ExchangeAssumption DEF CharAt
<1>4. u \in Seq(Char)
  <2>1. \A k \in 1..N : NthOf(A, k) \in 1..Len(s)
    BY <1>1, NthIn
  <2> HIDE DEF A, N
  <2> QED
    BY <1>2, <1>3, <2>1
<1>5. Unescape(s) = IF ~Contains(s, "%") THEN s ELSE u
  BY Zenon DEF Unescape
<1>6. (\A i \in 1..Len(s) : s[i] # "%") => ~Contains(s, "%")
  BY DEF Contains
<1> QED
  BY <1>4, <1>5, <1>6

\* What the segments of a path are.
LEMMA SegmentsAre ==
    ASSUME NEW p \in Seq(Char)
    PROVE  /\ Segments(p) \in Seq(Seq(Char))
           /\ Len(Segments(p)) = Cardinality(Starts(p)) /\ Cardinality(Starts(p)) \in Nat
           /\ \A k \in 1..Cardinality(Starts(p)) : Segments(p)[k] = SegmentAt(p, StartOf(p, k))
<1> DEFINE N == Cardinality(Starts(p))
<1>1. N \in Nat /\ Starts(p) \subseteq 1..Len(p) /\ Len(p) \in Nat
  BY StartsFinite
<1>2. Segments(p) = [k \in 1..N |-> SegmentAt(p, StartOf(p, k))]
  BY Zenon DEF Segments, SegmentAt, StartOf
<1>3. \A k \in 1..N : SegmentAt(p, StartOf(p, k)) \in Seq(Char)
  <2> SUFFICES ASSUME NEW i \in 1..Len(p) PROVE SegmentAt(p, i) \in Seq(Char)
    BY <1>1, Nth
  <2>1. SubSeq(p, i, Len(p)) \in Seq(Char)
    OBVIOUS
  <2> QED
    BY <2>1, CutIsPath DEF SegmentAt
<1> HIDE DEF N
<1>4. Segments(p) \in Seq(Seq(Char)) /\ Len(Segments(p)) = N
  BY <1>1, <1>2, <1>3
<1> QED
  BY <1>1, <1>2, <1>4 DEF N

\* Two sequences of segments are the same if they have the same segments.
LEMMA SameSegments ==
    ASSUME NEW s \in Seq(Seq(Char)), NEW t \in Seq(Seq(Char)), Len(s) = Len(t),
           \A i \in 1..Len(s) : s[i] = t[i]
    PROVE  s = t
OBVIOUS

\* One sequence of segments behind another.
LEMMA SegmentsBehind ==
    ASSUME NEW s \in Seq(Seq(Char)), NEW t \in Seq(Seq(Char))
    PROVE  /\ s \o t \in Seq(Seq(Char)) /\ Len(s \o t) = Len(s) + Len(t)
           /\ \A i \in 1..Len(s) : (s \o t)[i] = s[i]
           /\ \A i \in 1..Len(t) : (s \o t)[Len(s) + i] = t[i]
OBVIOUS

\* Places, as many characters further on.
Further(n, T) == {n + i : i \in T}

\* What is moved beyond a place is counted apart from what is before it.
LEMMA CountFurther ==
    ASSUME NEW n \in Nat, NEW A \in SUBSET (1..n), NEW m \in Nat, NEW T \in SUBSET (1..m)
    PROVE  Cardinality(A \union Further(n, T)) = Cardinality(A) + Cardinality(T)
<1>1. IsFiniteSet(A) /\ IsFiniteSet(T) /\ Cardinality(A) \in Nat /\ Cardinality(T) \in Nat
  <2>1. IsFiniteSet(1..n) /\ IsFiniteSet(1..m)
    BY FS_Interval
  <2> QED
    BY <2>1, FS_Subset, FS_CardinalityType
<1> DEFINE f == [i \in T |-> n + i]
           F == Further(n, T)
<1>2. f \in Bijection(T, F)
  <2>1. \A i \in T : f[i] = n + i /\ i \in Nat
    OBVIOUS
  <2>2. \A i \in T : f[i] \in F
    BY DEF Further
  <2>3. \A x \in F : \E i \in T : f[i] = x
    BY DEF Further
  <2>4. \A i, j \in T : f[i] = f[j] => i = j
    BY <2>1
  <2>5. f \in [T -> F]
    BY <2>2
  <2> HIDE DEF f, F
  <2> QED
    BY <2>3, <2>4, <2>5 DEF Bijection, Injection, Surjection, IsInjective
<1>3. IsFiniteSet(F) /\ Cardinality(F) = Cardinality(T)
  <2> HIDE DEF f, F
  <2>1. ExistsBijection(T, F)
    BY <1>2 DEF ExistsBijection
  <2> QED
    BY <1>1, <2>1, FS_Bijection
<1>4. A \cap F = {}
  BY DEF Further
<1> HIDE DEF F
<1>5. Cardinality(A \union F) = Cardinality(A) + Cardinality(F) - Cardinality(A \cap F)
  BY <1>1, <1>3, FS_Union
<1>6. Cardinality(A \cap F) = 0
  BY <1>4, FS_EmptySet
<1> QED
  BY <1>1, <1>3, <1>5, <1>6 DEF F

\* Where two paths are joined by a slash, the segments begin where they began.
LEMMA StartsOfJoined ==
    ASSUME NEW s \in Seq(Char), NEW t \in Seq(Char)
    PROVE  Starts(s \o <<"/">> \o t) = Starts(s) \union Further(Len(s) + 1, Starts(t))
<1> DEFINE w == s \o <<"/">> \o t
           n == Len(s) + 1
<1>1. /\ w \in Seq(Char) /\ Len(w) = n + Len(t)
      /\ \A i \in 1..Len(s) : w[i] = s[i]
      /\ w[n] = "/"
      /\ \A i \in 1..Len(t) : w[n + i] = t[i]
  <2>1. "/" \in Char
    BY DEF Char
  <2> QED
    BY <2>1, Joined
<1> HIDE DEF w
<1>2. Len(s) \in Nat /\ Len(t) \in Nat /\ n \in Nat /\ n = Len(s) + 1
  OBVIOUS
<1> HIDE DEF n
<1>3. DOMAIN w = 1..Len(w) /\ DOMAIN s = 1..Len(s) /\ DOMAIN t = 1..Len(t)
  BY <1>1
<1>4. ASSUME NEW i \in 1..Len(s) PROVE i \in Starts(w) <=> i \in Starts(s)
  <2>1. w[i] = s[i] /\ i \in 1..Len(w)
    BY <1>1, <1>2
  <2>2. i # 1 => i - 1 \in 1..Len(s) /\ w[i - 1] = s[i - 1]
    <3>1. i # 1 => i - 1 \in 1..Len(s)
      BY <1>2
    <3> QED
      BY <1>1, <3>1
  <2> QED
    BY <1>3, <2>1, <2>2 DEF Starts
<1>5. n \notin Starts(w)
  BY <1>1 DEF Starts
<1>6. ASSUME NEW i \in 1..Len(t) PROVE n + i \in Starts(w) <=> i \in Starts(t)
  <2>1. w[n + i] = t[i] /\ n + i \in 1..Len(w) /\ n + i # 1
    BY <1>1, <1>2
  <2>2. CASE i = 1
    <3>1. w[(n + i) - 1] = "/"
      BY <1>1, <1>2, <2>2
    <3> QED
      BY <1>3, <2>1, <2>2, <3>1 DEF Starts
  <2>3. CASE i # 1
    <3>1. i - 1 \in 1..Len(t) /\ n + (i - 1) = (n + i) - 1
      BY <1>2, <2>3
    <3>2. w[(n + i) - 1] = t[i - 1]
      BY <1>1, <3>1
    <3> QED
      BY <1>3, <2>1, <2>3, <3>2 DEF Starts
  <2> QED
    BY <2>2, <2>3
<1>7. Starts(w) \subseteq 1..Len(w) /\ Starts(s) \subseteq 1..Len(s) /\ Starts(t) \subseteq 1..Len(t)
  BY <1>3 DEF Starts
<1>8. ASSUME NEW i \in Starts(w) PROVE i \in Starts(s) \union Further(n, Starts(t))
  <2>1. CASE i \in 1..Len(s)
    BY <1>4, <2>1
  <2>2. CASE i \notin 1..Len(s)
    <3>1. i - n \in 1..Len(t) /\ n + (i - n) = i
      BY <1>1, <1>2, <1>5, <1>7, <2>2
    <3>2. i - n \in Starts(t)
      BY <1>6, <3>1
    <3> QED
      BY <3>1, <3>2 DEF Further
  <2> QED
    BY <2>1, <2>2
<1>9. ASSUME NEW i \in Starts(t) PROVE n + i \in Starts(w)
  BY <1>6, <1>7
<1>10. Starts(w) = Starts(s) \union Further(n, Starts(t))
  BY <1>4, <1>7, <1>8, <1>9 DEF Further
<1> QED
  BY <1>10 DEF w, n

\* The segments of the first path keep their numbers, those of the second come behind.
LEMMA StartOfJoined ==
    ASSUME NEW s \in Seq(Char), NEW t \in Seq(Char), NEW w \in Seq(Char),
           w = s \o <<"/">> \o t
    PROVE  LET a == Cardinality(Starts(s))
               b == Cardinality(Starts(t))
           IN  /\ Cardinality(Starts(w)) = a + b
               /\ \A k \in 1..a : StartOf(w, k) = StartOf(s, k)
               /\ \A k \in 1..b : StartOf(w, a + k) = (Len(s) + 1) + StartOf(t, k)
<1> DEFINE a == Cardinality(Starts(s))
           b == Cardinality(Starts(t))
           n == Len(s) + 1
<1>1. /\ Starts(s) \subseteq 1..Len(s) /\ Starts(t) \subseteq 1..Len(t)
      /\ Len(s) \in Nat /\ Len(t) \in Nat /\ n \in Nat /\ a \in Nat /\ b \in Nat
      /\ Starts(s) \subseteq 1..n
  <2>1. /\ Starts(s) \subseteq 1..Len(s) /\ Starts(t) \subseteq 1..Len(t)
        /\ Len(s) \in Nat /\ Len(t) \in Nat /\ a \in Nat /\ b \in Nat
    BY StartsFinite
  <2> HIDE DEF a, b
  <2>2. 1..Len(s) \subseteq 1..n
    BY <2>1
  <2> QED
    BY <2>1, <2>2
<1>2. Starts(w) = Starts(s) \union Further(n, Starts(t))
  BY StartsOfJoined
<1>m. /\ Starts(s) \in SUBSET (1..n) /\ n \in Nat
      /\ \A S \in SUBSET Starts(t) : S \in SUBSET (1..Len(t))
      /\ Starts(t) \in SUBSET (1..Len(t)) /\ Len(t) \in Nat
  BY <1>1
<1>3. Cardinality(Starts(w)) = a + b
  <2> HIDE DEF n
  <2>1. Cardinality(Starts(s) \union Further(n, Starts(t)))
          = Cardinality(Starts(s)) + Cardinality(Starts(t))
    BY ONLY <1>m, CountFurther
  <2> QED
    BY <1>2, <2>1
<1> HIDE DEF a, b
<1>4. /\ \A i \in Starts(s) : i <= Len(s) /\ i \in Nat
      /\ \A i \in Starts(t) : i \in Nat /\ i >= 1
      /\ \A i \in Further(n, Starts(t)) : i \in Nat /\ i > n
  BY <1>1 DEF Further
<1>5. ASSUME NEW i \in Starts(s) PROVE i \in Starts(w) /\ Rank(w, i) = Rank(s, i)
  <2>1. {j \in Starts(w) : j <= i} = {j \in Starts(s) : j <= i}
    BY <1>1, <1>2, <1>4
  <2> QED
    BY <1>2, <2>1 DEF Rank, RankIn
<1>6. ASSUME NEW i \in Starts(t) PROVE n + i \in Starts(w) /\ Rank(w, n + i) = a + Rank(t, i)
  <2> DEFINE Up == {j \in Starts(t) : j <= i}
  <2>1. {j \in Starts(w) : j <= n + i} = Starts(s) \union Further(n, Up)
    <3>1. \A j \in Starts(s) : j <= n + i
      BY <1>1, <1>4
    <3>2. \A j \in Starts(t) : n + j <= n + i <=> j <= i
      BY <1>1, <1>4
    <3>3. {j \in Further(n, Starts(t)) : j <= n + i} = Further(n, Up)
      BY <3>2 DEF Further
    <3> HIDE DEF Up
    <3> QED
      BY <1>2, <3>1, <3>3
  <2>2. Up \in SUBSET (1..Len(t))
    BY <1>1
  <2>3. Rank(t, i) = Cardinality(Up)
    BY DEF Rank, RankIn
  <2>4. Rank(w, n + i) = Cardinality(Starts(s) \union Further(n, Up))
    BY <2>1 DEF Rank, RankIn
  <2> HIDE DEF Up, n
  <2>5. Cardinality(Starts(s) \union Further(n, Up)) = Cardinality(Starts(s)) + Cardinality(Up)
    BY ONLY <1>m, <2>2, CountFurther
  <2>6. n + i \in Starts(w)
    BY <1>2 DEF Further
  <2> QED
    BY <2>3, <2>4, <2>5, <2>6 DEF a
<1> DEFINE N == Cardinality(Starts(w))
<1>7. /\ \A k \in 1..N : StartOf(w, k) \in Starts(w) /\ Rank(w, StartOf(w, k)) = k
      /\ \A i, j \in Starts(w) : Rank(w, i) = Rank(w, j) => i = j
  BY Nth
<1>8. ASSUME NEW k \in 1..a PROVE StartOf(w, k) = StartOf(s, k)
  <2>1. StartOf(s, k) \in Starts(s) /\ Rank(s, StartOf(s, k)) = k
    BY Nth DEF a
  <2>2. k \in 1..N
    BY <1>1, <1>3
  <2> QED
    BY <1>5, <1>7, <2>1, <2>2
<1>9. ASSUME NEW k \in 1..b PROVE StartOf(w, a + k) = n + StartOf(t, k)
  <2>1. StartOf(t, k) \in Starts(t) /\ Rank(t, StartOf(t, k)) = k
    BY Nth DEF b
  <2>2. a + k \in 1..N
    BY <1>1, <1>3
  <2>3. StartOf(w, a + k) \in Starts(w) /\ Rank(w, StartOf(w, a + k)) = a + k
    BY <1>7, <2>2
  <2>4. n + StartOf(t, k) \in Starts(w) /\ Rank(w, n + StartOf(t, k)) = a + k
    BY <1>6, <2>1
  <2> QED
    BY <1>7, <2>3, <2>4
<1> QED
  BY <1>3, <1>8, <1>9 DEF a, b, n

\* A segment is the same after the join.
LEMMA SegmentOfJoined ==
    ASSUME NEW s \in Seq(Char), NEW t \in Seq(Char), NEW w \in Seq(Char),
           w = s \o <<"/">> \o t
    PROVE  /\ \A i \in 1..Len(s) : SegmentAt(w, i) = SegmentAt(s, i)
           /\ \A i \in 1..Len(t) : SegmentAt(w, (Len(s) + 1) + i) = SegmentAt(t, i)
<1> DEFINE n == Len(s) + 1
<1>1. "/" \in Char
  BY DEF Char
<1>2. /\ Len(w) = n + Len(t)
      /\ \A i \in 1..Len(s) : w[i] = s[i]
      /\ w[n] = "/"
      /\ \A i \in 1..Len(t) : w[n + i] = t[i]
  BY <1>1, Joined
<1>3. Len(s) \in Nat /\ Len(t) \in Nat /\ n \in Nat /\ n = Len(s) + 1 /\ Len(w) \in Nat
  OBVIOUS
<1> HIDE DEF n
<1>4. ASSUME NEW i \in 1..Len(s) PROVE SegmentAt(w, i) = SegmentAt(s, i)
  <2> DEFINE u == SubSeq(s, i, Len(s))
             v == SubSeq(w, i, Len(w))
             r == u \o <<"/">> \o t
  <2>1. /\ u \in Seq(Char) /\ Len(u) = (Len(s) + 1) - i
        /\ \A j \in 1..(Len(s) + 1) - i : u[j] = s[i + j - 1]
    BY <1>3, PartOf
  <2>2. /\ v \in Seq(Char) /\ Len(v) = (Len(w) + 1) - i
        /\ \A j \in 1..(Len(w) + 1) - i : v[j] = w[i + j - 1]
    <3>1. i \in 1..Len(w) + 1 /\ Len(w) \in 0..Len(w) /\ i <= Len(w) + 1
      BY <1>2, <1>3
    <3> QED
      BY <3>1, PartOf
  <2> HIDE DEF u, v
  <2>3. /\ r \in Seq(Char) /\ Len(r) = Len(u) + 1 + Len(t)
        /\ \A j \in 1..Len(u) : r[j] = u[j]
        /\ r[Len(u) + 1] = "/"
        /\ \A j \in 1..Len(t) : r[Len(u) + 1 + j] = t[j]
    <3>1. u \in Seq(Char)
      BY <2>1
    <3> QED
      BY <1>1, <3>1, Joined
  <2> HIDE DEF r
  <2>4. Len(v) = Len(r)
    BY <1>2, <1>3, <2>1, <2>2, <2>3
  <2>5. ASSUME NEW j \in 1..Len(v) PROVE v[j] = r[j]
    <3>0. v[j] = w[i + j - 1] /\ j \in Nat /\ j >= 1 /\ i \in Nat
      BY <2>2
    <3>1. CASE j \in 1..Len(u)
      <4>1. i + j - 1 \in 1..Len(s)
        BY <1>3, <2>1, <3>1
      <4>2. w[i + j - 1] = s[i + j - 1]
        BY <1>2, <4>1
      <4>3. u[j] = s[i + j - 1]
        BY <2>1, <3>1
      <4> QED
        BY <2>3, <3>0, <3>1, <4>2, <4>3
    <3>2. CASE j = Len(u) + 1
      <4>1. i + j - 1 = n
        BY <1>3, <2>1, <3>2
      <4> QED
        BY <1>2, <2>3, <3>0, <3>2, <4>1
    <3>3. CASE j > Len(u) + 1
      <4>1. PICK k \in 1..Len(t) : j = Len(u) + 1 + k
        <5>1. j - (Len(u) + 1) \in 1..Len(t) /\ j = Len(u) + 1 + (j - (Len(u) + 1))
          BY <1>3, <2>1, <2>3, <2>4, <3>0, <3>3
        <5> QED
          BY <5>1
      <4>2. i + j - 1 = n + k
        BY <1>3, <2>1, <3>0, <4>1
      <4>3. w[n + k] = t[k] /\ r[Len(u) + 1 + k] = t[k]
        BY <1>2, <2>3
      <4> QED
        BY <3>0, <4>1, <4>2, <4>3
    <3>4. Len(u) \in Nat
      BY <2>1
    <3>5. j \in 1..Len(u) \/ j = Len(u) + 1 \/ j > Len(u) + 1
      BY <3>0, <3>4
    <3> QED
      BY <3>1, <3>2, <3>3, <3>5
  <2>6. v = r
    BY <2>2, <2>3, <2>4, <2>5, SamePath
  <2>7. Before(r, "/") = Before(u, "/")
    BY <1>1, <2>1, BeforeOfJoined DEF r
  <2> QED
    BY <2>6, <2>7 DEF SegmentAt, u, v
<1>5. ASSUME NEW i \in 1..Len(t) PROVE SegmentAt(w, n + i) = SegmentAt(t, i)
  <2> DEFINE u == SubSeq(t, i, Len(t))
             v == SubSeq(w, n + i, Len(w))
  <2>1. /\ u \in Seq(Char) /\ Len(u) = (Len(t) + 1) - i
        /\ \A j \in 1..(Len(t) + 1) - i : u[j] = t[i + j - 1]
    BY <1>3, PartOf
  <2>2. /\ v \in Seq(Char) /\ Len(v) = (Len(w) + 1) - (n + i)
        /\ \A j \in 1..(Len(w) + 1) - (n + i) : v[j] = w[(n + i) + j - 1]
    <3>1. n + i \in 1..Len(w) + 1 /\ Len(w) \in 0..Len(w) /\ n + i <= Len(w) + 1
      BY <1>2, <1>3
    <3> QED
      BY <3>1, PartOf
  <2> HIDE DEF u, v
  <2>3. Len(v) = Len(u)
    BY <1>2, <1>3, <2>1, <2>2
  <2>4. ASSUME NEW j \in 1..Len(u) PROVE v[j] = u[j]
    <3>1. v[j] = w[(n + i) + j - 1] /\ u[j] = t[i + j - 1]
      BY <2>1, <2>2, <2>3
    <3>2. i + j - 1 \in 1..Len(t) /\ (n + i) + j - 1 = n + (i + j - 1)
      BY <1>3, <2>1
    <3>3. w[n + (i + j - 1)] = t[i + j - 1]
      BY <1>2, <3>2
    <3> QED
      BY <3>1, <3>2, <3>3
  <2>5. v = u
    BY <2>1, <2>2, <2>3, <2>4, SamePath
  <2> QED
    BY <2>5 DEF SegmentAt, u, v
<1> QED
  BY <1>4, <1>5 DEF n

\* Two paths joined by a slash have the segments of the one and then those of the other.
LEMMA SegmentsJoin ==
    ASSUME NEW s \in Seq(Char), NEW t \in Seq(Char)
    PROVE  Segments(s \o <<"/">> \o t) = Segments(s) \o Segments(t)
<1> DEFINE w == s \o <<"/">> \o t
           a == Cardinality(Starts(s))
           b == Cardinality(Starts(t))
           v == Segments(s) \o Segments(t)
<1>1. w \in Seq(Char)
  <2>1. "/" \in Char
    BY DEF Char
  <2> QED
    BY <2>1, Joined
<1>2. /\ Cardinality(Starts(w)) = a + b
      /\ \A k \in 1..a : StartOf(w, k) = StartOf(s, k)
      /\ \A k \in 1..b : StartOf(w, a + k) = (Len(s) + 1) + StartOf(t, k)
  BY <1>1, StartOfJoined
<1>3. /\ \A i \in 1..Len(s) : SegmentAt(w, i) = SegmentAt(s, i)
      /\ \A i \in 1..Len(t) : SegmentAt(w, (Len(s) + 1) + i) = SegmentAt(t, i)
  BY <1>1, SegmentOfJoined
<1> HIDE DEF w
<1>4. /\ Segments(s) \in Seq(Seq(Char)) /\ Len(Segments(s)) = a /\ a \in Nat
      /\ Segments(t) \in Seq(Seq(Char)) /\ Len(Segments(t)) = b /\ b \in Nat
      /\ Segments(w) \in Seq(Seq(Char)) /\ Len(Segments(w)) = a + b
      /\ \A k \in 1..a : Segments(s)[k] = SegmentAt(s, StartOf(s, k))
      /\ \A k \in 1..b : Segments(t)[k] = SegmentAt(t, StartOf(t, k))
      /\ \A k \in 1..a + b : Segments(w)[k] = SegmentAt(w, StartOf(w, k))
  BY <1>1, <1>2, SegmentsAre
<1>5. /\ \A k \in 1..a : StartOf(s, k) \in 1..Len(s)
      /\ \A k \in 1..b : StartOf(t, k) \in 1..Len(t)
  BY StartsFinite, Nth
<1> HIDE DEF a, b
<1>6. /\ v \in Seq(Seq(Char)) /\ Len(v) = a + b
      /\ \A k \in 1..a : v[k] = Segments(s)[k]
      /\ \A k \in 1..b : v[a + k] = Segments(t)[k]
  BY <1>4, SegmentsBehind
<1> HIDE DEF v
<1>7. ASSUME NEW k \in 1..a + b PROVE Segments(w)[k] = v[k]
  <2>1. CASE k \in 1..a
    BY <1>2, <1>3, <1>4, <1>5, <1>6, <2>1
  <2>2. CASE k \notin 1..a
    <3>1. k - a \in 1..b /\ a + (k - a) = k
      BY <1>4, <2>2
    <3>2. PICK j \in 1..b : k = a + j
      BY <3>1
    <3>3. Segments(w)[k] = SegmentAt(w, (Len(s) + 1) + StartOf(t, j))
      BY <1>2, <1>4, <3>2
    <3>4. SegmentAt(w, (Len(s) + 1) + StartOf(t, j)) = SegmentAt(t, StartOf(t, j))
      BY <1>3, <1>5
    <3> QED
      BY <1>4, <1>6, <3>2, <3>3, <3>4
  <2> QED
    BY <2>1, <2>2
<1>8. Segments(w) = v
  BY <1>4, <1>6, <1>7, SameSegments
<1> QED
  BY <1>8 DEF w, v

\* Slashes alone are no segment.
LEMMA NoSegments ==
    ASSUME NEW p \in Seq(Char), \A i \in 1..Len(p) : p[i] = "/"
    PROVE  Segments(p) = <<>>
<1>1. Starts(p) = {}
  BY DEF Starts
<1>2. Cardinality(Starts(p)) = 0
  BY <1>1, FS_EmptySet
<1>3. Segments(p) \in Seq(Seq(Char)) /\ Len(Segments(p)) = 0
  BY <1>2, SegmentsAre
<1> QED
  BY <1>3

\* A path is what is before a slash and what is behind it.
LEMMA SplitAt ==
    ASSUME NEW p \in Seq(Char), NEW n \in 1..Len(p), p[n] = "/"
    PROVE  /\ SubSeq(p, 1, n - 1) \in Seq(Char) /\ SubSeq(p, n + 1, Len(p)) \in Seq(Char)
           /\ p = SubSeq(p, 1, n - 1) \o <<"/">> \o SubSeq(p, n + 1, Len(p))
           /\ Len(SubSeq(p, 1, n - 1)) = n - 1
           /\ Len(SubSeq(p, n + 1, Len(p))) = Len(p) - n
           /\ \A i \in 1..n - 1 : SubSeq(p, 1, n - 1)[i] = p[i]
           /\ \A i \in 1..Len(p) - n : SubSeq(p, n + 1, Len(p))[i] = p[n + i]
<1> DEFINE u == SubSeq(p, 1, n - 1)
           v == SubSeq(p, n + 1, Len(p))
<1>1. Len(p) \in Nat /\ n \in Nat
  OBVIOUS
<1>2. u \in Seq(Char) /\ Len(u) = n - 1 /\ \A i \in 1..n - 1 : u[i] = p[i]
  OBVIOUS
<1>3. v \in Seq(Char) /\ Len(v) = Len(p) - n /\ \A i \in 1..Len(p) - n : v[i] = p[n + i]
  <2>1. n + 1 \in 1..Len(p) + 1 /\ Len(p) \in 0..Len(p) /\ n + 1 <= Len(p) + 1
        /\ (Len(p) + 1) - (n + 1) = Len(p) - n
    BY <1>1
  <2>2. /\ v \in Seq(Char) /\ Len(v) = Len(p) - n
        /\ \A i \in 1..Len(p) - n : v[i] = p[(n + 1) + i - 1]
    BY <2>1, PartOf
  <2>3. \A i \in 1..Len(p) - n : (n + 1) + i - 1 = n + i
    BY <1>1
  <2> QED
    BY <2>2, <2>3
<1> HIDE DEF u, v
<1>4. "/" \in Char
  BY DEF Char
<1>5. u \in Seq(Char) /\ v \in Seq(Char)
  BY <1>2, <1>3
<1> DEFINE r == u \o <<"/">> \o v
<1>6. /\ r \in Seq(Char) /\ Len(r) = Len(u) + 1 + Len(v)
      /\ \A i \in 1..Len(u) : r[i] = u[i]
      /\ r[Len(u) + 1] = "/"
      /\ \A i \in 1..Len(v) : r[Len(u) + 1 + i] = v[i]
  BY <1>4, <1>5, Joined
<1> HIDE DEF r
<1>7. Len(r) = Len(p)
  BY <1>1, <1>2, <1>3, <1>6
<1>8. ASSUME NEW i \in 1..Len(p) PROVE r[i] = p[i]
  <2>1. CASE i \in 1..n - 1
    BY <1>2, <1>6, <2>1
  <2>2. CASE i = n
    BY <1>1, <1>2, <1>6, <2>2
  <2>3. CASE i > n
    <3>1. i - n \in 1..Len(p) - n /\ n + (i - n) = i
      BY <1>1, <2>3
    <3>2. PICK k \in 1..Len(p) - n : i = n + k
      BY <3>1
    <3>3. r[Len(u) + 1 + k] = v[k] /\ v[k] = p[n + k]
      BY <1>3, <1>6
    <3>4. Len(u) + 1 + k = n + k
      BY <1>1, <1>2
    <3> QED
      BY <3>2, <3>3, <3>4
  <2> QED
    BY <1>1, <2>1, <2>2, <2>3
<1>9. p = r
  BY <1>6, <1>7, <1>8, SamePath
<1> QED
  BY <1>2, <1>3, <1>9 DEF u, v, r

\* Slashes at an end of a path do not count.
LEMMA SegmentsTrim ==
    ASSUME NEW p \in Seq(Char)
    PROVE  /\ Segments(TrimLeft(p, {"/"})) = Segments(p)
           /\ Segments(TrimRight(p, {"/"})) = Segments(p)
<1>1. Segments(p) \in Seq(Seq(Char)) /\ Len(p) \in Nat
  BY SegmentsAre
<1>2. Segments(p) = <<>> \o Segments(p) /\ Segments(p) = Segments(p) \o <<>>
  BY <1>1
<1>3. Segments(TrimLeft(p, {"/"})) = Segments(p)
  <2>1. PICK n \in 0..Len(p) :
            /\ TrimLeft(p, {"/"}) = SubSeq(p, n + 1, Len(p))
            /\ \A i \in 1..n : p[i] \in {"/"}
    BY TrimLeftIs
  <2>2. CASE n = 0
    <3>1. SubSeq(p, n + 1, Len(p)) = p
      BY <2>2
    <3> QED
      BY <2>1, <3>1
  <2>3. CASE n # 0
    <3> DEFINE u == SubSeq(p, 1, n - 1)
               v == SubSeq(p, n + 1, Len(p))
    <3>1. n \in 1..Len(p) /\ p[n] = "/"
      BY <2>1, <2>3
    <3>2. /\ u \in Seq(Char) /\ v \in Seq(Char) /\ p = u \o <<"/">> \o v
          /\ Len(u) = n - 1 /\ \A i \in 1..n - 1 : u[i] = p[i]
      BY <3>1, SplitAt
    <3>3. \A i \in 1..n - 1 : i \in 1..n
      OBVIOUS
    <3> HIDE DEF u, v
    <3>4. Segments(u) = <<>>
      BY <2>1, <3>2, <3>3, NoSegments
    <3>5. Segments(p) = Segments(u) \o Segments(v)
      BY <3>2, SegmentsJoin
    <3>6. Segments(v) \in Seq(Seq(Char))
      BY <3>2, SegmentsAre
    <3>7. <<>> \o Segments(v) = Segments(v)
      BY <3>6
    <3> QED
      BY <2>1, <3>4, <3>5, <3>7 DEF v
  <2> QED
    BY <2>2, <2>3
<1>4. Segments(TrimRight(p, {"/"})) = Segments(p)
  <2>1. PICK n \in 0..Len(p) :
            /\ TrimRight(p, {"/"}) = SubSeq(p, 1, n)
            /\ \A i \in n + 1..Len(p) : p[i] \in {"/"}
    BY TrimRightIs
  <2>2. CASE n = Len(p)
    <3>1. SubSeq(p, 1, n) = p
      BY <2>2
    <3> QED
      BY <2>1, <3>1
  <2>3. CASE n # Len(p)
    <3> DEFINE m == n + 1
               u == SubSeq(p, 1, m - 1)
               v == SubSeq(p, m + 1, Len(p))
    <3>1. m \in 1..Len(p) /\ p[m] = "/" /\ m - 1 = n
      BY <1>1, <2>1, <2>3
    <3> HIDE DEF m
    <3>2. /\ u \in Seq(Char) /\ v \in Seq(Char) /\ p = u \o <<"/">> \o v
          /\ Len(v) = Len(p) - m /\ \A i \in 1..Len(p) - m : v[i] = p[m + i]
      BY <3>1, SplitAt
    <3>3. \A i \in 1..Len(p) - m : m + i \in n + 1..Len(p)
      BY <1>1, <3>1
    <3> HIDE DEF v
    <3>4. Segments(v) = <<>>
      BY <2>1, <3>2, <3>3, NoSegments
    <3> HIDE DEF u
    <3>5. Segments(p) = Segments(u) \o Segments(v)
      BY <3>2, SegmentsJoin
    <3>6. Segments(u) \in Seq(Seq(Char))
      BY <3>2, SegmentsAre
    <3>7. Segments(u) \o <<>> = Segments(u)
      BY <3>6
    <3> QED
      BY <2>1, <3>1, <3>4, <3>5, <3>7 DEF u
  <2> QED
    BY <2>2, <2>3
<1> QED
  BY <1>3, <1>4

\* What is trimmed has no slash at that end, and otherwise the ends that it had.
LEMMA TrimmedEnds ==
    ASSUME NEW p \in Seq(Char)
    PROVE  /\ TrimLeft(p, {"/"}) # <<>> => TrimLeft(p, {"/"})[1] # "/"
           /\ TrimRight(p, {"/"}) # <<>> =>
                /\ TrimRight(p, {"/"})[Len(TrimRight(p, {"/"}))] # "/"
                /\ TrimRight(p, {"/"})[1] = p[1]
<1>1. ASSUME TrimLeft(p, {"/"}) # <<>> PROVE TrimLeft(p, {"/"})[1] # "/"
  <2>1. PICK n \in 0..Len(p) :
            /\ TrimLeft(p, {"/"}) = SubSeq(p, n + 1, Len(p))
            /\ n < Len(p) => p[n + 1] \notin {"/"}
    BY TrimLeftIs
  <2>2. n < Len(p)
    <3>1. n = Len(p) => SubSeq(p, n + 1, Len(p)) = <<>>
      OBVIOUS
    <3> QED
      BY <1>1, <2>1, <3>1
  <2>3. SubSeq(p, n + 1, Len(p))[1] = p[n + 1]
    BY <2>2
  <2> QED
    BY <2>1, <2>2, <2>3
<1>2. ASSUME TrimRight(p, {"/"}) # <<>>
      PROVE  /\ TrimRight(p, {"/"})[Len(TrimRight(p, {"/"}))] # "/"
             /\ TrimRight(p, {"/"})[1] = p[1]
  <2>1. PICK n \in 0..Len(p) :
            /\ TrimRight(p, {"/"}) = SubSeq(p, 1, n)
            /\ n > 0 => p[n] \notin {"/"}
    BY TrimRightIs
  <2>2. n > 0
    <3>1. n = 0 => SubSeq(p, 1, n) = <<>>
      OBVIOUS
    <3> QED
      BY <1>2, <2>1, <3>1
  <2>3. /\ Len(SubSeq(p, 1, n)) = n
        /\ SubSeq(p, 1, n)[n] = p[n] /\ SubSeq(p, 1, n)[1] = p[1]
    BY <2>2
  <2> QED
    BY <2>1, <2>2, <2>3
<1> QED
  BY <1>1, <1>2

\* A slash in front of what begins with none is all that is trimmed.
LEMMA TrimAgain ==
    ASSUME NEW t \in Seq(Char), t # <<>> => t[1] # "/"
    PROVE  TrimLeft(<<"/">> \o t, {"/"}) = t
<1>1. <<"/">> \in Seq(Char) /\ Len(<<"/">>) = 1 /\ <<"/">>[1] = "/"
  <2>1. "/" \in Char
    BY DEF Char
  <2> QED
    BY <2>1
<1> DEFINE w == <<"/">> \o t
<1>2. /\ w \in Seq(Char) /\ Len(w) = 1 + Len(t) /\ w[1] = "/"
      /\ \A i \in 1..Len(t) : w[1 + i] = t[i]
  BY <1>1, Behind
<1> HIDE DEF w
<1>3. Len(t) \in Nat
  OBVIOUS
<1>4. 1 < Len(w) => w[1 + 1] \notin {"/"}
  <2> SUFFICES ASSUME 1 < Len(w) PROVE w[1 + 1] # "/"
    OBVIOUS
  <2>1. 1 \in 1..Len(t) /\ t # <<>>
    BY <1>2, <1>3
  <2> QED
    BY <1>2, <2>1
<1>5. 1 \in 0..Len(w) /\ \A i \in 1..1 : w[i] \in {"/"}
  BY <1>2, <1>3
<1>6. TrimLeft(w, {"/"}) = SubSeq(w, 1 + 1, Len(w))
  BY <1>2, <1>4, <1>5, TrimLeftAt
<1>7. SubSeq(w, 1 + 1, Len(w)) = t
  <2>1. 1 + 1 \in 1..Len(w) + 1 /\ Len(w) \in 0..Len(w) /\ 1 + 1 <= Len(w) + 1
        /\ (Len(w) + 1) - (1 + 1) = Len(t)
    BY <1>2, <1>3
  <2>2. /\ SubSeq(w, 1 + 1, Len(w)) \in Seq(Char) /\ Len(SubSeq(w, 1 + 1, Len(w))) = Len(t)
        /\ \A i \in 1..Len(t) : SubSeq(w, 1 + 1, Len(w))[i] = w[(1 + 1) + i - 1]
    BY <1>2, <2>1, PartOf
  <2>3. \A i \in 1..Len(t) : (1 + 1) + i - 1 = 1 + i
    OBVIOUS
  <2> QED
    BY <1>2, <2>2, <2>3, SamePath
<1> QED
  BY <1>6, <1>7 DEF w

\* No doubled slash comes into being where a path that ends in none meets one that
\* begins with none.
LEMMA DoubledJoin ==
    ASSUME NEW s \in Seq(Char), NEW t \in Seq(Char),
           s # <<>> => s[Len(s)] # "/", t # <<>> => t[1] # "/",
           Doubled(s \o <<"/">> \o t)
    PROVE  Doubled(s) \/ Doubled(t)
<1> DEFINE w == s \o <<"/">> \o t
           n == Len(s) + 1
<1>1. "/" \in Char
  BY DEF Char
<1>2. /\ Len(w) = n + Len(t)
      /\ \A i \in 1..Len(s) : w[i] = s[i]
      /\ w[n] = "/"
      /\ \A i \in 1..Len(t) : w[n + i] = t[i]
  BY <1>1, Joined
<1>3. PICK i \in 1..Len(w) - 1 : w[i] = "/" /\ w[i + 1] = "/"
  BY DEF Doubled
<1> HIDE DEF w
<1>4. Len(s) \in Nat /\ Len(t) \in Nat /\ n \in Nat /\ n = Len(s) + 1 /\ i \in Nat
  OBVIOUS
<1> HIDE DEF n
<1>5. CASE i < Len(s)
  <2>1. i \in 1..Len(s) /\ i + 1 \in 1..Len(s) /\ i \in 1..Len(s) - 1
    BY <1>4, <1>5
  <2>2. s[i] = "/" /\ s[i + 1] = "/"
    BY <1>2, <1>3, <2>1
  <2> QED
    BY <2>1, <2>2 DEF Doubled
<1>6. CASE i = Len(s)
  <2>1. i \in 1..Len(s) /\ s # <<>>
    BY <1>4, <1>6
  <2> QED
    BY <1>2, <1>3, <1>6, <2>1
<1>7. CASE i = n
  <2>1. 1 \in 1..Len(t) /\ t # <<>>
    BY <1>2, <1>4, <1>7
  <2> QED
    BY <1>2, <1>3, <1>7, <2>1
<1>8. CASE i > n
  <2>1. i - n \in 1..Len(t) - 1 /\ i = n + (i - n)
    BY <1>2, <1>4, <1>8
  <2>2. PICK k \in 1..Len(t) - 1 : i = n + k
    BY <2>1
  <2>3. k \in 1..Len(t) /\ k + 1 \in 1..Len(t) /\ i + 1 = n + (k + 1)
    BY <1>4, <2>2
  <2>4. t[k] = "/" /\ t[k + 1] = "/"
    BY <1>2, <1>3, <2>2, <2>3
  <2> QED
    BY <2>4 DEF Doubled
<1> QED
  BY <1>4, <1>5, <1>6, <1>7, <1>8

-----------------------------------------------------------------------------
(* Paths.                                                                  *)

\* The path that the handler makes of a plain one is parsed as it was meant, and so is
\* the query up to a "#"; only what is behind that one can be refused.
LEMMA PlainIsParsed ==
    ASSUME NEW path \in Seq(Char), Plain(path),
           NEW query \in Seq(Char), "sp" \notin ToSet(query)
    PROVE  /\ ParsedPath(gfireProxyPath(path, query)) = <<"/">> \o TrimLeft(path, {"/"})
           /\ ParsedQuery(gfireProxyPath(path, query)) = Before(query, "#")
           /\ "#" \notin ToSet(query) => Parses(gfireProxyPath(path, query))
<1> DEFINE t == TrimLeft(path, {"/"})
           absolute == <<"/">> \o t
           rp == gfireProxyPath(path, query)
           open == absolute \o <<"?">>
           q == Before(query, "#")
<1>1. "/" \in Char /\ "?" \in Char /\ "#" \in Char
  BY DEF Char
<1>2. \A i \in 1..Len(path) : path[i] \in Letter \union {"/"}
  BY DEF Plain, ToSet
<1>3. \A c \in Letter \union {"/"} : c \notin {"sp"} /\ c # "?" /\ c # "#" /\ c # "%"
  BY ExchangeAssumption
<1>4. \A i \in 1..Len(query) : query[i] \notin {"sp"}
  BY DEF ToSet
<1>5. TrimSpace(path) = path
  <2>1. \A i \in 1..Len(path) : path[i] \notin {"sp"}
    BY <1>2, <1>3
  <2>2. TrimLeft(path, {"sp"}) = path /\ TrimRight(path, {"sp"}) = path
    BY <2>1, NothingToTrim
  <2> QED
    BY <2>2 DEF TrimSpace
<1>6. rp = IF query = <<>> THEN absolute ELSE open \o query
  BY <1>5 DEF gfireProxyPath
<1>7. t \in Seq(Char) /\ \A i \in 1..Len(t) : t[i] \in Letter \union {"/"}
  <2>1. PICK n \in 0..Len(path) : t = SubSeq(path, n + 1, Len(path))
    BY TrimLeftIs
  <2>2. /\ n + 1 \in 1..Len(path) + 1 /\ Len(path) \in 0..Len(path) /\ n + 1 <= Len(path) + 1
        /\ Len(path) \in Nat /\ n \in Nat
    OBVIOUS
  <2> HIDE DEF t
  <2>3. /\ t \in Seq(Char) /\ Len(t) = (Len(path) + 1) - (n + 1)
        /\ \A i \in 1..(Len(path) + 1) - (n + 1) : t[i] = path[(n + 1) + i - 1]
    BY <2>1, <2>2, PartOf
  <2>4. \A i \in 1..Len(t) : (n + 1) + i - 1 \in 1..Len(path)
    BY <2>2, <2>3
  <2> QED
    BY <1>2, <2>3, <2>4
<1> HIDE DEF t, rp
<1>8. <<"/">> \in Seq(Char) /\ Len(<<"/">>) = 1 /\ <<"/">>[1] = "/"
  BY <1>1
<1>9. absolute \in Seq(Char) /\ \A i \in 1..Len(absolute) : absolute[i] \in Letter \union {"/"}
  <2>1. /\ absolute \in Seq(Char) /\ Len(absolute) = 1 + Len(t) /\ absolute[1] = "/"
        /\ \A i \in 1..Len(t) : absolute[1 + i] = t[i]
    BY <1>7, <1>8, Behind
  <2>2. Len(t) \in Nat
    BY <1>7
  <2> HIDE DEF absolute
  <2>3. ASSUME NEW i \in 1..Len(absolute) PROVE absolute[i] \in Letter \union {"/"}
    <3>1. CASE i = 1
      BY <2>1, <3>1
    <3>2. CASE i # 1
      <4>1. i - 1 \in 1..Len(t) /\ i = 1 + (i - 1)
        BY <2>1, <2>2, <3>2
      <4>2. PICK k \in 1..Len(t) : i = 1 + k
        BY <4>1
      <4> QED
        BY <1>7, <2>1, <4>2
    <3> QED
      BY <3>1, <3>2
  <2> QED
    BY <2>1, <2>3
<1> HIDE DEF absolute
<1>10. \A i \in 1..Len(absolute) : absolute[i] # "sp" /\ absolute[i] # "?" /\ absolute[i] # "#"
  BY <1>3, <1>9
<1>11. Len(absolute) \in Nat /\ Len(query) \in Nat
  BY <1>9
<1>12. WellEscaped(absolute) /\ Unescape(absolute) = absolute
  <2>1. \A i \in 1..Len(absolute) : absolute[i] # "%"
    BY <1>3, <1>9
  <2>2. DOMAIN absolute = 1..Len(absolute)
    BY <1>9
  <2>3. WellEscaped(absolute)
    BY <2>1, <2>2, Zenon DEF WellEscaped
  <2> QED
    BY <1>9, <2>1, <2>3, UnescapeIsPath
<1>13. ASSUME RawPath(rp) = absolute, ParsedQuery(rp) = q,
              "#" \notin ToSet(query) => Fragment(rp) = <<>>
       PROVE  /\ ParsedPath(rp) = absolute /\ ParsedQuery(rp) = q
              /\ "#" \notin ToSet(query) => Parses(rp)
  <2>1. ParsedPath(rp) = absolute
    BY <1>12, <1>13 DEF ParsedPath
  <2>2. WellEscaped(<<>>)
    <3>1. DOMAIN <<>> = {}
      OBVIOUS
    <3> QED
      BY <3>1, Zenon DEF WellEscaped
  <2> QED
    BY <1>12, <1>13, <2>1, <2>2 DEF Parses
<1> HIDE DEF q
<1>14. CASE query = <<>>
  <2>1. rp = absolute
    BY <1>6, <1>14
  <2>2. TrimSpace(absolute) = absolute
    <3>1. \A i \in 1..Len(absolute) : absolute[i] \notin {"sp"}
      BY <1>10
    <3>2. TrimLeft(absolute, {"sp"}) = absolute /\ TrimRight(absolute, {"sp"}) = absolute
      BY <1>9, <3>1, NothingToTrim
    <3> QED
      BY <3>2 DEF TrimSpace
  <2>3. /\ Before(absolute, "#") = absolute /\ After(absolute, "#") = <<>>
        /\ Before(absolute, "?") = absolute /\ After(absolute, "?") = <<>>
    BY <1>9, <1>10, NoMark
  <2>4. Before(query, "#") = query
    <3>1. Len(query) = 0
      BY <1>14
    <3>2. \A i \in 1..Len(query) : query[i] # "#"
      BY <3>1
    <3> QED
      BY <3>2, NoMark
  <2>5. RawPath(rp) = absolute /\ ParsedQuery(rp) = q /\ Fragment(rp) = <<>>
    BY <1>14, <2>1, <2>2, <2>3, <2>4 DEF RawPath, ParsedQuery, Fragment, q
  <2> QED
    BY <1>13, <2>5 DEF absolute, rp, t, q
<1>15. CASE query # <<>>
  <2>1. rp = open \o query
    BY <1>6, <1>15
  <2>2. /\ open \in Seq(Char) /\ Len(open) = Len(absolute) + 1
        /\ \A i \in 1..Len(absolute) : open[i] = absolute[i]
        /\ open[Len(absolute) + 1] = "?"
    <3>1. <<"?">> \in Seq(Char) /\ Len(<<"?">>) = 1 /\ <<"?">>[1] = "?"
      BY <1>1
    <3> QED
      BY <1>9, <3>1, Behind
  <2>3. open \o query = absolute \o <<"?">> \o query
    OBVIOUS
  <2> HIDE DEF open
  <2>4. \A i \in 1..Len(open) : open[i] # "sp" /\ open[i] # "#"
    <3> SUFFICES ASSUME NEW i \in 1..Len(open) PROVE open[i] # "sp" /\ open[i] # "#"
      OBVIOUS
    <3>1. i \in 1..Len(absolute) \/ i = Len(absolute) + 1
      BY <1>11, <2>2
    <3> QED
      BY <1>10, <2>2, <3>1
  <2> DEFINE w == open \o query
  <2>5. /\ w \in Seq(Char) /\ Len(w) = Len(open) + Len(query)
        /\ \A i \in 1..Len(open) : w[i] = open[i]
        /\ \A i \in 1..Len(query) : w[Len(open) + i] = query[i]
    BY <2>2, Behind
  <2> HIDE DEF w
  <2>6. TrimSpace(w) = w
    <3>1. ASSUME NEW i \in 1..Len(w) PROVE w[i] \notin {"sp"}
      <4>1. Len(open) \in Nat
        BY <2>2
      <4>2. CASE i \in 1..Len(open)
        BY <2>4, <2>5, <4>2
      <4>3. CASE i \notin 1..Len(open)
        <5>1. i - Len(open) \in 1..Len(query) /\ i = Len(open) + (i - Len(open))
          BY <1>11, <2>5, <4>1, <4>3
        <5>2. PICK k \in 1..Len(query) : i = Len(open) + k
          BY <5>1
        <5> QED
          BY <1>4, <2>5, <5>2
      <4> QED
        BY <4>2, <4>3
    <3>2. TrimLeft(w, {"sp"}) = w /\ TrimRight(w, {"sp"}) = w
      BY <2>5, <3>1, NothingToTrim
    <3> QED
      BY <3>2 DEF TrimSpace
  <2>7. Before(w, "#") = open \o q
    <3>1. \A i \in 1..Len(open) : open[i] # "#"
      BY <2>4
    <3> QED
      BY <2>2, <3>1, BeforeBehind DEF w, q
  <2>8. q \in Seq(Char)
    BY CutIsPath DEF q
  <2>9. open \o q = absolute \o <<"?">> \o q
    BY DEF open
  <2>10. Before(absolute \o <<"?">> \o q, "?") = absolute
    <3>1. Before(absolute \o <<"?">> \o q, "?") = Before(absolute, "?")
      BY <1>1, <1>9, <2>8, BeforeOfJoined
    <3> QED
      BY <1>9, <1>10, <3>1, NoMark
  <2>11. After(absolute \o <<"?">> \o q, "?") = q
    BY <1>1, <1>9, <1>10, <2>8, AfterOfJoined
  <2>12. RawPath(rp) = absolute /\ ParsedQuery(rp) = q
    BY <2>1, <2>6, <2>7, <2>9, <2>10, <2>11 DEF RawPath, ParsedQuery, w
  <2>13. ASSUME "#" \notin ToSet(query) PROVE Fragment(rp) = <<>>
    <3>1. \A i \in 1..Len(query) : query[i] # "#"
      BY <2>13 DEF ToSet
    <3>2. ASSUME NEW i \in 1..Len(w) PROVE w[i] # "#"
      <4>1. Len(open) \in Nat
        BY <2>2
      <4>2. CASE i \in 1..Len(open)
        BY <2>4, <2>5, <4>2
      <4>3. CASE i \notin 1..Len(open)
        <5>1. i - Len(open) \in 1..Len(query) /\ i = Len(open) + (i - Len(open))
          BY <1>11, <2>5, <4>1, <4>3
        <5>2. PICK k \in 1..Len(query) : i = Len(open) + k
          BY <5>1
        <5> QED
          BY <2>5, <3>1, <5>2
      <4> QED
        BY <4>2, <4>3
    <3>3. After(w, "#") = <<>>
      BY <2>5, <3>2, NoMark
    <3> QED
      BY <2>1, <2>6, <3>3 DEF Fragment, w
  <2> QED
    BY <1>13, <2>12, <2>13 DEF absolute, rp, t, q
<1> QED
  BY <1>14, <1>15

\* Every path that GFire is sent is below the base path; what the base path ends in and
\* what the other begins with does not matter.
LEMMA BelowBase ==
    ASSUME NEW base \in Seq(Char), NEW relative \in Seq(Char)
    PROVE  base # <<>> =>
             /\ joinURLPath(base, relative)
                  = TrimRight(base, {"/"}) \o <<"/">> \o TrimLeft(relative, {"/"})
             /\ Segments(joinURLPath(base, relative)) = Segments(base) \o Segments(relative)
<1> SUFFICES ASSUME base # <<>>
             PROVE  /\ joinURLPath(base, relative)
                         = TrimRight(base, {"/"}) \o <<"/">> \o TrimLeft(relative, {"/"})
                    /\ Segments(joinURLPath(base, relative)) = Segments(base) \o Segments(relative)
  OBVIOUS
<1>1. joinURLPath(base, relative) = TrimRight(base, {"/"}) \o <<"/">> \o TrimLeft(relative, {"/"})
  BY DEF joinURLPath
<1>2. TrimRight(base, {"/"}) \in Seq(Char) /\ TrimLeft(relative, {"/"}) \in Seq(Char)
  BY CutIsPath
<1>3. Segments(joinURLPath(base, relative))
        = Segments(TrimRight(base, {"/"})) \o Segments(TrimLeft(relative, {"/"}))
  BY <1>1, <1>2, SegmentsJoin
<1> QED
  BY <1>1, <1>3, SegmentsTrim

-----------------------------------------------------------------------------
\* What Do asks GFire for, from the request and the settings.
Asked == Proxied(request.method, gfireProxyPath(request.path, request.query))

\* url.Parse takes what the handler makes of the request.
Understood == Parses(gfireProxyPath(request.path, request.query))

\* Nothing else is ever sent, and that only if it is understood; a request is turned
\* down with 502 only if it is not.
PathInv ==
    /\ HInv
    /\ upstream # None => upstream = Asked /\ Understood
    /\ status = 502 => ~Understood

\* A request is sent once, and the settings and what was asked for do not change.
LEMMA PathInvAlways == Spec => []PathInv
<1>1. Init => PathInv
  BY HInvInit DEF Init, PathInv
<1>2. PathInv /\ [Next]_vars => PathInv'
  <2> SUFFICES ASSUME PathInv, [Next]_vars PROVE PathInv'
    OBVIOUS
  <2>1. HInv'
    BY HInvStep DEF PathInv
  <2>2. UNCHANGED <<server, request>>
    BY DEF Next, Cors, RefuseMethod, Send, Receive, CopyHeaders, vars
  <2>3. Asked' = Asked /\ Understood' = Understood
    BY <2>2 DEF Asked, Proxied, Understood
  <2>4. /\ upstream' = upstream \/ (upstream' = Asked /\ Understood)
        /\ status' = 502 => status = 502 \/ ~Understood
    <3>1. CASE Send
      BY <3>1, Zenon DEF Send, Asked, Understood
    <3> QED
      BY <3>1 DEF Next, Cors, RefuseMethod, Receive, CopyHeaders, vars
  <2>5. None' = None
    BY DEF None
  <2> QED
    BY <2>1, <2>3, <2>4, <2>5 DEF PathInv
<1> QED
  BY <1>1, <1>2, PTL DEF Spec

\* A plain path that a browser asks for is the one that GFire is asked for below
\* gfire.base_url, and it is refused only for what is behind a "#" in the query; any
\* other is put behind the base path, whatever segments the two parsings make of it.
THEOREM PathsAreKept == Spec => []PathKept
<1>1. PathInv /\ Plain(request.path) /\ "#" \notin ToSet(request.query) => status # 502
  <2> SUFFICES ASSUME PathInv, Plain(request.path), "#" \notin ToSet(request.query)
               PROVE  status # 502
    OBVIOUS
  <2>1. request.path \in Path /\ request.query \in Query
    BY DEF PathInv, HInv, TypeOK
  <2>2. /\ request.path \in Seq(Char)
        /\ request.query \in Seq(Char) /\ "sp" \notin ToSet(request.query)
    BY <2>1, ExchangeAssumption
  <2>3. Understood
    BY <2>2, PlainIsParsed DEF Understood
  <2> QED
    BY <2>3 DEF PathInv
<1>2. PathInv => PathKept
  <2> SUFFICES ASSUME PathInv, upstream # None
               PROVE  IF Plain(request.path)
                      THEN /\ Segments(upstream.path) = Segments(server.base) \o Segments(request.path)
                           /\ upstream.query = Before(request.query, "#")
                           /\ Head(upstream.path) = "/"
                           /\ Doubled(upstream.path) =>
                                \/ Doubled(TrimRight(server.base, {"/"}))
                                \/ Doubled(TrimLeft(request.path, {"/"}))
                      ELSE IsPrefix(Segments(server.base), Segments(upstream.path))
    BY <1>1, Zenon DEF PathKept
  <2> DEFINE base == server.base
             rp   == gfireProxyPath(request.path, request.query)
             pp   == ParsedPath(rp)
             x    == TrimRight(base, {"/"})
             y    == TrimLeft(request.path, {"/"})
             to   == joinURLPath(base, pp)
  <2>1. /\ base \in Seq(Char) /\ (base # <<>> => Head(base) = "/")
        /\ request.path \in Seq(Char)
        /\ request.query \in Seq(Char) /\ "sp" \notin ToSet(request.query)
    <3>1. base \in BasePath /\ request.path \in Path /\ request.query \in Query
      BY DEF PathInv, HInv, TypeOK
    <3> QED
      BY <3>1, ExchangeAssumption
  <2>2. upstream.path = to /\ upstream.query = ParsedQuery(rp)
    BY DEF PathInv, Asked, Proxied
  <2>3. pp \in Seq(Char)
    <3>1. "/" \in Char /\ "?" \in Char
      BY DEF Char
    <3>2. y \in Seq(Char) /\ TrimLeft(TrimSpace(request.path), {"/"}) \in Seq(Char)
      BY <2>1, CutIsPath
    <3>3. <<"/">> \in Seq(Char) /\ <<"?">> \in Seq(Char)
      BY <3>1
    <3>4. \A s, t \in Seq(Char) : s \o t \in Seq(Char)
      OBVIOUS
    <3>5. rp \in Seq(Char)
      BY <2>1, <3>2, <3>3, <3>4 DEF gfireProxyPath
    <3>6. RawPath(rp) \in Seq(Char)
      <4>1. TrimSpace(rp) \in Seq(Char)
        BY <3>5, CutIsPath
      <4>2. Before(TrimSpace(rp), "#") \in Seq(Char)
        BY <4>1, CutIsPath
      <4> QED
        BY <4>2, CutIsPath DEF RawPath
    <3>7. WellEscaped(RawPath(rp))
      BY DEF PathInv, Understood, Parses
    <3> QED
      BY <3>6, <3>7, UnescapeIsPath DEF ParsedPath
  <2>4. /\ base = <<>> => to = pp
        /\ base # <<>> => /\ to = x \o <<"/">> \o TrimLeft(pp, {"/"})
                          /\ Segments(to) = Segments(base) \o Segments(pp)
    <3>1. base = <<>> => to = pp
      BY DEF joinURLPath
    <3> HIDE DEF base, pp, to
    <3>2. base # <<>> => /\ joinURLPath(base, pp) = TrimRight(base, {"/"}) \o <<"/">> \o TrimLeft(pp, {"/"})
                         /\ Segments(joinURLPath(base, pp)) = Segments(base) \o Segments(pp)
      BY <2>1, <2>3, BelowBase
    <3> QED
      BY <3>1, <3>2 DEF to
  <2>5. /\ Segments(base) \in Seq(Seq(Char)) /\ Segments(pp) \in Seq(Seq(Char))
        /\ base = <<>> => Segments(base) = <<>>
    <3>1. Segments(base) \in Seq(Seq(Char)) /\ Segments(pp) \in Seq(Seq(Char))
      BY <2>1, <2>3, SegmentsAre
    <3> HIDE DEF base, pp
    <3>2. ASSUME base = <<>> PROVE Segments(base) = <<>>
      <4>1. Len(base) = 0
        BY <3>2
      <4>2. \A i \in 1..Len(base) : base[i] = "/"
        BY <4>1
      <4> QED
        BY <2>1, <4>2, NoSegments
    <3> QED
      BY <3>1, <3>2
  <2> HIDE DEF base, rp, pp, to
  <2>6. Segments(to) = Segments(base) \o Segments(pp)
    <3>1. <<>> \o Segments(pp) = Segments(pp)
      BY <2>5
    <3> QED
      BY <2>4, <2>5, <3>1
  <2>7. CASE Plain(request.path)
    <3>1. pp = <<"/">> \o y /\ ParsedQuery(rp) = Before(request.query, "#")
      BY <2>1, <2>7, PlainIsParsed DEF pp, rp
    <3>2. /\ x \in Seq(Char) /\ y \in Seq(Char)
          /\ y # <<>> => y[1] # "/"
          /\ x # <<>> => x[Len(x)] # "/" /\ x[1] = base[1]
      <4>1. x \in Seq(Char) /\ y \in Seq(Char)
        BY <2>1, CutIsPath
      <4>2. y # <<>> => y[1] # "/"
        BY <2>1, TrimmedEnds
      <4>3. x # <<>> => x[Len(x)] # "/" /\ x[1] = base[1]
        BY <2>1, TrimmedEnds
      <4> QED
        BY <4>1, <4>2, <4>3
    <3>3. Segments(y) = Segments(request.path) /\ Segments(request.path) \in Seq(Seq(Char))
      BY <2>1, SegmentsTrim, SegmentsAre
    <3>4. base = <<>> => x = <<>>
      <4> SUFFICES ASSUME base = <<>> PROVE x = <<>>
        OBVIOUS
      <4>1. Len(base) = 0
        OBVIOUS
      <4>2. \A i \in 1..Len(base) : base[i] \notin {"/"}
        BY <4>1
      <4> QED
        BY <2>1, <4>2, NothingToTrim
    <3> HIDE DEF x, y
    <3>5. "/" \in Char /\ <<>> \in Seq(Char)
      BY DEF Char
    <3>6. to = x \o <<"/">> \o y
      <4>1. TrimLeft(pp, {"/"}) = y
        BY <3>1, <3>2, TrimAgain
      <4>2. <<>> \o <<"/">> \o y = <<"/">> \o y
        BY <3>2, <3>5
      <4> QED
        BY <2>4, <3>1, <3>4, <4>1, <4>2
    <3>7. Segments(pp) = Segments(request.path)
      <4>1. Segments(<<>> \o <<"/">> \o y) = Segments(<<>>) \o Segments(y)
        BY <3>2, <3>5, SegmentsJoin
      <4>2. <<>> \o <<"/">> \o y = <<"/">> \o y
        BY <3>2, <3>5
      <4>3. Segments(<<>>) = <<>>
        <5>1. \A i \in 1..Len(<<>>) : <<>>[i] = "/"
          OBVIOUS
        <5> QED
          BY <3>5, <5>1, NoSegments
      <4>4. <<>> \o Segments(request.path) = Segments(request.path)
        BY <3>3
      <4> QED
        BY <3>1, <3>3, <4>1, <4>2, <4>3, <4>4
    <3>8. Head(to) = "/"
      <4>1. /\ to \in Seq(Char) /\ Len(to) = Len(x) + 1 + Len(y)
            /\ \A i \in 1..Len(x) : to[i] = x[i]
            /\ to[Len(x) + 1] = "/"
        BY <3>2, <3>5, <3>6, Joined
      <4>2. Head(to) = to[1]
        BY <3>2, <4>1
      <4>3. CASE x = <<>>
        <5>1. Len(x) = 0
          BY <4>3
        <5> QED
          BY <4>1, <4>2, <5>1
      <4>4. CASE x # <<>>
        <5>1. 1 \in 1..Len(x) /\ base # <<>>
          BY <3>2, <3>4, <4>4
        <5>2. base[1] = "/"
          BY <2>1, <5>1
        <5> QED
          BY <3>2, <4>1, <4>2, <4>4, <5>1, <5>2
      <4> QED
        BY <4>3, <4>4
    <3>9. Doubled(to) => Doubled(x) \/ Doubled(y)
      BY <3>2, <3>6, DoubledJoin
    <3>10. Segments(to) = Segments(base) \o Segments(request.path)
      BY <2>6, <3>7
    <3> QED
      BY <2>2, <2>7, <3>1, <3>8, <3>9, <3>10 DEF base, x, y
  <2>8. CASE ~Plain(request.path)
    <3> DEFINE s == Segments(base)
               t == Segments(pp)
               v == s \o t
    <3>1. s \in Seq(Seq(Char)) /\ t \in Seq(Seq(Char))
      BY <2>5
    <3> HIDE DEF s, t
    <3>2. Len(s) <= Len(v) /\ SubSeq(s, 1, Len(s)) = SubSeq(v, 1, Len(s))
      BY <3>1
    <3>3. IsPrefix(s, v)
      BY <3>2 DEF IsPrefix
    <3> QED
      BY <2>2, <2>6, <2>8, <3>3 DEF s, t, base
  <2> QED
    BY <2>7, <2>8
<1> QED
  BY <1>2, PathInvAlways, PTL
=============================================================================
