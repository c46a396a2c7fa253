----------------------------- MODULE HttpExchange -----------------------------
(***************************************************************************)
(* One exchange with the server as HTTP: what withCORS adds, what of a      *)
(* browser's request goes to GFire, and what of GFire's headers comes back. *)
(* GFireProxy has the decisions and the order of events; here the request   *)
(* is one that the proxy accepts, and the data are looked at.               *)
(*                                                                         *)
(* A path is a sequence of characters: letters, and five that net/url or    *)
(* strings.TrimSpace tell from them, the space among them, which is "sp"    *)
(* here.  "%" and two hexadecimal letters are an escape.  The path that     *)
(* reaches the handler is unescaped by the mux, so "?" or "%" in it, a      *)
(* second "/", or a segment "..", was written as an escape; url.Parse       *)
(* unescapes it once more.  No one here resolves dot segments.  A header    *)
(* maps each name to the sequence of its values; names are in canonical     *)
(* form.                                                                    *)
(***************************************************************************)
EXTENDS Naturals, Sequences, FiniteSets, SequencesExt

CONSTANTS
    Origin,         \* what browsers send as Origin; "" for none
    CorsSetting,    \* the settings server.cors_allowed_origins may have, split at ","
    TrimOf,         \* strings.TrimSpace on the pieces of such a setting
    Letter,         \* the characters that mean nothing to net/url
    Escaped,        \* what two hexadecimal letters stand for behind a "%"
    BasePath,       \* the paths that gfire.base_url may have
    Path, Query,    \* the paths and raw queries of requests
    Method,
    Name, Value,    \* names and values of headers that are not about CORS
    Listed,         \* the names that a value of a Connection header lists
    Answer          \* the headers that GFire may answer with

Char == Letter \union {"/", "?", "#", "%", "sp"}

CorsName == {"Access-Control-Allow-Origin", "Vary"}

HopByHop == {"Connection", "Keep-Alive", "Proxy-Authenticate", "Proxy-Authorization",
             "Te", "Trailer", "Transfer-Encoding", "Upgrade"}

HeaderName == Name \union CorsName

Header == [HeaderName -> Seq(Value \union (Origin \ {""}) \union {"Origin", "*"})]

NoHeader == [n \in HeaderName |-> <<>>]

ASSUME ExchangeAssumption ==
    /\ CorsSetting \subseteq Seq(DOMAIN TrimOf)
    /\ Listed \in [Value -> SUBSET HeaderName]
    /\ Answer \subseteq Header /\ "Connection" \in Name
    /\ \A a \in Answer : a["Connection"] \in Seq(Value)
    /\ "" \in DOMAIN TrimOf /\ TrimOf[""] = ""
    /\ Letter \intersect {"/", "?", "#", "%", "sp"} = {}
    /\ DOMAIN Escaped \subseteq Letter \X Letter
    /\ \A code \in DOMAIN Escaped : Escaped[code] \in Char
    /\ BasePath \subseteq Seq(Char) /\ \A b \in BasePath : b # <<>> => Head(b) = "/"
    /\ Path \subseteq Seq(Char)
    /\ Query \subseteq Seq(Char) /\ \A q \in Query : "sp" \notin ToSet(q)
    /\ Method \subseteq {"GET", "HEAD", "POST", "PUT", "PATCH", "DELETE", "OPTIONS"}

VARIABLES
    server,     \* the settings of the server
    request,    \* the browser's request
    upstream,   \* what GFire is sent
    answer,     \* GFire's headers
    header,     \* the headers of the response so far
    status,     \* 0: none yet; 200 stands for GFire's own
    stage       \* cors, handler, sent, copy, done

vars == <<server, request, upstream, answer, header, status, stage>>

\* Nothing has been sent to GFire.
None == [method |-> "none", path |-> <<>>, query |-> <<>>]

Init ==
    /\ server \in [cors : CorsSetting, base : BasePath]
    /\ request \in [origin : Origin, method : Method, path : Path, query : Query]
    /\ upstream = None
    /\ answer = NoHeader /\ header = NoHeader
    /\ status = 0
    /\ stage = "cors"

-----------------------------------------------------------------------------
(* CORSOrigins and withCORS                                                *)

\* Fault: pieces that are empty are taken for origins.
OriginsOrEmpty(pieces) == {TrimOf[p] : p \in ToSet(pieces)}

Origins(pieces) == {TrimOf[p] : p \in ToSet(pieces)} \ {""}

CorsApplies(pieces) == Origins(pieces) # {}

\* Fault: with any origin configured, each one is allowed.
AllowsAny(pieces, origin) == CorsApplies(pieces)

Allows(pieces, origin) == origin \in Origins(pieces)

\* Without origins there is no wrapper; with some, every OPTIONS ends here.
Cors ==
    /\ stage = "cors"
    /\ header' = IF Allows(server.cors, request.origin)
                 THEN [header EXCEPT !["Access-Control-Allow-Origin"] = <<request.origin>>,
                                     !["Vary"] = <<"Origin">>]
                 ELSE header
    /\ IF CorsApplies(server.cors) /\ request.method = "OPTIONS"
       THEN status' = 204 /\ stage' = "done"
       ELSE status' = status /\ stage' = "handler"
    /\ UNCHANGED <<server, request, upstream, answer>>

-----------------------------------------------------------------------------
(* gfireProxyPath, resolveURL and Do                                       *)

\* The characters of cut are taken off one end.
TrimLeft(s, cut) ==
    LET first == SelectInSeq(s, LAMBDA c : c \notin cut)
    IN  IF first = 0 THEN <<>> ELSE SubSeq(s, first, Len(s))

TrimRight(s, cut) == SubSeq(s, 1, SelectLastInSeq(s, LAMBDA c : c \notin cut))

TrimSpace(s) == TrimRight(TrimLeft(s, {"sp"}), {"sp"})

\* What is before the first of these characters, and what is after it.
Before(s, mark) ==
    LET at == SelectInSeq(s, LAMBDA c : c = mark)
    IN  IF at = 0 THEN s ELSE SubSeq(s, 1, at - 1)

After(s, mark) == SubSeq(s, Len(Before(s, mark)) + 2, Len(s))

gfireProxyPath(path, query) ==
    LET absolute == <<"/">> \o TrimLeft(TrimSpace(path), {"/"})
    IN  IF query = <<>> THEN absolute ELSE absolute \o <<"?">> \o query

\* Fault: the two are put side by side.
joinURLPathPlain(base, relative) == base \o relative

joinURLPath(base, relative) ==
    IF base = <<>> THEN relative
    ELSE TrimRight(base, {"/"}) \o <<"/">> \o TrimLeft(relative, {"/"})

\* The k-th of some positions.
NthOf(S, k) == CHOOSE i \in S : Cardinality({j \in S : j <= i}) = k

\* Every "%" begins an escape.
WellEscaped(s) ==
    \A i \in DOMAIN s : s[i] = "%" =>
        i + 2 <= Len(s) /\ <<s[i + 1], s[i + 2]>> \in DOMAIN Escaped

\* Characters that are not the letters of an escape, which stands for one character.
Kept(s) == {i \in DOMAIN s : \A j \in DOMAIN s : j \in {i - 1, i - 2} => s[j] # "%"}

CharAt(s, i) == IF s[i] = "%" THEN Escaped[<<s[i + 1], s[i + 2]>>] ELSE s[i]

\* What has no escape is returned as it is.
Unescape(s) ==
    IF ~Contains(s, "%") THEN s
    ELSE [k \in 1..Cardinality(Kept(s)) |-> CharAt(s, NthOf(Kept(s), k))]

\* url.Parse takes off the fragment and then the query, unescapes the path, and refuses
\* a bad escape in it and in the fragment.  What it is given begins with a slash.
RawPath(requestPath)     == Before(Before(TrimSpace(requestPath), "#"), "?")
ParsedPath(requestPath)  == Unescape(RawPath(requestPath))
ParsedQuery(requestPath) == After(Before(TrimSpace(requestPath), "#"), "?")
Fragment(requestPath)    == After(TrimSpace(requestPath), "#")
Parses(requestPath)      == WellEscaped(RawPath(requestPath)) /\ WellEscaped(Fragment(requestPath))

\* The request that Do makes.
Proxied(method, requestPath) ==
    [method |-> method,
     path   |-> joinURLPath(server.base, ParsedPath(requestPath)),
     query  |-> ParsedQuery(requestPath)]

\* 405 for OPTIONS that no wrapper has answered.
RefuseMethod ==
    /\ stage = "handler"
    /\ request.method = "OPTIONS"
    /\ status' = 405 /\ stage' = "done"
    /\ UNCHANGED <<server, request, upstream, answer, header>>

Send ==
    LET requestPath == gfireProxyPath(request.path, request.query)
    IN  /\ stage = "handler"
        /\ request.method # "OPTIONS"
        /\ IF Parses(requestPath)
           THEN /\ upstream' = Proxied(request.method, requestPath)
                /\ status' = status /\ stage' = "sent"
           ELSE /\ upstream' = upstream
                /\ status' = 502 /\ stage' = "done"
        /\ UNCHANGED <<server, request, answer, header>>

-----------------------------------------------------------------------------
(* copyProxyHeaders                                                        *)

\* GFire answers, perhaps with headers of its own for CORS.
Receive ==
    /\ stage = "sent"
    /\ answer' \in Answer
    /\ stage' = "copy"
    /\ UNCHANGED <<server, request, upstream, header, status>>

\* connectionHeaderTokens
ConnectionNames(from) == UNION {Listed[v] : v \in ToSet(from["Connection"])}

\* Fault: names that Connection lists are not looked at.
SkippedIfKnown(name, from) == name \in HopByHop

\* shouldSkipProxyHeader
Skipped(name, from) == name \in HopByHop \union ConnectionNames(from)

\* Values are added to what withCORS has set.
Copied(to, from) ==
    [n \in DOMAIN to |-> IF Skipped(n, from) THEN to[n] ELSE to[n] \o from[n]]

CopyHeaders ==
    /\ stage = "copy"
    /\ header' = Copied(header, answer)
    /\ status' = 200 /\ stage' = "done"
    /\ UNCHANGED <<server, request, upstream, answer>>

Next == Cors \/ RefuseMethod \/ Send \/ Receive \/ CopyHeaders

Spec == Init /\ [][Next]_vars

-----------------------------------------------------------------------------
Stage == {"cors", "handler", "sent", "copy", "done"}

\* Every variable stays in its set; a header never has an empty value, and only a
\* request that has been sent is answered by GFire.
TypeOK ==
    /\ server \in [cors : CorsSetting, base : BasePath]
    /\ request \in [origin : Origin, method : Method, path : Path, query : Query]
    /\ upstream.method \in {"none"} \union (Method \ {"OPTIONS"})
    /\ answer \in Answer \union {NoHeader}
    /\ header \in Header
    /\ status \in {0, 200, 204, 405, 502}
    /\ stage \in Stage
    /\ stage = "done" => status # 0 /\ (status = 200 <=> upstream # None)

\* What concerns the connection to GFire stays on it, and everything else that GFire
\* says reaches the browser, every value in its place, behind what withCORS said.
EndToEnd ==
    stage = "done" /\ status = 200 =>
        \A n \in HeaderName :
            IF n \in HopByHop \union ConnectionNames(answer)
            THEN header[n] = <<>> \/ (n \in CorsName /\ Len(header[n]) = 1)
            ELSE IsSuffix(answer[n], header[n])

\* A browser is told that its origin is allowed only if the setting lists that origin,
\* or GFire said so; and it is told more than once only if GFire says so too, which a
\* browser takes for a refusal.  A request without an origin is told nothing, and
\* OPTIONS is answered here only if the setting, blanks and empty pieces aside, lists
\* an origin at all.
AllowedOrigin ==
    LET told == header["Access-Control-Allow-Origin"]
        own  == answer["Access-Control-Allow-Origin"]
    IN  /\ own = <<>> /\ told # <<>> =>
             /\ told = <<request.origin>> /\ request.origin # ""
             /\ \E p \in ToSet(server.cors) : TrimOf[p] = request.origin
        /\ Len(told) > 1 => own # <<>>
        /\ status = 204 => \E p \in ToSet(server.cors) : TrimOf[p] # ""

\* Where the segments of a path begin: at its beginning, or behind a slash.
Starts(path) == {i \in DOMAIN path : path[i] # "/" /\ (i = 1 \/ path[i - 1] = "/")}

\* Segments of a path: what is between its slashes, in the order in which it comes.
Segments(path) ==
    [k \in 1..Cardinality(Starts(path)) |->
        Before(SubSeq(path, NthOf(Starts(path), k), Len(path)), "/")]

Doubled(path) == \E i \in 1..Len(path) - 1 : path[i] = "/" /\ path[i + 1] = "/"

Plain(path) == ToSet(path) \subseteq Letter \union {"/"}

\* A request for a plain path is sent to the same path below that of gfire.base_url,
\* with no doubled slash where the two meet, however they are written, and with the same
\* query; only a "#" in the query, which should have been escaped, can have it cut or
\* refused.  A path in which the mux has left a "?", a "#" or a "%" is parsed a second
\* time and may become another.  Then all that holds is that it is put behind the base
\* path; its dot segments are left to GFire, which may resolve them to what is above.
PathKept ==
    /\ upstream # None =>
        IF Plain(request.path)
        THEN /\ Segments(upstream.path) = Segments(server.base) \o Segments(request.path)
             /\ upstream.query = Before(request.query, "#")
             /\ Head(upstream.path) = "/"
             /\ Doubled(upstream.path) =>
                  Doubled(TrimRight(server.base, {"/"})) \/ Doubled(TrimLeft(request.path, {"/"}))
        ELSE IsPrefix(Segments(server.base), Segments(upstream.path))
    /\ Plain(request.path) /\ "#" \notin ToSet(request.query) => status # 502
=============================================================================
