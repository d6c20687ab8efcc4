------------------------------ MODULE Outbound ------------------------------
(***************************************************************************)
(* outbound/fetch (plugins/outbound.rs): one request to a public host, its *)
(* body read within a cap.  The client is built by the first call that     *)
(* gets that far, and what became of it is kept.  A name is looked up at   *)
(* every connection, and answers as it pleases each time.                  *)
(*                                                                         *)
(* An IPv4 address is known by its first two bytes, alone or in one of the *)
(* forms of IPv6 that embed it; another IPv6 address by its first segment. *)
(* A body is a number of units.                                            *)
(***************************************************************************)
EXTENDS Service, Naturals, Sequences, SequencesExt

CONSTANTS
    Addresses,   \* [form, first, second]
    Lookups,     \* the sets of addresses a name may have at a time
    HeaderLists, \* the kinds of the headers a call may set
    MaxHeaders,  \* MAX_HEADERS
    MaxBody      \* MAX_RESPONSE_BYTES

Embedding == {"v4", "mapped", "compatible", "nat64"}
Octet == 0..255
Segment == 0..65535

ASSUME OutboundOK ==
    /\ \A a \in Addresses :
          /\ a.form \in Embedding \cup {"v6"}
          /\ a.form = "v6" => a.first \in Segment
          /\ a.form # "v6" => a.first \in Octet /\ a.second \in Octet
    /\ Lookups \subseteq SUBSET Addresses
    /\ MaxHeaders \in Nat /\ MaxBody \in Nat

VARIABLES
    client,            \* "none", "built", "failed"
    fetch, fetchAt,    \* the call, and where it is
    candidates,        \* the addresses it may still try
    contacted,         \* history: those it has tried
    response, body,    \* what the server answers, and how much of it was read
    fetched            \* the answer

callOfFetch == <<fetch, fetchAt, candidates, contacted, response, body, fetched>>
outboundVars == <<client, callOfFetch>>

OutboundInit ==
    /\ client = "none"
    /\ fetch = None /\ fetchAt = "idle" /\ candidates = {} /\ contacted = {}
    /\ response = None /\ body = 0 /\ fetched = None

-----------------------------------------------------------------------------
(* is_public *)

\* n & mask, for a mask whose low bits are the zeros of block.
Masked(n, block) == n - (n % block)

IsPublicV4(first, second) ==
    ~ \/ first \in {0, 10, 127}
      \/ first = 172 /\ Masked(second, 16) = 16
      \/ first = 192 /\ second = 168
      \/ first = 169 /\ second = 254
      \/ Masked(first, 16) = 224
      \/ first >= 240
      \/ first = 100 /\ Masked(second, 64) = 64

IsPublicV6(first) ==
    ~ \/ Masked(first, 256) = 65280
      \/ Masked(first, 512) = 64512
      \/ Masked(first, 64) = 65152

\* The unspecified and the loopback address embed 0.0.0.0 and 0.0.0.1.
IsPublic(a) ==
    IF a.form \in Embedding
    THEN IsPublicV4(a.first, a.second)
    ELSE IsPublicV6(a.first)

\* Variant: the name is checked, and its addresses are handed on.
ResolvedIfAny(found) == IF \E a \in found : IsPublic(a) THEN found ELSE {}

\* PublicResolver: what it hands on of what a name resolves to.
Resolved(found) == {a \in found : IsPublic(a)}

-----------------------------------------------------------------------------
(* fetch *)

\* parse_url, parse_method and the size of the body.
Malformed(q) ==
    \/ q.fault # "none"
    \/ q.host # None /\ ~IsPublic(q.host)

HeadersOK(headers) == Len(headers) <= MaxHeaders /\ ToSet(headers) \subseteq {"plain"}

FetchAnswers(answer) == fetchAt' = "answered" /\ fetched' = answer

FetchEnds(code) ==
    /\ FetchAnswers([code |-> code])
    /\ UNCHANGED <<client, fetch, candidates, contacted, response, body>>

Fetch(q) ==
    /\ fetchAt = "idle"
    /\ fetch' = q
    /\ IF Malformed(q)
       THEN FetchAnswers([code |-> "bad_request"])
       ELSE fetchAt' = "client" /\ UNCHANGED fetched
    /\ UNCHANGED <<client, candidates, contacted, response, body>>

\* get_or_init, and the headers.
Client(built) ==
    /\ fetchAt = "client"
    /\ client' = IF client = "none" THEN built ELSE client
    /\ CASE client' = "failed" -> FetchAnswers([code |-> "unavailable"])
         [] ~HeadersOK(fetch.headers) -> FetchAnswers([code |-> "bad_request"])
         [] OTHER -> fetchAt' = "resolve" /\ UNCHANGED fetched
    /\ UNCHANGED <<fetch, candidates, contacted, response, body>>

\* A host that is written as an address is not looked up; None is a name.  The empty lookup is one that failed.
Resolve(found) ==
    /\ fetchAt = "resolve"
    /\ LET to == IF fetch.host = None THEN Resolved(found) ELSE {fetch.host} IN
       IF to = {}
       THEN /\ FetchAnswers([code |-> IF found = {} THEN "unavailable" ELSE "bad_request"])
            /\ UNCHANGED candidates
       ELSE candidates' = to /\ fetchAt' = "connect" /\ UNCHANGED fetched
    /\ UNCHANGED <<client, fetch, contacted, response, body>>

Connect(a, r) ==
    /\ fetchAt = "connect" /\ a \in candidates
    /\ contacted' = contacted \cup {a}
    /\ candidates' = candidates \ {a}
    /\ CASE r = None /\ candidates = {a} ->
               FetchAnswers([code |-> "unavailable"]) /\ UNCHANGED response
         [] r = None /\ candidates # {a} ->
               UNCHANGED <<fetchAt, fetched, response>>
         [] r # None /\ r.declared > MaxBody ->
               FetchAnswers([code |-> "bad_request"]) /\ response' = r
         [] OTHER -> fetchAt' = "read" /\ response' = r /\ UNCHANGED fetched
    /\ UNCHANGED <<client, fetch, body>>

\* Variant: no further than the cap.
ReadLimitAtCap == MaxBody

\* How far the body is read.
ReadLimit == MaxBody + 1

Read ==
    /\ fetchAt = "read" /\ body < response.size /\ body < ReadLimit
    /\ body' = body + 1
    /\ UNCHANGED <<client, fetch, fetchAt, candidates, contacted, response, fetched>>

EndRead ==
    /\ fetchAt = "read" /\ (body = response.size \/ body = ReadLimit)
    /\ FetchEnds(CASE body < response.declared /\ body < ReadLimit -> "unavailable"
                   [] body > MaxBody \/ ~response.text -> "bad_request"
                   [] OTHER -> "ok")

\* The deadline passes, or the connection breaks; a body of no declared length
\* that breaks off has ended.
FetchFails ==
    /\ fetchAt \in {"resolve", "connect", "read"}
    /\ FetchEnds("unavailable")

-----------------------------------------------------------------------------

\* A declared length of zero is none; no body is longer than was declared.
Responses ==
    {r \in [declared : 0..(MaxBody + 1), size : 0..(MaxBody + 2), text : BOOLEAN] :
        r.declared = 0 \/ r.size <= r.declared}

OutboundBegin ==
    \E h \in Addresses \cup {None}, fault \in {"none", "url"}, hs \in HeaderLists :
        Fetch([host |-> h, fault |-> fault, headers |-> hs])

\* What waits for others.
Network ==
    \/ \E found \in Lookups : Resolve(found)
    \/ \E a \in candidates, r \in Responses \cup {None} : Connect(a, r)
    \/ Read \/ EndRead

OutboundStep == (\E built \in {"built", "failed"} : Client(built)) \/ FetchFails

OutboundReturn ==
    /\ fetchAt = "answered"
    /\ fetch' = None /\ fetchAt' = "idle" /\ candidates' = {} /\ contacted' = {}
    /\ response' = None /\ body' = 0 /\ fetched' = None
    /\ UNCHANGED client

-----------------------------------------------------------------------------
(* Properties *)

\* The ranges that is_public says it refuses, as first and last.
PrivateV4 ==
    {<<0, 0, 0, 255>>, <<10, 0, 10, 255>>, <<100, 64, 100, 127>>, <<127, 0, 127, 255>>,
     <<169, 254, 169, 254>>, <<172, 16, 172, 31>>, <<192, 168, 192, 168>>,
     <<224, 0, 255, 255>>}
PrivateV6 == 64512..65023 \cup 65152..65215 \cup 65280..65535

WithinV4(first, second, r) ==
    first * 256 + second \in (r[1] * 256 + r[2])..(r[3] * 256 + r[4])

OnTheInternet(a) ==
    IF a.form = "v6"
    THEN a.first \notin PrivateV6
    ELSE \A r \in PrivateV4 : ~WithinV4(a.first, a.second, r)

(* No call connects to an address outside the public internet, in whatever *)
(* form it is written or returned, and whichever of a name's addresses is  *)
(* tried (outbound.rs, is_public, PublicResolver and parse_url).           *)
ConnectsOnlyToPublic == \A a \in contacted : OnTheInternet(a)

(* A body that is answered is the whole of what the server sent, and within *)
(* the cap: what was cut off is refused (read_response, read_capped).       *)
BodyIsWhole ==
    fetched # None /\ fetched.code = "ok" =>
        body = response.size /\ body <= MaxBody /\ body >= response.declared

=============================================================================
