-------------------------------- MODULE Gate --------------------------------
(***************************************************************************)
(* Who may talk to the daemon, and how much (http/guard.rs, ratelimit.rs,  *)
(* and the handshake and the request limiter of http/ws.rs).  Every        *)
(* request draws a token from the bucket of its class of callers before    *)
(* its origin is looked at; a socket draws from a bucket of its own once   *)
(* its hello matched the pairing token, and until then carries nothing.    *)
(*                                                                         *)
(* A peer is whoever makes requests: the page, a native program, another   *)
(* web site in the user's browser.  Its headers are what the browser adds, *)
(* which the peer cannot choose.                                           *)
(*                                                                         *)
(* Each access to a bucket is one step under its mutex.  Time is counted   *)
(* in ticks and tokens in parts, so that Rate parts a tick is any rational *)
(* rate; what f64 rounds is left out.                                      *)
(***************************************************************************)
EXTENDS Integers

CONSTANTS
    Peers,
    Sites,      \* those that act for a web site other than VRCNext's page
    Knows,      \* those that have the pairing token
    Origin,     \* what each sends as Origin: "allowed", "other" or "absent"
    FetchSite,  \* what each sends as Sec-Fetch-Site
    Conns,      \* connections, each used once
    Dev,        \* --dev
    Rate,       \* parts that a bucket gains in a tick
    Unit,       \* parts of a token that a request takes
    Burst,      \* parts that a bucket holds at most
    MaxTime,    \* bound: ticks
    None

Limiter == "limiter"
Untrusted == "untrusted"
Buckets == {Limiter, Untrusted} \cup Conns

(***************************************************************************)
(* A browser tells on the sites it acts for: a request of theirs carries   *)
(* their origin, or none and what kind of site sent it.  RateLimiter::new  *)
(* makes the rate positive and the burst one request at least.             *)
(***************************************************************************)
ASSUME ConstantsOK ==
    /\ Sites \subseteq Peers
    /\ Origin \in [Peers -> {"allowed", "other", "absent"}]
    /\ FetchSite \in [Peers -> {"absent", "none", "same-origin", "cross-site"}]
    /\ \A p \in Sites :
          \/ Origin[p] = "other"
          \/ Origin[p] = "absent" /\ FetchSite[p] = "cross-site"
    /\ Limiter \notin Conns /\ Untrusted \notin Conns
    /\ Dev \in BOOLEAN
    /\ Rate \in Nat \ {0} /\ Unit \in Nat \ {0} /\ Burst \in Nat /\ Burst >= Unit
    /\ MaxTime \in Nat
    /\ None \notin Peers

VARIABLES
    now,
    tokens,   \* RateLimiter.state, in parts
    last,     \* when each bucket was last refilled
    stage,    \* where each connection is
    owner,    \* who opened it
    paid,     \* history: the buckets that each peer has drawn from
    served,   \* history: those for whom a service was called
    watch,    \* history: a bucket, and the start of a time over which what is
    since,    \*   drawn from it is added up
    drawn

bucketVars == <<tokens, last, paid, drawn>>
connVars == <<stage, owner>>
windowVars == <<watch, since>>
vars == <<now, tokens, last, stage, owner, paid, served, watch, since, drawn>>

Init ==
    /\ now = 0
    /\ tokens = [b \in Buckets |-> Burst]
    /\ last = [b \in Buckets |-> 0]
    /\ stage = [c \in Conns |-> "free"]
    /\ owner = [c \in Conns |-> None]
    /\ paid = [p \in Peers |-> {}]
    /\ served = {}
    /\ watch \in Buckets
    /\ since \in 0..MaxTime
    /\ drawn = 0

-----------------------------------------------------------------------------
(* RateLimiter::try_acquire *)

Least(x, y) == IF x <= y THEN x ELSE y

\* What is in the bucket now.
Gained(b) == Least(tokens[b] + Rate * (now - last[b]), Burst)

\* Peer p takes a token from b.
Draw(b, p) ==
    /\ Gained(b) >= Unit
    /\ tokens' = [tokens EXCEPT ![b] = Gained(b) - Unit]
    /\ last' = [last EXCEPT ![b] = now]
    /\ paid' = [paid EXCEPT ![p] = @ \cup {b}]
    /\ drawn' = IF b = watch /\ now >= since THEN drawn + Unit ELSE drawn

\* Variant: the bucket is filled up, but not from now on.
RunDryAgain(b) ==
    /\ Gained(b) < Unit
    /\ tokens' = [tokens EXCEPT ![b] = Gained(b)]
    /\ UNCHANGED <<last, paid, drawn>>

\* There is none; what was gained is kept.
RunDry(b) ==
    /\ Gained(b) < Unit
    /\ tokens' = [tokens EXCEPT ![b] = Gained(b)]
    /\ last' = [last EXCEPT ![b] = now]
    /\ UNCHANGED <<paid, drawn>>

-----------------------------------------------------------------------------
(* The middleware *)

\* Guard::caller
BucketOf(p) ==
    IF \/ Origin[p] = "allowed"
       \/ Origin[p] = "absent" /\ FetchSite[p] \in {"absent", "none", "same-origin"}
    THEN Limiter ELSE Untrusted

\* Variant: the origin is left to the browser.
AnyOrigin(p) == TRUE

\* Guard::check_origin
OriginPasses(p) == Origin[p] # "other"

\* A browser sends an Origin with every upgrade and every POST.
SendsOrigin(p) == p \in Sites => Origin[p] # "absent"

\* 429
TooMany(p) ==
    /\ RunDry(BucketOf(p))
    /\ UNCHANGED <<now, stage, owner, served, watch, since>>

\* Anything that ends with an answer: 403, a preflight, health, a wrong token.
Answer(p) ==
    /\ Draw(BucketOf(p), p)
    /\ UNCHANGED <<now, stage, owner, served, watch, since>>

Upgrade(p, c) ==
    /\ stage[c] = "free"
    /\ SendsOrigin(p)
    /\ Draw(BucketOf(p), p)
    /\ OriginPasses(p)
    /\ stage' = [stage EXCEPT ![c] = "hello"]
    /\ owner' = [owner EXCEPT ![c] = p]
    /\ UNCHANGED <<now, served, watch, since>>

\* POST /v1/<service>/<method> with the token as a bearer.
Call(p) ==
    /\ Dev
    /\ p \in Knows
    /\ SendsOrigin(p)
    /\ Draw(BucketOf(p), p)
    /\ OriginPasses(p)
    /\ served' = served \cup {p}
    /\ UNCHANGED <<now, stage, owner, watch, since>>

-----------------------------------------------------------------------------
(* A socket *)

\* handshake; session_limiter is a full bucket.
Hello(c) ==
    /\ stage[c] = "hello"
    /\ owner[c] \in Knows
    /\ stage' = [stage EXCEPT ![c] = "open"]
    /\ tokens' = [tokens EXCEPT ![c] = Burst]
    /\ last' = [last EXCEPT ![c] = now]
    /\ UNCHANGED <<now, owner, paid, served, watch, since, drawn>>

\* Variant: the session goes on.
HelloFailsOpen(c) ==
    /\ stage[c] = "hello"
    /\ Draw(Limiter, owner[c]) \/ RunDry(Limiter)
    /\ stage' = [stage EXCEPT ![c] = "open"]
    /\ UNCHANGED <<now, owner, served, watch, since>>

\* Another token, no hello, or none in time: penalise, and close.
HelloFails(c) ==
    /\ stage[c] = "hello"
    /\ Draw(Limiter, owner[c]) \/ RunDry(Limiter)
    /\ stage' = [stage EXCEPT ![c] = "closed"]
    /\ UNCHANGED <<now, owner, served, watch, since>>

\* Session::on_request
Request(c) ==
    /\ stage[c] = "open"
    /\ \/ Draw(c, owner[c]) /\ served' = served \cup {owner[c]}
       \/ RunDry(c) /\ UNCHANGED served
    /\ UNCHANGED <<now, stage, owner, watch, since>>

Close(c) ==
    /\ stage[c] = "open"
    /\ stage' = [stage EXCEPT ![c] = "closed"]
    /\ UNCHANGED <<now, tokens, last, owner, paid, served, watch, since, drawn>>

-----------------------------------------------------------------------------
Tick ==
    /\ now < MaxTime
    /\ now' = now + 1
    /\ UNCHANGED <<tokens, last, stage, owner, paid, served, watch, since, drawn>>

Next ==
    \/ \E p \in Peers : TooMany(p) \/ Answer(p) \/ Call(p)
    \/ \E p \in Peers, c \in Conns : Upgrade(p, c)
    \/ \E c \in Conns : Hello(c) \/ HelloFails(c) \/ Request(c) \/ Close(c)
    \/ Tick

Spec == Init /\ [][Next]_vars

-----------------------------------------------------------------------------
(* Properties *)

TypeOK ==
    /\ now \in 0..MaxTime
    /\ tokens \in [Buckets -> 0..Burst]
    /\ last \in [Buckets -> 0..MaxTime] /\ \A b \in Buckets : last[b] <= now
    /\ stage \in [Conns -> {"free", "hello", "open", "closed"}]
    /\ owner \in [Conns -> Peers \cup {None}]
    /\ \A c \in Conns : stage[c] # "free" => owner[c] \in Peers
    /\ paid \in [Peers -> SUBSET Buckets]
    /\ served \subseteq Peers
    /\ watch \in Buckets /\ since \in 0..MaxTime /\ drawn \in Nat

(***************************************************************************)
(* Nobody's requests are paid for from somebody else's bucket.  What other *)
(* web sites send is drawn from their own, never from the one of the page  *)
(* and of native programs, whatever they do next (guard.rs: "a site left   *)
(* open in another tab could keep the page answered with 429               *)
(* indefinitely"); and a socket's is drawn from by its owner alone ("never *)
(* slowed by traffic it did not send").                                    *)
(***************************************************************************)
PaysItsOwn ==
    /\ \A p \in Sites : paid[p] \subseteq {Untrusted}
    /\ \A c \in Conns, p \in Peers : c \in paid[p] => owner[c] = p

(***************************************************************************)
(* In no stretch of time, whenever it starts, is more drawn from a bucket  *)
(* than its burst and what it gained meanwhile (ratelimit.rs: "caps        *)
(* sustained rate while still allowing a short burst").                    *)
(***************************************************************************)
WindowBound == now >= since => drawn <= Burst + Rate * (now - since)

(***************************************************************************)
(* A service is called only for a peer that has the token and is not       *)
(* another web site, even one that has got hold of the token               *)
(* (handshake.rs: "Until a valid hello arrives the socket carries          *)
(* nothing"; guard.rs: the origin is "the only defence").                  *)
(***************************************************************************)
ServedMayCall == served \subseteq Knows \ Sites

=============================================================================
