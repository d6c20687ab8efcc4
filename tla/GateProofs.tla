----------------------------- MODULE GateProofs -----------------------------
(***************************************************************************)
(* Theorems about Gate, for any peers, rates, bursts and lengths of time.  *)
(*                                                                         *)
(* The window bound is not inductive: it says nothing of what is left in   *)
(* the bucket.  The invariant that is weighs the two together, at the time *)
(* of the last refill: drawn and left together are at most the burst and   *)
(* what was gained since the window began.                                 *)
(***************************************************************************)
EXTENDS Gate, TLAPS

\* A connection that was upgraded belongs to nobody who acts for another site.
OwnersPass == \A c \in Conns : stage[c] # "free" => owner[c] \notin Sites

\* What carries requests has shown the token.
OpenKnows == \A c \in Conns : stage[c] = "open" => owner[c] \in Knows

\* A socket's bucket is touched by nobody before its hello.
PaidAfterHello ==
    \A c \in Conns, p \in Peers : c \in paid[p] =>
        stage[c] \in {"open", "closed"} /\ owner[c] = p

\* Nor is anything drawn from it.
DrawnAfterHello == watch \in Conns /\ stage[watch] \in {"free", "hello"} => drawn = 0

\* What was drawn in the window and what is left.
Weighed ==
    /\ last[watch] < since => drawn = 0
    /\ last[watch] >= since => drawn + tokens[watch] <= Burst + Rate * (last[watch] - since)

IInv ==
    /\ TypeOK
    /\ OwnersPass
    /\ OpenKnows
    /\ PaidAfterHello
    /\ \A p \in Sites : paid[p] \subseteq {Untrusted}
    /\ ServedMayCall
    /\ DrawnAfterHello
    /\ Weighed

-----------------------------------------------------------------------------
(* The gain of two stretches of time is that of both together. *)
LEMMA GainAdds ==
    ASSUME NEW r \in Int, NEW a \in Int, NEW b \in Int, NEW c \in Int
    PROVE  r * (a - c) = r * (a - b) + r * (b - c)
  BY SMT

(* A gain is never negative. *)
LEMMA GainGrows ==
    ASSUME NEW r \in Nat, NEW a \in Int, NEW b \in Int, a >= b
    PROVE  r * (a - b) \in Nat
  BY SMT

(* A bucket holds what it held and gained, and its burst at most. *)
LEMMA GainedBounds ==
    ASSUME ConstantsOK, TypeOK, NEW b \in Buckets
    PROVE  /\ Gained(b) \in 0..Burst
           /\ Gained(b) <= tokens[b] + Rate * (now - last[b])
  <1>1. now \in Int /\ last[b] \in Int /\ now >= last[b] /\ tokens[b] \in 0..Burst
        /\ Rate \in Nat /\ Burst \in Nat
    BY DEF ConstantsOK, TypeOK
  <1>2. Rate * (now - last[b]) \in Nat
    BY <1>1, GainGrows
  <1>3. QED
    BY <1>1, <1>2 DEF Gained, Least

(* A request for another site draws from the bucket of such requests. *)
LEMMA SitesUntrusted ==
    ASSUME ConstantsOK, NEW p \in Sites
    PROVE  BucketOf(p) = Untrusted
  BY DEF ConstantsOK, BucketOf

(* No upgrade and no call of such a site passes the middleware. *)
LEMMA SitesStop ==
    ASSUME ConstantsOK, NEW p \in Sites, SendsOrigin(p), OriginPasses(p)
    PROVE  FALSE
  BY DEF ConstantsOK, SendsOrigin, OriginPasses

(* And any request draws from one that is not a socket's. *)
LEMMA BucketsOfRequests ==
    ASSUME ConstantsOK, NEW p
    PROVE  BucketOf(p) \in Buckets /\ BucketOf(p) \notin Conns
  BY DEF ConstantsOK, BucketOf, Buckets

-----------------------------------------------------------------------------
(* What trying a bucket does: the bucket is refilled, and perhaps drawn from. *)
Try(b, p) == Draw(b, p) \/ RunDry(b)

LEMMA TryTypes ==
    ASSUME ConstantsOK, TypeOK, NEW b \in Buckets, NEW p \in Peers, Try(b, p)
    PROVE  /\ tokens' \in [Buckets -> 0..Burst]
           /\ last' \in [Buckets -> 0..MaxTime] /\ \A d \in Buckets : last'[d] <= now
           /\ paid' \in [Peers -> SUBSET Buckets]
           /\ drawn' \in Nat
  <1>1. Gained(b) \in 0..Burst /\ Unit \in Nat /\ Burst \in Nat /\ now \in 0..MaxTime
        /\ MaxTime \in Nat /\ drawn \in Nat
    BY GainedBounds DEF ConstantsOK, TypeOK
  <1>2. tokens' \in [Buckets -> 0..Burst]
    <2>1. tokens \in [Buckets -> 0..Burst]
      BY DEF TypeOK
    <2>2. CASE Draw(b, p)
      <3>1. Gained(b) - Unit \in 0..Burst
        BY <1>1, <2>2 DEF Draw
      <3>2. QED BY <2>1, <2>2, <3>1 DEF Draw
    <2>3. CASE RunDry(b)
      BY <1>1, <2>1, <2>3 DEF RunDry
    <2>4. QED BY <2>2, <2>3 DEF Try
  <1>3. last' = [last EXCEPT ![b] = now]
    BY DEF Try, Draw, RunDry
  <1>4. last' \in [Buckets -> 0..MaxTime] /\ \A d \in Buckets : last'[d] <= now
    BY <1>1, <1>3 DEF TypeOK
  <1>5. paid' \in [Peers -> SUBSET Buckets]
    BY DEF TypeOK, Try, Draw, RunDry
  <1>6. drawn' \in Nat
    BY <1>1 DEF Try, Draw, RunDry
  <1>7. QED BY <1>2, <1>4, <1>5, <1>6

(* What was weighed stays in balance when any bucket is tried. *)
LEMMA TryWeighed ==
    ASSUME ConstantsOK, TypeOK, Weighed, NEW b \in Buckets, NEW p \in Peers, Try(b, p),
           UNCHANGED <<watch, since>>
    PROVE  Weighed'
  <1>1. /\ watch \in Buckets /\ now \in Int /\ since \in Int /\ drawn \in Nat /\ Unit \in Nat
        /\ Rate \in Nat /\ Burst \in Nat
        /\ tokens[watch] \in 0..Burst /\ last[watch] \in Int /\ last[watch] <= now
        /\ tokens \in [Buckets -> 0..Burst] /\ last \in [Buckets -> 0..MaxTime]
    BY DEF ConstantsOK, TypeOK
  <1>2. last'[b] = now /\ \A d \in Buckets \ {b} : last'[d] = last[d] /\ tokens'[d] = tokens[d]
    BY <1>1 DEF Try, Draw, RunDry
  <1>3. CASE b # watch
    <2>1. drawn' = drawn
      BY <1>3 DEF Try, Draw, RunDry
    <2>2. QED BY <1>1, <1>2, <1>3, <2>1 DEF Weighed
  <1>4. CASE b = watch /\ now < since
    <2>1. drawn' = drawn /\ drawn = 0
      BY <1>1, <1>4 DEF Try, Draw, RunDry, Weighed
    <2>2. QED BY <1>1, <1>2, <1>4, <2>1 DEF Weighed
  <1>5. CASE b = watch /\ now >= since
    <2>1. drawn' + tokens'[b] = drawn + Gained(b)
      <3>1. Gained(b) \in Int
        BY GainedBounds
      <3>2. CASE Draw(b, p)
        <4>1. tokens'[b] = Gained(b) - Unit /\ drawn' = drawn + Unit
          BY <1>1, <1>5, <3>2 DEF Draw
        <4>2. QED BY <1>1, <3>1, <4>1
      <3>3. CASE RunDry(b)
        BY <1>1, <3>1, <3>3 DEF RunDry
      <3>4. QED BY <3>2, <3>3 DEF Try
    <2>2. drawn + Gained(b) <= Burst + Rate * (now - since)
      <3>0. Gained(b) \in 0..Burst /\ Gained(b) <= tokens[b] + Rate * (now - last[b])
        BY GainedBounds
      <3>1. CASE last[watch] < since
        <4>1. drawn = 0
          BY <3>1 DEF Weighed
        <4>2. Rate * (now - since) \in Nat
          BY <1>1, <1>5, GainGrows
        <4>3. QED BY <1>1, <3>0, <4>1, <4>2
      <3>2. CASE last[watch] >= since
        <4>1. drawn + tokens[b] <= Burst + Rate * (last[b] - since)
          BY <1>5, <3>2 DEF Weighed
        <4>2. Rate * (now - since) = Rate * (now - last[b]) + Rate * (last[b] - since)
          BY <1>1, <1>5, GainAdds
        <4>3. Rate * (now - last[b]) \in Int /\ Rate * (last[b] - since) \in Int
          BY <1>1, <1>5, <3>2, GainGrows
        <4>4. QED BY <1>1, <1>5, <3>0, <4>1, <4>2, <4>3
      <3>3. QED BY <1>1, <3>1, <3>2
    <2>3. QED BY <1>1, <1>2, <1>5, <2>1, <2>2 DEF Weighed
  <1>6. QED BY <1>1, <1>3, <1>4, <1>5

(* What a peer's request, or its failed hello, does to the buckets. *)
Unsocketed ==
    /\ tokens' \in [Buckets -> 0..Burst]
    /\ last' \in [Buckets -> 0..MaxTime] /\ \A d \in Buckets : last'[d] <= now
    /\ paid' \in [Peers -> SUBSET Buckets]
    /\ drawn' \in Nat
    /\ Weighed'
    /\ \A c \in Conns, q \in Peers : c \in paid'[q] => c \in paid[q]
    /\ watch \in Conns => drawn' = drawn

LEMMA TryUnsocketed ==
    ASSUME ConstantsOK, IInv, NEW p \in Peers, NEW b \in Buckets \ Conns, Try(b, p),
           UNCHANGED <<watch, since>>
    PROVE  Unsocketed
  <1>1. TypeOK /\ Weighed
    BY DEF IInv
  <1>2. Weighed'
    BY <1>1, TryWeighed
  <1>3. \A c \in Conns, q \in Peers : c \in paid'[q] => c \in paid[q]
    BY <1>1 DEF TypeOK, Try, Draw, RunDry
  <1>4. watch \in Conns => drawn' = drawn
    BY DEF Try, Draw, RunDry
  <1>5. QED BY <1>1, <1>2, <1>3, <1>4, TryTypes DEF Unsocketed

(* Requests for other sites draw from their own bucket. *)
LEMMA TrySites ==
    ASSUME ConstantsOK, IInv, NEW p \in Peers, NEW b \in Buckets, Try(b, p),
           p \in Sites => b = Untrusted
    PROVE  \A q \in Sites : paid'[q] \subseteq {Untrusted}
  <1>1. paid \in [Peers -> SUBSET Buckets] /\ \A q \in Sites : paid[q] \subseteq {Untrusted}
    BY DEF IInv, TypeOK
  <1>2. Sites \subseteq Peers
    BY DEF ConstantsOK
  <1>3. \A q \in Peers : paid'[q] = paid[q] \/ (q = p /\ paid'[q] = paid[q] \cup {b})
    BY <1>1 DEF Try, Draw, RunDry
  <1>4. QED BY <1>1, <1>2, <1>3

-----------------------------------------------------------------------------
LEMMA InitIInv == ConstantsOK /\ Init => IInv
  <1> SUFFICES ASSUME ConstantsOK, Init PROVE IInv
    OBVIOUS
  <1>2. TypeOK
    BY DEF ConstantsOK, Init, TypeOK
  <1>3. OwnersPass /\ OpenKnows /\ DrawnAfterHello /\ ServedMayCall
    BY DEF Init, OwnersPass, OpenKnows, DrawnAfterHello, ServedMayCall
  <1>4. PaidAfterHello /\ \A p \in Sites : paid[p] \subseteq {Untrusted}
    BY DEF ConstantsOK, Init, PaidAfterHello
  <1>5. Weighed
    <2>1. last[watch] = 0 /\ drawn = 0 /\ tokens[watch] = Burst /\ since \in Nat /\ Burst \in Nat
          /\ Rate \in Nat
      BY DEF Init, ConstantsOK
    <2>2. CASE since = 0
      <3>1. Rate * (last[watch] - since) \in Nat
        BY <2>1, <2>2, GainGrows
      <3>2. QED BY <2>1, <2>2, <3>1 DEF Weighed
    <2>3. CASE since # 0
      BY <2>1, <2>3 DEF Weighed
    <2>4. QED BY <2>2, <2>3
  <1>6. QED BY <1>2, <1>3, <1>4, <1>5 DEF IInv

LEMMA TooManyIInv ==
    ASSUME ConstantsOK, IInv, NEW p \in Peers, TooMany(p)
    PROVE  IInv'
  <1>1. Try(BucketOf(p), p) /\ UNCHANGED <<now, stage, owner, served, watch, since>>
    BY DEF TooMany, Try
  <1>2. BucketOf(p) \in Buckets \ Conns
    BY BucketsOfRequests
  <1>3. Unsocketed
    BY <1>1, <1>2, TryUnsocketed
  <1>4. \A q \in Sites : paid'[q] \subseteq {Untrusted}
    BY <1>1, <1>2, TrySites, SitesUntrusted
  <1>5. TypeOK'
    BY <1>1, <1>3 DEF IInv, TypeOK, Unsocketed
  <1>6. PaidAfterHello' /\ DrawnAfterHello'
    BY <1>1, <1>3 DEF IInv, PaidAfterHello, DrawnAfterHello, Unsocketed
  <1>7. OwnersPass' /\ OpenKnows' /\ ServedMayCall'
    BY <1>1 DEF IInv, OwnersPass, OpenKnows, ServedMayCall
  <1>8. QED BY <1>3, <1>4, <1>5, <1>6, <1>7 DEF IInv, Unsocketed

LEMMA AnswerIInv ==
    ASSUME ConstantsOK, IInv, NEW p \in Peers, Answer(p)
    PROVE  IInv'
  <1>1. Try(BucketOf(p), p) /\ UNCHANGED <<now, stage, owner, served, watch, since>>
    BY DEF Answer, Try
  <1>2. BucketOf(p) \in Buckets \ Conns
    BY BucketsOfRequests
  <1>3. Unsocketed
    BY <1>1, <1>2, TryUnsocketed
  <1>4. \A q \in Sites : paid'[q] \subseteq {Untrusted}
    BY <1>1, <1>2, TrySites, SitesUntrusted
  <1>5. TypeOK'
    BY <1>1, <1>3 DEF IInv, TypeOK, Unsocketed
  <1>6. PaidAfterHello' /\ DrawnAfterHello'
    BY <1>1, <1>3 DEF IInv, PaidAfterHello, DrawnAfterHello, Unsocketed
  <1>7. OwnersPass' /\ OpenKnows' /\ ServedMayCall'
    BY <1>1 DEF IInv, OwnersPass, OpenKnows, ServedMayCall
  <1>8. QED BY <1>3, <1>4, <1>5, <1>6, <1>7 DEF IInv, Unsocketed

LEMMA CallIInv ==
    ASSUME ConstantsOK, IInv, NEW p \in Peers, Call(p)
    PROVE  IInv'
  <1>1. Try(BucketOf(p), p) /\ UNCHANGED <<now, stage, owner, watch, since>>
    BY DEF Call, Try
  <1>2. BucketOf(p) \in Buckets \ Conns
    BY BucketsOfRequests
  <1>3. Unsocketed
    BY <1>1, <1>2, TryUnsocketed
  <1>4. \A q \in Sites : paid'[q] \subseteq {Untrusted}
    BY <1>1, <1>2, TrySites, SitesUntrusted
  <1>5. TypeOK'
    BY <1>1, <1>3 DEF IInv, TypeOK, Unsocketed, Call
  <1>6. PaidAfterHello' /\ DrawnAfterHello'
    BY <1>1, <1>3 DEF IInv, PaidAfterHello, DrawnAfterHello, Unsocketed
  <1>7. OwnersPass' /\ OpenKnows'
    BY <1>1 DEF IInv, OwnersPass, OpenKnows
  <1>8. ServedMayCall'
    <2>1. p \in Knows
      BY DEF Call
    <2>2. p \notin Sites
      BY SitesStop DEF Call
    <2>3. QED BY <2>1, <2>2 DEF IInv, ServedMayCall, Call
  <1>9. QED BY <1>3, <1>4, <1>5, <1>6, <1>7, <1>8 DEF IInv, Unsocketed

LEMMA UpgradeIInv ==
    ASSUME ConstantsOK, IInv, NEW p \in Peers, NEW c \in Conns, Upgrade(p, c)
    PROVE  IInv'
  <1>1. /\ Try(BucketOf(p), p) /\ UNCHANGED <<now, served, watch, since>>
        /\ stage[c] = "free" /\ stage' = [stage EXCEPT ![c] = "hello"]
        /\ owner' = [owner EXCEPT ![c] = p]
    BY DEF Upgrade, Try
  <1>2. BucketOf(p) \in Buckets \ Conns
    BY BucketsOfRequests
  <1>3. Unsocketed
    BY <1>1, <1>2, TryUnsocketed
  <1>4. \A q \in Sites : paid'[q] \subseteq {Untrusted}
    BY <1>1, <1>2, TrySites, SitesUntrusted
  <1>5. TypeOK'
    BY <1>1, <1>3 DEF IInv, TypeOK, Unsocketed
  <1>6. PaidAfterHello' /\ DrawnAfterHello'
    <2>1. stage \in [Conns -> {"free", "hello", "open", "closed"}] /\ owner \in [Conns -> Peers \cup {None}]
      BY DEF IInv, TypeOK
    <2>2. PaidAfterHello'
      BY <1>1, <1>3, <2>1 DEF IInv, PaidAfterHello, Unsocketed
    <2>3. DrawnAfterHello'
      BY <1>1, <1>3, <2>1 DEF IInv, DrawnAfterHello, Unsocketed
    <2>4. QED BY <2>2, <2>3
  <1>7. OwnersPass' /\ OpenKnows' /\ ServedMayCall'
    <2>1. p \notin Sites
      BY SitesStop DEF Upgrade
    <2>2. stage \in [Conns -> {"free", "hello", "open", "closed"}] /\ owner \in [Conns -> Peers \cup {None}]
      BY DEF IInv, TypeOK
    <2>3. QED BY <1>1, <2>1, <2>2 DEF IInv, OwnersPass, OpenKnows, ServedMayCall
  <1>8. QED BY <1>3, <1>4, <1>5, <1>6, <1>7 DEF IInv, Unsocketed

LEMMA HelloFailsIInv ==
    ASSUME ConstantsOK, IInv, NEW c \in Conns, HelloFails(c)
    PROVE  IInv'
  <1>1. /\ Try(Limiter, owner[c]) /\ UNCHANGED <<now, owner, served, watch, since>>
        /\ stage[c] = "hello" /\ stage' = [stage EXCEPT ![c] = "closed"]
    BY DEF HelloFails, Try
  <1>2. Limiter \in Buckets \ Conns
    BY DEF ConstantsOK, Buckets
  <1>0. /\ owner[c] \in Peers /\ owner[c] \notin Sites
        /\ stage \in [Conns -> {"free", "hello", "open", "closed"}]
    BY <1>1 DEF IInv, TypeOK, OwnersPass
  <1>3. Unsocketed
    BY <1>0, <1>1, <1>2, TryUnsocketed
  <1>4. \A q \in Sites : paid'[q] \subseteq {Untrusted}
    BY <1>0, <1>1, <1>2, TrySites
  <1>5. TypeOK'
    BY <1>0, <1>1, <1>3 DEF IInv, TypeOK, Unsocketed
  <1>6. PaidAfterHello'
    BY <1>0, <1>1, <1>3 DEF IInv, PaidAfterHello, Unsocketed
  <1>7. DrawnAfterHello'
    BY <1>0, <1>1, <1>3 DEF IInv, DrawnAfterHello, Unsocketed
  <1>8. OwnersPass' /\ OpenKnows' /\ ServedMayCall'
    BY <1>0, <1>1 DEF IInv, OwnersPass, OpenKnows, ServedMayCall
  <1>9. QED BY <1>3, <1>4, <1>5, <1>6, <1>7, <1>8 DEF IInv, Unsocketed

LEMMA HelloIInv ==
    ASSUME ConstantsOK, IInv, NEW c \in Conns, Hello(c)
    PROVE  IInv'
  <1>1. /\ stage[c] = "hello" /\ stage' = [stage EXCEPT ![c] = "open"] /\ owner[c] \in Knows
        /\ tokens' = [tokens EXCEPT ![c] = Burst] /\ last' = [last EXCEPT ![c] = now]
        /\ UNCHANGED <<now, owner, paid, served, watch, since, drawn>>
    BY DEF Hello
  <1>2. /\ stage \in [Conns -> {"free", "hello", "open", "closed"}]
        /\ tokens \in [Buckets -> 0..Burst] /\ last \in [Buckets -> 0..MaxTime]
        /\ c \in Buckets /\ watch \in Buckets /\ now \in Int /\ since \in Int /\ Burst \in Nat /\ Rate \in Nat
    BY DEF IInv, TypeOK, Buckets, ConstantsOK
  <1>3. TypeOK'
    BY <1>1, <1>2 DEF IInv, TypeOK
  <1>4. PaidAfterHello'
    BY <1>1, <1>2 DEF IInv, PaidAfterHello
  <1>5. DrawnAfterHello'
    BY <1>1, <1>2 DEF IInv, DrawnAfterHello
  <1>6. OwnersPass' /\ OpenKnows' /\ ServedMayCall'
    BY <1>1, <1>2 DEF IInv, OwnersPass, OpenKnows, ServedMayCall
  <1>7. Weighed'
    <2>1. CASE c = watch
      <3>1. drawn = 0
        BY <1>1, <2>1 DEF IInv, DrawnAfterHello
      <3>2. tokens'[watch] = Burst /\ last'[watch] = now
        BY <1>1, <1>2, <2>1
      <3>3. now >= since => Rate * (now - since) \in Nat
        BY <1>2, GainGrows
      <3>4. QED BY <1>1, <1>2, <3>1, <3>2, <3>3 DEF Weighed
    <2>2. CASE c # watch
      BY <1>1, <1>2, <2>2 DEF IInv, Weighed
    <2>3. QED BY <2>1, <2>2
  <1>8. QED BY <1>1, <1>3, <1>4, <1>5, <1>6, <1>7 DEF IInv

LEMMA RequestIInv ==
    ASSUME ConstantsOK, IInv, NEW c \in Conns, Request(c)
    PROVE  IInv'
  <1>1. /\ Try(c, owner[c]) /\ UNCHANGED <<now, stage, owner, watch, since>>
        /\ stage[c] = "open" /\ served' \subseteq served \cup {owner[c]}
    BY DEF Request, Try
  <1>2. owner[c] \in Peers /\ owner[c] \notin Sites /\ owner[c] \in Knows /\ c \in Buckets
    BY <1>1 DEF IInv, TypeOK, OwnersPass, OpenKnows, Buckets
  <1>3. TypeOK'
    BY <1>1, <1>2, TryTypes DEF IInv, TypeOK
  <1>4. PaidAfterHello'
    <2>1. \A d \in Conns, q \in Peers : d \in paid'[q] => d \in paid[q] \/ (d = c /\ q = owner[c])
      BY <1>2 DEF IInv, TypeOK, Request, Draw, RunDry
    <2>2. QED BY <1>1, <2>1 DEF IInv, PaidAfterHello
  <1>5. DrawnAfterHello'
    BY <1>1 DEF IInv, DrawnAfterHello, Try, Draw, RunDry
  <1>6. OwnersPass' /\ OpenKnows' /\ ServedMayCall'
    BY <1>1, <1>2 DEF IInv, OwnersPass, OpenKnows, ServedMayCall
  <1>7. Weighed'
    BY <1>1, <1>2, TryWeighed DEF IInv
  <1>8. \A q \in Sites : paid'[q] \subseteq {Untrusted}
    BY <1>1, <1>2, TrySites
  <1>9. QED BY <1>3, <1>4, <1>5, <1>6, <1>7, <1>8 DEF IInv

LEMMA CloseIInv ==
    ASSUME ConstantsOK, IInv, NEW c \in Conns, Close(c)
    PROVE  IInv'
  <1>1. /\ stage[c] = "open" /\ stage' = [stage EXCEPT ![c] = "closed"]
        /\ UNCHANGED <<now, tokens, last, owner, paid, served, watch, since, drawn>>
        /\ stage \in [Conns -> {"free", "hello", "open", "closed"}]
    BY DEF Close, IInv, TypeOK
  <1>2. TypeOK'
    BY <1>1 DEF IInv, TypeOK
  <1>3. PaidAfterHello' /\ DrawnAfterHello'
    BY <1>1 DEF IInv, PaidAfterHello, DrawnAfterHello
  <1>4. OwnersPass' /\ OpenKnows' /\ ServedMayCall' /\ Weighed'
    BY <1>1 DEF IInv, OwnersPass, OpenKnows, ServedMayCall, Weighed
  <1>5. QED BY <1>1, <1>2, <1>3, <1>4 DEF IInv

LEMMA TickIInv ==
    ASSUME ConstantsOK, IInv, Tick \/ UNCHANGED vars
    PROVE  IInv'
  <1>1. /\ now' \in now..MaxTime
        /\ UNCHANGED <<tokens, last, stage, owner, paid, served, watch, since, drawn>>
    BY DEF Tick, vars, IInv, TypeOK, ConstantsOK
  <1>2. TypeOK'
    BY <1>1 DEF IInv, TypeOK, ConstantsOK
  <1>3. PaidAfterHello' /\ DrawnAfterHello'
    BY <1>1 DEF IInv, PaidAfterHello, DrawnAfterHello
  <1>4. OwnersPass' /\ OpenKnows' /\ ServedMayCall' /\ Weighed'
    BY <1>1 DEF IInv, OwnersPass, OpenKnows, ServedMayCall, Weighed
  <1>5. QED BY <1>1, <1>2, <1>3, <1>4 DEF IInv

-----------------------------------------------------------------------------
LEMMA Inductive == Spec => []IInv
  <1>1. Init => IInv
    BY InitIInv, ConstantsOK
  <1>2. IInv /\ [Next]_vars => IInv'
    <2> SUFFICES ASSUME IInv, [Next]_vars PROVE IInv'
      OBVIOUS
    <2> USE ConstantsOK
    <2>1. ASSUME NEW p \in Peers, TooMany(p) PROVE IInv'
      BY <2>1, TooManyIInv
    <2>2. ASSUME NEW p \in Peers, Answer(p) PROVE IInv'
      BY <2>2, AnswerIInv
    <2>3. ASSUME NEW p \in Peers, Call(p) PROVE IInv'
      BY <2>3, CallIInv
    <2>4. ASSUME NEW p \in Peers, NEW c \in Conns, Upgrade(p, c) PROVE IInv'
      BY <2>4, UpgradeIInv
    <2>5. ASSUME NEW c \in Conns, Hello(c) PROVE IInv'
      BY <2>5, HelloIInv
    <2>6. ASSUME NEW c \in Conns, HelloFails(c) PROVE IInv'
      BY <2>6, HelloFailsIInv
    <2>7. ASSUME NEW c \in Conns, Request(c) PROVE IInv'
      BY <2>7, RequestIInv
    <2>8. ASSUME NEW c \in Conns, Close(c) PROVE IInv'
      BY <2>8, CloseIInv
    <2>9. CASE Tick \/ UNCHANGED vars
      BY <2>9, TickIInv
    <2> QED BY <2>1, <2>2, <2>3, <2>4, <2>5, <2>6, <2>7, <2>8, <2>9 DEF Next
  <1> QED BY <1>1, <1>2, PTL DEF Spec

(***************************************************************************)
(* Types, and that no bucket ever holds more than its burst or less than   *)
(* nothing.                                                                *)
(***************************************************************************)
THEOREM TypeCorrect == Spec => []TypeOK
  <1>1. IInv => TypeOK
    BY DEF IInv
  <1> QED BY <1>1, Inductive, PTL

(***************************************************************************)
(* Whatever other sites send, and however much, they draw from their own   *)
(* bucket, and a socket's is drawn from by its owner alone.                *)
(***************************************************************************)
THEOREM EveryonePaysItsOwn == Spec => []PaysItsOwn
  <1>1. IInv => PaysItsOwn
    BY DEF IInv, PaidAfterHello, PaysItsOwn
  <1> QED BY <1>1, Inductive, PTL

(***************************************************************************)
(* For any rate, burst and window, no more is drawn than the burst and     *)
(* what the bucket gained in the window.                                   *)
(***************************************************************************)
THEOREM WindowsAreBounded == Spec => []WindowBound
  <1>1. IInv => WindowBound
    <2> SUFFICES ASSUME IInv, now >= since PROVE drawn <= Burst + Rate * (now - since)
      BY DEF WindowBound
    <2> USE ConstantsOK
    <2>1. /\ watch \in Buckets /\ now \in Int /\ since \in Int /\ drawn \in Nat
          /\ tokens[watch] \in 0..Burst /\ last[watch] \in Int /\ last[watch] <= now
          /\ Rate \in Nat /\ Burst \in Nat
      BY DEF IInv, TypeOK, ConstantsOK
    <2>2. CASE last[watch] < since
      <3>1. drawn = 0
        BY <2>2 DEF IInv, Weighed
      <3>2. Rate * (now - since) \in Nat
        BY <2>1, GainGrows
      <3> QED BY <2>1, <3>1, <3>2
    <2>3. CASE last[watch] >= since
      <3>1. drawn + tokens[watch] <= Burst + Rate * (last[watch] - since)
        BY <2>3 DEF IInv, Weighed
      <3>2. Rate * (now - since) = Rate * (now - last[watch]) + Rate * (last[watch] - since)
        BY <2>1, GainAdds
      <3>3. Rate * (now - last[watch]) \in Nat /\ Rate * (last[watch] - since) \in Nat
        BY <2>1, <2>3, GainGrows
      <3> QED BY <2>1, <3>1, <3>2, <3>3
    <2> QED BY <2>1, <2>2, <2>3
  <1> QED BY <1>1, Inductive, PTL

(***************************************************************************)
(* Services are called only for peers that have the token and do not act   *)
(* for another web site.                                                   *)
(***************************************************************************)
THEOREM OnlyTheseAreServed == Spec => []ServedMayCall
  <1>1. IInv => ServedMayCall
    BY DEF IInv
  <1> QED BY <1>1, Inductive, PTL

=============================================================================
