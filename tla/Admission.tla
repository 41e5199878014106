------------------------------ MODULE Admission ------------------------------
(* What lets a request in: the token buckets that limit a key                    *)
(* (apps/gateway/src/rateLimit.ts) and, behind one, the pairing of a device with *)
(* a token an operator made (apps/gateway/src/pairing.ts, the stores, cli.ts).   *)
EXTENDS Naturals, Sequences, FiniteSets, SequencesExt, FiniteSetsExt

CONSTANTS
  Keys,          \* remote addresses; /mcp has its own limiter, with clients for keys
  PerMinute,     \* rateLimitPairPerMinute, more than 0
  Minute,        \* the steps of the clock in a minute
  MaxTracked,    \* MAX_TRACKED_KEYS
  Tokens,        \* pairing tokens
  TokenLife,     \* PAIRING_TOKEN_TTL_SECONDS
  MaxNow,        \* bound on the clock
  MaxRequests    \* bound on the pairing requests

ASSUME AdmissionAssumption ==
  /\ {PerMinute, Minute} \subseteq Nat \ {0}
  /\ {MaxTracked, TokenLife, MaxNow, MaxRequests} \subseteq Nat

VARIABLES
  now,
  bucket,     \* the Map of buckets, in the order its keys were added
  token,      \* the rows of device_pairing_tokens
  request,    \* pairing requests between two awaits
  device,     \* the rows of devices, with the token each came with
  passed,     \* history: when each key was let through
  asked       \* requests so far, bounded by MaxRequests

admissionVars == <<now, bucket, token, request, device, passed, asked>>

AdmissionInit ==
  /\ now = 0 /\ bucket = <<>>
  /\ token = {} /\ request = {} /\ device = {}
  /\ passed = [k \in Keys |-> <<>>]
  /\ asked = 0

-----------------------------------------------------------------------------
(* RateLimiter.  The tokens of a bucket are counted in parts of a Minute.       *)

Tracked == {b.key : b \in ToSet(bucket)}

\* prune: idle buckets go, oldest first, until fewer than half the bound are left; one
\* that drops a bucket of any age stands before it.
PruneRecent(buckets) ==
  LET enough == {n \in 0 .. Len(buckets) : 2 * (Len(buckets) - n) < MaxTracked} IN
  SubSeq(buckets, Min(enough \cup {Len(buckets)}) + 1, Len(buckets))
Prune(buckets) ==
  LET idle == {i \in DOMAIN buckets : now - buckets[i].at > 2 * Minute}
      gone == {i \in idle : 2 * (Len(buckets) - Cardinality({j \in idle : j < i})) >= MaxTracked}
  IN  [n \in 1 .. Cardinality(DOMAIN buckets \ gone) |->
         buckets[CHOOSE i \in DOMAIN buckets \ gone : Cardinality({j \in DOMAIN buckets \ gone : j <= i}) = n]]

\* tryTake: the bucket, refilled up to now and made when it is new.
Tracking(key) ==
  LET room == IF Len(bucket) >= MaxTracked THEN Prune(bucket) ELSE bucket
      all == IF key \in Tracked THEN bucket ELSE Append(room, [key |-> key, tokens |-> PerMinute * Minute, at |-> now])
  IN  [i \in DOMAIN all |->
         IF all[i].key # key THEN all[i]
         ELSE [key |-> key, at |-> now,
               tokens |-> Min({PerMinute * Minute, all[i].tokens + (now - all[i].at) * PerMinute})]]
TokensOf(key, buckets) == (CHOOSE b \in ToSet(buckets) : b.key = key).tokens

Taken(key) == [i \in DOMAIN Tracking(key) |->
  IF Tracking(key)[i].key = key THEN [Tracking(key)[i] EXCEPT !.tokens = @ - Minute] ELSE Tracking(key)[i]]

-----------------------------------------------------------------------------
(* Pairing.                                                                    *)

\* device:pair, at the command line of the gateway's host.
MakeToken(t) ==
  /\ \A row \in token : row.token # t
  /\ \A d \in device : d.token # t
  /\ \A r \in request : r.token # t
  /\ token' = token \cup {[token |-> t, expires |-> now + TokenLife, consumed |-> FALSE]}
  /\ UNCHANGED <<now, bucket, request, device, passed, asked>>

\* POST /agent/pair: limited by address.
Refused(key) ==
  /\ asked < MaxRequests /\ TokensOf(key, Tracking(key)) < Minute
  /\ bucket' = Tracking(key)
  /\ asked' = asked + 1
  /\ UNCHANGED <<now, token, request, device, passed>>

Admitted(key, t) ==
  /\ asked < MaxRequests /\ TokensOf(key, Tracking(key)) >= Minute
  /\ bucket' = Taken(key)
  /\ request' = request \cup {[n |-> asked, token |-> t, at |-> "consume"]}
  /\ passed' = [passed EXCEPT ![key] = Append(@, now)]
  /\ asked' = asked + 1
  /\ UNCHANGED <<now, token, device>>

\* consume: one statement finds the token and marks it.
Consume(r) ==
  /\ r \in request /\ r.at = "consume"
  /\ LET found == {row \in token : row.token = r.token /\ ~row.consumed /\ row.expires > now} IN
       /\ token' = (token \ found) \cup {[row EXCEPT !.consumed = TRUE] : row \in found}
       /\ request' = (request \ {r}) \cup IF found = {} THEN {} ELSE {[r EXCEPT !.at = "insert"]}
  /\ UNCHANGED <<now, bucket, device, passed, asked>>

InsertDevice(r) ==
  /\ r \in request /\ r.at = "insert"
  /\ device' = device \cup {[id |-> r.n, token |-> r.token]}
  /\ request' = request \ {r}
  /\ UNCHANGED <<now, bucket, token, passed, asked>>

\* The insert fails or the gateway goes away: the token is spent all the same.
PairingFails(r) ==
  /\ r \in request
  /\ request' = request \ {r}
  /\ UNCHANGED <<now, bucket, token, device, passed, asked>>

PurgeTokens ==
  /\ \E row \in token : row.expires <= now
  /\ token' = {row \in token : row.expires > now}
  /\ UNCHANGED <<now, bucket, request, device, passed, asked>>

MinutePasses == now < MaxNow /\ now' = now + 1 /\ UNCHANGED <<bucket, token, request, device, passed, asked>>

AdmissionNext ==
  \/ \E t \in Tokens : MakeToken(t) \/ \E k \in Keys : Admitted(k, t)
  \/ \E k \in Keys : Refused(k)
  \/ \E r \in request : Consume(r) \/ InsertDevice(r) \/ PairingFails(r)
  \/ PurgeTokens \/ MinutePasses

AdmissionSpec == AdmissionInit /\ [][AdmissionNext]_admissionVars

-----------------------------------------------------------------------------
(* Properties.                                                                 *)

\* Over any stretch of time a key is let through as often as a full bucket and its refill
\* allow, also when its bucket was dropped to make room and made again (tryTake, prune).
RateHolds ==
  \A k \in Keys : \A i, j \in DOMAIN passed[k] : i <= j =>
    (j - i + 1) * Minute <= (Minute + passed[k][j] - passed[k][i]) * PerMinute

\* A pairing token pairs one device, however many requests carry it at once (consume).
TokenPairsOne == \A d, e \in device : d.token = e.token => d = e

\* Nobody is let in more often than the bucket and the token allow.
AdmitsNoMore == RateHolds /\ TokenPairsOne
=============================================================================
