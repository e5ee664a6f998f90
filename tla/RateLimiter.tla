---------------------------- MODULE RateLimiter ----------------------------
(***************************************************************************)
(* One keyed token-bucket limiter (internal/ratelimit) in front of a       *)
(* handler, keyed by the client's address behind the trusted reverse       *)
(* proxies (internal/httpx). Allow runs under the mutex, so a request is   *)
(* one step. Time is in ticks, and a bucket holds its tokens as the ticks  *)
(* it took to earn them: Every ticks are one token.                        *)
(***************************************************************************)
EXTENDS Integers, FiniteSets, Sequences, Functions

CONSTANTS Clients,        \* addresses of clients
          Proxies,        \* TRUSTED_PROXIES
          Malformed,      \* a header entry that is no address
          Subnet,         \* an address's limiter key: itself, or an IPv6 /64
          Every,          \* ticks per token
          Burst,          \* tokens of a full bucket
          MaxKeys,        \* buckets held at most
          Second,         \* ticks per second
          SweepInterval,  \* ticks between two ordinary sweeps
          MaxTime,        \* the clock stops here
          None

Addresses == Clients \cup Proxies
Keys == {Subnet[x] : x \in Addresses}

ASSUME RateAssumption ==
  /\ Every \in Nat \ {0} /\ Burst \in Nat \ {0} /\ MaxKeys \in Nat
  /\ Second \in Nat \ {0} /\ SweepInterval \in Nat
ASSUME AddressAssumption ==
  /\ Clients \cap Proxies = {} /\ Malformed \notin Addresses
  /\ IsFiniteSet(Addresses) /\ DOMAIN Subnet = Addresses
Full == Burst * Every
IdleTTL == Full + Second

Bucket == [level : 0..Full, seen : Nat]

ASSUME LimiterNoneAssumption == None \notin Nat /\ None \notin Bucket

VARIABLES now,        \* the clock
          buckets,    \* the bucket of each key, None if it has none
          overflow,   \* the bucket unseen keys share when there is no room
          lastSweep,  \* when sweep ran last
          admitted,   \* history: requests let through, by the real client's key
          ideal,      \* history: each key's tokens in a limiter that never sweeps
          promise     \* history: when the last refusal said to come back

vars == <<now, buckets, overflow, lastSweep, admitted, ideal, promise>>

-----------------------------------------------------------------------------
(* ClientAddressKeyFunc. *)

(* The rightmost entry that is no trusted proxy is the client; a malformed *)
(* one before it, or none, leaves the peer.                                *)
ClientAddressKeyMutant(peer, hops) ==
  IF peer \in Proxies /\ hops # <<>> /\ hops[1] \in Addresses THEN Subnet[hops[1]] ELSE Subnet[peer]
ClientAddressKey(peer, hops) ==
  LET strangers == {i \in DOMAIN hops : hops[i] \notin Proxies}
      last == CHOOSE i \in strangers : \A j \in strangers : j <= i
  IN  IF peer \in Proxies /\ strangers # {} /\ hops[last] # Malformed
      THEN Subnet[hops[last]]
      ELSE Subnet[peer]

(* A header the client made up, and one the proxies made of it: each puts  *)
(* the address it got the request from behind what is there.               *)
Entries == Addresses \cup {Malformed}
Forged == {<<>>} \cup {<<x>> : x \in Entries}
Trails(c) == {<<c>>} \cup {<<c, q>> : q \in Proxies}
Headers(c) == {f \o t : f \in Forged, t \in Trails(c)}

(* The keys under which the requests of an address can arrive, directly or *)
(* through proxies. A proxy's own requests carry no header.                *)
KeysOf ==
  [c \in Addresses |->
     IF c \in Proxies THEN {ClientAddressKey(c, <<>>)}
     ELSE {ClientAddressKey(c, f) : f \in Forged}
       \cup {ClientAddressKey(p, h) : p \in Proxies, h \in Headers(c)}]

-----------------------------------------------------------------------------
(* golang.org/x/time/rate. *)

Refilled(b) ==
  LET earned == b.level + (now - b.seen) IN IF earned < Full THEN earned ELSE Full

NewBucket == [level |-> Full, seen |-> now]

(* ReserveN of one token, given back with CancelAt when it is not there.   *)
CanTake(b) == Refilled(b) >= Every
Take(b) == [level |-> IF CanTake(b) THEN Refilled(b) - Every ELSE Refilled(b), seen |-> now]

-----------------------------------------------------------------------------
(* Limiter. *)

Held(bs) == {k \in Keys : bs[k] # None}

(* Idle long enough to have refilled completely. *)
IdleMutant(b) == now - b.seen >= Second
Idle(b) == now - b.seen >= IdleTTL

Sweep(bs) == [k \in Keys |-> IF bs[k] = None THEN None ELSE IF Idle(bs[k]) THEN None ELSE bs[k]]

RoomMutant(bs) == Cardinality(Held(bs)) <= MaxKeys
Room(bs) == Cardinality(Held(bs)) < MaxKeys

(* The inline sweeps of Allow and of bucketFor, before k gets its bucket.  *)
SweepDue(k) ==
  \/ now - lastSweep >= SweepInterval
  \/ now - lastSweep >= Second /\ buckets[k] = None /\ ~Room(buckets)
Buckets(k) == IF SweepDue(k) THEN Sweep(buckets) ELSE buckets

(* bucketFor: the key's own bucket, a new one, or the shared one. *)
GetsOwnMutant(k) == TRUE
GetsOwn(k) == Buckets(k)[k] # None \/ Room(Buckets(k))
BucketFor(k) ==
  IF ~GetsOwn(k) THEN overflow
  ELSE IF Buckets(k)[k] = None THEN NewBucket ELSE Buckets(k)[k]

(* Rounded up to whole seconds, for the Retry-After header. *)
RetryAfterMutant(delay) == (delay \div Second) * Second
RetryAfter(delay) == ((delay + Second - 1) \div Second) * Second

-----------------------------------------------------------------------------
Init ==
  /\ now = 0
  /\ buckets = [k \in Keys |-> None]
  /\ overflow = [level |-> Full, seen |-> 0]
  /\ lastSweep = -SweepInterval
  /\ admitted = [k \in Keys |-> 0]
  /\ ideal = [k \in Keys |-> Full]
  /\ promise = [k \in Keys |-> None]

(* RateLimit: Allow decides, a refusal carries Retry-After. *)
Request(c) ==
  \E k \in KeysOf[c] :
    LET b == BucketFor(k)
    IN  /\ lastSweep' = IF SweepDue(k) THEN now ELSE lastSweep
        /\ buckets' = IF GetsOwn(k) THEN [Buckets(k) EXCEPT ![k] = Take(b)] ELSE Buckets(k)
        /\ overflow' = IF GetsOwn(k) THEN overflow ELSE Take(b)
        /\ admitted' = [admitted EXCEPT ![Subnet[c]] = IF CanTake(b) THEN @ + 1 ELSE @]
        /\ ideal' = IF GetsOwn(k) /\ ideal[k] >= Every THEN [ideal EXCEPT ![k] = @ - Every] ELSE ideal
        /\ promise' = [promise EXCEPT ![k] = IF GetsOwn(k) /\ ~CanTake(b)
                                             THEN now + RetryAfter(Every - Refilled(b))
                                             ELSE None]
        /\ UNCHANGED now

Tick ==
  /\ now < MaxTime
  /\ now' = now + 1
  /\ ideal' = [k \in Keys |-> IF ideal[k] < Full THEN ideal[k] + 1 ELSE Full]
  /\ UNCHANGED <<buckets, overflow, lastSweep, admitted, promise>>

Next == Tick \/ \E c \in Addresses : Request(c)

Spec == Init /\ [][Next]_vars

-----------------------------------------------------------------------------
(* Types, and the memory bound of the table. *)
TypeOK ==
  /\ now \in Nat
  /\ buckets \in [Keys -> Bucket \cup {None}]
  /\ overflow \in Bucket
  /\ lastSweep \in Int
  /\ admitted \in [Keys -> Nat]
  /\ ideal \in [Keys -> 0..Full]
  /\ promise \in [Keys -> Nat \cup {None}]
  /\ Cardinality(Held(buckets)) <= MaxKeys

(* A bucket that was dropped carried no information: every decision on a   *)
(* key's own bucket is that of a limiter which never drops one.            *)
SweepChangesNothing ==
  \A k \in Keys :
    ideal[k] = IF buckets[k] = None THEN Full ELSE Refilled(buckets[k])

(* However often a client changes between its own bucket and the shared    *)
(* one, and whatever X-Forwarded-For it sends, it gets no more than the    *)
(* two of them together allow.                                             *)
ClientBounded == \A k \in Keys : admitted[k] * Every <= 2 * (Full + now)

(* A flood of different clients gets no more than MaxKeys buckets and the  *)
(* shared one allow.                                                       *)
FloodBounded ==
  SumFunctionOnSet(admitted, Keys) * Every <= (MaxKeys + 1) * (Full + now)

(* A client that was refused on its own bucket and waits for Retry-After   *)
(* finds a token in it.                                                    *)
RetryAfterIsEnough ==
  \A k \in Keys :
    (promise[k] # None /\ now >= promise[k] /\ buckets[k] # None) => CanTake(buckets[k])
=============================================================================
