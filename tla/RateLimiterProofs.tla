------------------------- MODULE RateLimiterProofs -------------------------
(***************************************************************************)
(* Proofs about RateLimiter, for any addresses, rate, burst and table. The *)
(* invariant ties the buckets the table holds to those of a limiter that   *)
(* never forgets one, and counts what a client was let through against the *)
(* tokens of its own bucket and of the shared one.                         *)
(***************************************************************************)
EXTENDS RateLimiter, SequenceTheorems, SumTheorems

NotAhead ==
  /\ overflow.seen <= now
  /\ \A k \in Keys : buckets[k] # None => buckets[k].seen <= now

(* Every admitted request was paid for with a token earned since the start. *)
TokensPaid ==
  \A k \in Keys : admitted[k] * Every + ideal[k] + Refilled(overflow) <= 2 * (Full + now)

(* What is missing at a refusal is earned by the time that was promised.    *)
PromiseKept ==
  \A k \in Keys : promise[k] # None =>
    ideal[k] >= Every \/ ideal[k] + promise[k] - now >= Every

IInv ==
  /\ TypeOK /\ IsFiniteSet(Held(buckets))
  /\ NotAhead
  /\ SweepChangesNothing
  /\ TokensPaid
  /\ PromiseKept

(* Every request of the flood was paid for with a token missing from the   *)
(* bucket of some key, or from the shared one, or earned back since. Only  *)
(* a bucket the table holds earns, and it holds MaxKeys at most.           *)
Missing == [k \in Keys |-> Full - ideal[k]]
FloodPaid ==
  SumFunctionOnSet(admitted, Keys) * Every
    <= SumFunctionOnSet(Missing, Keys) + (Full - Refilled(overflow)) + (MaxKeys + 1) * now

-----------------------------------------------------------------------------
(* The client's address. *)

LEMMA RightmostStranger ==
  ASSUME NEW p \in Proxies, NEW hops, NEW n \in DOMAIN hops, DOMAIN hops \subseteq Int,
         hops[n] \in Clients, \A j \in DOMAIN hops : j > n => hops[j] \in Proxies
  PROVE  ClientAddressKey(p, hops) = Subnet[hops[n]]
<1> DEFINE strangers == {i \in DOMAIN hops : hops[i] \notin Proxies}
           last == CHOOSE i \in strangers : \A j \in strangers : j <= i
<1>1. n \in strangers /\ \A j \in strangers : j <= n
  BY AddressAssumption
<1>2. last \in strangers /\ \A j \in strangers : j <= last
  BY <1>1
<1>3. last = n
  <2>1. last <= n /\ n <= last /\ last \in Int /\ n \in Int
    BY <1>1, <1>2
  <2>2. QED
    BY <2>1
<1>4. hops[n] # Malformed
  BY AddressAssumption DEF Addresses
<1>5. QED
  BY <1>1, <1>3, <1>4 DEF ClientAddressKey

(* What a client put into the header stands in front of its address, which *)
(* only proxies follow.                                                    *)
LEMMA BehindProxies ==
  ASSUME NEW p \in Proxies, NEW f \in Seq(Entries), NEW s \in Seq(Entries), s # <<>>,
         s[1] \in Clients, \A j \in 2..Len(s) : s[j] \in Proxies
  PROVE  ClientAddressKey(p, f \o s) = Subnet[s[1]]
<1> DEFINE h == f \o s
           n == Len(f) + 1
<1>1. Len(f) \in Nat /\ Len(s) \in Nat \ {0}
  OBVIOUS
<1>2. DOMAIN h = 1..(Len(f) + Len(s))
  BY <1>1, ConcatProperties
<1>3. \A i \in DOMAIN h : h[i] = IF i <= Len(f) THEN f[i] ELSE s[i - Len(f)]
  BY <1>2, ConcatProperties
<1>4. n \in DOMAIN h /\ h[n] = s[1]
  BY <1>1, <1>2, <1>3
<1>5. \A j \in DOMAIN h : j > n => h[j] \in Proxies
  BY <1>1, <1>2, <1>3
<1>6. DOMAIN h \subseteq Int
  BY <1>1, <1>2
<1> HIDE DEF h, n
<1>7. ClientAddressKey(p, h) = Subnet[h[n]]
  BY <1>4, <1>5, <1>6, RightmostStranger
<1>8. QED
  BY <1>4, <1>7 DEF h

(* No header a client sends, through any number of the proxies the model   *)
(* has, puts its requests on another client's bucket.                      *)
LEMMA ArrivalKey ==
  ASSUME NEW c \in Addresses, NEW k \in KeysOf[c]
  PROVE  k = Subnet[c] /\ k \in Keys
<1>1. k = Subnet[c]
  <2>1. CASE c \in Proxies
    <3>1. k = ClientAddressKey(c, <<>>)
      BY <2>1 DEF KeysOf
    <3>2. QED
      BY <3>1 DEF ClientAddressKey
  <2>2. CASE c \notin Proxies
    <3>1. c \in Clients
      BY <2>2 DEF Addresses
    <3>2. k \in {ClientAddressKey(c, f) : f \in Forged}
               \cup {ClientAddressKey(p, h) : p \in Proxies, h \in Headers(c)}
      BY <2>2 DEF KeysOf
    <3>3. CASE k \in {ClientAddressKey(c, f) : f \in Forged}
      BY <2>2, <3>3 DEF ClientAddressKey
    <3>4. CASE k \in {ClientAddressKey(p, h) : p \in Proxies, h \in Headers(c)}
      <4>1. PICK p \in Proxies, h \in Headers(c) : k = ClientAddressKey(p, h)
        BY <3>4
      <4>2. PICK f \in Forged, t \in Trails(c) : h = f \o t
        BY DEF Headers
      <4>3. f \in Seq(Entries)
        <5>1. f = <<>> \/ \E x \in Entries : f = <<x>>
          BY <4>2 DEF Forged
        <5>2. \A x \in Entries : <<x>> \in Seq(Entries)
          OBVIOUS
        <5>3. <<>> \in Seq(Entries)
          OBVIOUS
        <5>4. QED
          BY <5>1, <5>2, <5>3
      <4>4. t \in Seq(Entries) /\ t # <<>> /\ t[1] = c /\ \A j \in 2..Len(t) : t[j] \in Proxies
        <5>1. t = <<c>> \/ \E q \in Proxies : t = <<c, q>>
          BY <4>2 DEF Trails
        <5>2. c \in Entries /\ Proxies \subseteq Entries
          BY DEF Entries, Addresses
        <5>3. CASE t = <<c>>
          BY <5>2, <5>3
        <5>4. CASE \E q \in Proxies : t = <<c, q>>
          BY <5>2, <5>4
        <5>5. QED
          BY <5>1, <5>3, <5>4
      <4>5. QED
        BY <3>1, <4>1, <4>2, <4>3, <4>4, BehindProxies
    <3>5. QED
      BY <3>2, <3>3, <3>4
  <2>3. QED
    BY <2>1, <2>2
<1>2. QED
  BY <1>1 DEF Keys

-----------------------------------------------------------------------------
(* The bucket. *)

LEMMA FullType == Full \in Nat /\ Every \in Nat \ {0} /\ Every <= Full
<1>1. \A m \in Nat, n \in Nat : m * n \in Nat
  OBVIOUS
<1>2. \A m \in Nat \ {0}, n \in Nat : n <= m * n
  OBVIOUS
<1>3. QED
  BY <1>1, <1>2, RateAssumption DEF Full

LEMMA BucketType ==
  ASSUME now \in Nat, NEW b \in Bucket, b.seen <= now
  PROVE  /\ Refilled(b) \in 0..Full
         /\ Idle(b) => Refilled(b) = Full
         /\ Take(b) \in Bucket /\ Take(b) # None /\ Take(b).seen = now
         /\ Refilled(Take(b)) = IF CanTake(b) THEN Refilled(b) - Every ELSE Refilled(b)
<1>1. b.level \in 0..Full /\ b.seen \in Nat /\ Second \in Nat
  BY RateAssumption DEF Bucket
<1>2. Refilled(b) \in 0..Full
  BY <1>1, FullType DEF Refilled
<1>3. Idle(b) => Refilled(b) = Full
  BY <1>1, FullType DEF Refilled, Idle, IdleTTL
<1>4. Take(b).level \in 0..Full /\ Take(b).level = IF CanTake(b) THEN Refilled(b) - Every ELSE Refilled(b)
  BY <1>2, FullType DEF Take, CanTake
<1>5. Take(b) \in Bucket /\ Take(b).seen = now
  BY <1>4 DEF Take, Bucket
<1>6. Refilled(Take(b)) = Take(b).level
  BY <1>4, <1>5, FullType DEF Refilled
<1>7. QED
  BY <1>2, <1>3, <1>4, <1>5, <1>6, LimiterNoneAssumption

LEMMA RetryAfterType ==
  ASSUME NEW delay \in Nat
  PROVE  RetryAfter(delay) \in Nat /\ RetryAfter(delay) >= delay
<1> DEFINE d == delay + Second - 1
           q == d \div Second
<1>1. Second \in Nat /\ Second > 0 /\ d \in Nat
  BY RateAssumption
<1>2. q \in Nat /\ d = (q * Second) + (d % Second) /\ (d % Second) \in 0..(Second - 1)
  BY <1>1
<1>3. \A m \in Nat, n \in Nat : m * n \in Nat
  OBVIOUS
<1>4. q * Second \in Nat
  BY <1>1, <1>2, <1>3
<1> HIDE DEF q
<1>5. q * Second >= delay
  BY <1>1, <1>2, <1>4
<1>6. QED
  BY <1>4, <1>5 DEF RetryAfter, q

-----------------------------------------------------------------------------
LEMMA InitIInv == Init => IInv
<1> SUFFICES ASSUME Init PROVE IInv
  OBVIOUS
<1>1. Held(buckets) = {}
  BY DEF Init, Held
<1>2. TypeOK /\ IsFiniteSet(Held(buckets))
  <2>1. overflow \in Bucket /\ lastSweep \in Int /\ ideal \in [Keys -> 0..Full]
    BY FullType, RateAssumption DEF Init, Bucket
  <2>2. now \in Nat /\ admitted \in [Keys -> Nat] /\ buckets \in [Keys -> Bucket \cup {None}]
        /\ promise \in [Keys -> Nat \cup {None}]
    BY DEF Init
  <2>3. IsFiniteSet({}) /\ Cardinality({}) <= MaxKeys
    BY FS_EmptySet, RateAssumption
  <2>4. QED
    BY <1>1, <2>1, <2>2, <2>3 DEF TypeOK
<1>3. NotAhead /\ SweepChangesNothing /\ PromiseKept
  BY DEF Init, NotAhead, SweepChangesNothing, PromiseKept
<1>4. TokensPaid
  <2>1. Refilled(overflow) = Full
    BY FullType DEF Init, Refilled
  <2>2. \A k \in Keys : admitted[k] * Every = 0 /\ ideal[k] = Full
    BY FullType DEF Init
  <2>3. QED
    BY <2>1, <2>2, FullType DEF TokensPaid, Init
<1>5. QED
  BY <1>2, <1>3, <1>4 DEF IInv

LEMMA TickIInv == ASSUME IInv, Tick PROVE IInv'
<1> USE FullType DEF IInv, Tick
<1>1. TypeOK' /\ IsFiniteSet(Held(buckets))'
  BY DEF TypeOK, Held
<1>2. NotAhead'
  <2>1. overflow.seen \in Nat /\ \A k \in Keys : buckets[k] # None => buckets[k].seen \in Nat
    BY DEF TypeOK, Bucket
  <2>2. QED
    BY <2>1 DEF NotAhead, TypeOK
<1>3. ASSUME NEW b \in Bucket, b.seen <= now
      PROVE  /\ Refilled(b) \in 0..Full
             /\ Refilled(b)' = IF Refilled(b) < Full THEN Refilled(b) + 1 ELSE Full
  <2>1. b.level \in 0..Full /\ b.seen \in Nat /\ now \in Nat /\ now' = now + 1
    BY DEF Bucket, TypeOK
  <2>2. QED
    BY <1>3, <2>1 DEF Refilled
<1>4. SweepChangesNothing'
  BY <1>3 DEF SweepChangesNothing, NotAhead, TypeOK
<1>5. TokensPaid'
  <2>1. Refilled(overflow) \in 0..Full /\ Refilled(overflow)' <= Refilled(overflow) + 1
        /\ Refilled(overflow)' \in 0..Full
    BY <1>3 DEF NotAhead, TypeOK
  <2>2. ASSUME NEW k \in Keys
        PROVE  admitted'[k] * Every + ideal'[k] + Refilled(overflow)' <= 2 * (Full + now')
    <3>1. admitted[k] * Every \in Nat /\ admitted'[k] = admitted[k]
      BY DEF TypeOK
    <3>2. ideal'[k] <= ideal[k] + 1 /\ ideal[k] \in 0..Full /\ ideal'[k] \in 0..Full
      BY DEF TypeOK
    <3>3. admitted[k] * Every + ideal[k] + Refilled(overflow) <= 2 * (Full + now)
      BY DEF TokensPaid
    <3> DEFINE paid == admitted[k] * Every
    <3> HIDE DEF paid
    <3>4. paid \in Nat /\ paid + ideal[k] + Refilled(overflow) <= 2 * (Full + now)
      BY <3>1, <3>3 DEF paid
    <3>5. paid + ideal'[k] + Refilled(overflow)' <= 2 * (Full + now')
      BY <2>1, <3>2, <3>4 DEF TypeOK
    <3>6. QED
      BY <3>1, <3>5 DEF paid
  <2>3. QED
    BY <2>2 DEF TokensPaid
<1>6. PromiseKept'
  <2>1. SUFFICES ASSUME NEW k \in Keys, promise[k] # None
                 PROVE  ideal'[k] >= Every \/ ideal'[k] + promise[k] - now' >= Every
    BY DEF PromiseKept
  <2>2. promise[k] \in Nat /\ ideal[k] \in 0..Full /\ now \in Nat
    BY <2>1 DEF TypeOK
  <2>3. ideal[k] >= Every \/ ideal[k] + promise[k] - now >= Every
    BY <2>1 DEF PromiseKept
  <2>4. ideal'[k] = IF ideal[k] < Full THEN ideal[k] + 1 ELSE Full
    OBVIOUS
  <2>5. CASE ideal[k] < Full
    BY <2>2, <2>3, <2>4, <2>5
  <2>6. CASE ideal[k] = Full
    BY <2>2, <2>3, <2>4, <2>6
  <2>7. QED
    BY <2>2, <2>5, <2>6
<1>7. QED
  BY <1>1, <1>2, <1>4, <1>5, <1>6

(* What the inline sweeps leave: what they drop was full. *)
LEMMA Swept ==
  ASSUME IInv, NEW k \in Keys
  PROVE  /\ Buckets(k) \in [Keys -> Bucket \cup {None}]
         /\ \A j \in Keys : Buckets(k)[j] # None => Buckets(k)[j] = buckets[j]
         /\ \A j \in Keys :
              ideal[j] = IF Buckets(k)[j] = None THEN Full ELSE Refilled(Buckets(k)[j])
         /\ IsFiniteSet(Held(Buckets(k))) /\ Cardinality(Held(Buckets(k))) <= MaxKeys
<1> DEFINE B == Buckets(k)
<1> USE DEF IInv
<1>1. B = buckets \/ B = Sweep(buckets)
  BY DEF Buckets
<1>2. B \in [Keys -> Bucket \cup {None}] /\ \A j \in Keys : B[j] # None => B[j] = buckets[j]
  BY <1>1 DEF Sweep, TypeOK
<1>3. \A j \in Keys : B[j] = buckets[j] \/ (buckets[j] # None /\ B[j] = None /\ Idle(buckets[j]))
  BY <1>1 DEF Sweep
<1> HIDE DEF B
<1>4. ASSUME NEW j \in Keys
      PROVE  ideal[j] = IF B[j] = None THEN Full ELSE Refilled(B[j])
  <2>1. CASE B[j] = buckets[j]
    BY <2>1 DEF SweepChangesNothing
  <2>2. CASE buckets[j] # None /\ B[j] = None /\ Idle(buckets[j])
    <3>1. buckets[j] \in Bucket /\ buckets[j].seen <= now /\ now \in Nat
      BY <2>2 DEF TypeOK, NotAhead
    <3>2. Refilled(buckets[j]) = Full
      BY <2>2, <3>1, BucketType
    <3>3. QED
      BY <2>2, <3>2 DEF SweepChangesNothing
  <2>3. QED
    BY <1>3, <2>1, <2>2
<1>5. IsFiniteSet(Held(B)) /\ Cardinality(Held(B)) <= MaxKeys
  <2>1. Held(B) \in SUBSET Held(buckets)
    BY <1>2 DEF Held
  <2>2. IsFiniteSet(Held(B)) /\ Cardinality(Held(B)) <= Cardinality(Held(buckets))
    BY <2>1, FS_Subset
  <2>3. Cardinality(Held(buckets)) \in Nat /\ Cardinality(Held(B)) \in Nat
    BY <2>2, FS_CardinalityType
  <2>4. QED
    BY <2>2, <2>3, RateAssumption DEF TypeOK
<1>6. QED
  BY <1>2, <1>4, <1>5 DEF B

(* The bucket a request is charged to. *)
LEMMA Charged ==
  ASSUME IInv, NEW k \in Keys
  PROVE  /\ BucketFor(k) \in Bucket /\ BucketFor(k).seen <= now
         /\ GetsOwn(k) => ideal[k] = Refilled(BucketFor(k))
<1> USE DEF IInv
<1>1. now \in Nat /\ overflow \in Bucket /\ overflow.seen <= now
  BY DEF TypeOK, NotAhead
<1>2. NewBucket \in Bucket /\ NewBucket.seen = now /\ Refilled(NewBucket) = Full
  BY <1>1, FullType DEF NewBucket, Bucket, Refilled
<1>3. CASE ~GetsOwn(k)
  BY <1>1, <1>3 DEF BucketFor
<1>4. CASE GetsOwn(k) /\ Buckets(k)[k] = None
  BY <1>2, <1>4, <1>1, Swept DEF BucketFor
<1>5. CASE GetsOwn(k) /\ Buckets(k)[k] # None
  <2>1. BucketFor(k) = Buckets(k)[k] /\ Buckets(k)[k] = buckets[k]
    BY <1>5, Swept DEF BucketFor
  <2>2. buckets[k] \in Bucket /\ buckets[k].seen <= now
    BY <1>5, <2>1 DEF TypeOK, NotAhead
  <2>3. ideal[k] = Refilled(Buckets(k)[k])
    BY <1>5, Swept
  <2>4. QED
    BY <2>1, <2>2, <2>3
<1>6. QED
  BY <1>3, <1>4, <1>5

LEMMA RequestIInv ==
  ASSUME IInv, NEW c \in Addresses, Request(c)
  PROVE  IInv'
<1>1. PICK k \in KeysOf[c] :
        LET b == BucketFor(k)
        IN  /\ lastSweep' = IF SweepDue(k) THEN now ELSE lastSweep
            /\ buckets' = IF GetsOwn(k) THEN [Buckets(k) EXCEPT ![k] = Take(b)] ELSE Buckets(k)
            /\ overflow' = IF GetsOwn(k) THEN overflow ELSE Take(b)
            /\ admitted' = [admitted EXCEPT ![Subnet[c]] = IF CanTake(b) THEN @ + 1 ELSE @]
            /\ ideal' = IF GetsOwn(k) /\ ideal[k] >= Every THEN [ideal EXCEPT ![k] = @ - Every] ELSE ideal
            /\ promise' = [promise EXCEPT ![k] = IF GetsOwn(k) /\ ~CanTake(b)
                                                 THEN now + RetryAfter(Every - Refilled(b))
                                                 ELSE None]
            /\ UNCHANGED now
  BY DEF Request
<1> DEFINE b == BucketFor(k)
           B == Buckets(k)
<1>2. k = Subnet[c] /\ k \in Keys
  BY ArrivalKey
<1>3. /\ b \in Bucket /\ b.seen <= now
      /\ GetsOwn(k) => ideal[k] = Refilled(b)
      /\ ~GetsOwn(k) => b = overflow
  BY <1>2, Charged DEF BucketFor
<1>4. /\ B \in [Keys -> Bucket \cup {None}]
      /\ \A j \in Keys : B[j] # None => B[j] = buckets[j]
      /\ \A j \in Keys : ideal[j] = IF B[j] = None THEN Full ELSE Refilled(B[j])
      /\ IsFiniteSet(Held(B)) /\ Cardinality(Held(B)) <= MaxKeys
  BY <1>2, Swept
<1>5. GetsOwn(k) => B[k] # None \/ Cardinality(Held(B)) < MaxKeys
  BY DEF GetsOwn, Room
<1>6. now \in Nat
  BY DEF IInv, TypeOK
<1> DEFINE T == Take(b)
<1>7. /\ Refilled(b) \in 0..Full
      /\ T \in Bucket /\ T # None /\ T.seen = now
      /\ Refilled(T) = IF CanTake(b) THEN Refilled(b) - Every ELSE Refilled(b)
  BY <1>3, <1>6, BucketType
<1>8. CanTake(b) <=> Refilled(b) >= Every
  BY DEF CanTake
<1>10. /\ lastSweep' = IF SweepDue(k) THEN now ELSE lastSweep
       /\ buckets' = IF GetsOwn(k) THEN [B EXCEPT ![k] = T] ELSE B
       /\ overflow' = IF GetsOwn(k) THEN overflow ELSE T
       /\ admitted' = [admitted EXCEPT ![k] = IF CanTake(b) THEN @ + 1 ELSE @]
       /\ ideal' = IF GetsOwn(k) /\ ideal[k] >= Every THEN [ideal EXCEPT ![k] = @ - Every] ELSE ideal
       /\ promise' = [promise EXCEPT ![k] = IF GetsOwn(k) /\ ~CanTake(b)
                                            THEN now + RetryAfter(Every - Refilled(b))
                                            ELSE None]
       /\ now' = now
  BY <1>1, <1>2
<1> HIDE DEF b, B, T
<1>11. TypeOK' /\ IsFiniteSet(Held(buckets))'
  <2>1. buckets' \in [Keys -> Bucket \cup {None}] /\ overflow' \in Bucket /\ lastSweep' \in Int
    <3>1. lastSweep' \in Int
      <4>1. lastSweep \in Int /\ now \in Int
        BY <1>6 DEF IInv, TypeOK
      <4>2. lastSweep' = now \/ lastSweep' = lastSweep
        BY <1>10
      <4>3. QED
        BY <4>1, <4>2
    <3>2. overflow' \in Bucket
      <4>1. overflow' = overflow \/ overflow' = T
        BY <1>10
      <4>2. QED
        BY <1>7, <4>1 DEF IInv, TypeOK
    <3>3. buckets' = B \/ buckets' = [B EXCEPT ![k] = T]
      BY <1>10
    <3>4. QED
      BY <1>4, <1>7, <3>1, <3>2, <3>3
  <2>2. admitted' \in [Keys -> Nat] /\ now' \in Nat
    <3>1. admitted \in [Keys -> Nat]
      BY DEF IInv, TypeOK
    <3>2. PICK n : admitted' = [admitted EXCEPT ![k] = n] /\ n = IF CanTake(b) THEN admitted[k] + 1 ELSE admitted[k]
      BY <1>10
    <3>3. n \in Nat
      BY <1>2, <3>1, <3>2
    <3>4. QED
      BY <1>6, <1>10, <3>1, <3>2, <3>3
  <2>3. ideal' \in [Keys -> 0..Full]
    BY <1>2, <1>10, FullType DEF IInv, TypeOK
  <2>4. promise' \in [Keys -> Nat \cup {None}]
    <3>1. ~CanTake(b) => Every - Refilled(b) \in Nat
      BY <1>7, <1>8, FullType
    <3>2. ~CanTake(b) => now + RetryAfter(Every - Refilled(b)) \in Nat
      BY <1>6, <3>1, RetryAfterType
    <3>3. QED
      BY <1>10, <3>2 DEF IInv, TypeOK
  <2>5. IsFiniteSet(Held(buckets')) /\ Cardinality(Held(buckets')) <= MaxKeys
    <3>1. CASE ~GetsOwn(k)
      BY <1>4, <1>10, <3>1
    <3>2. CASE GetsOwn(k)
      <4>1. Held(buckets') = Held(B) \cup {k}
        BY <1>2, <1>4, <1>7, <1>10, <3>2 DEF Held
      <4>2. IsFiniteSet(Held(B) \cup {k})
            /\ Cardinality(Held(B) \cup {k}) = IF k \in Held(B) THEN Cardinality(Held(B))
                                                ELSE Cardinality(Held(B)) + 1
        BY <1>4, FS_AddElement
      <4>3. Cardinality(Held(B)) \in Nat
        BY <1>4, FS_CardinalityType
      <4>4. k \in Held(B) \/ Cardinality(Held(B)) < MaxKeys
        BY <1>2, <1>5, <3>2 DEF Held
      <4>5. QED
        BY <1>4, <4>1, <4>2, <4>3, <4>4, RateAssumption
    <3>3. QED
      BY <3>1, <3>2
  <2>6. Held(buckets)' = Held(buckets')
    BY DEF Held
  <2>7. QED
    BY <2>1, <2>2, <2>3, <2>4, <2>5, <2>6 DEF TypeOK
<1>12. NotAhead'
  <2>1. overflow'.seen <= now'
    BY <1>6, <1>7, <1>10 DEF IInv, NotAhead
  <2>2. ASSUME NEW j \in Keys, buckets'[j] # None PROVE buckets'[j].seen <= now'
    <3>1. CASE GetsOwn(k) /\ j = k
      BY <1>4, <1>6, <1>7, <1>10, <3>1
    <3>2. CASE ~(GetsOwn(k) /\ j = k)
      BY <1>4, <1>10, <2>2, <3>2 DEF IInv, NotAhead
    <3>3. QED
      BY <3>1, <3>2
  <2>3. QED
    BY <2>1, <2>2 DEF NotAhead
<1>13. SweepChangesNothing'
  <2>1. SUFFICES ASSUME NEW j \in Keys
                 PROVE  ideal'[j] = IF buckets'[j] = None THEN Full ELSE Refilled(buckets'[j])
    BY <1>10 DEF SweepChangesNothing, Refilled
  <2>2. CASE GetsOwn(k) /\ j = k
    <3>1. buckets'[j] = T
      BY <1>4, <1>10, <2>2
    <3>2. ideal'[j] = IF Refilled(b) >= Every THEN Refilled(b) - Every ELSE Refilled(b)
      BY <1>3, <1>10, <2>2 DEF IInv, TypeOK
    <3>3. QED
      BY <1>7, <1>8, <3>1, <3>2
  <2>3. CASE ~(GetsOwn(k) /\ j = k)
    <3>1. buckets'[j] = B[j] /\ ideal'[j] = ideal[j]
      BY <1>4, <1>10, <2>3 DEF IInv, TypeOK
    <3>2. QED
      BY <1>4, <3>1
  <2>4. QED
    BY <2>2, <2>3
<1>14. TokensPaid'
  <2>1. SUFFICES ASSUME NEW j \in Keys
                 PROVE  admitted'[j] * Every + ideal'[j] + Refilled(overflow') <= 2 * (Full + now)
    BY <1>10 DEF TokensPaid, Refilled
  <2> DEFINE paid == admitted[j] * Every
  <2>2. admitted[j] \in Nat /\ paid \in Nat /\ (admitted[j] + 1) * Every = paid + Every
    BY FullType DEF IInv, TypeOK
  <2>3. admitted'[j] * Every = IF CanTake(b) /\ j = k THEN paid + Every ELSE paid
    BY <1>10, <2>2 DEF IInv, TypeOK
  <2>4. ideal[j] \in 0..Full /\ Refilled(overflow) \in 0..Full
    BY <1>6, BucketType DEF IInv, TypeOK, NotAhead
  <2>5. paid + ideal[j] + Refilled(overflow) <= 2 * (Full + now)
    BY DEF IInv, TokensPaid
  <2> HIDE DEF paid
  <2>6. CASE GetsOwn(k)
    <3>1. overflow' = overflow
      BY <1>10, <2>6
    <3>2. ideal'[j] = IF CanTake(b) /\ j = k THEN ideal[j] - Every ELSE ideal[j]
      BY <1>3, <1>8, <1>10, <2>6 DEF IInv, TypeOK
    <3>3. QED
      BY <1>6, <2>2, <2>3, <2>4, <2>5, <3>1, <3>2, FullType
  <2>7. CASE ~GetsOwn(k)
    <3>1. ideal'[j] = ideal[j] /\ overflow' = T /\ b = overflow
      BY <1>3, <1>10, <2>7
    <3>2. QED
      BY <1>6, <1>7, <2>2, <2>3, <2>4, <2>5, <3>1, FullType
  <2>8. QED
    BY <2>6, <2>7
<1>15. PromiseKept'
  <2>1. SUFFICES ASSUME NEW j \in Keys, promise'[j] # None
                 PROVE  ideal'[j] >= Every \/ ideal'[j] + promise'[j] - now >= Every
    BY <1>10 DEF PromiseKept
  <2>2. CASE j = k
    <3>1. GetsOwn(k) /\ ~CanTake(b) /\ promise'[j] = now + RetryAfter(Every - Refilled(b))
      BY <1>10, <2>1, <2>2 DEF IInv, TypeOK
    <3>2. Every - Refilled(b) \in Nat
      BY <1>7, <1>8, <3>1, FullType
    <3>3. RetryAfter(Every - Refilled(b)) \in Nat
          /\ RetryAfter(Every - Refilled(b)) >= Every - Refilled(b)
      BY <3>2, RetryAfterType
    <3>4. ideal'[j] = Refilled(b)
      BY <1>3, <1>7, <1>8, <1>10, <2>2, <3>1, FullType DEF IInv, TypeOK
    <3>5. QED
      BY <1>6, <1>7, <3>1, <3>3, <3>4, FullType
  <2>3. CASE j # k
    <3>1. ideal'[j] = ideal[j] /\ promise'[j] = promise[j]
      BY <1>10, <2>3 DEF IInv, TypeOK
    <3>2. QED
      BY <2>1, <3>1 DEF IInv, PromiseKept
  <2>4. QED
    BY <2>2, <2>3
<1>16. QED
  BY <1>11, <1>12, <1>13, <1>14, <1>15 DEF IInv

LEMMA StutterIInv == IInv /\ UNCHANGED vars => IInv'
<1> SUFFICES ASSUME IInv, UNCHANGED vars PROVE IInv'
  OBVIOUS
<1>1. TypeOK' /\ IsFiniteSet(Held(buckets))' /\ NotAhead'
  BY DEF IInv, vars, TypeOK, Held, NotAhead
<1>2. SweepChangesNothing' /\ TokensPaid' /\ PromiseKept'
  BY DEF IInv, vars, SweepChangesNothing, TokensPaid, PromiseKept, Refilled
<1>3. QED
  BY <1>1, <1>2 DEF IInv

LEMMA Inductive == Spec => []IInv
<1>1. IInv /\ [Next]_vars => IInv'
  BY TickIInv, RequestIInv, StutterIInv DEF Next
<1>2. QED
  BY InitIInv, <1>1, PTL DEF Spec

-----------------------------------------------------------------------------
(* The flood. *)

LEMMA KeysFinite == IsFiniteSet(Keys)
<1> DEFINE key == [x \in Addresses |-> Subnet[x]]
<1>1. key \in Surjection(Addresses, Keys)
  BY DEF Surjection, Keys
<1>2. IsFiniteSet(Addresses)
  BY AddressAssumption
<1>3. QED
  BY <1>1, <1>2, FS_Surjection

LEMMA FloodTypes ==
  ASSUME IInv
  PROVE  /\ now \in Nat /\ Refilled(overflow) \in 0..Full
         /\ \A k \in Keys : admitted[k] \in Int /\ ideal[k] \in 0..Full
         /\ \A k \in Keys : Missing[k] \in 0..Full /\ (k \notin Held(buckets) => Missing[k] = 0)
         /\ SumFunctionOnSet(admitted, Keys) \in Int /\ SumFunctionOnSet(Missing, Keys) \in Int
<1> USE DEF IInv
<1>1. now \in Nat /\ Refilled(overflow) \in 0..Full
  BY BucketType DEF TypeOK, NotAhead
<1>2. \A k \in Keys : admitted[k] \in Int /\ ideal[k] \in 0..Full
  BY DEF TypeOK
<1>3. \A k \in Keys : k \notin Held(buckets) => ideal[k] = Full
  BY DEF SweepChangesNothing, Held
<1>4. \A k \in Keys : Missing[k] \in 0..Full /\ (k \notin Held(buckets) => Missing[k] = 0)
  BY <1>2, <1>3, FullType DEF Missing
<1>5. SumFunctionOnSet(admitted, Keys) \in Int /\ SumFunctionOnSet(Missing, Keys) \in Int
  <2>1. \A k \in Keys : admitted[k] \in Int /\ Missing[k] \in Int
    BY <1>2, <1>4, FullType
  <2>2. QED
    BY <2>1, KeysFinite, SumType
<1>6. QED
  BY <1>1, <1>2, <1>4, <1>5

LEMMA InitFlood == Init => FloodPaid
<1> SUFFICES ASSUME Init PROVE FloodPaid
  OBVIOUS
<1>1. \A k \in Keys : admitted[k] = 0 /\ Missing[k] = 0
  BY FullType DEF Init, Missing
<1>2. SumFunctionOnSet(admitted, Keys) = 0 /\ SumFunctionOnSet(Missing, Keys) = 0
  BY <1>1, KeysFinite, SumZero
<1>3. Refilled(overflow) = Full
  BY FullType DEF Init, Refilled
<1>4. 0 * Every = 0 /\ (MaxKeys + 1) * 0 = 0
  BY FullType, RateAssumption
<1>5. QED
  BY <1>2, <1>3, <1>4, FullType DEF FloodPaid, Init

LEMMA TickFlood ==
  ASSUME IInv, FloodPaid, Tick
  PROVE  FloodPaid'
<1> USE FullType DEF Tick
<1> DEFINE H == Held(buckets)
           before == SumFunctionOnSet(Missing, Keys)
           after == SumFunctionOnSet(Missing', Keys)
<1>1. IsFiniteSet(H) /\ H \in SUBSET Keys /\ Cardinality(H) \in Nat /\ Cardinality(H) <= MaxKeys
  BY FS_CardinalityType DEF IInv, TypeOK, Held
<1>2. \A k \in Keys : Missing[k] \in Int /\ Missing'[k] \in Int
  BY FloodTypes DEF Missing
<1>3. \A k \in Keys : Missing[k] <= IF k \in H THEN Missing'[k] + 1 ELSE Missing'[k]
  BY FloodTypes DEF Missing
<1>4. before <= after + Cardinality(H) * 1
  BY <1>1, <1>2, <1>3, KeysFinite, SumGrows
<1>5. after \in Int
  BY <1>2, KeysFinite, SumType
<1>6. Refilled(overflow)' <= Refilled(overflow) + 1 /\ Refilled(overflow)' \in Int
  BY DEF IInv, TypeOK, NotAhead, Bucket, Refilled
<1> DEFINE paid == SumFunctionOnSet(admitted, Keys) * Every
           earned == (MaxKeys + 1) * now
<1>7. paid \in Int /\ paid <= before + (Full - Refilled(overflow)) + earned
  <2>1. \A m, n \in Int : m * n \in Int
    OBVIOUS
  <2>2. QED
    BY <2>1, FloodTypes DEF FloodPaid
<1>8. earned \in Int /\ (MaxKeys + 1) * now' = earned + MaxKeys + 1
  <2>1. \A m, n \in Nat : m * n \in Nat /\ m * (n + 1) = m * n + m
    OBVIOUS
  <2>2. QED
    BY <2>1, FloodTypes, RateAssumption
<1>9. before \in Int /\ Refilled(overflow) \in Int
  BY FloodTypes
<1> HIDE DEF before, after, paid, earned
<1>10. paid <= after + (Full - Refilled(overflow)') + (earned + MaxKeys + 1)
  BY <1>1, <1>4, <1>5, <1>6, <1>7, <1>8, <1>9, RateAssumption
<1>11. QED
  BY <1>8, <1>10 DEF FloodPaid, paid, after

(* What a request takes, and from which bucket, if it is let through.      *)
LEMMA RequestPays ==
  ASSUME IInv, NEW c \in Addresses, Request(c)
  PROVE  /\ now' = now
         /\ \E k \in Keys :
              \/ /\ admitted' = admitted /\ ideal' = ideal
                 /\ Refilled(overflow)' = Refilled(overflow)
              \/ /\ admitted' = [admitted EXCEPT ![k] = @ + 1]
                 /\ ideal[k] >= Every /\ ideal' = [ideal EXCEPT ![k] = @ - Every]
                 /\ Refilled(overflow)' = Refilled(overflow)
              \/ /\ admitted' = [admitted EXCEPT ![k] = @ + 1] /\ ideal' = ideal
                 /\ Refilled(overflow) >= Every
                 /\ Refilled(overflow)' = Refilled(overflow) - Every
<1>1. PICK k \in KeysOf[c] :
        LET b == BucketFor(k)
        IN  /\ overflow' = IF GetsOwn(k) THEN overflow ELSE Take(b)
            /\ admitted' = [admitted EXCEPT ![Subnet[c]] = IF CanTake(b) THEN @ + 1 ELSE @]
            /\ ideal' = IF GetsOwn(k) /\ ideal[k] >= Every THEN [ideal EXCEPT ![k] = @ - Every] ELSE ideal
            /\ now' = now
  BY DEF Request
<1> DEFINE b == BucketFor(k)
<1>2. k = Subnet[c] /\ k \in Keys
  BY ArrivalKey
<1>3. /\ b \in Bucket /\ b.seen <= now
      /\ GetsOwn(k) => ideal[k] = Refilled(b)
      /\ ~GetsOwn(k) => b = overflow
  BY <1>2, Charged DEF BucketFor
<1>4. Refilled(Take(b)) = IF CanTake(b) THEN Refilled(b) - Every ELSE Refilled(b)
  BY <1>3, BucketType DEF IInv, TypeOK
<1>5. CanTake(b) <=> Refilled(b) >= Every
  BY DEF CanTake
<1>6. ~CanTake(b) => admitted' = admitted
  BY <1>1, <1>2 DEF IInv, TypeOK
<1>7. CanTake(b) => admitted' = [admitted EXCEPT ![k] = @ + 1]
  BY <1>1, <1>2
<1>8. Refilled(overflow)' = IF GetsOwn(k) THEN Refilled(overflow) ELSE Refilled(Take(b))
  BY <1>1 DEF Refilled
<1>9. ideal' = IF GetsOwn(k) /\ ideal[k] >= Every THEN [ideal EXCEPT ![k] = @ - Every] ELSE ideal
  BY <1>1
<1> HIDE DEF b
<1>10. CASE ~CanTake(b)
  BY <1>1, <1>2, <1>3, <1>4, <1>5, <1>6, <1>8, <1>9, <1>10
<1>11. CASE CanTake(b) /\ GetsOwn(k)
  BY <1>1, <1>2, <1>3, <1>5, <1>7, <1>8, <1>9, <1>11
<1>12. CASE CanTake(b) /\ ~GetsOwn(k)
  BY <1>1, <1>2, <1>3, <1>4, <1>5, <1>7, <1>8, <1>9, <1>12
<1>13. QED
  BY <1>10, <1>11, <1>12

LEMMA RequestFlood ==
  ASSUME IInv, FloodPaid, NEW c \in Addresses, Request(c)
  PROVE  FloodPaid'
<1> DEFINE A == SumFunctionOnSet(admitted, Keys)
           M == SumFunctionOnSet(Missing, Keys)
           O == Refilled(overflow)
           rest == (MaxKeys + 1) * now
<1>1. PICK k \in Keys :
        \/ /\ admitted' = admitted /\ ideal' = ideal
           /\ Refilled(overflow)' = Refilled(overflow)
        \/ /\ admitted' = [admitted EXCEPT ![k] = @ + 1]
           /\ ideal[k] >= Every /\ ideal' = [ideal EXCEPT ![k] = @ - Every]
           /\ Refilled(overflow)' = Refilled(overflow)
        \/ /\ admitted' = [admitted EXCEPT ![k] = @ + 1] /\ ideal' = ideal
           /\ Refilled(overflow) >= Every
           /\ Refilled(overflow)' = Refilled(overflow) - Every
  BY RequestPays
<1>2. now' = now
  BY RequestPays
<1>3. A \in Int /\ M \in Int /\ O \in Int /\ rest \in Int
  <2>1. \A m, n \in Int : m * n \in Int
    OBVIOUS
  <2>2. QED
    BY <2>1, FloodTypes, RateAssumption
<1>4. admitted' = [admitted EXCEPT ![k] = @ + 1] => A' = A + 1
  <2> HAVE admitted' = [admitted EXCEPT ![k] = @ + 1]
  <2>1. \A j \in Keys : admitted[j] \in Int /\ admitted'[j] \in Int
    BY DEF IInv, TypeOK
  <2>2. admitted'[k] = admitted[k] + 1 /\ \A j \in Keys \ {k} : admitted'[j] = admitted[j]
    BY DEF IInv, TypeOK
  <2> DEFINE f == admitted
             g == admitted'
  <2>3. \A j \in Keys : f[j] \in Int /\ g[j] \in Int
    BY <2>1
  <2>4. \A j \in Keys \ {k} : g[j] = f[j]
    BY <2>2
  <2> HIDE DEF f, g
  <2>5. SumFunctionOnSet(g, Keys) = SumFunctionOnSet(f, Keys) + g[k] - f[k]
    BY <2>3, <2>4, KeysFinite, SumUpdate
  <2>6. QED
    BY <1>3, <2>1, <2>2, <2>5 DEF f, g
<1>5. ideal' = [ideal EXCEPT ![k] = @ - Every] => M' = M + Every
  <2> HAVE ideal' = [ideal EXCEPT ![k] = @ - Every]
  <2>1. \A j \in Keys : ideal[j] \in Int /\ ideal'[j] = IF j = k THEN ideal[j] - Every ELSE ideal[j]
    BY DEF IInv, TypeOK
  <2>2. \A j \in Keys : Missing[j] \in Int /\ Missing'[j] \in Int
    BY <2>1, FullType DEF Missing
  <2>3. Missing'[k] = Missing[k] + Every /\ \A j \in Keys \ {k} : Missing'[j] = Missing[j]
    BY <2>1, FullType DEF Missing
  <2>4. SumFunctionOnSet(Missing', Keys) = M + Missing'[k] - Missing[k]
    BY <2>2, <2>3, KeysFinite, SumUpdate
  <2>5. QED
    BY <1>3, <2>2, <2>3, <2>4, FullType
<1>6. ideal' = ideal => M' = M
  BY DEF Missing
<1>7. A * Every \in Int /\ (A + 1) * Every = A * Every + Every
  <2>1. \A m, n \in Int : m * n \in Int /\ (m + 1) * n = m * n + n
    OBVIOUS
  <2> HIDE DEF A
  <2>2. QED
    BY <1>3, <2>1, FullType
<1>8. A * Every <= M + (Full - O) + rest
  BY DEF FloodPaid
<1>9. A' * Every <= M' + (Full - O') + rest
  <2> HIDE DEF M, O, rest
  <2> DEFINE paid == A * Every
  <2>1. A' * Every = paid \/ A' * Every = paid + Every
    BY <1>1, <1>4, <1>7
  <2>2. \/ A' * Every = paid /\ M' = M /\ O' = O
        \/ A' * Every = paid + Every /\ M' = M + Every /\ O' = O
        \/ A' * Every = paid + Every /\ M' = M /\ O' = O - Every
    BY <1>1, <1>4, <1>5, <1>6, <1>7 DEF O
  <2>3. paid \in Int /\ paid <= M + (Full - O) + rest
    BY <1>7, <1>8
  <2> HIDE DEF paid, A
  <2>4. QED
    BY <1>3, <2>2, <2>3, FullType
<1>10. QED
  BY <1>2, <1>9 DEF FloodPaid

LEMMA StutterFlood == FloodPaid /\ UNCHANGED vars => FloodPaid'
  BY DEF FloodPaid, Missing, Refilled, vars

LEMMA FloodInductive == Spec => []FloodPaid
<1>1. IInv /\ FloodPaid /\ [Next]_vars => FloodPaid'
  BY TickFlood, RequestFlood, StutterFlood DEF Next
<1>2. QED
  BY InitFlood, Inductive, <1>1, PTL DEF Spec

-----------------------------------------------------------------------------
(* The table never holds more than MaxKeys buckets, and no bucket more     *)
(* than its burst, whatever the addresses of the clients are.              *)
THEOREM TypeCorrect == Spec => []TypeOK
<1>1. IInv => TypeOK
  BY DEF IInv
<1>2. QED
  BY Inductive, <1>1, PTL

(* Forgetting idle buckets changes no decision: each bucket, held or not,  *)
(* is that of a limiter that keeps all of them.                            *)
THEOREM SweepSafe == Spec => []SweepChangesNothing
<1>1. IInv => SweepChangesNothing
  BY DEF IInv
<1>2. QED
  BY Inductive, <1>1, PTL

(* No client is let through more often than its own bucket and the shared  *)
(* one together allow, whatever it writes into X-Forwarded-For.            *)
THEOREM ClientsBounded == Spec => []ClientBounded
<1>1. IInv => ClientBounded
  <2> SUFFICES ASSUME IInv, NEW k \in Keys PROVE admitted[k] * Every <= 2 * (Full + now)
    BY DEF ClientBounded
  <2>1. admitted[k] * Every + ideal[k] + Refilled(overflow) <= 2 * (Full + now)
    BY DEF IInv, TokensPaid
  <2>2. ideal[k] \in 0..Full /\ Refilled(overflow) \in 0..Full /\ now \in Nat /\ admitted[k] \in Nat
    BY BucketType DEF IInv, TypeOK, NotAhead
  <2>3. admitted[k] * Every \in Nat
    BY <2>2, FullType
  <2>4. QED
    BY <2>1, <2>2, <2>3, FullType
<1>2. QED
  BY Inductive, <1>1, PTL

(* All clients together, however many there are, get no more than MaxKeys  *)
(* buckets and the shared one allow: only a key that holds a bucket can be *)
(* missing tokens.                                                         *)
THEOREM FloodSafe == Spec => []FloodBounded
<1>1. IInv /\ FloodPaid => FloodBounded
  <2> SUFFICES ASSUME IInv, FloodPaid PROVE FloodBounded
    OBVIOUS
  <2> DEFINE H == Held(buckets)
             n == Cardinality(H)
             none == [k \in Keys |-> 0]
             missing == SumFunctionOnSet(Missing, Keys)
             paid == SumFunctionOnSet(admitted, Keys) * Every
  <2>1. IsFiniteSet(H) /\ H \in SUBSET Keys /\ n \in Nat /\ n <= MaxKeys
    BY FS_CardinalityType DEF IInv, TypeOK, Held
  <2>2. SumFunctionOnSet(none, Keys) = 0
    BY KeysFinite, SumZero
  <2>3. missing <= SumFunctionOnSet(none, Keys) + n * Full
    <3>1. \A k \in Keys : none[k] \in Int /\ Missing[k] \in Int
      BY FloodTypes, FullType
    <3>2. \A k \in Keys : Missing[k] <= IF k \in H THEN none[k] + Full ELSE none[k]
      BY FloodTypes, FullType
    <3> HIDE DEF none
    <3>3. QED
      BY <2>1, <3>1, <3>2, KeysFinite, FullType, SumGrows
  <2>4. missing \in Int /\ now \in Nat /\ Refilled(overflow) \in 0..Full
    BY FloodTypes
  <2>5. n * Full <= MaxKeys * Full
    <3>1. \A i, j, m \in Nat : i <= j => i * m <= j * m
      OBVIOUS
    <3> HIDE DEF n
    <3>2. QED
      BY <2>1, <3>1, FullType, RateAssumption
  <2>6. /\ n * Full \in Int /\ MaxKeys * Full \in Int /\ (MaxKeys + 1) * now \in Int
        /\ (MaxKeys + 1) * (Full + now) = MaxKeys * Full + Full + (MaxKeys + 1) * now
    <3>1. \A i, j, m \in Nat : i * j \in Nat /\ (i + 1) * (j + m) = i * j + j + (i + 1) * m
      OBVIOUS
    <3> HIDE DEF n
    <3>2. QED
      BY <2>1, <2>4, <3>1, FullType, RateAssumption
  <2>7. paid \in Int /\ paid <= missing + (Full - Refilled(overflow)) + (MaxKeys + 1) * now
    <3>1. \A i, j \in Int : i * j \in Int
      OBVIOUS
    <3>2. QED
      BY <3>1, FloodTypes, FullType DEF FloodPaid
  <2>8. paid <= (MaxKeys + 1) * (Full + now)
    <3> DEFINE some == n * Full
               all == MaxKeys * Full
               time == (MaxKeys + 1) * now
    <3>1. some \in Int /\ all \in Int /\ time \in Int
          /\ (MaxKeys + 1) * (Full + now) = all + Full + time /\ some <= all
      BY <2>5, <2>6
    <3>2. missing <= some /\ paid <= missing + (Full - Refilled(overflow)) + time
      BY <2>2, <2>3, <2>6, <2>7
    <3> HIDE DEF some, all, time, missing, paid
    <3>3. QED
      BY <2>4, <2>7, <3>1, <3>2, FullType
  <2>9. QED
    BY <2>8 DEF FloodBounded
<1>2. QED
  BY Inductive, FloodInductive, <1>1, PTL

(* A client that waits as long as it was told to finds a token.            *)
THEOREM RetryAfterSuffices == Spec => []RetryAfterIsEnough
<1>1. IInv => RetryAfterIsEnough
  <2> SUFFICES ASSUME IInv, NEW k \in Keys,
                      promise[k] # None, now >= promise[k], buckets[k] # None
               PROVE  CanTake(buckets[k])
    BY DEF RetryAfterIsEnough
  <2>1. ideal[k] >= Every \/ ideal[k] + promise[k] - now >= Every
    BY DEF IInv, PromiseKept
  <2>2. ideal[k] \in 0..Full /\ promise[k] \in Nat /\ now \in Nat
    BY DEF IInv, TypeOK
  <2>3. ideal[k] = Refilled(buckets[k])
    BY DEF IInv, SweepChangesNothing
  <2>4. QED
    BY <2>1, <2>2, <2>3, FullType DEF CanTake
<1>2. QED
  BY Inductive, <1>1, PTL
=============================================================================
