-------------------------- MODULE KeyRotation_proofs --------------------------
(***************************************************************************)
(* For every set of replicas, schedule and delays: replicas only sign with *)
(* keys that all of them know, as long as a new key reaches the slowest    *)
(* replica before the cool-off is over; a key is kept for the life of its  *)
(* tokens, but for the shortfall; and a replica has a key to sign with, as *)
(* long as the keys that are kept span more than delivery, cool-off and    *)
(* jitter.                                                                 *)
(***************************************************************************)
EXTENDS KeyRotation, FiniteSetTheorems, WellFoundedInduction, TLAPS

-----------------------------------------------------------------------------
(* The inductive invariant: what holds for all values of the constants *)

\* A key is not made in the future.
Made == \A k \in secret : k <= now

\* A replica lacks a key of the Secret only within Lag of its making.
Delivered == \A p \in Replicas : \A k \in secret \ DOMAIN keys[p] : now <= k + Lag

\* A replica sees a key when it starts, or later and within Lag of its making.
Seen ==
  \A p \in Replicas : \A k \in DOMAIN keys[p] :
    /\ k <= keys[p][k] /\ started[p] <= keys[p][k] /\ keys[p][k] <= now
    /\ keys[p][k] <= k + Lag \/ keys[p][k] <= started[p]

\* ceil(ttl / interval): the keys that are kept besides the newest one.
Intervals == (TokenTTL + RotationInterval - 1) \div RotationInterval

\* The jobs that were run again after the answer to their update was lost.
Repeated == lost - (IF retry = Never THEN 0 ELSE 1)

Scheduled ==
  /\ slot <= now + RotationInterval
  /\ lost <= MaxLost /\ (retry # Never => lost >= 1)

Few == secret # {} /\ Cardinality(secret) <= NumberOfKeys

\* Keys are made an interval apart, but for the jitter of the older one and the
\* jobs that were run again.
Newer(k) == {j \in secret : j > k}
Apart(k, newer, repeated, until) ==
  \/ newer + 1 <= repeated
  \/ k + (newer + 1 - repeated) * RotationInterval <= until + Jitter
KeysApart == \A k \in secret : Apart(k, Cardinality(Newer(k)), Repeated, slot)

\* Replicas know the first key from their start on, until it is pruned for good.
FirstKey ==
  /\ 0 \in secret \/ now > 0
  /\ 0 \in secret => \A p \in Replicas : 0 \in DOMAIN keys[p] /\ keys[p][0] <= started[p]

\* What a replica still has and the Secret has not is older than all the Secret has.
PrunedOlder ==
  \A p \in Replicas : \A k \in DOMAIN keys[p] \ secret : \A j \in secret : k < j

\* Once a key has been pruned, one is kept that is as old as the schedule allows;
\* and every replica has such a key, or one it knows since its start.
Old(k) == k + (Intervals - Repeated) * RotationInterval <= now + Jitter
OldKept == 0 \in secret \/ \E k \in secret : Old(k)
OldKnown ==
  \A p \in Replicas : \E k \in DOMAIN keys[p] : keys[p][k] <= started[p] \/ Old(k)

Shape == TypeOK /\ Made /\ Delivered /\ Seen
Schedule ==
  /\ Scheduled /\ Few /\ KeysApart
  /\ FirstKey /\ PrunedOlder /\ OldKept /\ OldKnown

-----------------------------------------------------------------------------
(* Numbers *)

\* Every set of natural numbers has a least one.
LEMMA Least ==
  ASSUME NEW T \in SUBSET Nat, T # {}
  PROVE  \E m \in T : \A k \in T : m <= k
<1>1. PICK m \in T : \A k \in T : ~(<<k, m>> \in OpToRel(<, Nat))
  BY NatLessThanWellFounded, WFMin, Zenon
<1>2. \A k \in T : ~(k < m)
  BY <1>1 DEF OpToRel
<1> QED BY <1>2

\* deriveNumberOfKeys keeps one key more than there are intervals in a token's life.
LEMMA KeysKept ==
  Intervals \in Nat /\ NumberOfKeys = Intervals + 1
<1> DEFINE a == TokenTTL + RotationInterval - 1
<1>1. a \in Nat
  BY RotationAssumption
<1>2. \A x \in Nat : x \div RotationInterval \in Nat
  BY RotationAssumption
<1> HIDE DEF a
<1>3. a \div RotationInterval \in Nat
  BY <1>1, <1>2
<1> QED BY <1>3 DEF a, Intervals, NumberOfKeys, deriveNumberOfKeys

\* Multiples of the interval grow with the factor.
LEMMA Multiples ==
  ASSUME NEW a \in Int, NEW b \in Int, a <= b
  PROVE  /\ a * RotationInterval \in Int /\ b * RotationInterval \in Int
         /\ a * RotationInterval <= b * RotationInterval
         /\ (a + 1) * RotationInterval = a * RotationInterval + RotationInterval
         /\ 0 * RotationInterval = 0
<1>1. RotationInterval \in Nat
  BY RotationAssumption
<1>2. a * RotationInterval <= b * RotationInterval
  BY <1>1
<1>3. (a + 1) * RotationInterval = a * RotationInterval + RotationInterval
  BY <1>1
<1> QED BY <1>1, <1>2, <1>3

\* A key that was made by now keeps its distance when the job of a slot adds one.
LEMMA ApartOnTime ==
  ASSUME NEW k \in Nat, NEW n \in Nat, NEW r \in Nat, NEW s \in Nat,
         k <= s + Jitter, Apart(k, n, r, s)
  PROVE  Apart(k, n + 1, r, s + RotationInterval)
<1> DEFINE a == n + 1 - r
           ai == a * RotationInterval
<1>1. RotationInterval \in Nat /\ Jitter \in Nat /\ a \in Int
  BY RotationAssumption
<1>2. (a + 1) * RotationInterval = ai + RotationInterval /\ ai \in Int
  BY <1>1, Multiples
<1>3. n + 1 + 1 - r = a + 1
  OBVIOUS
<1>4. SUFFICES ASSUME n + 1 + 1 > r
               PROVE  k + (ai + RotationInterval) <= s + RotationInterval + Jitter
  BY <1>2, <1>3 DEF Apart
<1>5. CASE n + 1 <= r
  <2>1. a = 0
    BY <1>4, <1>5
  <2>2. ai = 0
    BY <1>1, <2>1, Multiples
  <2> QED BY <1>1, <2>2
<1>6. CASE k + ai <= s + Jitter
  BY <1>1, <1>2, <1>6
<1> QED BY <1>5, <1>6 DEF Apart

\* A job that is run again adds a key and is counted.
LEMMA ApartAgain ==
  ASSUME NEW k \in Nat, NEW n \in Nat, NEW r \in Nat, NEW s \in Nat, Apart(k, n, r, s)
  PROVE  Apart(k, n + 1, r + 1, s)
<1>1. n + 1 + 1 - (r + 1) = n + 1 - r /\ (n + 1 + 1 <= r + 1 <=> n + 1 <= r)
  OBVIOUS
<1> QED BY <1>1 DEF Apart

\* A key made in its slot is an interval away from the next slot, but for the jitter.
LEMMA ApartNew ==
  ASSUME NEW k \in Nat, NEW r \in Nat, NEW s \in Nat, k <= s + Jitter
  PROVE  Apart(k, 0, r, s + RotationInterval)
<1>1. RotationInterval \in Nat /\ Jitter \in Nat
  BY RotationAssumption
<1>2. CASE r = 0
  <2>1. (0 + 1 - r) * RotationInterval = RotationInterval
    BY <1>1, <1>2
  <2> QED BY <1>1, <2>1 DEF Apart
<1>3. CASE r >= 1
  BY <1>3 DEF Apart
<1> QED BY <1>2, <1>3

\* A slot that is passed over, and a repetition that is given up, leave room.
LEMMA ApartLater ==
  ASSUME NEW k \in Nat, NEW n \in Nat, NEW r \in Nat, NEW s \in Nat,
         NEW q \in Nat, NEW u \in Nat, r <= q, s <= u, Apart(k, n, r, s)
  PROVE  Apart(k, n, q, u)
<1> DEFINE a == n + 1 - q
           b == n + 1 - r
<1>1. a \in Int /\ b \in Int /\ a <= b
  OBVIOUS
<1>2. a * RotationInterval \in Int /\ b * RotationInterval \in Int
      /\ a * RotationInterval <= b * RotationInterval
  BY <1>1, Multiples
<1>3. n + 1 <= r \/ k + b * RotationInterval <= s + Jitter
  BY DEF Apart
<1> HIDE DEF a, b
<1>4. n + 1 <= q \/ k + a * RotationInterval <= u + Jitter
  BY <1>2, <1>3, RotationAssumption
<1> QED BY <1>4 DEF Apart, a

-----------------------------------------------------------------------------
(* What a rotation does to the Secret *)

\* The keys of the Secret can be counted.
LEMMA KeysFinite ==
  ASSUME TypeOK, Made, NEW T \in SUBSET secret
  PROVE  IsFiniteSet(T) /\ Cardinality(T) \in Nat
<1>1. IsFiniteSet(T)
  BY FS_BoundedSetOfNaturals DEF TypeOK, Made
<1> QED BY <1>1, FS_CardinalityType

\* RotateSecret adds the key of this second.  It prunes the oldest one when there are
\* as many as are kept, and none before.
LEMMA Pruning ==
  ASSUME TypeOK, Made, Few, RotateSecret
  PROVE  /\ now \notin secret
         /\ \/ /\ Cardinality(secret) < NumberOfKeys
               /\ secret' = secret \cup {now}
            \/ /\ Cardinality(secret) = NumberOfKeys
               /\ \E m \in secret : /\ \A k \in secret : m <= k
                                    /\ secret' = (secret \ {m}) \cup {now}
<1> DEFINE U == secret \cup {now}
           Above(k) == {j \in U : j > k}
<1>1. now \notin secret /\ secret' = {k \in U : Cardinality(Above(k)) < NumberOfKeys}
  BY DEF RotateSecret, Latest
<1>2. IsFiniteSet(U) /\ Cardinality(U) = Cardinality(secret) + 1
  BY <1>1, KeysFinite, FS_AddElement
<1>3. U \subseteq Nat /\ Cardinality(secret) \in Nat /\ NumberOfKeys \in Nat
  BY KeysFinite, KeysKept DEF TypeOK
<1>4. ASSUME NEW V \in SUBSET U, NEW k \in V, NEW W \in SUBSET V, k \notin W
      PROVE  Cardinality(W) <= Cardinality(V) - 1
  <2>1. IsFiniteSet(V)
    BY <1>2, FS_Subset
  <2>2. IsFiniteSet(V \ {k}) /\ Cardinality(V \ {k}) = Cardinality(V) - 1
    BY <2>1, <1>4, FS_RemoveElement
  <2>3. W \in SUBSET (V \ {k})
    BY <1>4
  <2> QED BY <2>2, <2>3, FS_Subset
<1>5. CASE Cardinality(secret) < NumberOfKeys
  <2>1. ASSUME NEW k \in U PROVE Cardinality(Above(k)) < NumberOfKeys
    <3>1. Above(k) \in SUBSET U /\ k \notin Above(k)
      BY <1>3
    <3>2. Cardinality(Above(k)) <= Cardinality(U) - 1
      BY <3>1, <1>4
    <3>3. IsFiniteSet(Above(k))
      BY <1>2, <3>1, FS_Subset
    <3>4. Cardinality(Above(k)) \in Nat
      BY <3>3, FS_CardinalityType
    <3> HIDE DEF Above, U
    <3> QED BY <3>2, <3>4, <1>2, <1>3, <1>5
  <2> QED BY <1>1, <1>5, <2>1
<1>6. CASE Cardinality(secret) = NumberOfKeys
  <2>1. PICK m \in secret : \A k \in secret : m <= k
    BY Least DEF TypeOK, Few
  <2>2. m < now
    BY <1>1 DEF TypeOK, Made
  <2>3. Above(m) = U \ {m}
    BY <2>1, <2>2, <1>3
  <2>4. Cardinality(U \ {m}) = NumberOfKeys
    <3>1. Cardinality(U \ {m}) = Cardinality(U) - 1
      BY <1>2, FS_RemoveElement
    <3> QED BY <3>1, <1>2, <1>3, <1>6
  <2>5. ASSUME NEW k \in U, k # m PROVE Cardinality(Above(k)) < NumberOfKeys
    <3>1. Above(k) \in SUBSET (U \ {m}) /\ k \notin Above(k) /\ k \in U \ {m}
      BY <2>1, <2>2, <2>5, <1>3
    <3>2. Cardinality(Above(k)) <= Cardinality(U \ {m}) - 1
      BY <3>1, <1>4
    <3>3. IsFiniteSet(Above(k))
      BY <1>2, <3>1, FS_Subset
    <3>4. Cardinality(Above(k)) \in Nat
      BY <3>3, FS_CardinalityType
    <3> HIDE DEF Above, U
    <3> QED BY <3>2, <3>4, <2>4, <1>3
  <2>6. ~(Cardinality(Above(m)) < NumberOfKeys)
    BY <2>3, <2>4, <1>3
  <2>7. secret' = U \ {m}
    BY <1>1, <2>5, <2>6
  <2> QED BY <1>1, <1>6, <2>1, <2>2, <2>7
<1> QED BY <1>1, <1>3, <1>5, <1>6 DEF Few

\* A key that a rotation keeps has one newer key more.
LEMMA NewerAfterRotation ==
  ASSUME TypeOK, Made, Few, RotateSecret, UNCHANGED now
  PROVE  /\ \A k \in secret \cap secret' :
               Cardinality(Newer(k)') = Cardinality(Newer(k)) + 1
         /\ Cardinality(Newer(now)') = 0
<1>1. now \notin secret /\ secret' \subseteq secret \cup {now}
  BY Pruning
<1>2. ASSUME NEW k \in secret \cap secret'
      PROVE  Cardinality(Newer(k)') = Cardinality(Newer(k)) + 1
  <2>1. k < now
    BY <1>1 DEF TypeOK, Made
  <2>2. \A j \in secret : j > k => j \in secret'
    BY Pruning DEF TypeOK
  <2>3. now \in secret'
    BY Pruning
  <2>4. Newer(k)' = Newer(k) \cup {now}
    BY <1>1, <2>1, <2>2, <2>3 DEF Newer
  <2>5. Newer(k) \in SUBSET secret /\ now \notin Newer(k)
    BY <1>1 DEF Newer
  <2>6. IsFiniteSet(Newer(k))
    BY <2>5, KeysFinite
  <2> QED BY <2>4, <2>5, <2>6, FS_AddElement
<1>3. Newer(now)' = {}
  BY <1>1 DEF Newer, TypeOK, Made
<1> QED BY <1>2, <1>3, FS_EmptySet

-----------------------------------------------------------------------------
(* Jobs keep the schedule *)

\* A job runs in its slot, or again because the answer to its update was lost.
OnTime ==
  /\ slot <= now /\ now <= slot + Jitter
  /\ slot' = slot + RotationInterval /\ Repeated' = Repeated
Again == slot' = slot /\ Repeated' = Repeated + 1

\* The number of jobs that were run again is a number.
LEMMA RepeatedType ==
  ASSUME TypeOK, Scheduled
  PROVE  Repeated \in Nat /\ Repeated <= MaxLost
BY RotationAssumption DEF TypeOK, Scheduled, Repeated, Never

\* Jobs are of these two kinds.
LEMMA JobKinds ==
  ASSUME TypeOK, Scheduled, Job \/ JobLosesAnswer
  PROVE  /\ RotateSecret /\ UNCHANGED <<now, keys, started, token, restarts>>
         /\ OnTime \/ Again
         /\ Scheduled' /\ slot' \in Nat /\ retry' \in Nat \cup {Never} /\ lost' \in Nat
<1> USE RotationAssumption
<1>1. /\ RotateSecret /\ UNCHANGED <<now, keys, started, token, restarts>>
      /\ JobDue /\ slot' = NextSlot
      /\ \/ retry' = Never /\ lost' = lost
         \/ retry' = now + RetryDelay /\ lost' = lost + 1 /\ lost' <= MaxLost
  BY DEF Job, JobLosesAnswer, TypeOK
<1>2. slot' \in Nat /\ retry' \in Nat \cup {Never} /\ lost' \in Nat
  BY <1>1 DEF NextSlot, TypeOK
<1>3. CASE Retried
  <2>1. Again
    BY <1>1, <1>3 DEF Again, Repeated, Retried, NextSlot, Never, TypeOK
  <2>2. Scheduled'
    BY <1>1, <1>3 DEF Scheduled, NextSlot, Never, TypeOK
  <2> QED BY <1>1, <1>2, <2>1, <2>2
<1>4. CASE ~Retried
  <2>1. retry = Never /\ slot <= now /\ now <= slot + Jitter /\ slot' = slot + RotationInterval
    BY <1>1, <1>4 DEF JobDue, NextSlot
  <2>2. OnTime
    BY <1>1, <2>1 DEF OnTime, Repeated, Never, TypeOK
  <2>3. Scheduled'
    BY <1>1, <2>1 DEF Scheduled, Never, TypeOK
  <2> QED BY <1>1, <1>2, <2>2, <2>3
<1> QED BY <1>3, <1>4

\* A key that is old is old later on, and when more jobs have been run again.
LEMMA Older ==
  ASSUME NEW k \in Nat, NEW r \in Nat, NEW s \in Nat, NEW t \in Nat, NEW u \in Nat,
         r <= s, t <= u, k + (Intervals - r) * RotationInterval <= t + Jitter
  PROVE  k + (Intervals - s) * RotationInterval <= u + Jitter
<1> DEFINE a == Intervals - s
           b == Intervals - r
<1>1. Intervals \in Nat /\ Jitter \in Nat
  BY KeysKept, RotationAssumption
<1>2. a \in Int /\ b \in Int /\ a <= b
  BY <1>1
<1>3. a * RotationInterval \in Int /\ b * RotationInterval \in Int
      /\ a * RotationInterval <= b * RotationInterval
  BY <1>2, Multiples
<1>4. k + b * RotationInterval <= t + Jitter
  OBVIOUS
<1> HIDE DEF a, b
<1>5. k + a * RotationInterval <= u + Jitter
  BY <1>1, <1>3, <1>4
<1> QED BY <1>5 DEF a

\* A key stays old.
LEMMA OldStays ==
  ASSUME TypeOK, NEW k \in Nat, Old(k), now' \in Nat, now <= now',
         Repeated \in Nat, Repeated' \in Nat, Repeated <= Repeated'
  PROVE  Old(k)'
<1>1. now \in Nat
  BY DEF TypeOK
<1>2. k + (Intervals - Repeated) * RotationInterval <= now + Jitter
  BY DEF Old
<1>3. k + (Intervals - Repeated') * RotationInterval <= now' + Jitter
  BY <1>1, <1>2, Older
<1> QED BY <1>3 DEF Old, Intervals

\* The oldest key that is left after pruning has as many newer ones as are kept.
LEMMA OldestLeft ==
  ASSUME TypeOK, Made, Few, RotateSecret, secret' # secret \cup {now}
  PROVE  \/ now \in secret' /\ Intervals = 0
         \/ \E k \in secret \cap secret' : Cardinality(Newer(k)) + 1 = Intervals
<1>1. PICK m \in secret : (\A k \in secret : m <= k) /\ secret' = (secret \ {m}) \cup {now}
  BY Pruning
<1>2. Cardinality(secret) = Intervals + 1
  BY Pruning, KeysKept
<1>0. Intervals \in Nat /\ IsFiniteSet(secret)
  BY KeysKept, KeysFinite
<1>3. IsFiniteSet(secret \ {m}) /\ Cardinality(secret \ {m}) = Intervals
  BY <1>0, <1>2, FS_RemoveElement
<1>4. CASE secret \ {m} = {}
  BY <1>1, <1>3, <1>4, FS_EmptySet
<1>5. CASE secret \ {m} # {}
  <2>1. PICK k \in secret \ {m} : \A j \in secret \ {m} : k <= j
    BY <1>5, Least DEF TypeOK
  <2>2. \A j \in secret : j > k <=> j # m /\ j # k
    <3>1. secret \subseteq Nat
      BY DEF TypeOK
    <3> QED BY <1>1, <2>1, <3>1
  <2>4. Newer(k) = (secret \ {m}) \ {k}
    BY <2>2 DEF Newer
  <2>3. Cardinality(Newer(k)) = Intervals - 1
    BY <2>1, <2>4, <1>3, FS_RemoveElement
  <2> QED BY <1>1, <2>1, <2>3, KeysKept
<1> QED BY <1>4, <1>5

\* A key with as many newer ones as are kept is old once a job has run.
LEMMA ApartIsOld ==
  ASSUME NEW k \in Nat, NEW n \in Nat, NEW r \in Nat, NEW s \in Nat, NEW t \in Nat,
         n + 1 = Intervals, Apart(k, n, r, s), k <= t, s <= t + RotationInterval
  PROVE  /\ s <= t => k + (Intervals - r) * RotationInterval <= t + Jitter
         /\ k + (Intervals - (r + 1)) * RotationInterval <= t + Jitter
<1> DEFINE a == Intervals - r
           b == Intervals - (r + 1)
           ai == a * RotationInterval
           bi == b * RotationInterval
<1>1. Intervals \in Nat /\ Jitter \in Nat /\ RotationInterval \in Nat
  BY KeysKept, RotationAssumption
<1>2. a \in Int /\ b \in Int /\ a = b + 1
  BY <1>1
<1>3. /\ ai \in Int /\ bi \in Int /\ ai = bi + RotationInterval
      /\ a <= 0 => ai <= 0
  BY <1>2, Multiples
<1>4. a <= 0 \/ k + ai <= s + Jitter
  BY <1>1 DEF Apart
<1> HIDE DEF a, b, ai, bi
<1>5. (s <= t => k + ai <= t + Jitter) /\ k + bi <= t + Jitter
  BY <1>1, <1>2, <1>3, <1>4
<1> QED BY <1>5 DEF a, b, ai, bi

\* So there is an old key after pruning.
LEMMA OldestIsOld ==
  ASSUME TypeOK, Made, Few, KeysApart, RotateSecret, UNCHANGED now,
         secret' # secret \cup {now}, Scheduled,
         Repeated \in Nat, Repeated' \in Nat, OnTime \/ Again
  PROVE  \E k \in secret' : Old(k)'
<1>1. /\ now \in Nat /\ slot \in Nat /\ slot <= now + RotationInterval
      /\ OnTime => slot <= now /\ Repeated' = Repeated
      /\ Again => Repeated' = Repeated + 1
  BY DEF TypeOK, Scheduled, OnTime, Again
<1>2. \A k : Old(k)' <=> k + (Intervals - Repeated') * RotationInterval <= now + Jitter
  BY DEF Old, Intervals
<1>3. CASE now \in secret' /\ Intervals = 0
  <2>1. ASSUME NEW r \in Nat
        PROVE  now + (Intervals - r) * RotationInterval <= now + Jitter
    <3>1. 0 - r \in Int /\ 0 - r <= 0
      OBVIOUS
    <3>2. (0 - r) * RotationInterval \in Int /\ (0 - r) * RotationInterval <= 0
      BY <3>1, Multiples
    <3> QED BY <3>2, <1>1, <1>3, RotationAssumption
  <2> QED BY <1>2, <1>3, <2>1
<1>4. CASE \E k \in secret \cap secret' : Cardinality(Newer(k)) + 1 = Intervals
  <2>1. PICK k \in secret \cap secret' : Cardinality(Newer(k)) + 1 = Intervals
    BY <1>4
  <2>2. k \in Nat /\ k <= now /\ Cardinality(Newer(k)) \in Nat
    BY KeysFinite DEF TypeOK, Made, Newer
  <2>3. Apart(k, Cardinality(Newer(k)), Repeated, slot)
    BY DEF KeysApart
  <2>4. k + (Intervals - Repeated') * RotationInterval <= now + Jitter
    BY <1>1, <2>1, <2>2, <2>3, ApartIsOld
  <2> QED BY <1>2, <2>1, <2>4
<1> QED BY <1>3, <1>4, OldestLeft

\* The state keeps its shape in a rotation, whatever the job records of it: the Secret
\* is all of it that changes.
LEMMA RotationShape ==
  ASSUME Shape, RotateSecret, UNCHANGED <<now, keys, started, token>>,
         slot' \in Nat, retry' \in Nat \cup {Never}, lost' \in Nat, restarts' \in Nat
  PROVE  Shape'
<1>1. now \notin secret /\ secret' \subseteq secret \cup {now}
  BY DEF RotateSecret, Latest
<1>2. TypeOK'
  BY <1>1 DEF Shape, TypeOK
<1>3. Made'
  BY <1>1 DEF Shape, TypeOK, Made
<1>4. Delivered'
  BY <1>1, RotationAssumption DEF Shape, TypeOK, Delivered
<1>5. Seen'
  BY DEF Shape, Seen
<1> QED BY <1>2, <1>3, <1>4, <1>5 DEF Shape

\* A rotation keeps the schedule.
LEMMA RotationSchedule ==
  ASSUME Shape, Schedule, RotateSecret, UNCHANGED <<now, keys, started>>,
         Repeated' \in Nat, OnTime \/ Again, Scheduled'
  PROVE  Schedule'
<1>1. TypeOK /\ Made /\ Few /\ KeysApart /\ Scheduled /\ Repeated \in Nat
  BY RepeatedType DEF Shape, Schedule
<1>2. now \notin secret /\ secret' \subseteq secret \cup {now} /\ now \in secret'
  BY <1>1, Pruning
<1>3. now \in Nat /\ slot \in Nat /\ secret \subseteq Nat /\ (\A k \in secret : k <= now)
  BY <1>1 DEF TypeOK, Made
<1>4. Few'
  <2>1. CASE Cardinality(secret) < NumberOfKeys /\ secret' = secret \cup {now}
    <3>1. Cardinality(secret') = Cardinality(secret) + 1
      BY <1>1, <1>2, <2>1, KeysFinite, FS_AddElement
    <3>2. Cardinality(secret) \in Nat /\ NumberOfKeys \in Nat
      BY <1>1, KeysFinite, KeysKept
    <3>3. Cardinality(secret') <= NumberOfKeys
      BY <2>1, <3>1, <3>2
    <3> QED BY <1>2, <3>3 DEF Few, NumberOfKeys
  <2>2. ASSUME NEW m \in secret, secret' = (secret \ {m}) \cup {now},
               Cardinality(secret) = NumberOfKeys
        PROVE  Few'
    <3>1. IsFiniteSet(secret \ {m}) /\ Cardinality(secret \ {m}) = Cardinality(secret) - 1
      BY <1>1, KeysFinite, FS_RemoveElement
    <3>2. Cardinality(secret') = Cardinality(secret \ {m}) + 1
      BY <1>2, <2>2, <3>1, FS_AddElement
    <3>3. Cardinality(secret) \in Nat
      BY <1>1, KeysFinite
    <3>4. Cardinality(secret') <= NumberOfKeys
      BY <2>2, <3>1, <3>2, <3>3
    <3> QED BY <1>2, <3>4 DEF Few, NumberOfKeys
  <2> QED BY <1>1, <2>1, <2>2, Pruning
<1>5. KeysApart'
  <2> SUFFICES ASSUME NEW k \in secret'
               PROVE  Apart(k, Cardinality(Newer(k)'), Repeated', slot')
    BY DEF KeysApart, Apart
  <2>1. CASE k = now
    <3>1. Cardinality(Newer(k)') = 0
      BY <1>1, <2>1, NewerAfterRotation
    <3>2. ASSUME OnTime PROVE Apart(now, 0, Repeated', slot')
      <4>1. now <= slot + Jitter /\ slot' = slot + RotationInterval
        BY <3>2 DEF OnTime
      <4> QED BY <1>3, <4>1, ApartNew
    <3>3. ASSUME Again PROVE Apart(now, 0, Repeated', slot')
      BY <1>1, <3>3 DEF Again, Apart
    <3> QED BY <2>1, <3>1, <3>2, <3>3
  <2>2. CASE k # now
    <3>1. k \in secret /\ k \in Nat /\ k <= now
      BY <1>2, <1>3, <2>2
    <3>2. Cardinality(Newer(k)') = Cardinality(Newer(k)) + 1 /\ Cardinality(Newer(k)) \in Nat
      BY <1>1, <3>1, NewerAfterRotation, KeysFinite DEF Newer
    <3>3. Apart(k, Cardinality(Newer(k)), Repeated, slot)
      BY <1>1, <3>1 DEF KeysApart
    <3>4. ASSUME OnTime PROVE Apart(k, Cardinality(Newer(k)) + 1, Repeated', slot')
      <4>1. slot' = slot + RotationInterval /\ Repeated' = Repeated /\ k <= slot + Jitter
        BY <3>1, <3>4, <1>3, RotationAssumption DEF OnTime
      <4> QED BY <1>1, <1>3, <3>1, <3>2, <3>3, <4>1, ApartOnTime
    <3>5. ASSUME Again PROVE Apart(k, Cardinality(Newer(k)) + 1, Repeated', slot')
      BY <1>1, <1>3, <3>1, <3>2, <3>3, <3>5, ApartAgain DEF Again
    <3> QED BY <3>2, <3>4, <3>5
  <2> QED BY <2>1, <2>2
<1>6. FirstKey'
  BY <1>2, <1>3 DEF Schedule, FirstKey
<1>7. PrunedOlder'
  <2> SUFFICES ASSUME NEW p \in Replicas, NEW k \in DOMAIN keys[p], k \notin secret',
                      NEW j \in secret'
               PROVE  k < j
    BY DEF PrunedOlder
  <2>1. k \in Nat
    BY <1>1 DEF TypeOK
  <2>2. CASE k \in secret
    BY <1>1, <1>2, <1>3, <2>2, Pruning
  <2>3. CASE k \notin secret
    <3>1. \A i \in secret : k < i
      BY <2>3 DEF Schedule, PrunedOlder
    <3>2. PICK i \in secret : TRUE
      BY <1>1 DEF Few
    <3> QED BY <1>2, <1>3, <2>1, <3>1, <3>2
  <2> QED BY <2>2, <2>3
<1>8. ASSUME NEW k \in Nat, Old(k) PROVE Old(k)'
  <2>1. Repeated <= Repeated' /\ now' \in Nat /\ now <= now'
    BY <1>1, <1>3 DEF OnTime, Again
  <2> QED BY <1>1, <1>8, <2>1, OldStays
<1>9. OldKept'
  <2>1. CASE secret' = secret \cup {now}
    BY <1>3, <1>8, <2>1 DEF Schedule, OldKept
  <2>2. CASE secret' # secret \cup {now}
    <3>1. \E k \in secret' : Old(k)'
      BY <1>1, <2>2, OldestIsOld
    <3> QED BY <3>1 DEF OldKept
  <2> QED BY <2>1, <2>2
<1>10. OldKnown'
  BY <1>1, <1>8 DEF Schedule, OldKnown, TypeOK
<1> QED BY <1>4, <1>5, <1>6, <1>7, <1>9, <1>10 DEF Schedule

-----------------------------------------------------------------------------
(* The invariant is inductive *)

\* It holds of the Secret with one key that all replicas know.
LEMMA InitInv ==
  Init => Shape /\ Schedule
<1> SUFFICES ASSUME Init PROVE Shape /\ Schedule
  OBVIOUS
<1>1. Shape
  BY RotationAssumption DEF Init, Shape, TypeOK, Made, Delivered, Seen, Never
<1>2. Intervals \in Nat /\ NumberOfKeys = Intervals + 1 /\ Repeated = 0
  BY KeysKept DEF Init, Repeated
<1>3. Few
  <2>1. secret = {0} /\ Cardinality({0}) = 1
    BY FS_Singleton DEF Init
  <2> QED BY <1>2, <2>1 DEF Few
<1>4. KeysApart
  <2>1. Newer(0) = {} /\ secret = {0} /\ slot = 0 + RotationInterval
    BY RotationAssumption DEF Init, Newer
  <2>2. Cardinality(Newer(0)) = 0
    BY <2>1, FS_EmptySet
  <2>3. Apart(0, 0, 0, 0 + RotationInterval)
    BY ApartNew, RotationAssumption
  <2> QED BY <1>2, <2>1, <2>2, <2>3 DEF KeysApart
<1>5. Scheduled /\ FirstKey /\ PrunedOlder /\ OldKept /\ OldKnown
  BY RotationAssumption
     DEF Init, Scheduled, FirstKey, PrunedOlder, OldKept, OldKnown, Never
<1> QED BY <1>1, <1>3, <1>4, <1>5 DEF Schedule

\* A replica that replaces its keys by the ones in the Secret keeps it, if it counts
\* them as seen when it started or within Lag of their making: SecretEvent and
\* RetrieveInitialSecret are of this kind.
LEMMA ReplacingKeeps ==
  ASSUME Shape, Schedule, NEW p \in Replicas, NEW f,
         DOMAIN f = secret,
         \A k \in secret : /\ f[k] \in Nat /\ k <= f[k] /\ started'[p] <= f[k] /\ f[k] <= now
                           /\ f[k] <= k + Lag \/ f[k] <= started'[p],
         0 \in secret => f[0] <= started'[p],
         \E k \in secret : f[k] <= started'[p] \/ Old(k),
         keys' = [keys EXCEPT ![p] = f],
         started' \in [Replicas -> Nat], \A q \in Replicas \ {p} : started'[q] = started[q],
         restarts' \in Nat,
         UNCHANGED <<now, secret, slot, retry, token, lost>>
  PROVE  Shape' /\ Schedule'
<1>1. keys'[p] = f /\ \A q \in Replicas \ {p} : keys'[q] = keys[q]
  BY DEF Shape, TypeOK
<1>2. DOMAIN keys' = Replicas
  BY DEF Shape, TypeOK
<1>3. TypeOK'
  BY <1>1, <1>2 DEF Shape, TypeOK
<1>4. Made'
  BY DEF Shape, Made
<1>5. Delivered'
  BY <1>1 DEF Shape, Delivered
<1>6. Seen'
  <2> SUFFICES ASSUME NEW q \in Replicas, NEW k \in DOMAIN keys'[q]
               PROVE  /\ k <= keys'[q][k] /\ started'[q] <= keys'[q][k] /\ keys'[q][k] <= now'
                      /\ keys'[q][k] <= k + Lag \/ keys'[q][k] <= started'[q]
    BY DEF Seen
  <2>1. CASE q = p
    BY <1>1, <2>1
  <2>2. CASE q # p
    BY <1>1, <2>2 DEF Shape, Seen
  <2> QED BY <2>1, <2>2
<1>7. Scheduled' /\ Few' /\ KeysApart'
  <2>1. Repeated' = Repeated /\ \A k : Newer(k)' = Newer(k)
    BY DEF Repeated, Newer
  <2> QED BY <2>1 DEF Schedule, Scheduled, Few, KeysApart, NumberOfKeys, Apart
<1>8. FirstKey'
  BY <1>1 DEF Schedule, FirstKey
<1>9. PrunedOlder'
  BY <1>1 DEF Schedule, PrunedOlder
<1>10. \A k : Old(k)' <=> Old(k)
  BY DEF Old, Repeated, Intervals
<1>11. OldKept'
  BY <1>10 DEF Schedule, OldKept
<1>12. OldKnown'
  BY <1>1, <1>10 DEF Schedule, OldKnown
<1> QED BY <1>3, <1>4, <1>5, <1>6, <1>7, <1>8, <1>9, <1>11, <1>12 DEF Shape, Schedule

\* It does not speak of tokens.
LEMMA ScheduleSees ==
  ASSUME Schedule, UNCHANGED <<now, secret, slot, retry, keys, started, lost, restarts>>
  PROVE  Schedule'
<1>1. Repeated' = Repeated /\ \A k : Newer(k)' = Newer(k)
  BY DEF Repeated, Newer
<1>2. \A k : Old(k)' <=> Old(k)
  BY <1>1 DEF Old, Intervals
<1>3. Scheduled' /\ Few' /\ KeysApart' /\ FirstKey' /\ PrunedOlder'
  BY <1>1 DEF Schedule, Scheduled, Few, KeysApart, NumberOfKeys, Apart, FirstKey, PrunedOlder
<1>4. OldKept' /\ OldKnown'
  BY <1>2 DEF Schedule, OldKept, OldKnown
<1> QED BY <1>3, <1>4 DEF Schedule

\* Every step keeps it.
LEMMA NextInv ==
  ASSUME Shape, Schedule, [Next]_vars
  PROVE  Shape' /\ Schedule'
<1> USE RotationAssumption
<1>0. TypeOK /\ Made /\ Few /\ Scheduled /\ Repeated \in Nat
  BY RepeatedType DEF Shape, Schedule
<1>1. CASE Job \/ JobLosesAnswer
  <2>1. /\ RotateSecret /\ UNCHANGED <<now, keys, started, token, restarts>>
        /\ OnTime \/ Again
        /\ Scheduled' /\ slot' \in Nat /\ retry' \in Nat \cup {Never} /\ lost' \in Nat
    BY <1>0, <1>1, JobKinds
  <2>2. Repeated' \in Nat
    BY <1>0, <2>1 DEF OnTime, Again
  <2>3. restarts' \in Nat
    BY <1>0, <2>1 DEF TypeOK
  <2> QED BY <2>1, <2>2, <2>3, RotationShape, RotationSchedule
<1>2. CASE JobMissed
  <2>1. Shape'
    BY <1>2 DEF JobMissed, Shape, TypeOK, Made, Delivered, Seen
  <2>2. Scheduled' /\ slot <= slot' /\ slot' \in Nat
    BY <1>0, <1>2 DEF JobMissed, Scheduled, TypeOK, Never
  <2>3. Repeated' \in Nat /\ Repeated <= Repeated'
    BY <1>0, <1>2 DEF JobMissed, Repeated, Scheduled, TypeOK, Never
  <2>4. Few' /\ FirstKey' /\ PrunedOlder'
    BY <1>2 DEF JobMissed, Schedule, Few, NumberOfKeys, FirstKey, PrunedOlder
  <2>5. KeysApart'
    <3> SUFFICES ASSUME NEW k \in secret
                 PROVE  Apart(k, Cardinality(Newer(k)), Repeated', slot')
      BY <1>2 DEF JobMissed, KeysApart, Newer, Apart
    <3>1. k \in Nat /\ Cardinality(Newer(k)) \in Nat /\ slot \in Nat
      BY <1>0, KeysFinite DEF TypeOK, Newer
    <3>2. Apart(k, Cardinality(Newer(k)), Repeated, slot)
      BY DEF Schedule, KeysApart
    <3> QED BY <1>0, <2>2, <2>3, <3>1, <3>2, ApartLater
  <2>6. \A k \in Nat : Old(k) => Old(k)'
    BY <1>0, <1>2, <2>3, OldStays DEF JobMissed, TypeOK
  <2>7. OldKept' /\ OldKnown'
    BY <1>0, <1>2, <2>6 DEF JobMissed, Schedule, OldKept, OldKnown, TypeOK
  <2> QED BY <2>1, <2>2, <2>4, <2>5, <2>7 DEF Schedule
<1>3. CASE Tick
  <2>1. TypeOK' /\ Made' /\ Seen'
    BY <1>3 DEF Tick, Shape, TypeOK, Made, Seen
  <2>2. Delivered'
    BY <1>3 DEF Tick, Shape, TypeOK, Delivered
  <2>3. Repeated' = Repeated /\ (\A k : Newer(k)' = Newer(k)) /\ now' = now + 1
    BY <1>3 DEF Tick, Repeated, Newer
  <2>4. Scheduled' /\ Few' /\ KeysApart'
    BY <1>0, <1>3, <2>3
       DEF Tick, Schedule, Scheduled, Few, KeysApart, NumberOfKeys, Apart, TypeOK
  <2>5. FirstKey' /\ PrunedOlder'
    BY <1>0, <1>3 DEF Tick, Schedule, FirstKey, PrunedOlder, TypeOK
  <2>6. \A k \in Nat : Old(k) => Old(k)'
    <3>1. now' \in Nat /\ now <= now' /\ Repeated' \in Nat /\ Repeated <= Repeated'
      BY <1>0, <2>3 DEF TypeOK
    <3> QED BY <1>0, <3>1, OldStays
  <2>7. OldKept' /\ OldKnown'
    BY <1>0, <1>3, <2>6 DEF Tick, Schedule, OldKept, OldKnown, TypeOK
  <2> QED BY <2>1, <2>2, <2>4, <2>5, <2>7 DEF Shape, Schedule
<1>4. ASSUME NEW p \in Replicas, SecretEvent(p) PROVE Shape' /\ Schedule'
  <2> DEFINE f == UpdateKeys(keys[p], secret)
  <2>1. DOMAIN f = secret
    BY DEF UpdateKeys
  <2>2. \A k \in secret : f[k] = IF k \in DOMAIN keys[p] THEN keys[p][k] ELSE now
    BY DEF UpdateKeys
  <2>3. keys' = [keys EXCEPT ![p] = f] /\ started' = started
    BY <1>4 DEF SecretEvent
  <2> HIDE DEF f
  <2>4. \A k \in secret : /\ f[k] \in Nat /\ k <= f[k] /\ started[p] <= f[k] /\ f[k] <= now
                          /\ f[k] <= k + Lag \/ f[k] <= started[p]
    <3> SUFFICES ASSUME NEW k \in secret
                 PROVE  /\ f[k] \in Nat /\ k <= f[k] /\ started[p] <= f[k] /\ f[k] <= now
                        /\ f[k] <= k + Lag \/ f[k] <= started[p]
      OBVIOUS
    <3>1. CASE k \in DOMAIN keys[p]
      BY <2>2, <3>1 DEF Shape, TypeOK, Seen
    <3>2. CASE k \notin DOMAIN keys[p]
      <4>1. f[k] = now /\ now \in Nat /\ k <= now /\ now <= k + Lag
        BY <2>2, <3>2 DEF Shape, TypeOK, Made, Delivered
      <4>2. started[p] <= now
        <5>1. PICK j \in DOMAIN keys[p] : TRUE
          BY DEF Schedule, OldKnown
        <5>2. started[p] <= keys[p][j] /\ keys[p][j] <= now /\ keys[p][j] \in Nat /\ started[p] \in Nat
          BY <5>1 DEF Shape, Seen, TypeOK
        <5> QED BY <4>1, <5>2
      <4> QED BY <4>1, <4>2
    <3> QED BY <3>1, <3>2
  <2>5. 0 \in secret => f[0] <= started[p]
    BY <2>2 DEF Schedule, FirstKey
  <2>6. \E k \in secret : f[k] <= started[p] \/ Old(k)
    BY <2>5 DEF Schedule, OldKept
  <2>7. started' \in [Replicas -> Nat] /\ restarts' \in Nat
    BY <1>0, <1>4 DEF SecretEvent, TypeOK
  <2>8. UNCHANGED <<now, secret, slot, retry, token, lost>>
    BY <1>4 DEF SecretEvent
  <2> QED BY <2>1, <2>3, <2>4, <2>5, <2>6, <2>7, <2>8, ReplacingKeeps
<1>5. ASSUME NEW p \in Replicas, RetrieveInitialSecret(p) PROVE Shape' /\ Schedule'
  <2> DEFINE f == [k \in secret |-> now]
  <2>1. DOMAIN f = secret /\ \A k \in secret : f[k] = now
    OBVIOUS
  <2>2. keys' = [keys EXCEPT ![p] = f]
    BY <1>5 DEF RetrieveInitialSecret
  <2>3. started' \in [Replicas -> Nat] /\ restarts' \in Nat /\ started'[p] = now
        /\ \A q \in Replicas \ {p} : started'[q] = started[q]
    BY <1>0, <1>5 DEF RetrieveInitialSecret, TypeOK
  <2>4. UNCHANGED <<now, secret, slot, retry, token, lost>>
    BY <1>5 DEF RetrieveInitialSecret
  <2> HIDE DEF f
  <2>5. \A k \in secret : /\ f[k] \in Nat /\ k <= f[k] /\ started'[p] <= f[k] /\ f[k] <= now
                          /\ f[k] <= k + Lag \/ f[k] <= started'[p]
    BY <1>0, <2>1, <2>3 DEF TypeOK, Made
  <2>6. 0 \in secret => f[0] <= started'[p]
    BY <2>5, <2>1, <2>3
  <2>7. \E k \in secret : f[k] <= started'[p] \/ Old(k)
    BY <1>0, <2>5, <2>1, <2>3 DEF Few
  <2> QED BY <2>1, <2>2, <2>3, <2>4, <2>5, <2>6, <2>7, ReplacingKeeps
<1>6. ASSUME NEW p \in Replicas, GenerateToken(p) PROVE Shape' /\ Schedule'
  <2>1. PICK k \in UsableKeys(p) : token' = [kid |-> k, exp |-> now + TokenTTL]
    BY <1>6 DEF GenerateToken
  <2>2. TypeOK'
    BY <1>0, <1>6, <2>1 DEF GenerateToken, UsableKeys, TypeOK
  <2>3. Made' /\ Delivered' /\ Seen'
    BY <1>6 DEF GenerateToken, Shape, Made, Delivered, Seen
  <2>4. UNCHANGED <<now, secret, slot, retry, keys, started, lost, restarts>>
    BY <1>6 DEF GenerateToken
  <2>5. Schedule'
    BY <2>4, ScheduleSees
  <2> QED BY <2>2, <2>3, <2>5 DEF Shape
<1>7. CASE UNCHANGED vars
  <2>1. Shape'
    BY <1>7 DEF vars, Shape, TypeOK, Made, Delivered, Seen
  <2>2. UNCHANGED <<now, secret, slot, retry, keys, started, lost, restarts>>
    BY <1>7 DEF vars
  <2> QED BY <2>1, <2>2, ScheduleSees
<1> QED BY <1>1, <1>2, <1>3, <1>4, <1>5, <1>6, <1>7 DEF Next

-----------------------------------------------------------------------------
(* Tokens *)

\* The key of the token is in the Secret, or an old one that never comes back.
NeverRemade == token.kid \in secret \/ token.kid < now

TokensInv == NeverRemade /\ TokensKnownEverywhere

\* A key newer than the newest usable one of a replica was made recently: it is on its
\* way to the replica or in its cool-off, and not since a restart, which the cool-off of
\* the usable key has outlasted.
LEMMA NewerIsRecent ==
  ASSUME Shape, NewKeyUseDelay >= 1, NEW p \in Replicas, NEW k \in UsableKeys(p),
         \A j \in UsableKeys(p) : j <= k,
         NEW j \in secret, j > k
  PROVE  now < j + Lag + NewKeyUseDelay
<1> USE RotationAssumption
<1>1. now \in Nat /\ j \in Nat /\ k \in Nat /\ started[p] \in Nat /\ k \in DOMAIN keys[p]
      /\ keys[p][k] \in Nat /\ now - keys[p][k] >= NewKeyUseDelay /\ started[p] <= keys[p][k]
  BY DEF Shape, TypeOK, UsableKeys, Seen
<1>2. CASE j \in DOMAIN keys[p]
  <2>1. keys[p][j] \in Nat /\ (keys[p][j] <= j + Lag \/ keys[p][j] <= started[p])
    BY <1>2 DEF Shape, TypeOK, Seen
  <2>2. now - keys[p][j] < NewKeyUseDelay
    <3>1. j \notin UsableKeys(p)
      BY <1>1
    <3> QED BY <1>1, <1>2, <2>1, <3>1 DEF UsableKeys
  <2> QED BY <1>1, <2>1, <2>2
<1>3. CASE j \notin DOMAIN keys[p]
  BY <1>1, <1>3 DEF Shape, Delivered
<1> QED BY <1>2, <1>3

\* When the token was signed, no newer key of the Secret was past delivery and cool-off;
\* and its key is pruned only as many intervals after a key of this kind as are kept.
SignedAt == token.exp - TokenTTL
TokenSpan ==
  /\ SignedAt <= now
  /\ lost = 0 =>
       IF token.kid \in secret
       THEN \A j \in secret : j > token.kid => SignedAt < j + Lag + NewKeyUseDelay
       ELSE SignedAt + Intervals * RotationInterval < now + Lag + NewKeyUseDelay + Jitter

\* An old key that is recent bounds what the keys that are kept span.
LEMMA OldAndRecent ==
  ASSUME NEW j \in Nat, NEW s \in Int, NEW t \in Nat, s < j + Lag + NewKeyUseDelay,
         j + (Intervals - 0) * RotationInterval <= t + Jitter
  PROVE  s + Intervals * RotationInterval < t + Lag + NewKeyUseDelay + Jitter
<1> DEFINE ii == Intervals * RotationInterval
<1>1. Intervals \in Nat /\ RotationInterval \in Nat /\ Jitter \in Nat /\ Lag \in Nat
      /\ NewKeyUseDelay \in Nat
  BY KeysKept, RotationAssumption
<1>2. Intervals - 0 = Intervals
  BY <1>1
<1>3. j + ii <= t + Jitter
  BY <1>2
<1>4. ii \in Int
  BY <1>1
<1> HIDE DEF ii
<1>5. s + ii < t + Lag + NewKeyUseDelay + Jitter
  BY <1>1, <1>3, <1>4
<1> QED BY <1>5 DEF ii

\* A rotation keeps it: the Secret and what the job records are all that changes.
LEMMA RotationTokenSpan ==
  ASSUME Shape, Schedule, TokenSpan, NewKeyUseDelay >= 1, Job \/ JobLosesAnswer
  PROVE  TokenSpan'
<1> USE RotationAssumption
<1>1. TypeOK /\ Made /\ Few /\ KeysApart /\ Scheduled /\ Repeated \in Nat
  BY RepeatedType DEF Shape, Schedule
<1>2. /\ RotateSecret /\ UNCHANGED <<now, keys, started, token, restarts>>
      /\ OnTime \/ Again
      /\ lost' \in Nat
  BY <1>1, JobKinds
<1>3. /\ now \in Nat /\ secret \subseteq Nat /\ token.kid \in Nat /\ SignedAt \in Int
      /\ SignedAt' = SignedAt /\ SignedAt <= now
  BY <1>1, <1>2 DEF TypeOK, SignedAt, TokenSpan
<1>4. CASE lost' # 0
  BY <1>2, <1>3, <1>4 DEF TokenSpan
<1>5. CASE lost' = 0
  <2>1. lost = 0 /\ retry = Never /\ retry' = Never
    BY <1>1, <1>5 DEF Job, JobLosesAnswer, Scheduled, TypeOK
  <2>2. Repeated = 0 /\ Repeated' = 0
    BY <1>5, <2>1 DEF Repeated
  <2>3. now \notin secret /\ secret' \subseteq secret \cup {now}
    BY <1>1, <1>2, Pruning
  <2>4. CASE token.kid \in secret'
    <3>1. ASSUME NEW j \in secret', j > token.kid
          PROVE  SignedAt < j + Lag + NewKeyUseDelay
      <4>1. CASE j = now
        BY <1>3, <4>1
      <4>2. CASE j # now
        <5>1. j \in secret /\ token.kid \in secret
          BY <1>1, <1>3, <2>3, <2>4, <3>1, <4>2 DEF Made, TypeOK
        <5> QED BY <2>1, <3>1, <5>1 DEF TokenSpan
      <4> QED BY <4>1, <4>2
    <3> QED BY <1>2, <1>3, <2>4, <3>1 DEF TokenSpan
  <2>5. CASE token.kid \notin secret'
    <3>1. SignedAt + Intervals * RotationInterval < now + Lag + NewKeyUseDelay + Jitter
      <4>1. CASE token.kid \notin secret
        BY <2>1, <4>1 DEF TokenSpan
      <4>2. CASE token.kid \in secret
        <5>1. secret' # secret \cup {now}
          BY <2>5, <4>2
        <5>2. PICK j \in secret' : Old(j)'
          BY <1>1, <1>2, <2>2, <5>1, OldestIsOld
        <5>3. j + (Intervals - 0) * RotationInterval <= now + Jitter
          BY <1>2, <2>2, <5>2 DEF Old, Intervals
        <5>4. j \in Nat /\ SignedAt < j + Lag + NewKeyUseDelay
          <6>1. CASE j = now
            BY <1>3, <6>1
          <6>2. CASE j # now
            <7>1. j \in secret /\ j > token.kid
              BY <1>1, <1>2, <1>3, <2>3, <2>5, <4>2, <6>2, Pruning
            <7> QED BY <1>3, <2>1, <4>2, <7>1 DEF TokenSpan
          <6> QED BY <6>1, <6>2
        <5> QED BY <1>3, <5>3, <5>4, OldAndRecent
      <4> QED BY <4>1, <4>2
    <3> QED BY <1>2, <1>3, <2>5, <3>1 DEF TokenSpan, Intervals
  <2> QED BY <2>4, <2>5
<1> QED BY <1>4, <1>5

\* Signing establishes it, even with a key that the Secret no longer has.
LEMMA SigningTokenSpan ==
  ASSUME Shape, Schedule, NewKeyUseDelay >= 1, NEW p \in Replicas, GenerateToken(p)
  PROVE  TokenSpan'
<1> USE RotationAssumption
<1>1. PICK k \in UsableKeys(p) : /\ \A j \in UsableKeys(p) : j <= k
                                 /\ token' = [kid |-> k, exp |-> now + TokenTTL]
  BY DEF GenerateToken
<1>2. now \in Nat /\ k \in Nat /\ k \in DOMAIN keys[p] /\ secret \subseteq Nat
  BY DEF Shape, TypeOK, UsableKeys
<1>3. UNCHANGED <<now, secret, lost, retry>>
  BY DEF GenerateToken
<1>4. SignedAt' = now /\ token'.kid = k
  BY <1>1, <1>2 DEF SignedAt
<1>5. \A j \in secret : j > k => now < j + Lag + NewKeyUseDelay
  BY <1>1, NewerIsRecent
<1>6. CASE k \in secret
  BY <1>2, <1>3, <1>4, <1>5, <1>6 DEF TokenSpan
<1>7. CASE k \notin secret
  <2>1. \A j \in secret : k < j
    BY <1>2, <1>7 DEF Schedule, PrunedOlder
  <2>2. ASSUME lost = 0
        PROVE  now + Intervals * RotationInterval < now + Lag + NewKeyUseDelay + Jitter
    <3>1. 0 \notin secret
      BY <1>2, <2>1
    <3>2. PICK j \in secret : Old(j)
      BY <3>1 DEF Schedule, OldKept
    <3>3. retry = Never
      BY <2>2 DEF Schedule, Scheduled
    <3>7. Repeated = 0
      BY <2>2, <3>3 DEF Repeated
    <3>4. j + (Intervals - 0) * RotationInterval <= now + Jitter
      BY <3>2, <3>7 DEF Old
    <3>5. now < j + Lag + NewKeyUseDelay /\ j \in Nat
      BY <1>2, <1>5, <2>1, <3>2
    <3> QED BY <1>2, <3>4, <3>5, OldAndRecent
  <2> QED BY <1>2, <1>3, <1>4, <1>7, <2>2 DEF TokenSpan, Intervals
<1> QED BY <1>6, <1>7

\* Every step keeps it.
LEMMA NextTokenSpan ==
  ASSUME Shape, Schedule, TokenSpan, NewKeyUseDelay >= 1, [Next]_vars
  PROVE  TokenSpan'
<1>1. CASE Job \/ JobLosesAnswer
  BY <1>1, RotationTokenSpan
<1>2. ASSUME NEW p \in Replicas, GenerateToken(p) PROVE TokenSpan'
  BY <1>2, SigningTokenSpan
<1>3. CASE Tick
  <2> DEFINE ii == Intervals * RotationInterval
  <2>1. /\ now \in Nat /\ now' = now + 1 /\ UNCHANGED <<secret, token, lost>>
        /\ SignedAt \in Int /\ SignedAt' = SignedAt
    BY <1>3, RotationAssumption DEF Tick, Shape, TypeOK, SignedAt
  <2>2. ii \in Int /\ Lag \in Nat /\ NewKeyUseDelay \in Nat /\ Jitter \in Nat
    BY KeysKept, RotationAssumption
  <2>3. TokenSpan' <=>
          /\ SignedAt <= now + 1
          /\ lost = 0 =>
               IF token.kid \in secret
               THEN \A j \in secret : j > token.kid => SignedAt < j + Lag + NewKeyUseDelay
               ELSE SignedAt + ii < now + 1 + Lag + NewKeyUseDelay + Jitter
    BY <2>1 DEF TokenSpan, Intervals
  <2>4. TokenSpan <=>
          /\ SignedAt <= now
          /\ lost = 0 =>
               IF token.kid \in secret
               THEN \A j \in secret : j > token.kid => SignedAt < j + Lag + NewKeyUseDelay
               ELSE SignedAt + ii < now + Lag + NewKeyUseDelay + Jitter
    BY DEF TokenSpan
  <2> HIDE DEF ii
  <2> QED BY <2>1, <2>2, <2>3, <2>4
<1>4. CASE UNCHANGED <<now, secret, token, lost>>
  BY <1>4 DEF TokenSpan, SignedAt, Intervals
<1>5. ASSUME NEW p \in Replicas, SecretEvent(p) \/ RetrieveInitialSecret(p) PROVE TokenSpan'
  BY <1>5, <1>4 DEF SecretEvent, RetrieveInitialSecret
<1>6. CASE JobMissed \/ UNCHANGED vars
  BY <1>6, <1>4 DEF JobMissed, vars
<1> QED BY <1>1, <1>2, <1>3, <1>5, <1>6 DEF Next

\* Every step keeps the key of the token known, when a new key is delivered before its
\* cool-off is over.
LEMMA NextTokens ==
  ASSUME Lag < NewKeyUseDelay, Shape, TokensInv, [Next]_vars
  PROVE  TokensInv'
<1> USE RotationAssumption
<1>1. CASE Job \/ JobLosesAnswer
  <2>1. RotateSecret /\ UNCHANGED <<now, keys, token>>
    BY <1>1 DEF Job, JobLosesAnswer
  <2>2. now \notin secret /\ secret' \subseteq secret \cup {now}
    BY <2>1 DEF RotateSecret, Latest
  <2>3. token.kid \in secret \/ token.kid < now
    BY DEF TokensInv, NeverRemade
  <2>4. token.kid # now
    BY <2>2, <2>3 DEF Shape, TypeOK
  <2>5. token.kid < now \/ token.kid \in secret'
    BY <2>2, <2>3, <2>4 DEF Shape, TypeOK, Made
  <2> QED BY <2>1, <2>2, <2>4, <2>5 DEF TokensInv, NeverRemade, TokensKnownEverywhere
<1>2. CASE Tick
  BY <1>2 DEF Tick, Shape, TypeOK, Made, TokensInv, NeverRemade, TokensKnownEverywhere
<1>3. ASSUME NEW p \in Replicas, SecretEvent(p) \/ RetrieveInitialSecret(p) PROVE TokensInv'
  <2>1. UNCHANGED <<now, secret, token>> /\ DOMAIN keys' = Replicas
    BY <1>3 DEF SecretEvent, RetrieveInitialSecret, Shape, TypeOK
  <2>2. DOMAIN keys'[p] = secret /\ \A q \in Replicas \ {p} : keys'[q] = keys[q]
    BY <1>3 DEF SecretEvent, RetrieveInitialSecret, UpdateKeys, Shape, TypeOK
  <2> QED BY <2>1, <2>2 DEF TokensInv, NeverRemade, TokensKnownEverywhere
<1>4. ASSUME NEW p \in Replicas, GenerateToken(p) PROVE TokensInv'
  <2>1. PICK k \in UsableKeys(p) : token' = [kid |-> k, exp |-> now + TokenTTL]
    BY <1>4 DEF GenerateToken
  <2>2. k \in Nat /\ k + Lag < now
    BY <2>1 DEF UsableKeys, Shape, TypeOK, Seen
  <2>3. NeverRemade'
    BY <1>4, <2>1, <2>2 DEF GenerateToken, NeverRemade, Shape, TypeOK
  <2>4. \A q \in Replicas : k \in secret => k \in DOMAIN keys[q]
    BY <2>2 DEF Shape, TypeOK, Delivered
  <2>5. TokensKnownEverywhere'
    BY <1>4, <2>1, <2>4 DEF GenerateToken, TokensKnownEverywhere
  <2> QED BY <2>3, <2>5 DEF TokensInv
<1>5. CASE JobMissed \/ UNCHANGED vars
  BY <1>5 DEF JobMissed, vars, TokensInv, NeverRemade, TokensKnownEverywhere
<1> QED BY <1>1, <1>2, <1>3, <1>4, <1>5 DEF Next

-----------------------------------------------------------------------------
(* The theorems *)

\* Every variable always has its type: the rotator, the delivery of the Secret and
\* pruning leave a set of keys with their times in every replica.
THEOREM TypeCorrect == Spec => []TypeOK
<1>1. Init => Shape /\ Schedule
  BY InitInv
<1>2. Shape /\ Schedule /\ [Next]_vars => (Shape /\ Schedule)'
  BY NextInv
<1>3. Shape => TypeOK
  BY DEF Shape
<1> QED BY <1>1, <1>2, <1>3, PTL DEF Spec

\* Whatever the number of replicas, the schedule and the lifetime of tokens, and
\* however often replicas restart and jobs are run twice: a token that a replica has
\* signed (GenerateToken) is known to all of them until its key is pruned, when the
\* cool-off newKeyUseDelay is longer than it takes to deliver a new key.
THEOREM TokensAlwaysKnown ==
  Lag < NewKeyUseDelay => (Spec => []TokensKnownEverywhere)
<1> SUFFICES ASSUME Lag < NewKeyUseDelay PROVE Spec => []TokensKnownEverywhere
  OBVIOUS
<1>1. Init => Shape /\ Schedule /\ TokensInv
  BY InitInv DEF Init, TokensInv, NeverRemade, TokensKnownEverywhere
<1>2. Shape /\ Schedule /\ TokensInv /\ [Next]_vars => (Shape /\ Schedule /\ TokensInv)'
  BY NextInv, NextTokens
<1>3. TokensInv => TokensKnownEverywhere
  BY DEF TokensInv
<1> QED BY <1>1, <1>2, <1>3, PTL DEF Spec

\* Whatever the lifetime of tokens, the schedule and its jitter, and however late a
\* replica learns of a key or restarts: as long as no job has rotated twice, the key of
\* a token is in the Secret until the shortfall before the token expires.  So
\* deriveNumberOfKeys keeps enough keys.
THEOREM KeysOutliveTokens ==
  NewKeyUseDelay >= 1 => (Spec => []KeyOutlivesToken)
<1> SUFFICES ASSUME NewKeyUseDelay >= 1 PROVE Spec => []KeyOutlivesToken
  OBVIOUS
<1>1. Init => Shape /\ Schedule /\ TokenSpan
  BY InitInv, RotationAssumption DEF Init, TokenSpan, SignedAt
<1>2. Shape /\ Schedule /\ TokenSpan /\ [Next]_vars => (Shape /\ Schedule /\ TokenSpan)'
  BY NextInv, NextTokenSpan
<1>3. Shape /\ TokenSpan => KeyOutlivesToken
  <2> SUFFICES ASSUME Shape, TokenSpan, lost = 0, token.kid \notin secret
               PROVE  ~(now + Shortfall < token.exp)
    BY DEF KeyOutlivesToken
  <2> DEFINE ii == Intervals * RotationInterval
             late == Lag + NewKeyUseDelay - 1 + Jitter
             spare == ii - TokenTTL
  <2>1. now \in Nat /\ token.exp \in Nat /\ Lag \in Nat /\ NewKeyUseDelay \in Nat
        /\ Jitter \in Nat /\ TokenTTL \in Nat
    BY RotationAssumption DEF Shape, TypeOK
  <2>2. ii \in Int
    BY KeysKept, RotationAssumption
  <2>3. token.exp - TokenTTL + ii < now + Lag + NewKeyUseDelay + Jitter
    BY DEF TokenSpan, SignedAt
  <2>4. Shortfall = IF late > spare THEN late - spare ELSE 0
    BY DEF Shortfall, Intervals
  <2> HIDE DEF ii
  <2> QED BY <2>1, <2>2, <2>3, <2>4
<1> QED BY <1>1, <1>2, <1>3, PTL DEF Spec

\* A replica that is up for longer than the cool-off always has a key to sign with, if
\* the keys that are kept span delivery, cool-off and jitter even after as many jobs
\* have rotated twice as the bound allows: some of them is old enough in every replica,
\* however late it learnt of the others.
THEOREM SigningAlwaysAvailable ==
  Lag + NewKeyUseDelay + Jitter <= (Intervals - MaxLost) * RotationInterval
    => (Spec => []SigningAvailable)
<1> SUFFICES ASSUME Lag + NewKeyUseDelay + Jitter <= (Intervals - MaxLost) * RotationInterval
             PROVE  Spec => []SigningAvailable
  OBVIOUS
<1>1. Init => Shape /\ Schedule
  BY InitInv
<1>2. Shape /\ Schedule /\ [Next]_vars => (Shape /\ Schedule)'
  BY NextInv
<1>3. Shape /\ Schedule => SigningAvailable
  <2> SUFFICES ASSUME Shape, Schedule, NEW p \in Replicas,
                      now - started[p] >= NewKeyUseDelay
               PROVE  UsableKeys(p) # {}
    BY DEF SigningAvailable
  <2>1. PICK k \in DOMAIN keys[p] : keys[p][k] <= started[p] \/ Old(k)
    BY DEF Schedule, OldKnown
  <2>2. now \in Nat /\ k \in Nat /\ keys[p][k] \in Nat /\ started[p] \in Nat /\ Lag \in Nat
        /\ NewKeyUseDelay \in Nat /\ Jitter \in Nat /\ MaxLost \in Nat
    BY RotationAssumption DEF Shape, TypeOK
  <2>3. CASE keys[p][k] <= started[p]
    BY <2>1, <2>2, <2>3 DEF UsableKeys
  <2>4. CASE Old(k) /\ keys[p][k] > started[p]
    <3>1. Repeated \in Nat /\ Repeated <= MaxLost
      BY RepeatedType DEF Shape, Schedule
    <3>2. k + (Intervals - MaxLost) * RotationInterval <= now + Jitter
      BY <2>2, <2>4, <3>1, Older DEF Old
    <3> DEFINE span == (Intervals - MaxLost) * RotationInterval
    <3>3. span \in Int
      BY KeysKept, RotationAssumption
    <3>4. Lag + NewKeyUseDelay + Jitter <= span /\ k + span <= now + Jitter
      BY <3>2
    <3> HIDE DEF span
    <3>5. keys[p][k] <= k + Lag
      BY <2>1, <2>2, <2>4 DEF Shape, Seen
    <3>6. now - keys[p][k] >= NewKeyUseDelay
      BY <2>2, <3>3, <3>4, <3>5
    <3> QED BY <3>6 DEF UsableKeys
  <2> QED BY <2>1, <2>2, <2>3, <2>4
<1> QED BY <1>1, <1>2, <1>3, PTL DEF Spec
=============================================================================
