----------------------------- MODULE KeyRotation -----------------------------
(***************************************************************************)
(* The keys that tokens are signed with: the rotator job (internal/rotator,*)
(* cmd/rotator) that writes them to a Secret, and the replicas that sign   *)
(* and validate with the keys they have seen (StandardSigner and its       *)
(* Secret watch in internal/jwt).  The extension API and the auth          *)
(* middleware each have a Secret, a job and replicas of this kind.         *)
(*                                                                         *)
(* A key is its id, the time it was made.  A replica holds, for every key  *)
(* it has seen, when it saw it.  A behaviour follows one token at a time.  *)
(***************************************************************************)
EXTENDS Integers, FiniteSets

CONSTANTS
  Replicas,
  TokenTTL, RotationInterval, NewKeyUseDelay,
  Lag,          \* a change of the Secret reaches every replica within this time
  Jitter,       \* a job starts at most this long after its time
  RetryDelay,   \* a failed job is run again after this time
  MaxLost,      \* bound on jobs whose update is stored and reported as failed
  MaxRestarts,  \* bound on restarts of replicas
  MaxTime       \* bound on time

ASSUME RotationAssumption ==
  /\ TokenTTL \in Nat /\ RotationInterval \in Nat \ {0} /\ NewKeyUseDelay \in Nat
  /\ Lag \in Nat /\ Jitter \in Nat /\ RetryDelay \in Nat
  /\ MaxLost \in Nat /\ MaxRestarts \in Nat /\ MaxTime \in Nat

VARIABLES
  now,
  secret,          \* the keys in the Secret
  slot,            \* when the CronJob is due next
  retry,           \* from when on a failed job is run again, or Never
  keys,            \* signingKeys and keyAddedTimes of every replica
  started,         \* when a replica started
  token,           \* the token that is followed: its kid and when it expires
  lost, restarts

vars == <<now, secret, slot, retry, keys, started, token, lost, restarts>>

-----------------------------------------------------------------------------
(* The rotator *)

\* Variant: as many keys as intervals in the lifetime of a token.
DerivedWithoutPrevious(ttl, interval) == (ttl + interval - 1) \div interval

\* ceil(ttl / interval) + 1.
deriveNumberOfKeys(ttl, interval) == (ttl + interval - 1) \div interval + 1

NumberOfKeys == deriveNumberOfKeys(TokenTTL, RotationInterval)

\* The n newest keys.
Latest(S, n) == {k \in S : Cardinality({j \in S : j > k}) < n}

\* A job stores a new key and prunes the oldest ones.  It refuses to overwrite a
\* key made in the same second.
RotateSecret ==
  /\ now \notin secret
  /\ secret' = Latest(secret \cup {now}, NumberOfKeys)

Never == -1
Retried == retry # Never /\ retry <= now
JobDue == Retried \/ (retry = Never /\ slot <= now /\ now <= slot + Jitter)
NextSlot == IF Retried THEN slot ELSE slot + RotationInterval

Job ==
  /\ JobDue /\ RotateSecret
  /\ retry' = Never /\ slot' = NextSlot
  /\ UNCHANGED <<now, keys, started, token, lost, restarts>>

\* The update is stored but its answer is lost: the job exits with an error and
\* is run again (restartPolicy OnFailure).
JobLosesAnswer ==
  /\ lost < MaxLost /\ lost' = lost + 1
  /\ JobDue /\ RotateSecret
  /\ retry' = now + RetryDelay /\ slot' = NextSlot
  /\ UNCHANGED <<now, keys, started, token, restarts>>

\* A job that never runs, or fails as often as it is tried.
JobMissed ==
  /\ slot <= now
  /\ retry' = Never /\ slot' = slot + RotationInterval
  /\ UNCHANGED <<now, secret, keys, started, token, lost, restarts>>

-----------------------------------------------------------------------------
(* The replicas *)

\* Variant: every key counts as seen when the Secret was last updated.
UpdatedAnew(old, S) == [k \in S |-> now]

\* The new key set: keys that were there keep the time they were seen.
UpdateKeys(old, S) == [k \in S |-> IF k \in DOMAIN old THEN old[k] ELSE now]

\* The Secret watch hands the current Secret to a replica.
SecretEvent(p) ==
  /\ DOMAIN keys[p] # secret
  /\ keys' = [keys EXCEPT ![p] = UpdateKeys(keys[p], secret)]
  /\ UNCHANGED <<now, secret, slot, retry, started, token, lost, restarts>>

\* A replica starts with what it reads from the Secret.
RetrieveInitialSecret(p) ==
  /\ restarts < MaxRestarts /\ restarts' = restarts + 1
  /\ keys' = [keys EXCEPT ![p] = [k \in secret |-> now]]
  /\ started' = [started EXCEPT ![p] = now]
  /\ UNCHANGED <<now, secret, slot, retry, token, lost>>

\* Variant: no cool-off.
KnownKeys(p) == DOMAIN keys[p]

\* The keys of a replica that are past the cool-off.
UsableKeys(p) == {k \in DOMAIN keys[p] : now - keys[p][k] >= NewKeyUseDelay}

\* A replica signs with the newest usable key, and returns an error without one.
GenerateToken(p) ==
  /\ \E k \in UsableKeys(p) :
       /\ \A j \in UsableKeys(p) : j <= k
       /\ token' = [kid |-> k, exp |-> now + TokenTTL]
  /\ UNCHANGED <<now, secret, slot, retry, keys, started, lost, restarts>>

\* A second passes.  No replica is behind for longer than Lag.
Tick ==
  /\ now < MaxTime /\ now' = now + 1
  /\ \A p \in Replicas : \A k \in secret \ DOMAIN keys[p] : now < k + Lag
  /\ UNCHANGED <<secret, slot, retry, keys, started, token, lost, restarts>>

\* A Secret with one key that all replicas know, and no token yet.
Init ==
  /\ now = 0 /\ secret = {0}
  /\ slot = RotationInterval /\ retry = Never
  /\ keys = [p \in Replicas |-> [k \in {0} |-> 0]]
  /\ started = [p \in Replicas |-> 0]
  /\ token = [kid |-> 0, exp |-> 0]
  /\ lost = 0 /\ restarts = 0

Next ==
  \/ Job \/ JobLosesAnswer \/ JobMissed \/ Tick
  \/ \E p \in Replicas : SecretEvent(p) \/ RetrieveInitialSecret(p) \/ GenerateToken(p)

Spec == Init /\ [][Next]_vars

-----------------------------------------------------------------------------
(* Properties *)

\* Every variable has its type.
TypeOK ==
  /\ now \in Nat /\ secret \in SUBSET Nat /\ slot \in Nat /\ retry \in Nat \cup {Never}
  /\ DOMAIN keys = Replicas
  /\ \A p \in Replicas : DOMAIN keys[p] \subseteq Nat
  /\ \A p \in Replicas : \A k \in DOMAIN keys[p] : keys[p][k] \in Nat
  /\ started \in [Replicas -> Nat] /\ token \in [kid: Nat, exp: Nat]
  /\ lost \in Nat /\ restarts \in Nat

\* A token one replica has signed is known to all of them, from the moment it is
\* signed until its key is pruned: the cool-off (getLatestKidAndKeyWithCoolOff)
\* outlasts the delivery of a new key to the slowest replica, and restarts do not
\* cut it short.
TokensKnownEverywhere ==
  token.kid \in secret => \A p \in Replicas : token.kid \in DOMAIN keys[p]

\* The end of a token's life for which its key may be missing: replicas go on
\* signing with a key up to the last second of the cool-off of its successor, which
\* starts when the successor is delivered, and jobs are not punctual; what rounding
\* up the number of keys adds makes up for it.
Shortfall ==
  LET intervals == (TokenTTL + RotationInterval - 1) \div RotationInterval
      spare == intervals * RotationInterval - TokenTTL
      late == Lag + NewKeyUseDelay - 1 + Jitter
  IN  IF late > spare THEN late - spare ELSE 0

\* The key of a token is kept for the token's life, but for the shortfall:
\* deriveNumberOfKeys retains enough keys for the schedule, as long as no job
\* rotates twice because the answer to its update was lost.
KeyOutlivesToken ==
  (lost = 0 /\ now + Shortfall < token.exp) => token.kid \in secret

\* A replica that is up for longer than the cool-off has a key to sign with:
\* "the previous signing key is always available during rotation".
SigningAvailable ==
  \A p \in Replicas : now - started[p] >= NewKeyUseDelay => UsableKeys(p) # {}
=============================================================================
