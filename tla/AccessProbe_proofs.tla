-------------------------- MODULE AccessProbe_proofs --------------------------
(***************************************************************************)
(* The probe's status is earned, its gate holds and its requests keep      *)
(* their distance, for all settings of the probe and all bounds.           *)
(*                                                                         *)
(* The invariant follows the working copy: as long as it is current it is  *)
(* the stored status until the probe, and what it holds after the probe is *)
(* earned by the answers so far.  Nothing is known of an old copy, nor is  *)
(* it needed, since the server refuses it.                                 *)
(***************************************************************************)
EXTENDS AccessProbe, TLAPS

\* Numbers of failures, and Nil.
Counts == {n \in Int : n >= -1}

\* As Status, with any integer for the deadline.
Copy == [ref: Refs, desired: {"Running", "Stopped"}, obs: 0 .. MaxVersion,
         failures: Counts, wait: Int, succeeded: BOOLEAN,
         cond: {"Starting", "Available", "Degraded", "Stopped"}]

Types ==
  /\ ws \in Copy /\ cache \in Copy /\ mem \in Copy
  /\ strat \in Versions /\ asRead \in 0 .. Plain
  /\ cacheFresh \in BOOLEAN /\ memFresh \in BOOLEAN /\ routeUp \in BOOLEAN
  /\ passed \in SUBSET Versions /\ failed \in [Versions -> Int]
  /\ \A v \in Versions : 0 <= failed[v] /\ failed[v] <= MaxCounted
  /\ fraction \in 0 .. Second - 1

\* What a copy of the status records has happened.
Earned(w) ==
  /\ w.succeeded => w.obs \in passed
  /\ w.failures > 0 => w.obs \in Versions /\ w.failures <= failed[w.obs]

\* What the result of the probe says about the copy it comes with.
Fits(w, r) ==
  /\ Earned(w)
  /\ r = "Stopped" => ~w.succeeded /\ w.failures = Nil
  /\ r = "ThresholdExceeded" => w.failures >= Threshold
  /\ r \in {"Succeeded", "AlreadySucceeded"} => w.succeeded /\ w.obs = asRead
  /\ asRead \in Versions
       => r \in {"Succeeded", "AlreadySucceeded", "Retrying", "PendingRetry",
                 "ThresholdExceeded"}

IInv ==
  /\ Types
  /\ Earned(ws)
  /\ ws.cond = "Degraded" => ws.failures >= Threshold
  /\ cacheFresh => cache = ws
  /\ pc = "probe" => asRead \in Versions \cup {Plain}
  /\ pc \in {"stop", "noAccess"} => asRead = 0
  /\ (pc # "idle" /\ pc # "write" /\ memFresh) => mem = ws
  /\ (pc = "write" /\ memFresh) => Fits(mem, result)

-----------------------------------------------------------------------------
(* The probe *)

\* The resolved settings are positive.
LEMMA Settings == Threshold \in Nat \ {0} /\ Period \in Nat \ {0}
BY ProbeAssumption DEF Threshold, Period

\* Seconds in ticks: a number of them is a number, and the order is kept.
LEMMA TicksGrow ==
  /\ Second \in Nat /\ Second >= 1 /\ 0 \in 0 .. Second - 1
  /\ \A n \in Int : Ticks(n) \in Int
  /\ \A n \in Nat : Ticks(n) \in Nat
  /\ \A m, n \in Int : m <= n => Ticks(m) <= Ticks(n)
<1>1. Second \in Nat /\ Second >= 1 /\ 0 \in 0 .. Second - 1
  BY ProbeAssumption
<1>2. ASSUME NEW m \in Int, NEW n \in Int, m <= n PROVE m * Second <= n * Second
  BY <1>1, <1>2
<1>3. ASSUME NEW n \in Nat PROVE n * Second \in Nat
  BY <1>1
<1> QED BY <1>1, <1>2, <1>3 DEF Ticks

\* The fraction of a deadline is less than a second.
LEMMA FractionsSmall == \A r : Fractions(r) \subseteq 0 .. Second - 1
BY TicksGrow DEF Fractions

\* The retry interval is a number.
LEMMA RetryIsNumber ==
  ASSUME NEW n \in Nat
  PROVE  probeRetrySeconds(n) \in Int
<1> DEFINE start == IF Threshold > ProbeBackoffThreshold
                    THEN Threshold - ProbeBackoffThreshold ELSE 0
<1>1. start \in Nat
  BY Settings, ProbeAssumption
<1>2. ASSUME n > start PROVE Period * 2 ^ (n - start) \in Int
  <2>1. n - start \in Nat
    BY <1>1, <1>2
  <2>2. ASSUME NEW k \in Nat PROVE 2 ^ k \in Int
    BY SMT
  <2> QED BY <2>1, <2>2, Settings
<1> HIDE DEF start
<1>3. probeRetrySeconds(n) = IF n <= start THEN Period ELSE Capped(Period * 2 ^ (n - start))
  BY DEF probeRetrySeconds, start
<1> QED BY <1>1, <1>2, <1>3, Settings, ProbeAssumption DEF Capped

\* The failures and the deadline of a copy are set.
LEMMA Setting ==
  ASSUME NEW w \in Copy, NEW f \in Counts, NEW t \in Int
  PROVE  /\ ProbeState(w, f, t) \in Copy
         /\ ProbeState(w, f, t).failures = f
         /\ ProbeState(w, f, t).succeeded = w.succeeded
         /\ ProbeState(w, f, t).obs = w.obs
BY DEF Copy, ProbeState

\* Clearing the probe state leaves a copy without failures, and the rest alone.
LEMMA Clearing ==
  ASSUME NEW w \in Copy
  PROVE  /\ clearProbeState(w) \in Copy
         /\ clearProbeState(w).failures = Nil
         /\ clearProbeState(w).succeeded = w.succeeded
         /\ clearProbeState(w).obs = w.obs
<1>1. Nil \in Counts /\ 0 \in Int
  BY DEF Nil, Counts
<1> QED BY <1>1, Setting DEF clearProbeState

\* The copy is brought to the version that was read: what it then records is
\* earned if it was before.
LEMMA VersionReset ==
  ASSUME NEW w \in Copy, NEW v \in Versions
  PROVE  /\ ForVersion(w, v) \in Copy
         /\ ForVersion(w, v).obs = v
         /\ Earned(w) => Earned(ForVersion(w, v))
<1> DEFINE c == clearProbeState(w)
           n == [c EXCEPT !.succeeded = FALSE, !.obs = v]
<1>1. CASE w.obs = v
  BY <1>1 DEF ForVersion
<1>2. CASE w.obs # v
  <2>1. c \in Copy /\ c.failures = Nil
    BY Clearing
  <2>2. v \in 0 .. MaxVersion
    BY ProbeAssumption DEF Versions
  <2> HIDE DEF c
  <2>3. n \in Copy /\ n.obs = v /\ n.succeeded = FALSE /\ n.failures = Nil
    BY <2>1, <2>2 DEF Copy
  <2>4. ForVersion(w, v) = n
    BY <1>2 DEF ForVersion, c
  <2> QED BY <2>3, <2>4 DEF Earned, Nil
<1> QED BY <1>1, <1>2

\* A cycle without a request.
LEMMA UnprobedFits ==
  ASSUME NEW w \in Copy
  PROVE  /\ Unprobed(w).w \in Copy
         /\ Unprobed(w).w.obs = w.obs
         /\ Earned(w) => Earned(Unprobed(w).w)
         /\ Unprobed(w).status = "ThresholdExceeded" => Unprobed(w).w.failures >= Threshold
         /\ Unprobed(w).status = "AlreadySucceeded" => Unprobed(w).w.succeeded
         /\ Unprobed(w).status \in {"AlreadySucceeded", "Retrying", "PendingRetry",
                                    "ThresholdExceeded"}
<1> DEFINE d == ProbeState(w, 0, Ticks(InitialDelaySeconds))
<1>1. d \in Copy /\ d.obs = w.obs /\ d.failures = 0 /\ d.succeeded = w.succeeded
  <2>1. Ticks(InitialDelaySeconds) \in Int /\ 0 \in Counts
    BY ProbeAssumption, TicksGrow DEF Counts
  <2> QED BY <2>1, Setting
<1>2. Earned(w) => Earned(d)
  BY <1>1 DEF Earned
<1> HIDE DEF d
<1>3. Unprobed(w) = IF w.succeeded THEN [status |-> "AlreadySucceeded", w |-> w]
                    ELSE IF w.failures >= Threshold
                         THEN [status |-> "ThresholdExceeded", w |-> w]
                    ELSE IF w.failures = Nil THEN [status |-> "Retrying", w |-> d]
                    ELSE [status |-> "PendingRetry", w |-> w]
  BY DEF Unprobed, d
<1> QED BY <1>1, <1>2, <1>3

\* A request that fails adds one to the count.
LEMMA FailedFits ==
  ASSUME NEW w \in Copy
  PROVE  LET n == (IF w.failures = Nil THEN 0 ELSE w.failures) + 1
         IN  /\ Failed(w).w \in Copy
             /\ Failed(w).w.obs = w.obs
             /\ Failed(w).w.failures = n
             /\ Failed(w).w.succeeded = w.succeeded
             /\ Failed(w).status = "ThresholdExceeded" => n >= Threshold
             /\ Failed(w).status \in {"Retrying", "ThresholdExceeded"}
<1> DEFINE n == (IF w.failures = Nil THEN 0 ELSE w.failures) + 1
           a == ProbeState(w, n, 0)
           b == ProbeState(w, n, Ticks(probeRetrySeconds(n)))
<1>1. n \in Nat /\ n \in Counts
  BY DEF Copy, Nil, Counts
<1>2. Failed(w) = IF n >= Threshold THEN [status |-> "ThresholdExceeded", w |-> a]
                  ELSE [status |-> "Retrying", w |-> b]
  BY DEF Failed
<1> HIDE DEF n
<1>4. a \in Copy /\ a.obs = w.obs /\ a.failures = n /\ a.succeeded = w.succeeded
  BY <1>1, Setting
<1>5. Ticks(probeRetrySeconds(n)) \in Int
  BY <1>1, RetryIsNumber, TicksGrow
<1>6. b \in Copy /\ b.obs = w.obs /\ b.failures = n /\ b.succeeded = w.succeeded
  BY <1>1, <1>5, Setting
<1> HIDE DEF a, b
<1> QED BY <1>2, <1>4, <1>6 DEF n

\* A request that is answered records the success and no failures.
LEMMA SucceededFits ==
  ASSUME NEW w \in Copy
  PROVE  /\ Succeeded(w).w \in Copy
         /\ Succeeded(w).w.obs = w.obs
         /\ Succeeded(w).w.failures = Nil
         /\ Succeeded(w).w.succeeded
         /\ Succeeded(w).status = "Succeeded"
<1> DEFINE c == clearProbeState(w)
           n == [c EXCEPT !.succeeded = TRUE]
<1>1. c \in Copy /\ c.failures = Nil /\ c.obs = w.obs
  BY Clearing
<1> HIDE DEF c
<1>2. n \in Copy /\ n.obs = w.obs /\ n.failures = Nil /\ n.succeeded
  BY <1>1 DEF Copy
<1>3. Succeeded(w) = [status |-> "Succeeded", w |-> n]
  BY DEF Succeeded, c
<1> HIDE DEF n
<1> QED BY <1>2, <1>3

-----------------------------------------------------------------------------
(* The steps *)

\* The copy a pass ends with.
LEMMA NoStatusIsCopy == NoStatus \in Copy
BY ProbeAssumption DEF NoStatus, Copy, Refs, Nil, Counts

\* The initial states.
LEMMA InitEarned == Init => IInv
<1> SUFFICES ASSUME Init PROVE IInv
  OBVIOUS
<1>0. 1 \in Versions /\ 0 \in 0 .. Plain /\ 0 \in Int /\ 0 <= MaxCounted
        /\ 0 \in 0 .. Second - 1
  BY ProbeAssumption, TicksGrow DEF Versions, Plain
<1>1. Types
  <2>1. failed \in [Versions -> Int]
          /\ \A v \in Versions : 0 <= failed[v] /\ failed[v] <= MaxCounted
    BY <1>0 DEF Init
  <2>2. passed \in SUBSET Versions
    BY DEF Init
  <2>3. ws \in Copy /\ cache \in Copy /\ mem \in Copy
    BY NoStatusIsCopy DEF Init
  <2>4. /\ strat \in Versions /\ asRead \in 0 .. Plain /\ fraction \in 0 .. Second - 1
        /\ cacheFresh \in BOOLEAN /\ memFresh \in BOOLEAN /\ routeUp \in BOOLEAN
    BY <1>0 DEF Init
  <2> QED BY <2>1, <2>2, <2>3, <2>4 DEF Types
<1>2. ws.failures = Nil /\ ws.succeeded = FALSE /\ ws.cond = "Starting"
  BY DEF Init, NoStatus
<1> QED BY <1>1, <1>2 DEF Init, IInv, Earned, Nil

\* Steps that leave the pass, its copy and the status alone, except for making
\* copies old.
LEMMA OutsideStep ==
  ASSUME IInv, Types', ws' = ws, UNCHANGED <<pc, mem, asRead, result, passed, failed>>,
         memFresh' => memFresh, cacheFresh' => cache' = ws'
  PROVE  IInv'
BY DEF IInv, Earned, Fits

\* Steps that end the pass without a word to the server.
LEMMA EndStep ==
  ASSUME IInv, EndPass, ws' = ws, UNCHANGED <<passed, failed, strat, routeUp>>,
         cache' \in Copy, cacheFresh' \in BOOLEAN, cacheFresh' => cache' = ws'
  PROVE  IInv'
<1>0. 0 \in 0 .. Plain /\ 0 \in 0 .. Second - 1
  BY ProbeAssumption, TicksGrow DEF Plain
<1>1. Types'
  BY <1>0, NoStatusIsCopy DEF IInv, Types, EndPass
<1> QED BY <1>1 DEF IInv, Earned, EndPass

\* The steps of a pass before its status write, other than a request.
LEMMA PassSteps ==
  ASSUME IInv, Reconcile \/ ClearAccess \/ ProbeNotDefined \/ SkipProbe \/ ProbeError
  PROVE  IInv'
<1>0. Types /\ 0 \in 0 .. Plain /\ Plain \in 0 .. Plain /\ Versions \subseteq 0 .. Plain
        /\ Plain \notin Versions /\ 0 \notin Versions /\ 0 \in 0 .. MaxVersion
  BY ProbeAssumption DEF IInv, Plain, Versions
<1>1. CASE Reconcile
  <2>1. asRead' \in {0, strat, Plain} /\ pc' \in {"stop", "noAccess", "probe"}
    BY <1>1 DEF Reconcile
  <2>2. pc' = "probe" => asRead' \in Versions \cup {Plain}
    BY <1>0, <1>1 DEF Reconcile, Types
  <2>3. pc' \in {"stop", "noAccess"} => asRead' = 0
    BY <1>1 DEF Reconcile
  <2>4. Types'
    BY <1>0, <1>1, <2>1 DEF Types, Reconcile, statusVars, envVars, historyVars
  <2> QED BY <1>1, <2>1, <2>2, <2>3, <2>4
             DEF IInv, Earned, Reconcile, statusVars, envVars, historyVars
<1>2. CASE ClearAccess
  <2> DEFINE c == clearProbeState(mem)
             n == [c EXCEPT !.succeeded = FALSE, !.obs = 0]
  <2>1. c \in Copy /\ c.failures = Nil
    BY <1>0, Clearing DEF Types
  <2> HIDE DEF c
  <2>2. n \in Copy /\ n.succeeded = FALSE /\ n.failures = Nil
    BY <1>0, <2>1 DEF Copy
  <2>3. mem' = n
    BY <1>2 DEF ClearAccess, c
  <2> HIDE DEF n
  <2>4. Types'
    BY <1>0, <1>2, <2>2, <2>3 DEF Types, ClearAccess, statusVars, envVars, historyVars
  <2>5. asRead = 0 /\ result' \in {"Stopped", "NotDefined"} /\ pc' = "write"
    BY <1>2 DEF IInv, ClearAccess
  <2>6. Fits(mem, result)'
    <3>1. Earned(mem)'
      BY <2>2, <2>3 DEF Earned, Nil
    <3>2. asRead' \notin Versions
      BY <1>0, <1>2, <2>5 DEF ClearAccess
    <3> QED BY <2>2, <2>3, <2>5, <3>1, <3>2 DEF Fits
  <2> QED BY <1>2, <2>4, <2>5, <2>6 DEF IInv, Earned, ClearAccess, statusVars, historyVars
<1>3. CASE ProbeNotDefined
  <2>1. Types'
    BY <1>0, <1>3 DEF Types, ProbeNotDefined, statusVars, envVars, historyVars
  <2> QED BY <1>0, <1>3, <2>1 DEF IInv, Fits, Earned, ProbeNotDefined, statusVars, historyVars
<1>4. CASE SkipProbe
  <2> DEFINE w == ForVersion(mem, asRead)
  <2>1. asRead \in Versions /\ mem \in Copy
    BY <1>0, <1>4 DEF SkipProbe, IInv, Types
  <2>2. w \in Copy /\ w.obs = asRead /\ (Earned(mem) => Earned(w))
    BY <2>1, VersionReset
  <2>3. mem' = Unprobed(w).w /\ result' = Unprobed(w).status
    BY <1>4 DEF SkipProbe
  <2> HIDE DEF w
  <2>4. /\ Unprobed(w).w \in Copy /\ Unprobed(w).w.obs = w.obs
        /\ Earned(w) => Earned(Unprobed(w).w)
        /\ Unprobed(w).status = "ThresholdExceeded" => Unprobed(w).w.failures >= Threshold
        /\ Unprobed(w).status = "AlreadySucceeded" => Unprobed(w).w.succeeded
        /\ Unprobed(w).status \in {"AlreadySucceeded", "Retrying", "PendingRetry",
                                   "ThresholdExceeded"}
    BY <2>2, UnprobedFits
  <2>5. Types'
    BY <1>0, <1>4, <2>3, <2>4, FractionsSmall DEF Types, SkipProbe, statusVars, envVars, historyVars
  <2>6. memFresh' => Earned(mem)'
    BY <1>4, <2>2, <2>3, <2>4 DEF IInv, Earned, SkipProbe, historyVars
  <2>7. memFresh' => Fits(mem, result)'
    BY <1>4, <2>2, <2>3, <2>4, <2>6 DEF Fits, SkipProbe
  <2> QED BY <1>4, <2>5, <2>7 DEF IInv, Earned, SkipProbe, statusVars, historyVars
<1>5. CASE ProbeError
  BY <1>0, <1>5, EndStep DEF ProbeError, IInv, Types, statusVars, historyVars
<1> QED BY <1>1, <1>2, <1>3, <1>4, <1>5

\* A request: an answer is added to the history before the copy records it, and
\* so is a failure.
LEMMA RequestStep ==
  ASSUME IInv, SendProbe, Threshold <= MaxCounted
  PROVE  IInv'
<1> DEFINE w == ForVersion(mem, asRead)
<1>0. Types /\ Plain \notin Versions
  BY ProbeAssumption DEF IInv, Plain, Versions
<1>1. asRead \in Versions /\ mem \in Copy
  BY <1>0 DEF SendProbe, IInv, Types
<1>2. w \in Copy /\ w.obs = asRead /\ (Earned(mem) => Earned(w))
  BY <1>1, VersionReset
<1>3. ~w.succeeded /\ w.failures < Threshold
  BY DEF SendProbe, ProbeDue
<1>4. mem' = (IF routeUp THEN Succeeded(w) ELSE Failed(w)).w
        /\ result' = (IF routeUp THEN Succeeded(w) ELSE Failed(w)).status
  BY DEF SendProbe
<1> HIDE DEF w
<1>5. /\ passed' \in SUBSET Versions /\ passed \subseteq passed'
      /\ routeUp => asRead \in passed'
  BY <1>0, <1>1 DEF SendProbe, Types
<1>6. /\ failed' \in [Versions -> Int]
      /\ \A v \in Versions : failed[v] <= failed'[v] /\ failed'[v] <= MaxCounted
      /\ ~routeUp => failed'[asRead] = Counted(failed[asRead])
  BY <1>0, <1>1, ProbeAssumption DEF SendProbe, Types, Counted
<1>7. /\ mem' \in Copy /\ mem'.obs = asRead
      /\ result' \in {"Succeeded", "Retrying", "ThresholdExceeded"}
      /\ result' = "ThresholdExceeded" => mem'.failures >= Threshold
      /\ result' = "Succeeded" => mem'.succeeded
      /\ memFresh' => Earned(mem)'
  <2>1. CASE routeUp
    <3>1. /\ mem' \in Copy /\ mem'.obs = asRead /\ mem'.failures = Nil
          /\ mem'.succeeded /\ result' = "Succeeded"
      BY <1>2, <1>4, <2>1, SucceededFits
    <3> QED BY <1>5, <2>1, <3>1 DEF Earned, Nil
  <2>2. CASE ~routeUp
    <3> DEFINE n == (IF w.failures = Nil THEN 0 ELSE w.failures) + 1
    <3>1. /\ mem' \in Copy /\ mem'.obs = asRead /\ mem'.failures = n
          /\ mem'.succeeded = w.succeeded
          /\ result' \in {"Retrying", "ThresholdExceeded"}
          /\ result' = "ThresholdExceeded" => n >= Threshold
      BY <1>2, <1>4, <2>2, FailedFits
    <3>2. n <= Threshold
      BY <1>2, <1>3, Settings DEF Copy, Counts, Nil
    <3>3. ASSUME memFresh PROVE n <= Counted(failed[asRead])
      <4>1. Earned(w)
        BY <1>2, <3>3 DEF IInv, SendProbe
      <4>2. 0 <= failed[asRead] /\ (w.failures > 0 => w.failures <= failed[asRead])
        BY <1>2, <4>1, <1>0, <1>1 DEF Earned, Types
      <4> QED BY <1>0, <1>1, <1>2, <3>2, <4>2, Settings, ProbeAssumption
                 DEF Counted, Types, Copy, Counts, Nil
    <3>4. memFresh' = memFresh
      BY DEF SendProbe
    <3> HIDE DEF n
    <3> QED BY <1>1, <1>3, <1>6, <2>2, <3>1, <3>3, <3>4 DEF Earned
  <2> QED BY <2>1, <2>2
<1>8. Types'
  BY <1>0, <1>5, <1>6, <1>7, FractionsSmall DEF Types, SendProbe, statusVars, envVars
<1>9. Earned(ws)'
  BY <1>0, <1>5, <1>6 DEF IInv, Earned, SendProbe, statusVars, Types, Copy, Counts
<1>10. memFresh' => Fits(mem, result)'
  BY <1>1, <1>7 DEF Fits, SendProbe
<1> QED BY <1>8, <1>9, <1>10 DEF IInv, SendProbe, statusVars

\* The status write stores the current copy, and a stop clears the history
\* together with what the copy records of it.
LEMMA WriteStep ==
  ASSUME IInv, WriteStatus
  PROVE  IInv'
<1> DEFINE t == WholeSeconds(mem.wait, fraction)
           n == [mem EXCEPT !.cond = Reported(result), !.wait = t]
<1>0. Types /\ Fits(mem, result) /\ 0 \in 0 .. Plain /\ 0 \in 0 .. Second - 1
  BY ProbeAssumption, TicksGrow DEF IInv, WriteStatus, Plain
<1>1. Reported(result) \in {"Starting", "Available", "Degraded", "Stopped"}
        /\ (Reported(result) = "Degraded" => result = "ThresholdExceeded")
  BY DEF Reported
<1>10. t \in Int
  BY <1>0, TicksGrow DEF Types, Copy, WholeSeconds
<1>11. ws' = n
  BY <1>0 DEF WriteStatus, Types, Copy
<1> HIDE DEF t
<1>2. /\ n \in Copy /\ n.obs = mem.obs /\ n.failures = mem.failures
      /\ n.succeeded = mem.succeeded /\ n.cond = Reported(result)
  BY <1>0, <1>1, <1>10 DEF Types, Copy
<1>3. ws' = n
  BY <1>11
<1> HIDE DEF n
<1>4. /\ passed' \in SUBSET Versions
      /\ failed' \in [Versions -> Int]
      /\ \A v \in Versions : 0 <= failed'[v] /\ failed'[v] <= MaxCounted
  BY <1>0, ProbeAssumption DEF WriteStatus, Types
<1>5. Types'
  BY <1>0, <1>2, <1>3, <1>4, NoStatusIsCopy DEF Types, WriteStatus, EndPass, envVars
<1>6. Earned(ws)'
  <2>1. CASE result = "Stopped"
    BY <1>0, <1>2, <1>3, <2>1 DEF Fits, Earned, Nil
  <2>2. CASE result # "Stopped"
    BY <1>0, <1>2, <1>3, <2>2 DEF Fits, Earned, WriteStatus
  <2> QED BY <2>1, <2>2
<1>7. ws'.cond = "Degraded" => ws'.failures >= Threshold
  BY <1>0, <1>1, <1>2, <1>3 DEF Fits
<1>8. cacheFresh' => cache' = ws'
  BY DEF WriteStatus, IInv
<1> QED BY <1>5, <1>6, <1>7, <1>8 DEF IInv, WriteStatus, EndPass

\* Time changes deadlines only, and those of equal copies alike.
LEMMA TickStep ==
  ASSUME IInv, Tick
  PROVE  IInv'
<1>1. ASSUME NEW w \in Copy
      PROVE  /\ Sooner(w) \in Copy /\ Sooner(w).obs = w.obs
             /\ Sooner(w).failures = w.failures /\ Sooner(w).succeeded = w.succeeded
             /\ Sooner(w).cond = w.cond
  BY DEF Sooner, Copy
<1>2. Types
  BY DEF IInv
<1>3. ws' = Sooner(ws) /\ cache' = Sooner(cache) /\ mem' = Sooner(mem)
  BY DEF Tick
<1>4. Types'
  BY <1>1, <1>2, <1>3 DEF Types, Tick, envVars
<1>5. Earned(ws)' /\ (ws'.cond = "Degraded" => ws'.failures >= Threshold)
  BY <1>1, <1>2, <1>3 DEF IInv, Types, Earned, Tick
<1>6. (cacheFresh' => cache' = ws')
        /\ ((pc' # "idle" /\ pc' # "write" /\ memFresh') => mem' = ws')
  BY <1>3 DEF IInv, Tick
<1>7. (pc' = "write" /\ memFresh') => Fits(mem, result)'
  BY <1>1, <1>2, <1>3 DEF IInv, Types, Fits, Earned, Tick
<1> QED BY <1>4, <1>5, <1>6, <1>7 DEF IInv, Tick

\* Users write the spec and leave the status alone.
LEMMA UserStep ==
  ASSUME IInv, SetDesiredStatus \/ SetAccessStrategyRef
  PROVE  IInv'
<1>1. PICK w \in Copy :
        /\ UserWrite(w)
        /\ w.obs = ws.obs /\ w.failures = ws.failures /\ w.succeeded = ws.succeeded
        /\ w.cond = ws.cond
  <2>0. ws \in Copy
    BY DEF IInv, Types
  <2>1. CASE SetDesiredStatus
    <3> DEFINE w == [ws EXCEPT !.desired = IF @ = "Running" THEN "Stopped" ELSE "Running"]
    <3>1. /\ w \in Copy /\ w.obs = ws.obs /\ w.failures = ws.failures
          /\ w.succeeded = ws.succeeded /\ w.cond = ws.cond
      BY <2>0 DEF Copy
    <3>2. UserWrite(w)
      BY <2>1 DEF SetDesiredStatus
    <3> QED BY <3>1, <3>2
  <2>2. CASE SetAccessStrategyRef
    <3>1. PICK r \in Refs : UserWrite([ws EXCEPT !.ref = r])
      BY <2>2 DEF SetAccessStrategyRef
    <3> DEFINE w == [ws EXCEPT !.ref = r]
    <3>2. /\ w \in Copy /\ w.obs = ws.obs /\ w.failures = ws.failures
          /\ w.succeeded = ws.succeeded /\ w.cond = ws.cond
      BY <2>0 DEF Copy
    <3> QED BY <3>1, <3>2
  <2> QED BY <2>1, <2>2
<1>2. Types'
  BY <1>1 DEF IInv, Types, UserWrite, historyVars
<1> QED BY <1>1, <1>2 DEF IInv, Earned, UserWrite, historyVars

\* The invariant is inductive.
LEMMA StepEarned ==
  ASSUME Threshold <= MaxCounted, IInv, [Next]_vars
  PROVE  IInv'
<1>0. Types
  BY DEF IInv
<1>1. CASE Reconcile \/ ClearAccess \/ ProbeNotDefined \/ SkipProbe \/ ProbeError
  BY <1>1, PassSteps
<1>2. CASE SendProbe
  BY <1>2, RequestStep
<1>3. CASE WriteStatus
  BY <1>3, WriteStep
<1>4. CASE LoseStatus
  BY <1>0, <1>4, EndStep DEF LoseStatus, IInv, Types, statusVars
<1>5. CASE Restart
  BY <1>0, <1>5, EndStep DEF Restart, Types
<1>6. CASE Tick
  BY <1>6, TickStep
<1>7. CASE SetDesiredStatus \/ SetAccessStrategyRef
  BY <1>7, UserStep
<1>8. CASE EditAccessStrategy
  <2>1. strat' \in Versions
    BY <1>0, <1>8, ProbeAssumption DEF EditAccessStrategy, Types, Versions
  <2>2. Types'
    BY <1>0, <1>8, <2>1
       DEF Types, EditAccessStrategy, statusVars, passVars, historyVars
  <2> QED BY <1>8, <2>2, OutsideStep
             DEF EditAccessStrategy, IInv, statusVars, passVars, historyVars
<1>9. CASE RouteChanges
  <2>1. Types'
    BY <1>0, <1>9 DEF Types, RouteChanges, statusVars, passVars, historyVars
  <2> QED BY <1>9, <2>1, OutsideStep
             DEF RouteChanges, IInv, statusVars, passVars, historyVars
<1>10. CASE WorkspaceEvent
  <2>1. Types'
    BY <1>0, <1>10 DEF Types, WorkspaceEvent, passVars, envVars, historyVars
  <2> QED BY <1>10, <2>1, OutsideStep DEF WorkspaceEvent, passVars, historyVars
<1>11. CASE OwnedEvent \/ TimerFires
  <2>1. UNCHANGED <<statusVars, passVars, envVars, historyVars>>
    BY <1>11 DEF OwnedEvent, TimerFires
  <2> QED BY <2>1 DEF IInv, Types, Earned, Fits, statusVars, passVars, envVars, historyVars
<1>12. CASE UNCHANGED vars
  BY <1>12 DEF IInv, Types, Earned, Fits, vars, statusVars, passVars, envVars, historyVars
<1> QED BY <1>1, <1>2, <1>3, <1>4, <1>5, <1>6, <1>7, <1>8, <1>9, <1>10, <1>11, <1>12
           DEF Next, Pass

-----------------------------------------------------------------------------

(* Type correctness *)

\* The types of the variables the invariant says nothing of.
OtherTypes ==
  /\ pc \in {"idle", "probe", "noAccess", "stop", "write"} /\ result \in Results
  /\ queued \in BOOLEAN /\ timer \in Int
  /\ ops \in Nat /\ flips \in Nat /\ lost \in Nat
  /\ since \in Nat /\ recorded \in {"none", "pending", "stored"}

\* Deadlines aside, the two say what TypeOK says.
LEMMA TypesSuffice == IInv /\ OtherTypes => TypeOK
<1> SUFFICES ASSUME IInv, OtherTypes PROVE TypeOK
  OBVIOUS
<1>1. Counts \subseteq Nat \cup {Nil}
  BY DEF Counts, Nil
<1>2. Copy \subseteq Status
  BY <1>1 DEF Copy, Status
<1>3. failed \in [Versions -> Nat]
  BY DEF IInv, Types
<1> QED BY <1>2, <1>3 DEF IInv, Types, OtherTypes, TypeOK

\* A pass ends with one of the results of ProbeAccessStartup.
LEMMA ProbeResults ==
  ASSUME IInv, SkipProbe \/ SendProbe
  PROVE  result' \in Results
<1> DEFINE w == ForVersion(mem, asRead)
<1>0. Plain \notin Versions
  BY ProbeAssumption DEF Plain, Versions
<1>1. asRead \in Versions /\ mem \in Copy
  BY <1>0 DEF SkipProbe, SendProbe, IInv, Types
<1>2. w \in Copy
  BY <1>1, VersionReset
<1>3. result' \in {Unprobed(w).status, Succeeded(w).status, Failed(w).status}
  BY DEF SkipProbe, SendProbe
<1> HIDE DEF w
<1>4. /\ Unprobed(w).status \in Results
      /\ Succeeded(w).status \in Results
      /\ Failed(w).status \in Results
  BY <1>2, UnprobedFits, SucceededFits, FailedFits DEF Results
<1> QED BY <1>3, <1>4

\* Every step keeps them.
LEMMA OtherTypesKept ==
  ASSUME IInv, OtherTypes, [Next]_vars
  PROVE  OtherTypes'
<1> USE DEF statusVars, passVars, envVars, queueVars, historyVars
<1>0. mem.wait \in Int /\ Ticks(Period) \in Nat
  BY Settings, TicksGrow DEF IInv, Types, Copy
<1>1. CASE Reconcile
  BY <1>1 DEF Reconcile, OtherTypes
<1>2. CASE ClearAccess \/ ProbeNotDefined
  BY <1>2 DEF ClearAccess, ProbeNotDefined, OtherTypes, Results
<1>3. CASE SkipProbe \/ SendProbe
  <2>1. result' \in Results
    BY <1>3, ProbeResults
  <2> QED BY <1>3, <2>1 DEF SkipProbe, SendProbe, OtherTypes
<1>4. CASE ProbeError
  BY <1>4 DEF ProbeError, EndPass, OtherTypes, Results
<1>5. CASE WriteStatus
  <2>1. timer' \in Int
    BY <1>0, <1>5 DEF WriteStatus, Earlier, OtherTypes
  <2> QED BY <1>5, <2>1 DEF WriteStatus, EndPass, OtherTypes, Results
<1>6. CASE LoseStatus
  BY <1>0, <1>6 DEF LoseStatus, EndPass, Forget, OtherTypes, Results
<1>7. CASE Restart
  BY <1>0, <1>7 DEF Restart, EndPass, Forget, OtherTypes, Results, Nil
<1>8. CASE SetDesiredStatus \/ SetAccessStrategyRef
  BY <1>8 DEF SetDesiredStatus, SetAccessStrategyRef, UserWrite, OtherTypes
<1>9. CASE EditAccessStrategy
  BY <1>9 DEF EditAccessStrategy, OtherTypes
<1>10. CASE RouteChanges
  BY <1>10 DEF RouteChanges, OtherTypes
<1>11. CASE WorkspaceEvent
  BY <1>11 DEF WorkspaceEvent, OtherTypes
<1>12. CASE OwnedEvent
  BY <1>12 DEF OwnedEvent, OtherTypes
<1>13. CASE TimerFires
  BY <1>13 DEF TimerFires, OtherTypes, Nil
<1>14. CASE Tick
  BY <1>14 DEF Tick, OtherTypes
<1>15. CASE UNCHANGED vars
  BY <1>15 DEF vars, OtherTypes
<1> QED BY <1>1, <1>2, <1>3, <1>4, <1>5, <1>6, <1>7, <1>8, <1>9, <1>10, <1>11, <1>12, <1>13,
           <1>14, <1>15 DEF Next, Pass

-----------------------------------------------------------------------------

\* Every variable always has its type: what a pass stores is a status, whichever way
\* ProbeAccessStartup ends.
THEOREM TypeCorrect == Threshold <= MaxCounted => (Spec => []TypeOK)
<1> SUFFICES ASSUME Threshold <= MaxCounted PROVE Spec => []TypeOK
  OBVIOUS
<1>1. Init => IInv /\ OtherTypes
  <2>1. Init => OtherTypes
    BY Settings, TicksGrow DEF Init, OtherTypes, Results, Nil
  <2> QED BY <2>1, InitEarned
<1>2. IInv /\ OtherTypes /\ [Next]_vars => (IInv /\ OtherTypes)'
  BY StepEarned, OtherTypesKept
<1> QED BY <1>1, <1>2, TypesSuffice, PTL DEF Spec

\* The status of the probe is always earned: a recorded success, a failure count
\* and a Degraded condition belong to the recorded strategy version and to what
\* happened since the last stop (ProbeAccessStartup and the status writes), as
\* long as the history counts as far as the threshold.
THEOREM StatusAlwaysEarned == Threshold <= MaxCounted => (Spec => []StatusIsEarned)
<1> SUFFICES ASSUME Threshold <= MaxCounted PROVE Spec => []StatusIsEarned
  OBVIOUS
<1>1. Init => IInv
  BY InitEarned
<1>2. IInv /\ [Next]_vars => IInv'
  BY StepEarned
<1>3. IInv => StatusIsEarned
  BY DEF IInv, Earned, StatusIsEarned
<1> QED BY <1>1, <1>2, <1>3, PTL DEF Spec

\* The gate always holds: no pass can report Available for a strategy with a
\* probe unless the route answered for the version it has read.
THEOREM GateAlwaysHolds == Threshold <= MaxCounted => (Spec => []GateHolds)
<1> SUFFICES ASSUME Threshold <= MaxCounted PROVE Spec => []GateHolds
  OBVIOUS
<1>1. Init => IInv
  BY InitEarned
<1>2. IInv /\ [Next]_vars => IInv'
  BY StepEarned
<1>3. IInv => GateHolds
  <2> SUFFICES ASSUME IInv, AboutToReport("Available"), asRead \in Versions
               PROVE  asRead \in passed
    BY DEF GateHolds
  <2>1. Fits(mem, result)
    BY DEF IInv, AboutToReport
  <2>2. result \in {"Succeeded", "AlreadySucceeded"}
    BY <2>1 DEF Fits, AboutToReport, Reported
  <2> QED BY <2>1, <2>2 DEF Fits, Earned
<1> QED BY <1>1, <1>2, <1>3, PTL DEF Spec

-----------------------------------------------------------------------------
(* Requests keep their distance *)

\* Two requests are further apart than the period, or the cap, less a second.
Least == Ticks(Capped(Period)) - Second

\* A copy whose deadline, without the fraction f, is far enough from the last request.
Apart(w, f) ==
  (w.failures > 0 /\ w.failures < Threshold)
    => since > Least \/ w.wait - f + since > Least

\* An outcome that is stored, or may yet be, comes with such a deadline.
SInv ==
  /\ recorded = "pending" => pc = "write"
  /\ pc # "write" => fraction = 0
  /\ recorded = "stored" => Apart(ws, 0)
  /\ (pc = "write" /\ memFresh /\ recorded \in {"pending", "stored"}) => Apart(mem, fraction)

\* Doubling makes an interval no shorter, as often as the code doubles it.
LEMMA Doublings ==
  ASSUME NEW k \in 1 .. 9
  PROVE  2 ^ k \in Int /\ 2 ^ k >= 1
<1>1. k \in {1, 2, 3, 4, 5, 6, 7, 8, 9} OBVIOUS
<1>2. CASE k = 1
  <2>1. 2 ^ 1 = 2 BY SMT
  <2> QED BY <1>2, <2>1
<1>3. CASE k = 2
  <2>1. 2 ^ 2 = 4 BY SMT
  <2> QED BY <1>3, <2>1
<1>4. CASE k = 3
  <2>1. 2 ^ 3 = 8 BY SMT
  <2> QED BY <1>4, <2>1
<1>5. CASE k = 4
  <2>1. 2 ^ 4 = 16 BY SMT
  <2> QED BY <1>5, <2>1
<1>6. CASE k = 5
  <2>1. 2 ^ 5 = 32 BY SMT
  <2> QED BY <1>6, <2>1
<1>7. CASE k = 6
  <2>1. 2 ^ 6 = 64 BY SMT
  <2> QED BY <1>7, <2>1
<1>8. CASE k = 7
  <2>1. 2 ^ 7 = 128 BY SMT
  <2> QED BY <1>8, <2>1
<1>9. CASE k = 8
  <2>1. 2 ^ 8 = 256 BY SMT
  <2> QED BY <1>9, <2>1
<1>10. CASE k = 9
  <2>1. 2 ^ 9 = 512 BY SMT
  <2> QED BY <1>10, <2>1
<1> QED BY <1>1, <1>2, <1>3, <1>4, <1>5, <1>6, <1>7, <1>8, <1>9, <1>10

\* A cap on the larger of two numbers is no less than one on the smaller.
LEMMA CappedGrows ==
  ASSUME NEW m \in Int, NEW n \in Int, m <= n
  PROVE  Capped(m) <= Capped(n) /\ Capped(m) <= m /\ Capped(m) \in Int
BY ProbeAssumption DEF Capped

\* The retry interval is at least the period, or the cap.
LEMMA RetryIsLong ==
  ASSUME ProbeBackoffThreshold <= 10, NEW n \in Nat, n < Threshold
  PROVE  probeRetrySeconds(n) >= Capped(Period)
<1> DEFINE start == IF Threshold > ProbeBackoffThreshold
                    THEN Threshold - ProbeBackoffThreshold ELSE 0
<1>1. start \in Nat /\ (n > start => n - start \in 1 .. 9)
  BY Settings, ProbeAssumption
<1>2. probeRetrySeconds(n) = IF n <= start THEN Period ELSE Capped(Period * 2 ^ (n - start))
  BY DEF probeRetrySeconds
<1> HIDE DEF start
<1>3. CASE n <= start
  <2>1. Capped(Period) <= Period /\ Capped(Period) \in Int
    BY Settings, CappedGrows
  <2> QED BY <1>2, <1>3, <2>1, Settings
<1>4. CASE n > start
  <2> DEFINE x == 2 ^ (n - start)
  <2>1. x \in Int /\ x >= 1
    BY <1>1, <1>4, Doublings
  <2>2. probeRetrySeconds(n) = Capped(Period * x)
    BY <1>1, <1>2, <1>4
  <2> HIDE DEF x
  <2>3. Period * x \in Int /\ Period <= Period * x
    BY <2>1, Settings
  <2>4. Capped(Period) <= Capped(Period * x) /\ Capped(Period) \in Int
    BY <2>3, Settings, CappedGrows
  <2>5. Capped(Period * x) \in Int
    BY <2>3, CappedGrows
  <2> QED BY <2>2, <2>4, <2>5
<1> QED BY <1>1, <1>3, <1>4

\* A copy brought to the version that was read is the copy, or counts no failure.
LEMMA VersionApart ==
  ASSUME NEW w \in Copy, NEW v \in Versions
  PROVE  ForVersion(w, v) = w \/ ForVersion(w, v).failures = Nil
<1> DEFINE c == clearProbeState(w)
<1>1. c \in Copy /\ c.failures = Nil BY Clearing
<1> HIDE DEF c
<1>2. [c EXCEPT !.succeeded = FALSE, !.obs = v].failures = Nil BY <1>1 DEF Copy
<1> QED BY <1>2 DEF ForVersion, c

\* A cycle without a request leaves a copy alone, or starts it counting at none.
LEMMA UnprobedApart ==
  ASSUME NEW w \in Copy
  PROVE  \/ Unprobed(w).w = w /\ Unprobed(w).status # "Retrying"
         \/ Unprobed(w).w.failures = 0
<1>1. ProbeState(w, 0, Ticks(InitialDelaySeconds)).failures = 0
  <2>1. Ticks(InitialDelaySeconds) \in Int /\ 0 \in Counts
    BY ProbeAssumption, TicksGrow DEF Counts
  <2> QED BY <2>1, Setting
<1> QED BY <1>1 DEF Unprobed

\* A request that is not answered leaves a deadline at least a period, or the cap, ahead,
\* also without the fraction of its last second.
LEMMA FailedApart ==
  ASSUME ProbeBackoffThreshold <= 10, NEW w \in Copy, NEW f \in 0 .. Second - 1,
         Failed(w).w.failures < Threshold
  PROVE  Failed(w).w.wait - f > Least /\ Failed(w).w.wait \in Int
<1> DEFINE n == (IF w.failures = Nil THEN 0 ELSE w.failures) + 1
           b == ProbeState(w, n, Ticks(probeRetrySeconds(n)))
<1>1. n \in Nat /\ n \in Counts
  BY DEF Copy, Nil, Counts
<1>2. n < Threshold
  BY FailedFits
<1>3. Failed(w).w = b
  BY <1>1, <1>2, Settings DEF Failed
<1> HIDE DEF n
<1>4. probeRetrySeconds(n) >= Capped(Period) /\ probeRetrySeconds(n) \in Int
  BY <1>1, <1>2, RetryIsLong, RetryIsNumber
<1>5. b.wait = Ticks(probeRetrySeconds(n))
  BY DEF ProbeState, Copy
<1>6. Capped(Period) \in Int
  BY Settings, CappedGrows
<1>7. /\ Ticks(probeRetrySeconds(n)) >= Ticks(Capped(Period))
      /\ Ticks(probeRetrySeconds(n)) \in Int /\ Ticks(Capped(Period)) \in Int
  BY <1>4, <1>6, TicksGrow
<1> QED BY <1>3, <1>5, <1>7, TicksGrow DEF Least

\* The least distance is a number, and less than the period.
LEMMA LeastIsShort == Least \in Int /\ Ticks(Period) \in Nat /\ Least < Ticks(Period)
<1>1. Capped(Period) <= Period /\ Capped(Period) \in Int BY Settings, CappedGrows
<1>2. Ticks(Capped(Period)) <= Ticks(Period) /\ Ticks(Capped(Period)) \in Int
        /\ Ticks(Period) \in Nat
  BY <1>1, Settings, TicksGrow
<1> QED BY <1>2, TicksGrow DEF Least

\* Time brings a deadline no nearer to the last request.
LEMMA SoonerApart ==
  ASSUME NEW w \in Copy, NEW f \in Nat, Apart(w, f), Tick, since \in Nat
  PROVE  /\ Sooner(w).failures = w.failures
         /\ since' > Least \/ Sooner(w).wait - f + since' > Least
            \/ ~(w.failures > 0 /\ w.failures < Threshold)
<1>1. Sooner(w).failures = w.failures /\ Sooner(w).wait = IF w.wait = 0 THEN 0 ELSE w.wait - 1
  BY DEF Sooner, Copy
<1>2. w.wait \in Int BY DEF Copy
<1>3. since' = IF since < Ticks(Period) THEN since + 1 ELSE since BY DEF Tick
<1>5. CASE since > Least BY <1>1, <1>3, <1>5, LeastIsShort
<1>6. CASE w.wait - f + since > Least BY <1>1, <1>2, <1>3, <1>6, LeastIsShort
<1> QED BY <1>1, <1>5, <1>6 DEF Apart

\* Every step keeps the distance.
LEMMA StepSpaced ==
  ASSUME ProbeBackoffThreshold <= 10, IInv, OtherTypes, SInv, [Next]_vars
  PROVE  SInv'
<1> USE DEF statusVars, passVars, envVars, queueVars, historyVars
<1>0. Types BY DEF IInv
<1>1. CASE Reconcile
  BY <1>1 DEF Reconcile, SInv, Apart
<1>2. CASE ClearAccess
  <2> DEFINE c == clearProbeState(mem)
  <2>1. c \in Copy /\ c.failures = Nil BY <1>0, Clearing DEF Types
  <2> HIDE DEF c
  <2>2. mem'.failures = Nil
    <3>1. mem' = [c EXCEPT !.succeeded = FALSE, !.obs = 0] BY <1>2 DEF ClearAccess, c
    <3> QED BY <2>1, <3>1 DEF Copy
  <2>3. Apart(mem, fraction)' BY <2>2 DEF Apart, Nil
  <2> QED BY <1>2, <2>3 DEF ClearAccess, SInv, Apart
<1>3. CASE ProbeNotDefined
  BY <1>3 DEF ProbeNotDefined, SInv, Apart, IInv
<1>4. CASE SkipProbe
  <2> DEFINE w == ForVersion(mem, asRead)
  <2>1. asRead \in Versions /\ mem \in Copy
    <3>1. Plain \notin Versions BY ProbeAssumption DEF Plain, Versions
    <3> QED BY <1>0, <1>4, <3>1 DEF SkipProbe, IInv, Types
  <2>2. w \in Copy /\ (w = mem \/ w.failures = Nil)
    BY <2>1, VersionReset, VersionApart
  <2>3. /\ mem' = Unprobed(w).w /\ fraction' \in Fractions(Unprobed(w).status)
        /\ UNCHANGED <<since, recorded, ws, memFresh>>
    BY <1>4 DEF SkipProbe
  <2> HIDE DEF w
  <2>4. \/ mem' = w /\ fraction' = 0
        \/ mem'.failures = 0
    BY <2>2, <2>3, UnprobedApart DEF Fractions
  <2>5. memFresh /\ recorded = "stored" => Apart(mem, fraction)'
    BY <1>4, <2>2, <2>3, <2>4 DEF SInv, IInv, Apart, SkipProbe, Nil
  <2>6. recorded # "pending" BY <1>4 DEF SInv, SkipProbe
  <2> QED BY <1>4, <2>3, <2>5, <2>6 DEF SInv, Apart, SkipProbe
<1>5. CASE SendProbe
  <2> DEFINE w == ForVersion(mem, asRead)
  <2>1. asRead \in Versions /\ mem \in Copy
    <3>1. Plain \notin Versions BY ProbeAssumption DEF Plain, Versions
    <3> QED BY <1>0, <1>5, <3>1 DEF SendProbe, IInv, Types
  <2>2. w \in Copy BY <2>1, VersionReset
  <2>3. mem' = (IF routeUp THEN Succeeded(w) ELSE Failed(w)).w
    BY <1>5 DEF SendProbe
  <2>4. since' = 0 /\ recorded' = "pending" /\ pc' = "write" BY <1>5 DEF SendProbe
  <2> HIDE DEF w
  <2>6. fraction' \in 0 .. Second - 1 BY <1>5, FractionsSmall DEF SendProbe
  <2>5. Apart(mem, fraction)'
    <3>1. CASE routeUp
      <4>1. mem'.failures = Nil BY <2>2, <2>3, <3>1, SucceededFits
      <4> QED BY <4>1 DEF Apart, Nil
    <3>2. CASE ~routeUp
      <4>1. mem'.failures < Threshold => mem'.wait - fraction' > Least /\ mem'.wait \in Int
        BY <2>2, <2>3, <2>6, <3>2, FailedApart
      <4>2. mem'.wait \in Int => mem'.wait - fraction' + 0 = mem'.wait - fraction'
        BY <2>6, TicksGrow
      <4>3. (mem'.failures > 0 /\ mem'.failures < Threshold) => mem'.wait - fraction' + since' > Least
        BY <2>4, <4>1, <4>2
      <4> QED BY <4>3 DEF Apart
    <3> QED BY <3>1, <3>2
  <2> QED BY <2>4, <2>5 DEF SInv
<1>6. CASE ProbeError \/ LoseStatus \/ Restart
  <2>1. /\ pc' = "idle" /\ ws' = ws /\ fraction' = 0
        /\ \/ recorded' = recorded /\ since' = since
           \/ recorded' = "none"
        /\ recorded' # "pending"
    BY <1>6 DEF ProbeError, LoseStatus, Restart, EndPass, Forget, SInv
  <2> QED BY <2>1 DEF SInv, Apart
<1>7. CASE WriteStatus
  <2> DEFINE t == WholeSeconds(mem.wait, fraction)
  <2>1. /\ pc' = "idle" /\ since' = since /\ fraction' = 0
        /\ ws' = [mem EXCEPT !.cond = Reported(result), !.wait = t]
        /\ recorded' = IF recorded = "pending" THEN "stored" ELSE recorded
        /\ pc = "write" /\ memFresh
    BY <1>0, <1>7 DEF WriteStatus, EndPass, Types, Copy
  <2>2. t \in Int /\ mem.wait \in Int /\ t >= mem.wait - fraction
    BY <1>0, TicksGrow DEF Types, Copy, WholeSeconds
  <2> HIDE DEF t
  <2>3. ws'.failures = mem.failures /\ ws'.wait = t
    BY <1>0, <2>1 DEF Types, Copy
  <2>4. since \in Nat /\ fraction \in Int /\ Least \in Int
    BY <1>0, TicksGrow, LeastIsShort DEF Types, OtherTypes
  <2>5. ASSUME recorded' = "stored", mem.failures > 0, mem.failures < Threshold, ~(since > Least)
        PROVE  t - 0 + since > Least
    <3>1. mem.wait - fraction + since > Least
      BY <2>1, <2>5 DEF SInv, Apart, OtherTypes
    <3> QED BY <2>2, <2>4, <3>1
  <2>6. recorded' = "stored" => Apart(ws, 0)'
    BY <2>1, <2>3, <2>5 DEF Apart
  <2> QED BY <2>1, <2>6 DEF SInv
<1>8. CASE SetDesiredStatus \/ SetAccessStrategyRef
  <2>1. /\ ws'.failures = ws.failures /\ ws'.wait = ws.wait /\ memFresh' = FALSE
        /\ UNCHANGED <<pc, since, recorded, fraction>>
    BY <1>0, <1>8 DEF SetDesiredStatus, SetAccessStrategyRef, UserWrite, Types, Copy
  <2> QED BY <2>1 DEF SInv, Apart
<1>9. CASE EditAccessStrategy \/ RouteChanges \/ WorkspaceEvent \/ OwnedEvent \/ TimerFires
  <2>1. UNCHANGED <<ws, pc, mem, memFresh, since, recorded, fraction>>
    BY <1>9 DEF EditAccessStrategy, RouteChanges, WorkspaceEvent, OwnedEvent, TimerFires
  <2> QED BY <2>1 DEF SInv, Apart
<1>10. CASE Tick
  <2>1. /\ ws' = Sooner(ws) /\ mem' = Sooner(mem)
        /\ UNCHANGED <<pc, memFresh, recorded, fraction>>
    BY <1>10 DEF Tick
  <2>2. ASSUME NEW w \in Copy, NEW v, v = Sooner(w), NEW f \in Nat, Apart(w, f)
        PROVE  (v.failures > 0 /\ v.failures < Threshold)
                 => since' > Least \/ v.wait - f + since' > Least
    <3>1. since \in Nat BY DEF OtherTypes
    <3> QED BY <1>10, <2>2, <3>1, SoonerApart
  <2>3. Apart(ws, 0) => Apart(ws, 0)' BY <1>0, <2>1, <2>2 DEF Apart, Types
  <2>4. fraction \in Nat BY <1>0, TicksGrow DEF Types
  <2>5. Apart(mem, fraction) => Apart(mem, fraction)'
    BY <1>0, <2>1, <2>2, <2>4 DEF Apart, Types
  <2> QED BY <2>1, <2>3, <2>5 DEF SInv
<1>11. CASE UNCHANGED vars
  BY <1>11 DEF vars, SInv, Apart
<1> QED BY <1>1, <1>2, <1>3, <1>4, <1>5, <1>6, <1>7, <1>8, <1>9, <1>10, <1>11 DEF Next, Pass

\* With at most as many doublings as the code's ProbeBackoffThreshold of 10 allows, a pass
\* on a current copy that retries sends its request less than a second before the period,
\* or the cap, after the one before whose outcome was stored, or later
\* (ProbeAccessStartup, probeRetrySeconds, and the whole seconds of metav1.Time).
THEOREM RequestsKeepTheirDistance ==
  Threshold <= MaxCounted /\ ProbeBackoffThreshold <= 10 => (Spec => Spaced)
<1> SUFFICES ASSUME Threshold <= MaxCounted, ProbeBackoffThreshold <= 10
             PROVE  Spec => Spaced
  OBVIOUS
<1> DEFINE A == (Sends /\ memFresh /\ recorded = "stored" /\ mem.failures > 0 /\ mem.obs = asRead)
                  => since + Second > Ticks(Capped(Period))
<1>1. Init => IInv /\ OtherTypes /\ SInv
  <2>1. Init => OtherTypes BY Settings, TicksGrow DEF Init, OtherTypes, Results, Nil
  <2>2. Init => SInv BY DEF Init, SInv
  <2> QED BY <2>1, <2>2, InitEarned
<1>2. IInv /\ OtherTypes /\ SInv /\ [Next]_vars => (IInv /\ OtherTypes /\ SInv)'
  BY StepEarned, OtherTypesKept, StepSpaced
<1>3. ASSUME IInv, OtherTypes, SInv, [Next]_vars PROVE [A]_vars
  <2> SUFFICES ASSUME Next, Sends, memFresh, recorded = "stored", mem.failures > 0,
                      mem.obs = asRead
               PROVE  since + Second > Ticks(Capped(Period))
    BY <1>3
  <2>1. SendProbe
    BY DEF Sends, Next, Pass, Reconcile, ClearAccess, ProbeNotDefined, SkipProbe, ProbeError,
           WriteStatus, LoseStatus, Forget, WorkspaceEvent, OwnedEvent, TimerFires, Tick, Restart,
           SetDesiredStatus, SetAccessStrategyRef, UserWrite, EditAccessStrategy, RouteChanges,
           historyVars
  <2>2. mem.wait = 0 /\ mem.failures < Threshold /\ pc = "probe"
    BY <2>1 DEF SendProbe, ForVersion, ProbeDue
  <2>3. mem = ws BY <1>3, <2>2 DEF IInv
  <2>4. since \in Nat /\ Capped(Period) \in Int
    BY <1>3, Settings, CappedGrows DEF OtherTypes
  <2>5. since > Least \/ 0 - 0 + since > Least
    BY <1>3, <2>2, <2>3 DEF SInv, Apart
  <2>6. Ticks(Capped(Period)) \in Int
    BY <2>4, TicksGrow
  <2> QED BY <2>4, <2>5, <2>6, TicksGrow DEF Least
<1> QED BY <1>1, <1>2, <1>3, PTL DEF Spec, Spaced
=============================================================================
