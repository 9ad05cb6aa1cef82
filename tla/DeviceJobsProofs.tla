--------------------------- MODULE DeviceJobsProofs ---------------------------
(***************************************************************************)
(* Proofs about device jobs, for any number of requests in progress, any   *)
(* attempt limit, lease and retry delays.                                  *)
(*                                                                         *)
(* The heart of the argument is CallsCurrent: a request that is about to   *)
(* write either read the row that is stored now, or holds a version that   *)
(* the row has left behind.  Every change of the row advances its version, *)
(* so the condition of CAS_DEVICE_JOB tells the two apart, and a write     *)
(* that applies is one operation of the aggregate on the stored row.       *)
(***************************************************************************)
EXTENDS DeviceJobs, TLAPS

\* n and ends are what command c makes of row j at some time.
Follows(j, n, ends) ==
    \E c \in Command, now \in Time :
        Accepted(j, c, now) /\ n = Effect(j, c, now) /\ ends = EndsOf(j, c)

CallsCurrent ==
    \A r \in Requests :
        call[r].stage = "writing" =>
            \E j \in job :
                /\ call[r].expected_version <= j.version
                /\ call[r].expected_version = j.version =>
                      Follows(j, call[r].next, call[r].ends)

\* What a row and a copy of it satisfy.
SoundJob(j) ==
    /\ j \in DeviceJob
    /\ IsOption(j.active_claim)
    /\ IsOption(j.retry_at)
    /\ Restorable(j)

\* Before the job is issued nothing has happened to it.
NothingYet == job = {} => ended = {} /\ journal = {}

IInv ==
    /\ NothingYet
    /\ TypeOK
    /\ StoredJobRestorable
    /\ AttemptsEndOnce
    /\ SuccessIsFinal
    /\ CommittedStateExact
    /\ CallsCurrent

Fences(j) == {l.fence : l \in j.active_claim}

\* How ends accounts for the claims between row j and row n.
Accounts(j, n, ends) ==
    /\ ends \subseteq End
    /\ \A e \in ends : e.fence \in Fences(j)
    /\ \A e, f \in ends : e = f
    /\ (1 .. n.last_fence) \ Fences(n) =
           ((1 .. j.last_fence) \ Fences(j)) \cup {e.fence : e \in ends}

-----------------------------------------------------------------------------
(* One lemma per operation of the aggregate.                               *)

\* A job that is Running has exactly one claim, so that a claim can be named.
LEMMA OptionClaim ==
    ASSUME NEW j, SoundJob(j), j.status = "Running"
    PROVE  \E l \in DeviceClaim : j.active_claim = {l}
<1>1. PICK l \in j.active_claim : TRUE
  BY DEF SoundJob, Restorable
<1>2. j.active_claim = {l}
  BY <1>1 DEF SoundJob, IsOption
<1> QED BY <1>1, <1>2 DEF SoundJob, DeviceJob

\* DeviceJob::claim leads from a sound job to a sound one with the next fence.
LEMMA ClaimSound ==
    ASSUME NEW j, SoundJob(j), NEW now \in Time, ClaimAccepted(j, now)
    PROVE  /\ SoundJob(ClaimEffect(j, now))
           /\ ClaimEffect(j, now).version = j.version + 1
           /\ Accounts(j, ClaimEffect(j, now), {})
<1> DEFINE l == ClaimAt(j.last_fence + 1, now)
           n == ClaimEffect(j, now)
<1>1. /\ j.version \in 1 .. MaxVersion /\ j.version < MaxVersion
      /\ j.attempt \in 0 .. AttemptLimit /\ j.max_attempts \in 1 .. AttemptLimit
      /\ j.attempt < j.max_attempts /\ j.last_fence = j.attempt
      /\ j.version > j.attempt
      /\ now + LeaseMs \in Time /\ now \in Time
      /\ j.active_claim = {}
  BY JobAssumption DEF SoundJob, DeviceJob, ClaimAccepted, CanAdvance,
     LeaseFits, Restorable, Time
<1>2. /\ n.version = j.version + 1 /\ n.status = "Running"
      /\ n.attempt = j.attempt + 1 /\ n.last_fence = j.last_fence + 1
      /\ n.max_attempts = j.max_attempts
      /\ n.active_claim = {l} /\ n.retry_at = {} /\ n.updated_at = now
  BY DEF SoundJob, DeviceJob, ClaimEffect, Advanced
<1>3. l \in DeviceClaim
  BY <1>1, JobAssumption DEF ClaimAt, DeviceClaim
<1>4. n \in DeviceJob
  <2>1. n.version \in 1 .. MaxVersion
    BY <1>1, <1>2, JobAssumption
  <2>2. /\ n.attempt \in 0 .. AttemptLimit
        /\ n.last_fence \in 0 .. AttemptLimit
    BY <1>1, <1>2, JobAssumption
  <2>3. n.active_claim \in SUBSET DeviceClaim /\ n.retry_at \in SUBSET Time
    BY <1>2, <1>3
  <2> QED BY <1>1, <1>2, <2>1, <2>2, <2>3
         DEF SoundJob, DeviceJob, ClaimEffect, Advanced, Status
<1>5. IsOption(n.active_claim) /\ IsOption(n.retry_at)
  BY <1>2 DEF IsOption
<1>6. /\ l.fence = j.last_fence + 1 /\ l.claimed_at = now
      /\ l.last_heartbeat_at = now /\ l.lease_expires_at = now + LeaseMs
  BY DEF ClaimAt
<1>7. RestorableClaim(l)
  BY <1>1, <1>6, JobAssumption DEF RestorableClaim, Time
<1>8. Restorable(n)
  <2>1. now < now + LeaseMs
    BY <1>1, JobAssumption DEF Time
  <2> QED BY <1>1, <1>2, <1>6, <1>7, <2>1, JobAssumption
         DEF Restorable, Delayed, Result
<1>9. Accounts(j, n, {})
  <2>1. Fences(j) = {} /\ Fences(n) = {j.last_fence + 1}
    BY <1>1, <1>2, <1>6 DEF Fences
  <2>2. (1 .. n.last_fence) \ Fences(n) = 1 .. j.last_fence
    BY <1>1, <1>2, <2>1, JobAssumption
  <2> QED BY <2>1, <2>2 DEF Accounts
<1> QED BY <1>2, <1>4, <1>5, <1>8, <1>9 DEF SoundJob

\* DeviceJob::heartbeat keeps a sound job sound and its claim running.
LEMMA HeartbeatSound ==
    ASSUME NEW j, SoundJob(j), NEW now \in Time, NEW fence,
           HeartbeatAccepted(j, fence, now)
    PROVE  /\ SoundJob(HeartbeatEffect(j, now))
           /\ HeartbeatEffect(j, now).version = j.version + 1
           /\ Accounts(j, HeartbeatEffect(j, now), {})
<1> DEFINE n == HeartbeatEffect(j, now)
<1>1. PICK l \in DeviceClaim : j.active_claim = {l}
  BY OptionClaim DEF HeartbeatAccepted, HoldsClaim
<1> DEFINE m == Extended(l, now)
<1>2. /\ m.fence = l.fence /\ m.claimed_at = l.claimed_at
      /\ m.last_heartbeat_at = now /\ m.lease_expires_at = now + LeaseMs
  BY DEF Extended, DeviceClaim
<1>3. now + LeaseMs \in Time /\ now < now + LeaseMs
  BY JobAssumption DEF HeartbeatAccepted, LeaseFits, Time
<1>4. m \in DeviceClaim
  BY <1>3 DEF Extended, DeviceClaim
<1>5. /\ n.version = j.version + 1 /\ n.status = j.status
      /\ n.attempt = j.attempt /\ n.last_fence = j.last_fence
      /\ n.max_attempts = j.max_attempts
      /\ n.active_claim = {m} /\ n.retry_at = j.retry_at
      /\ n.updated_at = now
  <2>1. {Extended(k, now) : k \in j.active_claim} = {m}
    BY <1>1
  <2> QED BY <2>1 DEF SoundJob, DeviceJob, HeartbeatEffect, Advanced
<1>6. /\ j.status = "Running" /\ j.version < MaxVersion
      /\ l.last_heartbeat_at <= now
  BY <1>1 DEF HeartbeatAccepted, HoldsClaim, CanAdvance
<1>7. n \in DeviceJob
  <2>1. n.version \in 1 .. MaxVersion
    BY <1>5, <1>6, JobAssumption DEF SoundJob, DeviceJob
  <2>2. {m} \in SUBSET DeviceClaim
    BY <1>4
  <2> QED BY <1>5, <2>1, <2>2 DEF SoundJob, DeviceJob, HeartbeatEffect, Advanced
<1>8. IsOption(n.active_claim) /\ IsOption(n.retry_at)
  BY <1>5 DEF SoundJob, IsOption
<1>9. /\ l.fence = j.last_fence /\ l.fence > 0
      /\ l.claimed_at <= l.last_heartbeat_at
      /\ j.retry_at = {} /\ j.attempt > 0
  BY <1>1, <1>6 DEF SoundJob, Restorable, RestorableClaim, Delayed
<1>10. RestorableClaim(m)
  <2>1. m.claimed_at <= now
    BY <1>2, <1>6, <1>9 DEF DeviceClaim, Time
  <2> QED BY <1>2, <1>3, <1>9, <2>1 DEF RestorableClaim
<1>11. Restorable(n)
  <2>1. n.version > n.attempt
    BY <1>5 DEF SoundJob, Restorable, DeviceJob
  <2> QED BY <1>2, <1>3, <1>5, <1>6, <1>9, <1>10, <2>1
         DEF SoundJob, Restorable, Delayed
<1>12. Accounts(j, n, {})
  <2>1. Fences(j) = Fences(n)
    BY <1>1, <1>2, <1>5 DEF Fences
  <2> QED BY <1>5, <2>1 DEF Accounts
<1> QED BY <1>5, <1>7, <1>8, <1>11, <1>12 DEF SoundJob

\* A released claim, with any result: mark_profile_busy, schedule_retry,
\* require_auth, require_recovery, succeed, fail and the end of expire_claim.
LEMMA ReleaseSound ==
    ASSUME NEW j, SoundJob(j), NEW now \in Time, CanAdvance(j, now),
           j.status = "Running",
           NEW result \in Result, NEW retry \in SUBSET Time, IsOption(retry),
           result \in Delayed <=> retry # {},
           \A t \in retry : now < t,
           NEW by \in Result \cup {"Expired", "Cancelled", "Committed"}
    PROVE  /\ SoundJob(OutcomeEffect(j, result, retry, now))
           /\ OutcomeEffect(j, result, retry, now).version = j.version + 1
           /\ Accounts(j, OutcomeEffect(j, result, retry, now), EndedBy(j, by))
<1> DEFINE n == OutcomeEffect(j, result, retry, now)
           E == EndedBy(j, by)
<1>1. PICK l \in DeviceClaim : j.active_claim = {l}
  BY OptionClaim
<1>2. /\ n.version = j.version + 1 /\ n.status = result
      /\ n.attempt = j.attempt /\ n.last_fence = j.last_fence
      /\ n.max_attempts = j.max_attempts
      /\ n.active_claim = {} /\ n.retry_at = retry
      /\ n.updated_at = now
  BY DEF SoundJob, DeviceJob, OutcomeEffect, Advanced
<1>3. n \in DeviceJob
  <2>1. n.version \in 1 .. MaxVersion
    BY <1>2, JobAssumption DEF SoundJob, DeviceJob, CanAdvance
  <2> QED BY <1>2, <2>1
         DEF SoundJob, DeviceJob, OutcomeEffect, Advanced, Status
<1>4. IsOption(n.active_claim) /\ IsOption(n.retry_at)
  BY <1>2 DEF IsOption
<1>5. Restorable(n)
  <2>1. n.version > n.attempt
    BY <1>2 DEF SoundJob, Restorable, DeviceJob
  <2>2. n.attempt > 0 /\ n.attempt <= n.max_attempts
        /\ n.last_fence = n.attempt
    BY <1>2 DEF SoundJob, Restorable
  <2>3. n.status # "Running"
    BY <1>2 DEF Result
  <2> QED BY <1>2, <2>1, <2>2, <2>3 DEF Restorable
<1>6. Accounts(j, n, E)
  <2>1. E = {[fence |-> l.fence, by |-> by]}
    BY <1>1 DEF EndedBy
  <2>2. E \subseteq End
    BY <2>1 DEF End, DeviceClaim
  <2>3. Fences(j) = {l.fence} /\ Fences(n) = {}
    BY <1>1, <1>2 DEF Fences
  <2>4. {e.fence : e \in E} = {l.fence}
    <3> DEFINE x == [fence |-> l.fence, by |-> by]
    <3>1. x.fence = l.fence /\ E = {x}
      BY <2>1
    <3> HIDE DEF x, E
    <3> QED BY <3>1
  <2>5. l.fence = j.last_fence /\ l.fence \in 1 .. AttemptLimit
    BY <1>1 DEF SoundJob, Restorable, DeviceClaim
  <2>6. l.fence \in 1 .. j.last_fence
    BY <2>5, JobAssumption
  <2>7. (1 .. n.last_fence) \ Fences(n) =
            ((1 .. j.last_fence) \ Fences(j)) \cup {e.fence : e \in E}
    BY <1>2, <2>3, <2>4, <2>6
  <2>8. \A e \in E : e.fence \in Fences(j)
    BY <2>1, <2>3
  <2>9. \A e, f \in E : e = f
    BY <2>1
  <2> HIDE DEF E
  <2> QED BY <2>2, <2>7, <2>8, <2>9 DEF Accounts
<1> QED BY <1>2, <1>3, <1>4, <1>5, <1>6 DEF SoundJob

\* resume_after_auth and resume_after_recovery keep a sound job sound.
LEMMA ResumeSound ==
    ASSUME NEW j, SoundJob(j), NEW now \in Time, ResumeAccepted(j, now)
    PROVE  /\ SoundJob(ResumeEffect(j, now))
           /\ ResumeEffect(j, now).version = j.version + 1
           /\ Accounts(j, ResumeEffect(j, now), {})
<1> DEFINE n == ResumeEffect(j, now)
<1>1. /\ n.version = j.version + 1 /\ n.status = "PendingDevice"
      /\ n.attempt = j.attempt /\ n.last_fence = j.last_fence
      /\ n.max_attempts = j.max_attempts
      /\ n.active_claim = {} /\ n.retry_at = j.retry_at
      /\ n.updated_at = now /\ j.active_claim = {}
  BY DEF SoundJob, DeviceJob, ResumeAccepted, ResumeEffect, Advanced
<1>2. j.retry_at = {}
  BY DEF SoundJob, Restorable, ResumeAccepted, Delayed
<1>3. n \in DeviceJob
  <2>1. n.version \in 1 .. MaxVersion
    BY <1>1, JobAssumption DEF SoundJob, DeviceJob, ResumeAccepted, CanAdvance
  <2> QED BY <1>1, <2>1 DEF SoundJob, DeviceJob, ResumeEffect, Advanced, Status
<1>4. IsOption(n.active_claim) /\ IsOption(n.retry_at)
  BY <1>1, <1>2 DEF IsOption
<1>5. Restorable(n)
  <2>1. n.version > n.attempt
    BY <1>1 DEF SoundJob, Restorable, DeviceJob
  <2>2. n.attempt <= n.max_attempts /\ n.last_fence = n.attempt
    BY <1>1 DEF SoundJob, Restorable
  <2> QED BY <1>1, <1>2, <2>1, <2>2 DEF Restorable, Result, Delayed
<1>6. Accounts(j, n, {})
  BY <1>1 DEF Accounts, Fences
<1> QED BY <1>1, <1>3, <1>4, <1>5, <1>6 DEF SoundJob

\* DeviceJob::cancel keeps a sound job sound and ends its claim.
LEMMA CancelSound ==
    ASSUME NEW j, SoundJob(j), NEW now \in Time, CancelAccepted(j, now)
    PROVE  /\ SoundJob(CancelEffect(j, now))
           /\ CancelEffect(j, now).version = j.version + 1
           /\ Accounts(j, CancelEffect(j, now), EndedBy(j, "Cancelled"))
<1> DEFINE n == CancelEffect(j, now)
           E == EndedBy(j, "Cancelled")
<1>1. /\ n.version = j.version + 1 /\ n.status = "Cancelled"
      /\ n.attempt = j.attempt /\ n.last_fence = j.last_fence
      /\ n.max_attempts = j.max_attempts
      /\ n.active_claim = {} /\ n.retry_at = {} /\ n.updated_at = now
  BY DEF SoundJob, DeviceJob, CancelEffect, Advanced
<1>2. n \in DeviceJob
  <2>1. n.version \in 1 .. MaxVersion
    BY <1>1, JobAssumption DEF SoundJob, DeviceJob, CancelAccepted, CanAdvance
  <2> QED BY <1>1, <2>1 DEF SoundJob, DeviceJob, CancelEffect, Advanced, Status
<1>3. IsOption(n.active_claim) /\ IsOption(n.retry_at)
  BY <1>1 DEF IsOption
<1>4. Restorable(n)
  <2>1. n.version > n.attempt
    BY <1>1 DEF SoundJob, Restorable, DeviceJob
  <2>2. n.attempt <= n.max_attempts /\ n.last_fence = n.attempt
    BY <1>1 DEF SoundJob, Restorable
  <2> QED BY <1>1, <2>1, <2>2 DEF Restorable, Result, Delayed
<1>5. /\ E \subseteq End
      /\ \A e \in E : e.fence \in Fences(j)
      /\ \A e, f \in E : e = f
  <2>1. E \subseteq End
    BY DEF End, SoundJob, DeviceJob, DeviceClaim, EndedBy
  <2>2. \A e \in E : e.fence \in Fences(j)
    BY DEF Fences, EndedBy
  <2>3. \A e, f \in E : e = f
    BY DEF SoundJob, IsOption, EndedBy
  <2> QED BY <2>1, <2>2, <2>3
<1>6. {e.fence : e \in E} = Fences(j)
  <2>1. \A e \in E : \E l \in j.active_claim : e.fence = l.fence
    BY DEF EndedBy
  <2>2. ASSUME NEW l \in j.active_claim
        PROVE  \E e \in E : e.fence = l.fence
    <3>1. [fence |-> l.fence, by |-> "Cancelled"] \in E
      BY DEF EndedBy
    <3> QED BY <3>1
  <2> HIDE DEF E
  <2> QED BY <2>1, <2>2 DEF Fences
<1>7. Fences(j) \subseteq 1 .. j.last_fence
  BY JobAssumption DEF Fences, SoundJob, Restorable, DeviceJob, DeviceClaim
<1>8. (1 .. n.last_fence) \ Fences(n) =
          ((1 .. j.last_fence) \ Fences(j)) \cup {e.fence : e \in E}
  <2>1. Fences(n) = {}
    BY <1>1 DEF Fences
  <2> QED BY <1>1, <1>6, <1>7, <2>1
<1>9. Accounts(j, n, E)
  <2> HIDE DEF E
  <2> QED BY <1>5, <1>8 DEF Accounts
<1> QED BY <1>1, <1>2, <1>3, <1>4, <1>9 DEF SoundJob

-----------------------------------------------------------------------------
(* Any operation.                                                          *)

\* Whatever operation the aggregate accepts, the next job is sound and is
\* the read one with one claim more, or one end more, at the next version.
LEMMA FollowsSound ==
    ASSUME NEW j, SoundJob(j), NEW n, NEW ends, Follows(j, n, ends)
    PROVE  SoundJob(n) /\ n.version = j.version + 1 /\ Accounts(j, n, ends)
<1>1. PICK c \in Command, now \in Time :
          Accepted(j, c, now) /\ n = Effect(j, c, now) /\ ends = EndsOf(j, c)
  BY DEF Follows
<1>2. CASE c.type = "Claim"
  <2>1. ClaimAccepted(j, now) /\ n = ClaimEffect(j, now) /\ ends = {}
    BY <1>1, <1>2 DEF Accepted, Effect, EndsOf
  <2> QED BY <2>1, ClaimSound
<1>3. CASE c.type = "Heartbeat"
  <2>1. /\ HeartbeatAccepted(j, c.fence, now)
        /\ n = HeartbeatEffect(j, now) /\ ends = {}
    BY <1>1, <1>3 DEF Accepted, Effect, EndsOf
  <2> QED BY <2>1, HeartbeatSound
<1>4. CASE c.type = "Outcome"
  <2>1. /\ OutcomeAccepted(j, c.fence, c.result, c.retry_at, now)
        /\ n = OutcomeEffect(j, c.result, c.retry_at, now)
        /\ ends = EndedBy(j, c.result)
    BY <1>1, <1>4 DEF Accepted, Effect, EndsOf, HowEnded
  <2>2. c \in OutcomeCommand
    BY <1>4 DEF Command, ClaimCommand, HeartbeatCommand, ExpireCommand,
       PlainCommand
  <2>3. /\ c.result \in Result /\ c.retry_at \in SUBSET Time
        /\ IsOption(c.retry_at)
    BY <2>2 DEF OutcomeCommand, IsOption
  <2>4. /\ CanAdvance(j, now) /\ j.status = "Running"
        /\ c.result \in Delayed <=> c.retry_at # {}
        /\ \A t \in c.retry_at : now < t
    BY <2>1 DEF OutcomeAccepted, HoldsClaim, RetryAsked
  <2>5. c.result \in Result \cup {"Expired", "Cancelled", "Committed"}
    BY <2>3
  <2> QED BY <2>1, <2>3, <2>4, <2>5, ReleaseSound
<1>5. CASE c.type = "Expire"
  <2>1. /\ ExpireAccepted(j, c.retry_at, now)
        /\ n = ExpireEffect(j, c.retry_at, now)
        /\ ends = EndedBy(j, "Expired")
    BY <1>1, <1>5 DEF Accepted, Effect, EndsOf, HowEnded
  <2>2. c \in ExpireCommand
    BY <1>5 DEF Command, ClaimCommand, HeartbeatCommand, OutcomeCommand,
       PlainCommand
  <2>3. c.retry_at \in Time
    BY <2>2 DEF ExpireCommand
  <2>4. /\ CanAdvance(j, now) /\ j.status = "Running"
        /\ "Expired" \in Result \cup {"Expired", "Cancelled", "Committed"}
    BY <2>1 DEF ExpireAccepted
  <2>5. CASE j.attempt < j.max_attempts
    <3>1. n = OutcomeEffect(j, "RetryScheduled", {c.retry_at}, now)
      BY <2>1, <2>5 DEF ExpireEffect
    <3>2. /\ "RetryScheduled" \in Result /\ "RetryScheduled" \in Delayed
          /\ {c.retry_at} \in SUBSET Time /\ IsOption({c.retry_at})
          /\ {c.retry_at} # {}
          /\ \A t \in {c.retry_at} : now < t
      BY <2>1, <2>3, <2>5 DEF Result, Delayed, IsOption, ExpireAccepted
    <3> QED BY <2>1, <2>4, <3>1, <3>2, ReleaseSound
  <2>6. CASE ~ (j.attempt < j.max_attempts)
    <3>1. n = OutcomeEffect(j, "Failed", {}, now)
      BY <2>1, <2>6 DEF ExpireEffect
    <3>2. "Failed" \in Result /\ "Failed" \notin Delayed /\ IsOption({})
      BY DEF Result, Delayed, IsOption
    <3> QED BY <2>1, <2>4, <3>1, <3>2, ReleaseSound
  <2> QED BY <2>5, <2>6
<1>6. CASE c.type = "Resume"
  <2>1. ResumeAccepted(j, now) /\ n = ResumeEffect(j, now) /\ ends = {}
    BY <1>1, <1>6 DEF Accepted, Effect, EndsOf
  <2> QED BY <2>1, ResumeSound
<1>7. CASE c.type = "Cancel"
  <2>1. /\ CancelAccepted(j, now) /\ n = CancelEffect(j, now)
        /\ ends = EndedBy(j, "Cancelled")
    BY <1>1, <1>7 DEF Accepted, Effect, EndsOf, HowEnded
  <2> QED BY <2>1, CancelSound
<1>8. c.type \in {"Claim", "Heartbeat", "Outcome", "Expire", "Resume", "Cancel"}
  BY DEF Command, ClaimCommand, HeartbeatCommand, OutcomeCommand,
     ExpireCommand, PlainCommand
<1> QED BY <1>2, <1>3, <1>4, <1>5, <1>6, <1>7, <1>8

\* No operation is accepted on a job that succeeded.
LEMMA SucceededFinal ==
    ASSUME NEW j, SoundJob(j), j.status = "Succeeded", NEW n, NEW ends
    PROVE  ~ Follows(j, n, ends)
<1> SUFFICES ASSUME NEW c \in Command, NEW now \in Time, Accepted(j, c, now)
             PROVE  FALSE
  BY DEF Follows
<1>1. c.type \in {"Claim", "Heartbeat", "Outcome", "Expire", "Resume", "Cancel"}
  BY DEF Command, ClaimCommand, HeartbeatCommand, OutcomeCommand,
     ExpireCommand, PlainCommand
<1> QED BY <1>1 DEF Accepted, ClaimAccepted, HeartbeatAccepted,
       OutcomeAccepted, ExpireAccepted, ResumeAccepted, CancelAccepted,
       HoldsClaim, Delayed, Terminal

\* An operation that ends a claim with success leaves the job Succeeded.
LEMMA SuccessReported ==
    ASSUME NEW j, SoundJob(j), NEW n, NEW ends, Follows(j, n, ends),
           NEW e \in ends, e.by \in {"Succeeded", "Committed"}
    PROVE  n.status = "Succeeded" /\ n.last_fence = e.fence
<1>1. PICK c \in Command, now \in Time :
          Accepted(j, c, now) /\ n = Effect(j, c, now) /\ ends = EndsOf(j, c)
  BY DEF Follows
<1>2. ends = EndedBy(j, HowEnded(c))
  BY <1>1 DEF EndsOf
<1>3. PICK l \in j.active_claim : e = [fence |-> l.fence, by |-> HowEnded(c)]
  BY <1>2 DEF EndedBy
<1>4. e.by = HowEnded(c) /\ e.fence = l.fence
  BY <1>3
<1>5. c.type = "Outcome" /\ c.result \in {"Succeeded", "Committed"}
  BY <1>4 DEF HowEnded
<1>6. c \in OutcomeCommand
  BY <1>5 DEF Command, ClaimCommand, HeartbeatCommand, ExpireCommand,
     PlainCommand
<1>7. c.result = "Succeeded"
  BY <1>5, <1>6 DEF OutcomeCommand, Result
<1>8. n = OutcomeEffect(j, "Succeeded", c.retry_at, now)
  BY <1>1, <1>5, <1>7 DEF Effect
<1>9. n.status = "Succeeded" /\ n.last_fence = j.last_fence
  BY <1>8 DEF SoundJob, DeviceJob, OutcomeEffect, Advanced
<1>10. l.fence = j.last_fence
  BY <1>3 DEF SoundJob, Restorable
<1> QED BY <1>4, <1>9, <1>10

\* A commit is a release of the claim with success.
LEMMA CommitSound ==
    ASSUME NEW j, SoundJob(j), NEW row \in CommitRow, CommitValid(j, row),
           j.version < MaxVersion
    PROVE  /\ SoundJob(CommitEffect(j, row))
           /\ CommitEffect(j, row).version = j.version + 1
           /\ CommitEffect(j, row).status = "Succeeded"
           /\ CommitEffect(j, row).last_fence = row.claim_fence
           /\ Accounts(j, CommitEffect(j, row),
                       {[fence |-> row.claim_fence, by |-> "Committed"]})
<1> DEFINE now == row.executed_at
           n == CommitEffect(j, row)
<1>1. n = OutcomeEffect(j, "Succeeded", {}, now)
  BY DEF SoundJob, DeviceJob, CommitEffect, OutcomeEffect, Advanced
<1>2. now \in Time /\ CanAdvance(j, now) /\ j.status = "Running"
  BY DEF CommitRow, CommitValid, CanAdvance
<1>3. /\ "Succeeded" \in Result /\ "Succeeded" \notin Delayed /\ IsOption({})
      /\ "Committed" \in Result \cup {"Expired", "Cancelled", "Committed"}
  BY DEF Result, Delayed, IsOption
<1>4. PICK l \in DeviceClaim : j.active_claim = {l}
  BY <1>2, OptionClaim
<1>5. l.fence = row.claim_fence /\ j.last_fence = row.claim_fence
  BY <1>4 DEF CommitValid
<1>6. EndedBy(j, "Committed") =
          {[fence |-> row.claim_fence, by |-> "Committed"]}
  BY <1>4, <1>5 DEF EndedBy
<1>7. n.status = "Succeeded" /\ n.last_fence = j.last_fence
  BY DEF SoundJob, DeviceJob, CommitEffect
<1>8. /\ SoundJob(n) /\ n.version = j.version + 1
      /\ Accounts(j, n, EndedBy(j, "Committed"))
  BY <1>1, <1>2, <1>3, ReleaseSound
<1> QED BY <1>5, <1>6, <1>7, <1>8

-----------------------------------------------------------------------------
(* The invariant.                                                          *)

\* The table holds one row of the job, so two rows are the same.
LEMMA OneRow ==
    ASSUME TypeOK, StoredJobRestorable, NEW j \in job
    PROVE  job = {j} /\ SoundJob(j)
BY DEF TypeOK, StoredJobRestorable, IsOption, SoundJob

\* Replacing the row by its successor keeps every part of the invariant that
\* does not depend on who replaced it.
LEMMA RowReplaced ==
    ASSUME IInv, NEW j \in job, NEW n, NEW ends,
           SoundJob(n), n.version = j.version + 1, Accounts(j, n, ends),
           job' = {n}, ended' = ended \cup ends,
           \A r \in Requests : call'[r] = call[r] \/ call'[r] = Idle
    PROVE  /\ job' \subseteq DeviceJob /\ IsOption(job)'
           /\ \A k \in job' : IsOption(k.active_claim) /\ IsOption(k.retry_at)
           /\ ended' \subseteq End
           /\ StoredJobRestorable' /\ AttemptsEndOnce' /\ CallsCurrent'
<1>1. job = {j} /\ SoundJob(j)
  BY OneRow DEF IInv
<1>2. job' \subseteq DeviceJob /\ IsOption(job)' /\ StoredJobRestorable'
  BY DEF SoundJob, IsOption, StoredJobRestorable
<1>3. \A k \in job' : IsOption(k.active_claim) /\ IsOption(k.retry_at)
  BY DEF SoundJob
<1>4. ended' \subseteq End
  BY DEF IInv, TypeOK, Accounts
<1>5. AttemptsEndOnce'
  <2>1. /\ {e.fence : e \in ended} = (1 .. j.last_fence) \ Fences(j)
        /\ \A e, f \in ended : e.fence = f.fence => e = f
    BY DEF IInv, AttemptsEndOnce, Fences
  <2>2. {e.fence : e \in ended'} = (1 .. n.last_fence) \ Fences(n)
    <3>1. {e.fence : e \in ended \cup ends} =
              {e.fence : e \in ended} \cup {e.fence : e \in ends}
      OBVIOUS
    <3> QED BY <2>1, <3>1 DEF Accounts
  <2>3. \A e, f \in ended' : e.fence = f.fence => e = f
    <3>1. \A e \in ended : e.fence \notin Fences(j)
      BY <2>1
    <3> QED BY <2>1, <3>1 DEF Accounts
  <2> QED BY <2>2, <2>3 DEF AttemptsEndOnce, Fences
<1>6. CallsCurrent'
  <2> SUFFICES ASSUME NEW r \in Requests, call'[r].stage = "writing"
               PROVE  \E k \in job' :
                        /\ call'[r].expected_version <= k.version
                        /\ call'[r].expected_version = k.version =>
                              Follows(k, call'[r].next, call'[r].ends)
    BY DEF CallsCurrent
  <2>1. call'[r] = call[r]
    BY DEF Idle
  <2>2. call[r].expected_version <= j.version
    BY <1>1, <2>1 DEF IInv, CallsCurrent
  <2>3. /\ call[r].expected_version < n.version
        /\ call[r].expected_version # n.version
    <3>1. call[r] \in Call
      BY DEF IInv, TypeOK
    <3>2. call[r].expected_version \in Int /\ j.version \in Int
      BY <1>1, <2>1, <3>1 DEF Call, Idle, SoundJob, DeviceJob
    <3> QED BY <2>2, <3>2
  <2>4. n \in job' /\ call'[r].expected_version <= n.version
    <3>1. n.version \in Int /\ call[r] \in Call
      BY DEF IInv, TypeOK, SoundJob, DeviceJob
    <3>2. call[r].expected_version \in Int
      BY <2>1, <3>1 DEF Call, Idle
    <3> QED BY <2>1, <2>3, <3>1, <3>2
  <2> QED BY <2>1, <2>3, <2>4
<1> QED BY <1>2, <1>3, <1>4, <1>5, <1>6

\* The invariant holds before the job is issued.
LEMMA InitIInv == Init => IInv
<1> SUFFICES ASSUME Init PROVE IInv
  OBVIOUS
<1>1. TypeOK
  BY JobAssumption DEF Init, TypeOK, IsOption, Call, Idle, Time
<1>2. /\ StoredJobRestorable /\ AttemptsEndOnce /\ SuccessIsFinal
      /\ CommittedStateExact /\ NothingYet
  BY DEF Init, StoredJobRestorable, AttemptsEndOnce, SuccessIsFinal,
     CommittedStateExact, NothingYet
<1>3. CallsCurrent
  BY DEF Init, CallsCurrent, Idle
<1> QED BY <1>1, <1>2, <1>3 DEF IInv

\* execute_issue_device_job keeps the invariant.
LEMMA IssueIInv == IInv /\ Issue => IInv'
<1> SUFFICES ASSUME IInv, Issue PROVE IInv'
  OBVIOUS
<1>1. PICK n \in 1 .. AttemptLimit, now \in 0 .. clock :
          job' = {[version |-> 1, status |-> "PendingDevice", attempt |-> 0,
                   max_attempts |-> n, last_fence |-> 0, active_claim |-> {},
                   retry_at |-> {}, updated_at |-> now]}
  BY DEF Issue
<1> DEFINE k == [version |-> 1, status |-> "PendingDevice", attempt |-> 0,
                 max_attempts |-> n, last_fence |-> 0, active_claim |-> {},
                 retry_at |-> {}, updated_at |-> now]
<1>2. /\ job = {} /\ ended = {} /\ journal = {}
      /\ UNCHANGED <<journal, call, clock, ended>>
  BY DEF IInv, NothingYet, Issue
<1>3. now \in Time
  BY JobAssumption DEF IInv, TypeOK, Time
<1>4. k \in DeviceJob
  BY <1>3, JobAssumption DEF DeviceJob, Status
<1>5. Restorable(k)
  BY JobAssumption DEF Restorable, Result, Delayed
<1>6. TypeOK'
  BY <1>1, <1>2, <1>4 DEF IInv, TypeOK, IsOption
<1>7. StoredJobRestorable'
  BY <1>1, <1>5 DEF StoredJobRestorable
<1>8. AttemptsEndOnce'
  <2>1. {l.fence : l \in {}} = {} /\ {e.fence : e \in {}} = {} /\ 1 .. 0 = {}
    OBVIOUS
  <2> QED BY <1>1, <1>2, <2>1 DEF AttemptsEndOnce
<1>9. SuccessIsFinal' /\ CommittedStateExact' /\ NothingYet'
  BY <1>1, <1>2 DEF SuccessIsFinal, CommittedStateExact, NothingYet
<1>10. CallsCurrent'
  BY <1>2 DEF IInv, CallsCurrent
<1> QED BY <1>6, <1>7, <1>8, <1>9, <1>10 DEF IInv

\* The commit trigger keeps the invariant: calls in progress become stale.
LEMMA CommitIInv == IInv /\ Commit => IInv'
<1> SUFFICES ASSUME IInv, Commit PROVE IInv'
  OBVIOUS
<1>1. PICK j \in job, row \in CommitRow :
          /\ j.version < MaxVersion
          /\ CommitValid(j, row)
          /\ job' = {CommitEffect(j, row)}
          /\ journal' = {row}
          /\ ended' = ended \cup {[fence |-> row.claim_fence,
                                   by |-> "Committed"]}
  BY DEF Commit
<1> DEFINE n == CommitEffect(j, row)
           x == [fence |-> row.claim_fence, by |-> "Committed"]
<1>2. job = {j} /\ SoundJob(j)
  BY OneRow DEF IInv
<1>3. /\ SoundJob(n) /\ n.version = j.version + 1
      /\ n.status = "Succeeded" /\ n.last_fence = row.claim_fence
      /\ Accounts(j, n, {x})
  BY <1>1, <1>2, CommitSound
<1>4. UNCHANGED <<call, clock>>
  BY DEF Commit
<1>5. /\ job' \subseteq DeviceJob /\ IsOption(job)'
      /\ \A k \in job' : IsOption(k.active_claim) /\ IsOption(k.retry_at)
      /\ ended' \subseteq End
      /\ StoredJobRestorable' /\ AttemptsEndOnce' /\ CallsCurrent'
  BY <1>1, <1>3, <1>4, RowReplaced
<1>6. TypeOK'
  <2>1. journal' \subseteq CommitRow /\ IsOption(journal)'
    BY <1>1 DEF IsOption
  <2> QED BY <1>4, <1>5, <2>1 DEF IInv, TypeOK
<1>7. SuccessIsFinal'
  <2>1. j.status = "Running"
    BY <1>1 DEF CommitValid
  <2>2. \A e \in ended : e.by \notin {"Succeeded", "Committed"}
    BY <2>1 DEF IInv, SuccessIsFinal
  <2>3. x.fence = row.claim_fence
    OBVIOUS
  <2> QED BY <1>1, <1>3, <2>2, <2>3 DEF SuccessIsFinal
<1>8. CommittedStateExact'
  <2>1. /\ n.active_claim = {} /\ n.retry_at = {}
        /\ n.updated_at = row.executed_at
    BY <1>2 DEF SoundJob, DeviceJob, CommitEffect
  <2>2. n.version = row.expected_job_version + 1
    BY <1>1, <1>3 DEF CommitValid
  <2> QED BY <1>1, <1>3, <2>1, <2>2 DEF CommittedStateExact
<1>9. NothingYet'
  BY <1>1 DEF NothingYet
<1> QED BY <1>5, <1>6, <1>7, <1>8, <1>9 DEF IInv

\* Steps of a request that leave the row alone.
LEMMA BeginIInv ==
    ASSUME IInv, NEW r \in Requests, Begin(r) \/ GiveUp(r)
    PROVE  IInv'
<1>1. UNCHANGED <<job, journal, clock, ended>>
  BY DEF Begin, GiveUp
<1>2. PICK x : /\ x = Idle \/ x = [stage |-> "authorizing", observed_at |-> clock]
               /\ call' = [call EXCEPT ![r] = x]
  BY DEF Begin, GiveUp
<1>3. x \in Call /\ x.stage # "writing"
  BY <1>2 DEF Call, Idle, IInv, TypeOK
<1>4. TypeOK'
  BY <1>1, <1>2, <1>3 DEF IInv, TypeOK, IsOption
<1>5. CallsCurrent'
  BY <1>1, <1>2, <1>3 DEF IInv, TypeOK, CallsCurrent
<1>6. /\ StoredJobRestorable' /\ AttemptsEndOnce' /\ SuccessIsFinal'
      /\ CommittedStateExact' /\ NothingYet'
  BY <1>1 DEF IInv, StoredJobRestorable, AttemptsEndOnce, SuccessIsFinal,
     CommittedStateExact, NothingYet
<1> QED BY <1>4, <1>5, <1>6 DEF IInv

\* load_exact_job and the operation on the copy keep the invariant.
LEMMA LoadIInv ==
    ASSUME IInv, NEW r \in Requests, Load(r)
    PROVE  IInv'
<1>1. UNCHANGED <<job, journal, clock, ended>>
  BY DEF Load
<1>2. PICK j \in job, c \in Command :
          /\ Accepted(j, c, call[r].observed_at)
          /\ call' = [call EXCEPT ![r] =
                [stage |-> "writing", expected_version |-> j.version,
                 next |-> Effect(j, c, call[r].observed_at),
                 ends |-> EndsOf(j, c)]]
  BY DEF Load
<1> DEFINE now == call[r].observed_at
           x == [stage |-> "writing", expected_version |-> j.version,
                 next |-> Effect(j, c, now), ends |-> EndsOf(j, c)]
<1>3. now \in Time
  BY DEF Load, IInv, TypeOK, Call, Idle
<1>4. job = {j} /\ SoundJob(j)
  BY OneRow DEF IInv
<1>5. Follows(j, x.next, x.ends)
  BY <1>2, <1>3 DEF Follows
<1>6. SoundJob(x.next) /\ Accounts(j, x.next, x.ends)
  BY <1>4, <1>5, FollowsSound
<1>7. x \in Call
  BY <1>4, <1>6 DEF Call, SoundJob, DeviceJob, Accounts
<1>8. call' = [call EXCEPT ![r] = x]
  BY <1>2
<1>9. x.expected_version = j.version
  OBVIOUS
<1> HIDE DEF x
<1>10. TypeOK'
  BY <1>1, <1>7, <1>8 DEF IInv, TypeOK, IsOption
<1>11. CallsCurrent'
  <2>1. j.version <= j.version
    BY <1>4 DEF SoundJob, DeviceJob
  <2>2. call'[r] = x
    BY <1>8 DEF IInv, TypeOK
  <2>3. \A q \in Requests \ {r} : call'[q] = call[q]
    BY <1>8 DEF IInv, TypeOK
  <2> QED BY <1>1, <1>5, <1>9, <2>1, <2>2, <2>3 DEF IInv, CallsCurrent
<1>12. /\ StoredJobRestorable' /\ AttemptsEndOnce' /\ SuccessIsFinal'
       /\ CommittedStateExact' /\ NothingYet'
  BY <1>1 DEF IInv, StoredJobRestorable, AttemptsEndOnce, SuccessIsFinal,
     CommittedStateExact, NothingYet
<1> QED BY <1>10, <1>11, <1>12 DEF IInv

\* compare_and_swap_device_job keeps the invariant, applied or not.
LEMMA WriteIInv ==
    ASSUME IInv, NEW r \in Requests, Write(r)
    PROVE  IInv'
<1>1. /\ call[r].stage = "writing" /\ UNCHANGED <<journal, clock>>
      /\ call' = [call EXCEPT ![r] = Idle]
  BY DEF Write
<1>2. /\ call' \in [Requests -> Call]
      /\ \A q \in Requests : call'[q] = call[q] \/ call'[q] = Idle
  BY <1>1 DEF IInv, TypeOK, Call
<1>3. CASE SwapApplies(r)
  <2>1. PICK j \in job : j.version = call[r].expected_version
    BY <1>3 DEF SwapApplies
  <2> DEFINE n == call[r].next
             ends == call[r].ends
  <2>2. job = {j} /\ SoundJob(j)
    BY OneRow DEF IInv
  <2>3. Follows(j, n, ends)
    BY <1>1, <2>1, <2>2 DEF IInv, CallsCurrent
  <2>4. SoundJob(n) /\ n.version = j.version + 1 /\ Accounts(j, n, ends)
    BY <2>2, <2>3, FollowsSound
  <2>5. job' = {n} /\ ended' = ended \cup ends
    BY <1>3 DEF Write
  <2>6. /\ job' \subseteq DeviceJob /\ IsOption(job)'
        /\ \A k \in job' : IsOption(k.active_claim) /\ IsOption(k.retry_at)
        /\ ended' \subseteq End
        /\ StoredJobRestorable' /\ AttemptsEndOnce' /\ CallsCurrent'
    BY <1>2, <2>4, <2>5, RowReplaced
  <2>7. TypeOK'
    BY <1>1, <1>2, <2>6 DEF IInv, TypeOK, IsOption
  <2>8. j.status # "Succeeded"
    BY <2>2, <2>3, SucceededFinal
  <2>9. SuccessIsFinal'
    <3>1. \A e \in ended : e.by \notin {"Succeeded", "Committed"}
      BY <2>8 DEF IInv, SuccessIsFinal
    <3>2. \A e \in ends : e.by \in {"Succeeded", "Committed"} =>
              n.status = "Succeeded" /\ n.last_fence = e.fence
      BY <2>2, <2>3, SuccessReported
    <3> QED BY <2>5, <3>1, <3>2 DEF SuccessIsFinal
  <2>10. journal = {}
    BY <2>8 DEF IInv, CommittedStateExact
  <2>11. CommittedStateExact' /\ NothingYet'
    BY <1>1, <2>5, <2>10 DEF CommittedStateExact, NothingYet
  <2> QED BY <2>6, <2>7, <2>9, <2>11 DEF IInv
<1>4. CASE ~ SwapApplies(r)
  <2>1. UNCHANGED <<job, ended>>
    BY <1>4 DEF Write
  <2>2. TypeOK'
    BY <1>1, <1>2, <2>1 DEF IInv, TypeOK, IsOption
  <2>3. CallsCurrent'
    BY <1>2, <2>1 DEF IInv, CallsCurrent, Idle
  <2>4. /\ StoredJobRestorable' /\ AttemptsEndOnce' /\ SuccessIsFinal'
        /\ CommittedStateExact' /\ NothingYet'
    BY <1>1, <2>1 DEF IInv, StoredJobRestorable, AttemptsEndOnce,
       SuccessIsFinal, CommittedStateExact, NothingYet
  <2> QED BY <2>2, <2>3, <2>4 DEF IInv
<1> QED BY <1>3, <1>4

\* Every step keeps the invariant.
LEMMA NextIInv == IInv /\ [Next]_vars => IInv'
<1> SUFFICES ASSUME IInv, [Next]_vars PROVE IInv'
  OBVIOUS
<1>1. CASE Issue
  BY <1>1, IssueIInv
<1>2. CASE Commit
  BY <1>2, CommitIInv
<1>3. CASE Tock \/ UNCHANGED vars
  <2>1. UNCHANGED <<job, journal, call, ended>> /\ clock' \in Time
    BY <1>3, JobAssumption DEF Tock, vars, IInv, TypeOK, Time
  <2>2. TypeOK' /\ CallsCurrent'
    BY <2>1 DEF IInv, TypeOK, IsOption, CallsCurrent
  <2>3. /\ StoredJobRestorable' /\ AttemptsEndOnce' /\ SuccessIsFinal'
        /\ CommittedStateExact' /\ NothingYet'
    BY <2>1 DEF IInv, StoredJobRestorable, AttemptsEndOnce, SuccessIsFinal,
       CommittedStateExact, NothingYet
  <2> QED BY <2>2, <2>3 DEF IInv
<1>4. CASE \E r \in Requests : Begin(r) \/ Load(r) \/ Write(r) \/ GiveUp(r)
  BY <1>4, BeginIInv, LoadIInv, WriteIInv
<1> QED BY <1>1, <1>2, <1>3, <1>4 DEF Next

-----------------------------------------------------------------------------
(* Theorems.                                                               *)

\* The inductive invariant holds in every reachable state.
THEOREM Inductive == Spec => []IInv
BY InitIInv, NextIInv, PTL DEF Spec

\* Rows, requests and history keep their types, and no addition of leases,
\* attempts, fences or versions overflows.
THEOREM TypeCorrect == Spec => []TypeOK
<1>1. IInv => TypeOK
  BY DEF IInv
<1> QED BY <1>1, Inductive, PTL

\* DeviceJob::restore accepts the stored row after any interleaving of
\* requests and generation commits.
THEOREM JobsRestorable == Spec => []StoredJobRestorable
<1>1. IInv => StoredJobRestorable
  BY DEF IInv
<1> QED BY <1>1, Inductive, PTL

\* With any number of requests in progress, each claim of a job ends exactly
\* once: compare_and_swap_device_job loses no update.
THEOREM ClaimsEndOnce == Spec => []AttemptsEndOnce
<1>1. IInv => AttemptsEndOnce
  BY DEF IInv
<1> QED BY <1>1, Inductive, PTL

\* A reported or committed success is never undone.
THEOREM SuccessFinal == Spec => []SuccessIsFinal
<1>1. IInv => SuccessIsFinal
  BY DEF IInv
<1> QED BY <1>1, Inductive, PTL

\* The job of a committed generation always passes committed_state_is_exact.
THEOREM CommitsExact == Spec => []CommittedStateExact
<1>1. IInv => CommittedStateExact
  BY DEF IInv
<1> QED BY <1>1, Inductive, PTL
=============================================================================
