--------------------------- MODULE ApiClient_proofs ---------------------------
(***************************************************************************)
(* What ApiClient promises about creates, and about a token that has been  *)
(* rejected, for any number of processes, retries, revocations and kills.  *)
(***************************************************************************)
EXTENDS ApiClient, TLAPS

USE ClientAssumption

\* A repeatable call has been executed at most once per transient fault, plus
\* once by the attempt that ended it.
RepeatsBounded ==
    \A p \in Idempotent :
        executed[p] <= transient[p] + (IF pc[p] = "done" THEN 1 ELSE 0)

\* A create was executed only if its call has ended, with a success or with
\* the exit that calls its outcome unknown, and then once.
CreatesOnce ==
    \A p \in Procs \ Idempotent :
        /\ executed[p] <= 1
        /\ executed[p] > 0 => pc[p] = "done" /\ outcome[p] \in {"ok", "ambiguous"}

IInv == TypeOK /\ RepeatsBounded /\ CreatesOnce

\* Steps other than sending leave the counters alone and never move a process
\* that has ended.
Quiet ==
    /\ UNCHANGED <<transient, executed>>
    /\ \A p \in Procs : pc[p] = "done" => pc'[p] = "done" /\ outcome'[p] = outcome[p]

\* Initially nothing has been sent.
LEMMA InitIInv == Init => IInv
  BY DEF Init, IInv, TypeOK, RepeatsBounded, CreatesOnce, Gens, FileContent,
         ExpiryContent, NoFile, EmptyFile, Steps, Outcomes

\* The type invariant is preserved by a process that looks at the cache.
LEMMA ReadSteps ==
    ASSUME TypeOK, NEW p \in Procs,
           \/ UseMemory(p) \/ StatToken(p) \/ StatExpiry(p) \/ ReadExpiry(p)
           \/ StatAge(p) \/ ReadToken(p)
    PROVE  TypeOK' /\ Quiet
<1>1. CASE UseMemory(p)
  BY <1>1 DEF UseMemory, TypeOK, Quiet, Goto, Steps, env, cache, loop
<1>2. CASE StatToken(p)
  BY <1>2 DEF StatToken, TypeOK, Quiet, Goto, Steps, env, cache, loop
<1>3. CASE StatExpiry(p)
  BY <1>3 DEF StatExpiry, TypeOK, Quiet, Goto, Steps, env, cache, loop
<1>4. CASE ReadExpiry(p)
  BY <1>4 DEF ReadExpiry, TypeOK, Quiet, Goto, Finish, Steps, Outcomes, env, cache, loop
<1>5. CASE StatAge(p)
  BY <1>5 DEF StatAge, TypeOK, Quiet, Goto, Finish, Steps, Outcomes, env, cache, loop
<1>6. CASE ReadToken(p)
  <2>. USE <1>6 DEF ReadToken, TypeOK, Goto, Finish, Steps, Outcomes, env, cache, loop
  <2>1. CASE tokenFile = NoFile
    BY <2>1 DEF Quiet, NoFile, EmptyFile, Gens
  <2>2. CASE tokenFile = EmptyFile
    BY <2>2 DEF Quiet, NoFile, EmptyFile, Gens
  <2>3. CASE tokenFile \in Gens
    <3>1. tokenFile # NoFile /\ tokenFile # EmptyFile
      BY <2>3 DEF NoFile, EmptyFile, Gens
    <3>2. /\ mem' = [mem EXCEPT ![p] = tokenFile]
          /\ pc' = [pc EXCEPT ![p] = "send"]
          /\ UNCHANGED <<env, cache, loop, fetched, outcome>>
      BY <3>1
    <3>3. TypeOK'
      BY <2>3, <3>2
    <3>4. Quiet
      BY <3>2 DEF Quiet
    <3>. QED  BY <3>3, <3>4
  <2>. QED  BY <2>1, <2>2, <2>3 DEF FileContent
<1>. QED  BY <1>1, <1>2, <1>3, <1>4, <1>5, <1>6

\* ... by one that authenticates and writes the cache,
LEMMA WriteSteps ==
    ASSUME TypeOK, NEW p \in Procs,
           \/ Authenticate(p) \/ OpenToken(p) \/ FillToken(p)
           \/ OpenExpiry(p) \/ FillExpiry(p)
    PROVE  TypeOK' /\ Quiet
<1>1. CASE Authenticate(p)
  BY <1>1 DEF Authenticate, TypeOK, Quiet, Goto, Finish, Steps, Outcomes, env, cache, loop
<1>2. CASE OpenToken(p)
  BY <1>2 DEF OpenToken, TypeOK, Quiet, Goto, Steps, FileContent, env, cache, loop
<1>3. CASE FillToken(p)
  <2>. USE <1>3 DEF FillToken, TypeOK, Goto, Finish, Steps, Outcomes, env, cache, loop
  <2>1. CASE tokenFile = NoFile
    BY <2>1 DEF Quiet
  <2>2. CASE tokenFile # NoFile
    <3>1. /\ tokenFile' = fetched[p]
          /\ UNCHANGED <<env, loop, tokenOld, expiryFile, fetched, outcome>>
          /\ \/ /\ mem' = [mem EXCEPT ![p] = fetched[p]]
                /\ pc' = [pc EXCEPT ![p] = "send"]
             \/ pc' = [pc EXCEPT ![p] = "open_expiry"] /\ UNCHANGED mem
      BY <2>2
    <3>2. TypeOK'
      BY <3>1 DEF FileContent
    <3>3. Quiet
      BY <3>1 DEF Quiet
    <3>. QED  BY <3>2, <3>3
  <2>. QED  BY <2>1, <2>2
<1>4. CASE OpenExpiry(p)
  BY <1>4 DEF OpenExpiry, TypeOK, Quiet, Goto, Steps, ExpiryContent, env, cache, loop
<1>5. CASE FillExpiry(p)
  <2>. USE <1>5 DEF FillExpiry, TypeOK, Goto, Finish, Steps, Outcomes, env, cache, loop
  <2>1. CASE expiryFile = "absent"
    BY <2>1 DEF Quiet
  <2>2. CASE expiryFile # "absent"
    <3>1. /\ expiryFile' = "live"
          /\ mem' = [mem EXCEPT ![p] = fetched[p]]
          /\ pc' = [pc EXCEPT ![p] = "send"]
          /\ UNCHANGED <<env, loop, tokenFile, tokenOld, fetched, outcome>>
      BY <2>2
    <3>2. TypeOK'
      BY <3>1 DEF ExpiryContent
    <3>3. Quiet
      BY <3>1 DEF Quiet
    <3>. QED  BY <3>2, <3>3
  <2>. QED  BY <2>1, <2>2
<1>. QED  BY <1>1, <1>2, <1>3, <1>4, <1>5

\* ... by one that clears the cache after a 401,
LEMMA ClearSteps ==
    ASSUME TypeOK, NEW p \in Procs,
           \/ SeeToken(p) \/ UnlinkToken(p) \/ SeeExpiry(p) \/ UnlinkExpiry(p)
    PROVE  TypeOK' /\ Quiet
<1>1. CASE SeeToken(p)
  BY <1>1 DEF SeeToken, TypeOK, Quiet, Goto, Steps, env, cache, loop
<1>2. CASE UnlinkToken(p)
  BY <1>2 DEF UnlinkToken, TypeOK, Quiet, Goto, Finish, Steps, Outcomes, FileContent,
              env, cache, loop
<1>3. CASE SeeExpiry(p)
  BY <1>3 DEF SeeExpiry, Forget, TypeOK, Quiet, Goto, Steps, env, cache, loop
<1>4. CASE UnlinkExpiry(p)
  BY <1>4 DEF UnlinkExpiry, Forget, TypeOK, Quiet, Goto, Finish, Steps, Outcomes,
              ExpiryContent, env, cache, loop
<1>. QED  BY <1>1, <1>2, <1>3, <1>4

\* ... and by everything around the processes.
LEMMA WorldSteps ==
    ASSUME TypeOK,
           \/ Revoke \/ RefreshCredential \/ TimePasses
           \/ \E p \in Procs : Kill(p)
    PROVE  TypeOK' /\ Quiet
<1>1. CASE Revoke
  BY <1>1 DEF Revoke, TypeOK, Quiet, Gens, FileContent, cache, loop
<1>2. CASE RefreshCredential
  BY <1>2 DEF RefreshCredential, TypeOK, Quiet, cache, loop
<1>3. CASE TimePasses
  BY <1>3 DEF TimePasses, TypeOK, Quiet, ExpiryContent, env, loop
<1>4. ASSUME NEW p \in Procs, Kill(p) PROVE TypeOK' /\ Quiet
  BY <1>4 DEF Kill, Finish, Goto, TypeOK, Quiet, Steps, Outcomes, env, cache, loop
<1>. QED  BY <1>1, <1>2, <1>3, <1>4

\* A quiet step cannot disturb the bounds on executions.
LEMMA QuietKeepsBounds ==
    ASSUME IInv, TypeOK', Quiet
    PROVE  IInv'
<1>1. RepeatsBounded'
  <2>1. ASSUME NEW p \in Idempotent
        PROVE  executed'[p] <= transient'[p] + (IF pc'[p] = "done" THEN 1 ELSE 0)
    BY <2>1 DEF IInv, RepeatsBounded, TypeOK, Quiet
  <2>. QED  BY <2>1 DEF RepeatsBounded
<1>2. CreatesOnce'
  BY DEF IInv, CreatesOnce, TypeOK, Quiet
<1>. QED  BY <1>1, <1>2 DEF IInv

\* Sending: the one step that counts.
LEMMA SendKeepsBounds ==
    ASSUME IInv, NEW p \in Procs, Send(p)
    PROVE  IInv'
<1>. USE DEF Goto, Finish, Retry, GiveUp, MayExecute, Steps, Outcomes, env, cache
<1>0. pc[p] = "send"
  BY DEF Send
<1>1. CASE NeverSent(p)
  <2>1. TypeOK'
    BY <1>1 DEF IInv, TypeOK, Send, NeverSent
  <2>2. RepeatsBounded'
    BY <1>0, <1>1, <2>1 DEF IInv, TypeOK, RepeatsBounded, NeverSent
  <2>3. CreatesOnce'
    <3>1. \A q \in Procs : executed'[q] = executed[q]
      BY <1>1 DEF NeverSent
    <3>2. \A q \in Procs \ {p} : pc'[q] = pc[q] /\ outcome'[q] = outcome[q]
      BY <1>1 DEF IInv, TypeOK, NeverSent
    <3>3. ASSUME NEW q \in Procs \ Idempotent
          PROVE  /\ executed'[q] <= 1
                 /\ executed'[q] > 0 => pc'[q] = "done" /\ outcome'[q] \in {"ok", "ambiguous"}
      <4>1. CASE q = p
        BY <1>0, <3>1, <4>1 DEF IInv, CreatesOnce, TypeOK
      <4>2. CASE q # p
        BY <3>1, <3>2, <4>2 DEF IInv, CreatesOnce
      <4>. QED  BY <4>1, <4>2
    <3>. QED  BY <3>3 DEF CreatesOnce
  <2>. QED  BY <2>1, <2>2, <2>3 DEF IInv
<1>2. ASSUME NEW how \in {"exhausted", "http_error"}, Ambiguous(p, how)
      PROVE  IInv'
  <2>1. TypeOK'
    BY <1>2 DEF IInv, TypeOK, Send, Ambiguous
  <2>2. RepeatsBounded'
    BY <1>0, <1>2, <2>1 DEF IInv, TypeOK, RepeatsBounded, Ambiguous
  <2>3. CreatesOnce'
    BY <1>0, <1>2, <2>1 DEF IInv, TypeOK, CreatesOnce, Ambiguous
  <2>. QED  BY <2>1, <2>2, <2>3 DEF IInv
<1>3. CASE Accepted(p)
  <2>1. TypeOK'
    BY <1>3 DEF IInv, TypeOK, Send, Accepted
  <2>2. RepeatsBounded'
    BY <1>0, <1>3, <2>1 DEF IInv, TypeOK, RepeatsBounded, Accepted
  <2>3. CreatesOnce'
    BY <1>0, <1>3, <2>1 DEF IInv, TypeOK, CreatesOnce, Accepted
  <2>. QED  BY <2>1, <2>2, <2>3 DEF IInv
<1>4. CASE Refused(p)
  <2>1. TypeOK' /\ Quiet
    BY <1>0, <1>4 DEF IInv, TypeOK, Send, Refused, Quiet
  <2>. QED  BY <2>1, QuietKeepsBounds
<1>5. CASE Unauthorized(p)
  <2>1. UNCHANGED <<env, cache, mem, fetched, transient, executed>>
    BY <1>5 DEF Send, Unauthorized
  <2>2. CASE ~retried401[p]
    <3>1. /\ retried401' = [retried401 EXCEPT ![p] = TRUE]
          /\ rejectedAt' = [rejectedAt EXCEPT ![p] = gen]
          /\ pc' = [pc EXCEPT ![p] = "see_token"]
          /\ UNCHANGED outcome
      BY <1>5, <2>2 DEF Unauthorized
    <3>2. TypeOK'
      BY <2>1, <3>1 DEF IInv, TypeOK
    <3>3. Quiet
      BY <1>0, <2>1, <3>1 DEF IInv, TypeOK, Quiet
    <3>. QED  BY <3>2, <3>3, QuietKeepsBounds
  <2>3. CASE retried401[p]
    <3>1. /\ pc' = [pc EXCEPT ![p] = "done"]
          /\ outcome' = [outcome EXCEPT ![p] = "http_401"]
          /\ UNCHANGED <<retried401, rejectedAt>>
      BY <1>5, <2>3 DEF Unauthorized
    <3>2. TypeOK'
      BY <2>1, <3>1 DEF IInv, TypeOK
    <3>3. Quiet
      BY <1>0, <2>1, <3>1 DEF IInv, TypeOK, Quiet
    <3>. QED  BY <3>2, <3>3, QuietKeepsBounds
  <2>. QED  BY <2>2, <2>3
<1>. QED  BY <1>1, <1>2, <1>3, <1>4, <1>5 DEF Send

\* Every step keeps the inductive invariant.
LEMMA NextIInv == IInv /\ [Next]_vars => IInv'
<1>. SUFFICES ASSUME IInv, [Next]_vars PROVE IInv'
  OBVIOUS
<1>0. TypeOK
  BY DEF IInv
<1>1. ASSUME NEW p \in Procs, Step(p) PROVE IInv'
  BY <1>0, <1>1, ReadSteps, WriteSteps, ClearSteps, QuietKeepsBounds, SendKeepsBounds
     DEF Step
<1>2. CASE Revoke \/ RefreshCredential \/ TimePasses \/ \E p \in Procs : Kill(p)
  BY <1>0, <1>2, WorldSteps, QuietKeepsBounds
<1>3. CASE UNCHANGED vars
  BY <1>3 DEF vars, IInv, TypeOK, RepeatsBounded, CreatesOnce
<1>. QED  BY <1>1, <1>2, <1>3 DEF Next

\* IInv holds in every reachable state.
THEOREM Invariance == Spec => []IInv
  BY InitIInv, NextIInv, PTL DEF Spec

\* The variables keep their types.
THEOREM TypeCorrect == Spec => []TypeOK
<1>1. IInv => TypeOK
  BY DEF IInv
<1>. QED  BY <1>1, Invariance, PTL

\* No fault, retry, revocation or other process makes the server execute a
\* create twice, or a repeatable call more than RetryMax + 1 times.
THEOREM NoDuplicate == Spec => []NoDuplicateCreate
<1>1. IInv => NoDuplicateCreate
  BY DEF IInv, TypeOK, RepeatsBounded, CreatesOnce, NoDuplicateCreate
<1>. QED  BY <1>1, Invariance, PTL

\* A create that failed definitely can be repeated: it was not executed.
THEOREM DefiniteFailure == Spec => []DefiniteFailureHasNoEffect
<1>1. IInv => DefiniteFailureHasNoEffect
  BY DEF IInv, TypeOK, CreatesOnce, DefiniteFailureHasNoEffect
<1>. QED  BY <1>1, Invariance, PTL

-----------------------------------------------------------------------------
(* The second 401                                                          *)

Writing == {"open_token", "fill_token", "open_expiry", "fill_expiry"}
Clearing == {"see_token", "unlink_token"}

\* No other process has authenticated.
Alone(p) == \A q \in Procs \ {p} : fetched[q] = NoFile

\* What p has and finds once it has cleared the cache: no token older than gen.
Fresh(p) ==
    /\ pc[p] \notin Clearing \cup {"done"} => tokenFile \in {NoFile, EmptyFile, gen}
    /\ pc[p] \in Writing => fetched[p] = gen
    /\ pc[p] = "token" => mem[p] \in {NoFile, gen}
    /\ pc[p] = "send" => mem[p] = gen
    /\ outcome[p] # "http_401"

Rejection(p) ==
    /\ pc[p] \in Writing => fetched[p] # NoFile
    /\ outcome[p] = "http_401" => retried401[p]
    /\ retried401[p] => rejectedAt[p] <= gen
    /\ ~tokenEnv /\ Alone(p) /\ retried401[p] /\ rejectedAt[p] = gen => Fresh(p)

Rejections == \A p \in Procs : Rejection(p)

\* What a step of p can change for the other processes: the cache files.
LEMMA StepIsLocal ==
    ASSUME TypeOK, NEW p \in Procs, Step(p) \/ Kill(p)
    PROVE  /\ UNCHANGED env
           /\ fetched'[p] = fetched[p] \/ fetched'[p] # NoFile
           /\ pc[p] \in Writing \/ tokenFile' \in {tokenFile, NoFile}
           /\ \A q \in Procs \ {p} :
                 /\ pc'[q] = pc[q] /\ mem'[q] = mem[q] /\ fetched'[q] = fetched[q]
                 /\ retried401'[q] = retried401[q] /\ rejectedAt'[q] = rejectedAt[q]
                 /\ outcome'[q] = outcome[q]
<1>. USE DEF Goto, Finish, TypeOK, env, cache, loop
<1>1. CASE UseMemory(p) \/ StatToken(p) \/ StatExpiry(p)
  BY <1>1 DEF UseMemory, StatToken, StatExpiry
<1>2. CASE ReadExpiry(p) \/ StatAge(p) \/ ReadToken(p)
  BY <1>2 DEF ReadExpiry, StatAge, ReadToken
<1>3. CASE Authenticate(p)
  BY <1>3 DEF Authenticate, Gens, NoFile
<1>4. CASE OpenToken(p) \/ FillToken(p) \/ OpenExpiry(p) \/ FillExpiry(p)
  BY <1>4 DEF OpenToken, FillToken, OpenExpiry, FillExpiry, Writing
<1>5. CASE Send(p)
  BY <1>5 DEF Send, NeverSent, Ambiguous, Accepted, Refused, Unauthorized, Retry, GiveUp
<1>6. CASE SeeToken(p) \/ UnlinkToken(p) \/ SeeExpiry(p) \/ UnlinkExpiry(p)
  BY <1>6 DEF SeeToken, UnlinkToken, SeeExpiry, UnlinkExpiry, Forget
<1>7. CASE Kill(p)
  BY <1>7 DEF Kill
<1>. QED  BY <1>1, <1>2, <1>3, <1>4, <1>5, <1>6, <1>7 DEF Step

\* A process that has never authenticated puts no token in the cache.
LEMMA OthersKeepRejection ==
    ASSUME TypeOK, Rejections, NEW p \in Procs, NEW q \in Procs \ {p}, Step(q) \/ Kill(q)
    PROVE  Rejection(p)'
<1>1. /\ UNCHANGED <<tokenEnv, gen>>
      /\ pc'[p] = pc[p] /\ mem'[p] = mem[p] /\ fetched'[p] = fetched[p]
      /\ retried401'[p] = retried401[p] /\ rejectedAt'[p] = rejectedAt[p]
      /\ outcome'[p] = outcome[p]
  BY StepIsLocal DEF env
<1>2. Rejection(p)
  BY DEF Rejections
<1>3. Alone(p)' => Alone(p) /\ tokenFile' \in {tokenFile, NoFile}
  <2>. SUFFICES ASSUME Alone(p)' PROVE Alone(p) /\ tokenFile' \in {tokenFile, NoFile}
    OBVIOUS
  <2>1. \A r \in Procs \ {p} : fetched[r] = NoFile
    BY StepIsLocal DEF Alone
  <2>2. pc[q] \notin Writing
    BY <2>1 DEF Rejections, Rejection
  <2>. QED  BY <2>1, <2>2, StepIsLocal DEF Alone
<1>. QED  BY <1>1, <1>2, <1>3 DEF Rejection, Fresh

\* p itself: what it reads, writes and sends after its first 401 is of this generation.
LEMMA OwnKeepsRejection ==
    ASSUME TypeOK, TypeOK', Rejections, NEW p \in Procs, Step(p) \/ Kill(p)
    PROVE  Rejection(p)'
<1>0. Rejection(p) /\ (Alone(p)' <=> Alone(p))
  BY StepIsLocal DEF Rejections, Alone
<1>. USE DEF Goto, Finish, TypeOK, env, cache, loop, Rejection, Fresh, Writing, Clearing
<1>1. CASE UseMemory(p) \/ StatToken(p) \/ StatExpiry(p)
  BY <1>0, <1>1 DEF UseMemory, StatToken, StatExpiry
<1>2. CASE ReadExpiry(p) \/ StatAge(p)
  BY <1>0, <1>2 DEF ReadExpiry, StatAge
<1>3. CASE ReadToken(p)
  BY <1>0, <1>3 DEF ReadToken, NoFile, EmptyFile, Gens
<1>4. CASE Authenticate(p)
  BY <1>0, <1>4 DEF Authenticate, Gens, NoFile
<1>5. CASE OpenToken(p) \/ OpenExpiry(p)
  BY <1>0, <1>5 DEF OpenToken, OpenExpiry
<1>6. CASE FillToken(p) \/ FillExpiry(p)
  BY <1>0, <1>6 DEF FillToken, FillExpiry
<1>7. CASE Send(p)
  <2>1. CASE Unauthorized(p)
    BY <1>0, <1>7, <2>1 DEF Send, Unauthorized, Gens
  <2>2. CASE NeverSent(p) \/ Ambiguous(p, "exhausted") \/ Ambiguous(p, "http_error")
    BY <1>0, <1>7, <2>2 DEF Send, NeverSent, Ambiguous, Retry, GiveUp
  <2>3. CASE Accepted(p) \/ Refused(p)
    BY <1>0, <1>7, <2>3 DEF Send, Accepted, Refused
  <2>. QED  BY <1>7, <2>1, <2>2, <2>3 DEF Send
<1>8. CASE SeeToken(p) \/ UnlinkToken(p)
  BY <1>0, <1>8 DEF SeeToken, UnlinkToken
<1>9. CASE SeeExpiry(p) \/ UnlinkExpiry(p)
  BY <1>0, <1>9 DEF SeeExpiry, UnlinkExpiry, Forget
<1>10. CASE Kill(p)
  BY <1>0, <1>10 DEF Kill
<1>. QED
  BY <1>1, <1>2, <1>3, <1>4, <1>5, <1>6, <1>7, <1>8, <1>9, <1>10 DEF Step

LEMMA NextRejections == TypeOK /\ TypeOK' /\ Rejections /\ [Next]_vars => Rejections'
<1>. SUFFICES ASSUME TypeOK, TypeOK', Rejections, [Next]_vars, NEW p \in Procs
              PROVE  Rejection(p)'
  BY DEF Rejections
<1>0. Rejection(p)
  BY DEF Rejections
<1>1. ASSUME NEW q \in Procs, Step(q) \/ Kill(q) PROVE Rejection(p)'
  BY <1>1, OwnKeepsRejection, OthersKeepRejection
<1>2. CASE Revoke
  <2>1. /\ gen' = gen + 1 /\ gen \in Int /\ rejectedAt[p] \in Int
        /\ UNCHANGED <<pc, fetched, outcome, retried401, rejectedAt>>
    BY <1>2 DEF Revoke, TypeOK, Gens, NoFile, loop
  <2>2. retried401'[p] => rejectedAt'[p] < gen'
    BY <1>0, <2>1 DEF Rejection
  <2>. QED  BY <1>0, <2>1, <2>2 DEF Rejection
<1>3. CASE RefreshCredential
  BY <1>0, <1>3 DEF RefreshCredential, cache, loop, Rejection, Fresh, Alone
<1>4. CASE TimePasses
  BY <1>0, <1>4 DEF TimePasses, env, loop, Rejection, Fresh, Alone
<1>5. CASE UNCHANGED vars
  BY <1>0, <1>5 DEF vars, Rejection, Fresh, Alone
<1>. QED  BY <1>1, <1>2, <1>3, <1>4, <1>5 DEF Next

\* A process is refused a second time only if the server has revoked its tokens again,
\* or another process has authenticated: the rejected token is neither kept in memory
\* nor left in, or put back into, the cache.
THEOREM SecondRejection == Spec => []SecondRejectionIsNews
<1>1. Init => Rejections
  BY DEF Init, Rejections, Rejection, Writing
<1>2. TypeOK /\ Rejections => SecondRejectionIsNews
  BY DEF TypeOK, Rejections, Rejection, Fresh, Alone, SecondRejectionIsNews, Gens, NoFile
<1>. QED  BY <1>1, <1>2, TypeCorrect, NextRejections, PTL DEF Spec
=============================================================================
