------------------------------ MODULE ApiClient ------------------------------
(***************************************************************************)
(* ThoughtSpotClient (ts_cli/client.py): `ts` processes that run side by   *)
(* side on one profile share its two token-cache files.  Each process      *)
(* makes one API call: it finds a token (memory, cache, authentication),   *)
(* sends the request, and retries what may be retried.  The token is       *)
(* abstracted to the server-side generation it was issued in: the server   *)
(* accepts exactly the tokens of its current generation.                   *)
(***************************************************************************)
EXTENDS Integers, FiniteSets

CONSTANTS
    Procs,           \* concurrent `ts` processes of one profile
    Idempotent,      \* the processes whose call may be repeated
    RetryMax,        \* _RETRY_MAX
    MaxRevocations,  \* bound: how often the server invalidates all tokens
    MaxKills         \* bound: processes killed from outside

ASSUME ClientAssumption ==
    /\ Idempotent \subseteq Procs
    /\ RetryMax \in Nat
    /\ MaxRevocations \in Nat
    /\ MaxKills \in Nat

Gens == 0..MaxRevocations
NoFile == -1         \* the file does not exist; as a memory token: None
EmptyFile == -2      \* opened for writing, not yet written
FileContent == Gens \cup {NoFile, EmptyFile}
ExpiryContent == {"absent", "empty", "live", "near"}

Steps == {"token", "stat_token", "stat_expiry", "read_expiry", "stat_age",
          "read_token", "auth", "open_token", "fill_token", "open_expiry",
          "fill_expiry", "send", "see_token", "unlink_token", "see_expiry",
          "unlink_expiry", "done"}
Outcomes == {"none", "ok", "ambiguous", "exhausted", "http_error", "http_401",
             "auth_failed", "traceback", "killed"}

VARIABLES
    tokenEnv,     \* TRUE: token_env profile; FALSE: password or secret key
    gen,          \* generation of tokens the server accepts
    envTok,       \* generation of the token a token_env profile supplies
    tokenFile, tokenOld, expiryFile,   \* the shared cache files
    pc, mem, fetched, transient, retried401, outcome,  \* each process
    executed,     \* how often the server executed the process's call
    rejectedAt    \* generation at the process's first 401 (ghost)

env == <<tokenEnv, gen, envTok>>
cache == <<tokenFile, tokenOld, expiryFile>>
loop == <<transient, retried401, executed, rejectedAt>>
vars == <<tokenEnv, gen, envTok, tokenFile, tokenOld, expiryFile, pc, mem, fetched,
          transient, retried401, outcome, executed, rejectedAt>>

TypeOK ==
    /\ tokenEnv \in BOOLEAN
    /\ gen \in Gens
    /\ envTok \in Gens
    /\ tokenFile \in FileContent
    /\ tokenOld \in BOOLEAN
    /\ expiryFile \in ExpiryContent
    /\ pc \in [Procs -> Steps]
    /\ mem \in [Procs -> Gens \cup {NoFile}]
    /\ fetched \in [Procs -> Gens \cup {NoFile}]
    /\ transient \in [Procs -> 0..RetryMax]
    /\ retried401 \in [Procs -> BOOLEAN]
    /\ outcome \in [Procs -> Outcomes]
    /\ executed \in [Procs -> Nat]
    /\ rejectedAt \in [Procs -> Gens \cup {NoFile}]

\* The cache may hold anything an earlier process left, a cut-off write included.
Init ==
    /\ tokenEnv \in BOOLEAN
    /\ gen = 0
    /\ envTok = 0
    /\ tokenFile \in {NoFile, EmptyFile, 0}
    /\ tokenOld \in BOOLEAN
    /\ expiryFile \in ExpiryContent
    /\ pc = [p \in Procs |-> "token"]
    /\ mem = [p \in Procs |-> NoFile]
    /\ fetched = [p \in Procs |-> NoFile]
    /\ transient = [p \in Procs |-> 0]
    /\ retried401 = [p \in Procs |-> FALSE]
    /\ outcome = [p \in Procs |-> "none"]
    /\ executed = [p \in Procs |-> 0]
    /\ rejectedAt = [p \in Procs |-> NoFile]

Goto(p, step) == pc' = [pc EXCEPT ![p] = step]
Finish(p, how) == Goto(p, "done") /\ outcome' = [outcome EXCEPT ![p] = how]

-----------------------------------------------------------------------------
(* get_token and _read_cached_token: each look at a file is a step.        *)

UseMemory(p) ==
    /\ pc[p] = "token"
    /\ Goto(p, IF mem[p] # NoFile THEN "send" ELSE "stat_token")
    /\ UNCHANGED <<env, cache, loop, mem, fetched, outcome>>

StatToken(p) ==
    /\ pc[p] = "stat_token"
    /\ Goto(p, IF tokenFile = NoFile THEN "auth" ELSE "stat_expiry")
    /\ UNCHANGED <<env, cache, loop, mem, fetched, outcome>>

StatExpiry(p) ==
    /\ pc[p] = "stat_expiry"
    /\ Goto(p, IF expiryFile = "absent" THEN "stat_age" ELSE "read_expiry")
    /\ UNCHANGED <<env, cache, loop, mem, fetched, outcome>>

\* Expired within 60 s, or not a number: authenticate.  Unlinked since the
\* exists() test: read_text raises.
ReadExpiry(p) ==
    /\ pc[p] = "read_expiry"
    /\ \/ expiryFile = "absent" /\ Finish(p, "traceback")
       \/ /\ expiryFile # "absent"
          /\ Goto(p, IF expiryFile = "live" THEN "read_token" ELSE "auth")
          /\ UNCHANGED outcome
    /\ UNCHANGED <<env, cache, loop, mem, fetched>>

StatAge(p) ==
    /\ pc[p] = "stat_age"
    /\ \/ tokenFile = NoFile /\ Finish(p, "traceback")
       \/ /\ tokenFile # NoFile
          /\ Goto(p, IF tokenOld THEN "auth" ELSE "read_token")
          /\ UNCHANGED outcome
    /\ UNCHANGED <<env, cache, loop, mem, fetched>>

\* An empty token is falsy: get_token authenticates.
ReadToken(p) ==
    /\ pc[p] = "read_token"
    /\ \/ tokenFile = NoFile /\ Finish(p, "traceback") /\ UNCHANGED mem
       \/ tokenFile = EmptyFile /\ Goto(p, "auth") /\ UNCHANGED <<mem, outcome>>
       \/ /\ tokenFile \in Gens
          /\ mem' = [mem EXCEPT ![p] = tokenFile]
          /\ Goto(p, "send")
          /\ UNCHANGED outcome
    /\ UNCHANGED <<env, cache, loop, fetched>>

-----------------------------------------------------------------------------
(* _authenticate and _write_cached_token                                   *)

\* The token endpoint is posted to outside request(): its network errors are
\* not caught, a refused credential is a clean exit.
Authenticate(p) ==
    /\ pc[p] = "auth"
    /\ \/ /\ fetched' = [fetched EXCEPT ![p] = IF tokenEnv THEN envTok ELSE gen]
          /\ Goto(p, "open_token")
          /\ UNCHANGED outcome
       \/ /\ ~tokenEnv
          /\ \/ Finish(p, "auth_failed")
             \/ Finish(p, "traceback")
          /\ UNCHANGED fetched
    /\ UNCHANGED <<env, cache, loop, mem>>

OpenToken(p) ==
    /\ pc[p] = "open_token"
    /\ tokenFile' = EmptyFile
    /\ tokenOld' = FALSE
    /\ Goto(p, "fill_token")
    /\ UNCHANGED <<env, expiryFile, loop, mem, fetched, outcome>>

\* get_token sets self._token once the files are written; chmod raises on a
\* file another process unlinked after it was opened.
FillToken(p) ==
    /\ pc[p] = "fill_token"
    /\ \/ /\ tokenFile = NoFile
          /\ Finish(p, "traceback")
          /\ UNCHANGED <<tokenFile, mem>>
       \/ /\ tokenFile # NoFile
          /\ tokenFile' = fetched[p]
          /\ IF tokenEnv
             THEN /\ mem' = [mem EXCEPT ![p] = fetched[p]]
                  /\ Goto(p, "send")
             ELSE Goto(p, "open_expiry") /\ UNCHANGED mem
          /\ UNCHANGED outcome
    /\ UNCHANGED <<env, tokenOld, expiryFile, loop, fetched>>

OpenExpiry(p) ==
    /\ pc[p] = "open_expiry"
    /\ expiryFile' = "empty"
    /\ Goto(p, "fill_expiry")
    /\ UNCHANGED <<env, tokenFile, tokenOld, loop, mem, fetched, outcome>>

FillExpiry(p) ==
    /\ pc[p] = "fill_expiry"
    /\ \/ /\ expiryFile = "absent"
          /\ Finish(p, "traceback")
          /\ UNCHANGED <<expiryFile, mem>>
       \/ /\ expiryFile # "absent"
          /\ expiryFile' = "live"
          /\ mem' = [mem EXCEPT ![p] = fetched[p]]
          /\ Goto(p, "send")
          /\ UNCHANGED outcome
    /\ UNCHANGED <<env, tokenFile, tokenOld, loop, fetched>>

-----------------------------------------------------------------------------
(* request: one pass of its loop, from the request to what it does next.   *)

RetryPastTheLimit(p) ==   \* mutant: <= for <
    /\ transient[p] <= RetryMax
    /\ transient' = [transient EXCEPT ![p] = @ + 1]
    /\ Goto(p, "token")
    /\ UNCHANGED outcome

Retry(p) ==
    /\ transient[p] < RetryMax
    /\ transient' = [transient EXCEPT ![p] = @ + 1]
    /\ Goto(p, "token")
    /\ UNCHANGED outcome

GiveUp(p, how) ==
    /\ transient[p] = RetryMax
    /\ Finish(p, how)
    /\ UNCHANGED transient

MayExecute(p) ==
    \/ UNCHANGED executed
    \/ mem[p] = gen /\ executed' = [executed EXCEPT ![p] = @ + 1]

ReadTimeoutTakenForNeverSent(p) ==   \* mutant
    /\ Retry(p) \/ GiveUp(p, "exhausted")
    /\ MayExecute(p)
    /\ UNCHANGED <<retried401, rejectedAt>>

\* _never_sent: a connection that was never established.
NeverSent(p) ==
    /\ Retry(p) \/ GiveUp(p, "exhausted")
    /\ UNCHANGED <<executed, retried401, rejectedAt>>

AmbiguousAlwaysRetried(p, how) ==   \* mutant: no _refuse_ambiguous_retry
    /\ Retry(p) \/ GiveUp(p, how)
    /\ MayExecute(p)
    /\ UNCHANGED <<retried401, rejectedAt>>

\* A read timeout, a mid-response disconnect (how = "exhausted") or a
\* 502/503/504 (how = "http_error"): _refuse_ambiguous_retry, then the retry.
Ambiguous(p, how) ==
    /\ \/ p \notin Idempotent /\ Finish(p, "ambiguous") /\ UNCHANGED transient
       \/ p \in Idempotent /\ (Retry(p) \/ GiveUp(p, how))
    /\ MayExecute(p)
    /\ UNCHANGED <<retried401, rejectedAt>>

Accepted(p) ==
    /\ mem[p] = gen
    /\ executed' = [executed EXCEPT ![p] = @ + 1]
    /\ Finish(p, "ok")
    /\ UNCHANGED <<transient, retried401, rejectedAt>>

\* A 4xx other than 401, or a 500, which the client takes for an application
\* error: the call had no effect.
Refused(p) ==
    /\ mem[p] = gen
    /\ Finish(p, "http_error")
    /\ UNCHANGED <<transient, retried401, rejectedAt, executed>>

UnauthorizedForever(p) ==   \* mutant: retried_401 is never set
    /\ mem[p] # gen
    /\ Goto(p, "see_token")
    /\ UNCHANGED <<retried401, rejectedAt, outcome, transient, executed>>

Unauthorized(p) ==
    /\ mem[p] # gen
    /\ \/ /\ ~retried401[p]
          /\ retried401' = [retried401 EXCEPT ![p] = TRUE]
          /\ rejectedAt' = [rejectedAt EXCEPT ![p] = gen]
          /\ Goto(p, "see_token")
          /\ UNCHANGED outcome
       \/ /\ retried401[p]
          /\ Finish(p, "http_401")
          /\ UNCHANGED <<retried401, rejectedAt>>
    /\ UNCHANGED <<transient, executed>>

Send(p) ==
    /\ pc[p] = "send"
    /\ \/ NeverSent(p)
       \/ Ambiguous(p, "exhausted")
       \/ Ambiguous(p, "http_error")
       \/ Accepted(p)
       \/ Refused(p)
       \/ Unauthorized(p)
    /\ UNCHANGED <<env, cache, mem, fetched>>

-----------------------------------------------------------------------------
(* clear_token_cache: exists() then unlink(), for each of the two files.   *)

ClearsOnlyTheExpiry(p) ==   \* mutant
    /\ pc[p] = "see_token"
    /\ Goto(p, "see_expiry")
    /\ UNCHANGED <<env, cache, loop, mem, fetched, outcome>>

SeeToken(p) ==
    /\ pc[p] = "see_token"
    /\ Goto(p, IF tokenFile = NoFile THEN "see_expiry" ELSE "unlink_token")
    /\ UNCHANGED <<env, cache, loop, mem, fetched, outcome>>

UnlinkToken(p) ==
    /\ pc[p] = "unlink_token"
    /\ \/ tokenFile = NoFile /\ Finish(p, "traceback") /\ UNCHANGED tokenFile
       \/ /\ tokenFile # NoFile
          /\ tokenFile' = NoFile
          /\ Goto(p, "see_expiry")
          /\ UNCHANGED outcome
    /\ UNCHANGED <<env, tokenOld, expiryFile, loop, mem, fetched>>

Forget(p) == mem' = [mem EXCEPT ![p] = NoFile] /\ Goto(p, "token")

SeeExpiry(p) ==
    /\ pc[p] = "see_expiry"
    /\ \/ expiryFile = "absent" /\ Forget(p)
       \/ expiryFile # "absent" /\ Goto(p, "unlink_expiry") /\ UNCHANGED mem
    /\ UNCHANGED <<env, cache, loop, fetched, outcome>>

UnlinkExpiry(p) ==
    /\ pc[p] = "unlink_expiry"
    /\ \/ /\ expiryFile = "absent"
          /\ Finish(p, "traceback")
          /\ UNCHANGED <<expiryFile, mem>>
       \/ /\ expiryFile # "absent"
          /\ expiryFile' = "absent"
          /\ Forget(p)
          /\ UNCHANGED outcome
    /\ UNCHANGED <<env, tokenFile, tokenOld, loop, fetched>>

-----------------------------------------------------------------------------
(* The world around the processes.                                         *)

\* The server expires or revokes every token it has issued.
Revoke ==
    /\ gen < MaxRevocations
    /\ gen' = gen + 1
    /\ UNCHANGED <<tokenEnv, envTok, cache, loop, pc, mem, fetched, outcome>>

\* The user puts a new browser token in the credential store.
RefreshCredential ==
    /\ tokenEnv
    /\ envTok < gen
    /\ envTok' = gen
    /\ UNCHANGED <<tokenEnv, gen, cache, loop, pc, mem, fetched, outcome>>

\* Time passes: the recorded expiry comes within 60 s, the token file turns
\* 23 hours old.
TimePasses ==
    /\ \/ /\ expiryFile = "live"
          /\ expiryFile' = "near"
          /\ UNCHANGED tokenOld
       \/ /\ tokenFile # NoFile
          /\ ~tokenOld
          /\ tokenOld' = TRUE
          /\ UNCHANGED expiryFile
    /\ UNCHANGED <<env, tokenFile, loop, pc, mem, fetched, outcome>>

Kill(p) ==
    /\ pc[p] # "done"
    /\ Cardinality({q \in Procs : outcome[q] = "killed"}) < MaxKills
    /\ Finish(p, "killed")
    /\ UNCHANGED <<env, cache, loop, mem, fetched>>

Step(p) ==
    \/ UseMemory(p) \/ StatToken(p) \/ StatExpiry(p) \/ ReadExpiry(p)
    \/ StatAge(p) \/ ReadToken(p) \/ Authenticate(p) \/ OpenToken(p)
    \/ FillToken(p) \/ OpenExpiry(p) \/ FillExpiry(p) \/ Send(p)
    \/ SeeToken(p) \/ UnlinkToken(p) \/ SeeExpiry(p) \/ UnlinkExpiry(p)

Next ==
    \/ \E p \in Procs : Step(p)
    \/ \E p \in Procs : Kill(p)
    \/ Revoke
    \/ RefreshCredential
    \/ TimePasses

Spec == Init /\ [][Next]_vars

\* A started process keeps running: the operating system schedules it.
FairSpec == Spec /\ \A p \in Procs : WF_vars(Step(p))

-----------------------------------------------------------------------------
(* Properties                                                              *)

\* A create or import is executed at most once, whatever faults, 401s,
\* revocations and other processes do; a repeatable call at most RetryMax + 1
\* times, the 401 retry adding none.  (request, _refuse_ambiguous_retry)
NoDuplicateCreate ==
    \A p \in Procs :
        executed[p] <= (IF p \in Idempotent THEN RetryMax + 1 ELSE 1)

\* Every failure of a create or import except the ambiguous exit is definite:
\* a caller that sees an HTTP error, a refused credential, exhausted retries
\* or a failing token cache may repeat it, the server did nothing.
DefiniteFailureHasNoEffect ==
    \A p \in Procs \ Idempotent :
        outcome[p] \in {"http_error", "http_401", "exhausted", "auth_failed",
                        "traceback"} => executed[p] = 0

\* A process is refused a second time only because the server revoked again, or
\* because another process put an older token in the cache meanwhile: the stale
\* cached token does not survive the 401, whoever else reads and clears the files.
\* (request lines on 401, clear_token_cache)
SecondRejectionIsNews ==
    \A p \in Procs :
        /\ ~tokenEnv /\ outcome[p] = "http_401"
        /\ \A q \in Procs \ {p} : fetched[q] = NoFile
        => gen > rejectedAt[p]

\* Every call ends, however the server, the network and the other processes
\* behave: neither the transient nor the 401 retry goes on for ever.
EveryCallEnds == \A p \in Procs : <>(pc[p] = "done")
=============================================================================
