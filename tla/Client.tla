------------------------------- MODULE Client -------------------------------
(***************************************************************************)
(* client.go: Do and DoBatch with utils/retry.go, the tokens of resources  *)
(* and their refresh, and the breaker that batch requests of one model     *)
(* wait at (utils/breaker.go, breaker_provider.go; module ModelBreaker).   *)
(*                                                                         *)
(* Two clocks, which never meet in one decision: Tick is a part of the     *)
(* minutes a token lives, HalfSecond is the breaker's.  Delays between the *)
(* attempts of Do have no length.                                          *)
(***************************************************************************)
EXTENDS ModelBreaker, FiniteSets

CONSTANTS Requests, Resources,
          ResourceOf,        \* [Requests -> Resources]
          Uses,              \* pairs: "do" or "batch" requests, with "sts" or "apikey"
          RetryTimes,
          Life, Advisory, Mandatory,  \* of a token, in ticks
          OpenAfter,         \* the breaker lets all pass after so many half-seconds
          RetryAfters,       \* the Retry-After headers that occur, in half-seconds
          Faults,            \* the kinds of fault that may happen ...
          MaxFaults          \* ... and how many of them (bounds the model)

ASSUME RequestsAssumption == IsFiniteSet(Requests) /\ ResourceOf \in [Requests -> Resources]
ASSUME UsesAssumption == Uses \subseteq {"do", "batch"} \X {"sts", "apikey"}
ASSUME TokenAssumption == /\ {Life, Advisory, Mandatory, RetryTimes} \subseteq Nat
                          /\ 1 < Mandatory /\ Mandatory < Advisory /\ Advisory <= Life
ASSUME BreakerAssumption == /\ OpenAfter \in Nat /\ RetryAfters \subseteq Nat /\ 0 \in RetryAfters
                            /\ \E a \in RetryAfters : \A b \in RetryAfters : b <= a
ASSUME FaultsAssumption == MaxFaults \in Nat

VARIABLES mode, auth,
          token,     \* what each resource's token has left to live (0: none, or expired)
          locked,    \* rwLock is held
          req,       \* the requests
          made,      \* how many breakers the provider made for the model
          waiters,   \* the breaker's querySet
          since,     \* half-seconds since its allowTime
          faults

tokens == <<token, locked>>
breaker == <<made, waiters, since>>
vars == <<mode, auth, token, locked, req, made, waiters, since, faults>>

Fault(kind) == kind \in Faults /\ faults < MaxFaults /\ faults' = faults + 1

-----------------------------------------------------------------------------

Longest == CHOOSE a \in RetryAfters : \A b \in RetryAfters : b <= a

Pcs == {"new", "lookup", "create", "enter", "waiting", "refused", "asleep", "passed",
        "check", "try", "lost", "held", "blocked", "rpc", "load", "sent", "backoff",
        "done"}

RequestRecords ==
  [pc        : Pcs,
   attempt   : 0..RetryTimes,
   must      : BOOLEAN,             \* isMandatoryRefresh
   took      : 0..Mandatory - 1,    \* ticks since it last looked at the token
   sleep     : 0..Longest + 3,      \* half-seconds until its sleep is over
   after     : RetryAfters,         \* the Retry-After header in its response value
   breaker   : Nat,                 \* the breaker it uses, in the order they were made
   cancelled : BOOLEAN]

NewRequest == [pc |-> "new", attempt |-> 0, must |-> FALSE, took |-> 0, sleep |-> 0,
               after |-> 0, breaker |-> 0, cancelled |-> FALSE]

TypeOK ==
  /\ <<mode, auth>> \in Uses
  /\ token \in [Resources -> 0..Life] /\ locked \in BOOLEAN
  /\ req \in [Requests -> RequestRecords]
  /\ made \in 0..Cardinality(Requests)
  /\ DOMAIN waiters.index \subseteq Requests
  /\ since \in -Longest..OpenAfter + 1
  /\ faults \in 0..MaxFaults

Init ==
  /\ \E u \in Uses : mode = u[1] /\ auth = u[2]
  /\ token = [x \in Resources |-> 0] /\ locked = FALSE
  /\ req = [r \in Requests |-> NewRequest]
  /\ made = 0 /\ waiters = EmptyQuerySet /\ since = 0
  /\ faults = 0

At(r, pc) == req[r].pc = pc
Go(r, pc) == req' = [req EXCEPT ![r].pc = pc]

\* newRequest, of every attempt: with an API key there is no token to look at.
FirstStep == IF auth = "sts" THEN "check" ELSE "sent"

-----------------------------------------------------------------------------
(* The token of a resource                                                 *)

NeedRefresh(r, refreshIn) == token[ResourceOf[r]] < refreshIn

\* Faulty: the lock is kept.
KeepLock == UNCHANGED locked

\* The deferred Unlock.
Unlock == locked' = FALSE

\* refresh, before it has the lock.
Check(r) ==
  /\ At(r, "check")
  /\ Go(r, IF NeedRefresh(r, Advisory) THEN "try" ELSE "load")
  /\ UNCHANGED <<mode, auth, tokens, breaker, faults>>

\* TryLock: one lock for all resources.
TryLock(r) ==
  /\ At(r, "try")
  /\ Go(r, IF locked THEN "lost" ELSE "held")
  /\ locked' = TRUE
  /\ UNCHANGED <<mode, auth, token, breaker, faults>>

\* Another request refreshes: the token will do unless it has to be refreshed.
Lost(r) ==
  /\ At(r, "lost")
  /\ Go(r, IF NeedRefresh(r, Mandatory) THEN "blocked" ELSE "load")
  /\ UNCHANGED <<mode, auth, tokens, breaker, faults>>

\* Faulty: the one that has the lock does not look at the token again.
DueBefore(r) == TRUE

\* The second look at the token, under the lock.
StillDue(r) == NeedRefresh(r, Advisory)

\* Faulty: a refresh is never mandatory for the one that got the lock at once.
NeverMandatory(r) == FALSE

IsMandatory(r) == NeedRefresh(r, Mandatory)

Held(r) ==
  /\ At(r, "held")
  /\ IF StillDue(r)
     THEN /\ req' = [req EXCEPT ![r].pc = "rpc", ![r].must = IsMandatory(r), ![r].took = 0]
          /\ UNCHANGED locked
     ELSE Go(r, "load") /\ Unlock
  /\ UNCHANGED <<mode, auth, token, breaker, faults>>

\* Lock, and the look at the token once it has it.
Blocked(r) ==
  /\ At(r, "blocked") /\ ~locked
  /\ IF NeedRefresh(r, Mandatory)
     THEN /\ req' = [req EXCEPT ![r].pc = "rpc", ![r].must = TRUE, ![r].took = 0]
          /\ locked' = TRUE
     ELSE Go(r, "load") /\ UNCHANGED locked
  /\ UNCHANGED <<mode, auth, token, breaker, faults>>

\* GetApiKeyWithContext answers.
Refreshed(r) ==
  /\ At(r, "rpc")
  /\ token' = [token EXCEPT ![ResourceOf[r]] = Life]
  /\ Unlock
  /\ Go(r, "load")
  /\ UNCHANGED <<mode, auth, breaker, faults>>

-----------------------------------------------------------------------------
(* The end of an attempt                                                   *)

\* Faulty: the last retry is followed by another.
OneTooMany(r) == req[r].attempt <= RetryTimes

\* retry's loop: attempts left.
MayRetry(r) == req[r].attempt < RetryTimes

\* Reset, by DoBatch with what getRetryAfter finds.
Reset(after) == since' = IF after > 0 THEN -after ELSE since

\* An error that may be retried, with after in the header of r's response value.  Do waits
\* and counts, DoBatch resets the breaker and sleeps 0.5 to 1.5 s, as often as it takes.
Retryable(r, after) ==
  IF mode = "do"
  THEN /\ req' = [req EXCEPT ![r].pc = IF MayRetry(r) THEN "backoff" ELSE "done",
                             ![r].attempt = IF MayRetry(r) THEN @ + 1 ELSE @]
       /\ UNCHANGED breaker
  ELSE /\ \E d \in {1, 3} : req' = [req EXCEPT ![r].pc = "enter", ![r].after = after, ![r].sleep = d]
       /\ Reset(after)
       /\ UNCHANGED <<made, waiters>>

\* The refresh fails: an error of the attempt only if the token has to be refreshed.
RefreshFails(r) ==
  /\ At(r, "rpc") /\ Fault("sts")
  /\ Unlock
  /\ IF req[r].must
     THEN Retryable(r, req[r].after) \/ (Go(r, "done") /\ UNCHANGED breaker)
     ELSE Go(r, "load") /\ UNCHANGED breaker
  /\ UNCHANGED <<mode, auth, token>>

\* The request goes out with the token of that moment.
Send(r) ==
  /\ At(r, "load")
  /\ req' = [req EXCEPT ![r].pc = "sent", ![r].must = FALSE, ![r].took = 0]
  /\ UNCHANGED <<mode, auth, tokens, breaker, faults>>

Answered(r) ==
  /\ At(r, "sent")
  /\ Go(r, "done")
  /\ UNCHANGED <<mode, auth, tokens, breaker, faults>>

\* An answer needRetryError holds for: its header becomes that of the response value.
Throttled(r) ==
  /\ At(r, "sent") /\ Fault("throttle")
  /\ \E after \in RetryAfters : Retryable(r, after)
  /\ UNCHANGED <<mode, auth, tokens>>

\* No answer: the response value keeps the header of an earlier attempt.
Unanswered(r) ==
  /\ At(r, "sent") /\ Fault("network")
  /\ Retryable(r, req[r].after)
  /\ UNCHANGED <<mode, auth, tokens>>

\* The select of retry: the timer, or the end of the context.
Backoff(r) ==
  /\ At(r, "backoff")
  /\ Go(r, FirstStep) \/ (req[r].cancelled /\ Go(r, "done"))
  /\ UNCHANGED <<mode, auth, tokens, breaker, faults>>

-----------------------------------------------------------------------------
(* Batch requests and their breaker                                        *)

\* Do, or DoBatch, whose first step is to load the breaker of the model.
Start(r) ==
  /\ At(r, "new")
  /\ Go(r, IF mode = "do" THEN FirstStep ELSE "lookup")
  /\ UNCHANGED <<mode, auth, tokens, breaker, faults>>

Lookup(r) ==
  /\ At(r, "lookup")
  /\ req' = IF made > 0 THEN [req EXCEPT ![r].pc = "enter", ![r].breaker = made]
                        ELSE [req EXCEPT ![r].pc = "create"]
  /\ UNCHANGED <<mode, auth, tokens, breaker, faults>>

\* Faulty: under its lock the provider does not look again.
AlwaysMake == TRUE

\* The second look, under the provider's lock.
NoneYet == made = 0

Create(r) ==
  /\ At(r, "create")
  /\ IF NoneYet
     THEN /\ made' = made + 1 /\ since' = 0 /\ waiters' = EmptyQuerySet
          /\ req' = [req EXCEPT ![r].pc = "enter", ![r].breaker = made + 1]
     ELSE /\ req' = [req EXCEPT ![r].pc = "enter", ![r].breaker = made]
          /\ UNCHANGED breaker
  /\ UNCHANGED <<mode, auth, tokens, faults>>

\* Wait's acquire; before it, the sleep after a failed attempt.
Enter(r) ==
  /\ At(r, "enter") /\ req[r].sleep = 0
  /\ waiters' = Add(waiters, r)
  /\ Go(r, "waiting")
  /\ UNCHANGED <<mode, auth, tokens, made, since, faults>>

Pass(r) ==
  /\ At(r, "waiting") /\ Allow(waiters, r, since, OpenAfter)
  /\ waiters' = Remove(waiters, r)
  /\ Go(r, "passed")
  /\ UNCHANGED <<mode, auth, tokens, made, since, faults>>

Refused(r) ==
  /\ At(r, "waiting") /\ ~Allow(waiters, r, since, OpenAfter)
  /\ Go(r, "refused")
  /\ UNCHANGED <<mode, auth, tokens, breaker, faults>>

\* getAllowedDuration: a second at least, under the lock once more.
FallAsleep(r) ==
  /\ At(r, "refused")
  /\ req' = [req EXCEPT ![r].pc = "asleep", ![r].sleep = IF -since < 2 THEN 2 ELSE -since]
  /\ UNCHANGED <<mode, auth, tokens, breaker, faults>>

Wake(r) ==
  /\ At(r, "asleep") /\ req[r].sleep = 0
  /\ Go(r, "waiting")
  /\ UNCHANGED <<mode, auth, tokens, breaker, faults>>

\* DoBatch looks at the context only here.
Passed(r) ==
  /\ At(r, "passed")
  /\ Go(r, IF req[r].cancelled THEN "done" ELSE FirstStep)
  /\ UNCHANGED <<mode, auth, tokens, breaker, faults>>

-----------------------------------------------------------------------------
(* Time and the caller                                                     *)

Cancel(r) ==
  /\ ~At(r, "done") /\ ~At(r, "new") /\ ~req[r].cancelled /\ Fault("cancel")
  /\ req' = [req EXCEPT ![r].cancelled = TRUE]
  /\ UNCHANGED <<mode, auth, tokens, breaker>>

\* A call of the token service takes less than Mandatory ticks (external).
Tick ==
  /\ \A r \in Requests : At(r, "rpc") => req[r].took < Mandatory - 1
  /\ \A r \in Requests : ~At(r, "load")
  /\ \E x \in Resources : token[x] > 0
  /\ token' = [x \in Resources |-> IF token[x] = 0 THEN 0 ELSE token[x] - 1]
  /\ req' = [r \in Requests |-> IF At(r, "rpc") THEN [req[r] EXCEPT !.took = @ + 1] ELSE req[r]]
  /\ UNCHANGED <<mode, auth, locked, breaker, faults>>

HalfSecond ==
  /\ made > 0 /\ \E r \in Requests : ~At(r, "done")
  /\ since <= OpenAfter \/ \E r \in Requests : req[r].sleep > 0
  /\ since' = IF since > OpenAfter THEN since ELSE since + 1
  /\ req' = [r \in Requests |-> IF req[r].sleep = 0 THEN req[r] ELSE [req[r] EXCEPT !.sleep = @ - 1]]
  /\ UNCHANGED <<mode, auth, tokens, made, waiters, faults>>

-----------------------------------------------------------------------------

Refreshing(r) == Check(r) \/ TryLock(r) \/ Lost(r) \/ Held(r) \/ Blocked(r) \/ Refreshed(r)

Batching(r) ==
  \/ Lookup(r) \/ Create(r) \/ Enter(r) \/ Pass(r) \/ Refused(r) \/ FallAsleep(r)
  \/ Wake(r) \/ Passed(r)

Proceeds(r) == Start(r) \/ Refreshing(r) \/ Batching(r) \/ Send(r) \/ Answered(r) \/ Backoff(r)

Fails(r) == RefreshFails(r) \/ Throttled(r) \/ Unanswered(r)

Next ==
  \/ \E r \in Requests : Proceeds(r) \/ Fails(r) \/ Cancel(r)
  \/ Tick \/ HalfSecond

\* A request's goroutine goes on, its calls return (external), and time passes.
Fairness == WF_vars(HalfSecond) /\ \A r \in Requests : WF_vars(Proceeds(r))

Spec == Init /\ [][Next]_vars /\ Fairness

-----------------------------------------------------------------------------
(* Properties                                                              *)

\* No request goes out with a token that is over, whoever refreshes it meanwhile and
\* however that ends, if a call of the token service takes less than the mandatory time.
\* (refresh: the error of a refresh is passed over only while the token will do.)
SentTokenIsValid ==
  [][\A r \in Requests : At(r, "load") /\ req'[r].pc = "sent" => token[ResourceOf[r]] > 0]_vars

\* A token is refreshed when it is due and not beside another refresh: requests that raced
\* for the lock do not refresh anew what the winner refreshed. (The second needRefresh.)
RefreshesOnlyWhenDue ==
  [][\A r \in Requests : req'[r].pc = "rpc" /\ ~At(r, "rpc") =>
       /\ token[ResourceOf[r]] < Advisory
       /\ \A s \in Requests : ~At(s, "rpc")]_vars

\* The waiters' places and the index agree, and hold exactly the requests that wait: one
\* that passed keeps no place, and no two share one. (querySet's Add and Remove.)
WaitersHavePlaces ==
  /\ Consistent(waiters)
  /\ DOMAIN waiters.index = {r \in Requests : req[r].pc \in {"waiting", "refused", "asleep"}}

\* Batch requests of a model that arrive together meet at one breaker: what one is told to
\* wait, all wait. (GetOrCreateBreaker's second look.)
OneBreaker ==
  \A r, s \in Requests : req[r].breaker > 0 /\ req[s].breaker > 0 => req[r].breaker = req[s].breaker

\* Every request ends: none is kept out of the breaker for ever, or waits for a lock that
\* nobody gives back, whatever errors come first.
EveryRequestEnds == []<>(\A r \in Requests : req[r].pc \in {"new", "done"})
=============================================================================
