----------------------------- MODULE HkjcClient -----------------------------
(***************************************************************************)
(* The one client every HKJC request of the process goes through           *)
(* (HkjcGraphQLClient in app/providers/hkjc/client.py): execute with its   *)
(* throttle, retries and back-off, and the asyncio lock the throttle       *)
(* sleeps under.                                                           *)
(*                                                                         *)
(* Coroutines interleave at their awaits only; a step is what runs between *)
(* two of them.  Time is relative: what is left of a sleep, and how long   *)
(* ago the last request was sent, up to the throttle.                      *)
(***************************************************************************)
EXTENDS Integers, Sequences

CONSTANTS Caller,       \* the coroutines that share the client
          Throttle,     \* throttle_seconds
          MaxRetries,   \* max_retries
          BackoffBase,  \* backoff_base
          BackoffCap,   \* the 8.0 of _backoff
          NoOwner

ASSUME ClientAssumption ==
  /\ Throttle \in Nat /\ MaxRetries \in Nat /\ BackoffBase \in Nat /\ BackoffCap \in Nat
  /\ NoOwner \notin Caller
  /\ \A n \in 0 .. MaxRetries : 2^n \in Nat   \* arithmetic, for the provers

VARIABLES since,   \* time since _last_request_at, no more than Throttle
          owner,   \* the coroutine that holds _lock
          queue,   \* the coroutines that wait for _lock, first come first served
          call     \* what each coroutine is at in execute

clientVars == <<since, owner, queue, call>>

\* idle: not in execute; waiting: for the lock; throttled: asleep under it;
\* posted: the request is out; backoff: asleep before the next attempt.
\* answered and raised are the ends of execute, not yet taken by the caller.
CallStates == {"idle", "waiting", "throttled", "posted", "backoff", "answered", "raised"}
NoCall == [pc |-> "idle", attempt |-> 0, sleep |-> 0]

ClientTypeOK ==
  /\ since \in 0 .. Throttle
  /\ owner \in Caller \cup {NoOwner}
  /\ queue \in Seq(Caller)
  /\ call \in [Caller -> [pc : CallStates, attempt : 0 .. MaxRetries, sleep : Nat]]

ClientInit ==
  /\ since = Throttle /\ owner = NoOwner /\ queue = <<>>
  /\ call = [c \in Caller |-> NoCall]

-----------------------------------------------------------------------------
Least(m, n) == IF m < n THEN m ELSE n
Rest(n) == IF n > 0 THEN n - 1 ELSE 0

ClientTick ==
  /\ since' = Least(since + 1, Throttle)
  /\ call' = [c \in Caller |-> [call[c] EXCEPT !.sleep = Rest(@)]]
  /\ UNCHANGED <<owner, queue>>

\* execute, down to the first await of _throttle.
Execute(c) ==
  /\ call[c].pc = "idle"
  /\ call' = [call EXCEPT ![c] = [NoCall EXCEPT !.pc = "waiting"]]
  /\ queue' = Append(queue, c)
  /\ UNCHANGED <<since, owner>>

\* Mutant of LockFree: the lock is given back before the sleep.
LockFreeInTurn(c) == Head(queue) = c

LockFree(c) == owner = NoOwner /\ Head(queue) = c

\* The throttle's lock is taken and the wait computed.
Acquire(c) ==
  /\ call[c].pc = "waiting" /\ queue # <<>> /\ LockFree(c)
  /\ owner' = c
  /\ queue' = Tail(queue)
  /\ call' = [call EXCEPT ![c].pc = "throttled", ![c].sleep = Throttle - since]
  /\ UNCHANGED since

\* It is over: the time is stamped, the lock released and the request sent.
Post(c) ==
  /\ call[c].pc = "throttled" /\ call[c].sleep = 0
  /\ since' = 0
  /\ owner' = NoOwner
  /\ call' = [call EXCEPT ![c].pc = "posted"]
  /\ UNCHANGED queue

\* A body with data; or one that is final and not (4xx, not JSON, GraphQL
\* errors, no data), which execute raises at once.
Answer(c) ==
  /\ call[c].pc = "posted"
  /\ \E end \in {"answered", "raised"} : call' = [call EXCEPT ![c].pc = end]
  /\ UNCHANGED <<since, owner, queue>>

Backoff(attempt) == Least(BackoffBase * 2^attempt, BackoffCap)

\* A transport error, a time-out or a 5xx: back off, after the last attempt too.
Retriable(c) ==
  /\ call[c].pc = "posted"
  /\ call' = [call EXCEPT ![c].pc = "backoff", ![c].sleep = Backoff(call[c].attempt)]
  /\ UNCHANGED <<since, owner, queue>>

\* Mutant of NextAttempt: the attempts are not counted.
NextAttemptSame(c) == call[c].attempt

NextAttempt(c) == call[c].attempt + 1

Retry(c) ==
  /\ call[c].pc = "backoff" /\ call[c].sleep = 0
  /\ NextAttempt(c) <= MaxRetries
  /\ call' = [call EXCEPT ![c].pc = "waiting", ![c].attempt = NextAttempt(c)]
  /\ queue' = Append(queue, c)
  /\ UNCHANGED <<since, owner>>

GiveUp(c) ==
  /\ call[c].pc = "backoff" /\ call[c].sleep = 0
  /\ NextAttempt(c) > MaxRetries
  /\ call' = [call EXCEPT ![c].pc = "raised"]
  /\ UNCHANGED <<since, owner, queue>>

\* The caller goes on with what execute returned or raised.
Return(c) ==
  /\ call[c].pc \in {"answered", "raised"}
  /\ call' = [call EXCEPT ![c] = NoCall]
  /\ UNCHANGED <<since, owner, queue>>

\* The process stops and starts again, with a client of its own.
Rebuild ==
  /\ since' = Throttle /\ owner' = NoOwner /\ queue' = <<>>
  /\ call' = [c \in Caller |-> NoCall]

Request(c) == Acquire(c) \/ Post(c) \/ Answer(c) \/ Retriable(c) \/ Retry(c) \/ GiveUp(c)

ClientNext ==
  \/ ClientTick \/ Rebuild
  \/ \E c \in Caller : Execute(c) \/ Request(c) \/ Return(c)

ClientSpec == ClientInit /\ [][ClientNext]_clientVars

-----------------------------------------------------------------------------
\* "Throttles to at most one request per throttle_seconds": a request, be it a
\* retry of one coroutine beside the first attempt of another, is never sent
\* sooner after the one before it.
Throttled == [][\A c \in Caller : Post(c) => since >= Throttle]_clientVars

\* The lock has an owner exactly while one coroutine sleeps under it, for as long
\* as the throttle still asks; nobody waits twice.
In(c, seq) == \E i \in DOMAIN seq : seq[i] = c
Once(seq) == \A i, j \in DOMAIN seq : seq[i] = seq[j] => i = j

ClientInv ==
  /\ ClientTypeOK
  /\ \A c \in Caller :
       /\ owner = c <=> call[c].pc = "throttled"
       /\ owner = c => call[c].sleep >= Throttle - since
       /\ call[c].pc = "waiting" <=> In(c, queue)
  /\ Once(queue)
=============================================================================
