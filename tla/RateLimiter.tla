----------------------------- MODULE RateLimiter -----------------------------
(***************************************************************************)
(* The per-domain token-bucket limiter of src/utils/rate_limiter.py.       *)
(*                                                                         *)
(* Callers are asyncio tasks; a step runs from one suspension point to the *)
(* next.  DomainBucket.acquire suspends in two places: on the bucket's     *)
(* asyncio.Lock, which is handed over in arrival order, and in             *)
(* asyncio.sleep, with the lock HELD.  Time is an integer number of ticks. *)
(* One token is worth Token credits and a bucket of rate r earns r credits *)
(* per tick, so the code's float rps is the exact ratio r / Token.         *)
(*                                                                         *)
(* A bucket is an object: set_domain_rps drops it from the dictionary, and *)
(* callers already waiting keep the old one.  <<d, k>> names the bucket    *)
(* that domain d uses after k calls of set_domain_rps.                     *)
(***************************************************************************)
EXTENDS Integers, Sequences

CONSTANTS
    Callers,        \* tasks that call RateLimiter.acquire, once each
    Domains,
    Rates,          \* the rps values in use, in credits per tick
    DefaultRate,    \* RateLimiter.default_rps
    Burst,          \* RateLimiter.burst
    Token,          \* credits that one token costs
    EarlyCredit,    \* most credits missing when the loop fires a timer early
    MaxOverrides,   \* bound: calls of set_domain_rps per domain
    IdleHorizon     \* bound: tick after which time passes only for a sleeper

ASSUME LimiterAssumption ==
    /\ Domains # {}
    /\ Rates \subseteq Nat /\ DefaultRate \in Rates
    /\ Burst \in Nat \ {0} /\ Token \in Nat \ {0}
    /\ EarlyCredit \in 0 .. Token - 1
    /\ MaxOverrides \in Nat /\ IdleHorizon \in Nat

VARIABLES
    now,        \* time.monotonic()
    overrides,  \* _overrides, DefaultRate where there is none
    serial,     \* per domain: how often its bucket was dropped
    made,       \* the buckets bucket_for has created
    bucket,     \* DomainBucket: rps, tokens (in credits), updated_at
    queue,      \* waiters of each bucket's lock, in arrival order
    pc,         \* per caller: idle, queued, asleep (holding the lock), served
    at,         \* per caller: the bucket it was given
    nap,        \* per sleeper: when it fell asleep and the credit it misses
    grants      \* history: the times at which each bucket gave a token

vars == <<now, overrides, serial, made, bucket, queue, pc, at, nap, grants>>

Buckets == Domains \X (0 .. MaxOverrides)
Full == Burst * Token
NewBucket(rate, t) == [rps |-> rate, tokens |-> Full, updated_at |-> t]

BucketType == [rps : Nat, tokens : 0 .. Full, updated_at : Nat]

TypeOK ==
    /\ now \in Nat
    /\ overrides \in [Domains -> Nat]
    /\ serial \in [Domains -> 0 .. MaxOverrides]
    /\ made \subseteq Buckets
    /\ bucket \in [Buckets -> BucketType]
    /\ queue \in [Buckets -> Seq(Callers)]
    /\ pc \in [Callers -> {"idle", "queued", "asleep", "served"}]
    /\ at \in [Callers -> Buckets]
    /\ nap \in [Callers -> [since : Nat, deficit : 0 .. Token]]
    /\ grants \in [Buckets -> Seq(Nat)]

Init ==
    /\ now = 0
    /\ overrides = [d \in Domains |-> DefaultRate]
    /\ serial = [d \in Domains |-> 0]
    /\ made = {}
    /\ bucket = [b \in Buckets |-> NewBucket(DefaultRate, 0)]
    /\ queue = [b \in Buckets |-> <<>>]
    /\ pc = [c \in Callers |-> "idle"]
    /\ at = [c \in Callers |-> <<CHOOSE d \in Domains : TRUE, 0>>]
    /\ nap = [c \in Callers |-> [since |-> 0, deficit |-> 0]]
    /\ grants = [b \in Buckets |-> <<>>]

-----------------------------------------------------------------------------
(* DomainBucket *)

\* Mutant: the cap on a refill is forgotten.
UncappedRefill(b, t) ==
    [rps |-> b.rps, tokens |-> b.tokens + (t - b.updated_at) * b.rps,
     updated_at |-> t]

\* Mutant: a refill does not move updated_at, so time is earned twice.
ForgetfulRefill(b, t) ==
    LET earned == b.tokens + (t - b.updated_at) * b.rps
    IN  [rps |-> b.rps, tokens |-> IF earned < Full THEN earned ELSE Full,
         updated_at |-> b.updated_at]

Refill(b, t) ==
    LET earned == b.tokens + (t - b.updated_at) * b.rps
    IN  [rps |-> b.rps, tokens |-> IF earned < Full THEN earned ELSE Full,
         updated_at |-> t]

\* Mutant: asyncio.sleep is awaited after the lock is released.
NeverHeld(b) == FALSE

\* Only a sleeper holds the lock across steps.
Locked(b) == \E c \in Callers : pc[c] = "asleep" /\ at[c] = b

\* asyncio.Lock's fast path: unlocked, and nobody is waiting.
FreeForNewcomer(b) == ~Locked(b) /\ queue[b] = <<>>

\* The body of acquire, run by caller c that has just got the lock of bucket b,
\* whose object is B: take a token and release, or fall asleep with the lock.
Enter(c, b, B) ==
    LET R == Refill(B, now) IN
    \/ /\ R.tokens >= Token
       /\ bucket' = [bucket EXCEPT ![b] = [R EXCEPT !.tokens = R.tokens - Token]]
       /\ pc' = [pc EXCEPT ![c] = "served"]
       /\ grants' = [grants EXCEPT ![b] = Append(@, now)]
       /\ UNCHANGED nap
    \/ /\ R.tokens < Token
       /\ bucket' = [bucket EXCEPT ![b] = R]
       /\ pc' = [pc EXCEPT ![c] = "asleep"]
       /\ nap' = [nap EXCEPT ![c] = [since |-> now, deficit |-> Token - R.tokens]]
       /\ UNCHANGED grants

\* The lock was released: the first waiter resumes inside it.
Resume(c) ==
    /\ pc[c] = "queued"
    /\ LET b == at[c] IN
       /\ ~Locked(b)
       /\ queue[b] # <<>> /\ Head(queue[b]) = c
       /\ queue' = [queue EXCEPT ![b] = Tail(@)]
       /\ Enter(c, b, bucket[b])
    /\ UNCHANGED <<now, overrides, serial, made, at>>

\* Mutant: the guard "if self.rps > 0" is dropped, so rate 0 sleeps for ever.
WaitsForCredit(c) ==
    bucket[at[c]].rps * (now - nap[c].since) + EarlyCredit >= nap[c].deficit

\* The sleep of deficit / rps is over (a sleep of 0 when rps is 0).  The event
\* loop fires a timer up to its clock resolution early: EarlyCredit.
CanWake(c) ==
    LET r == bucket[at[c]].rps IN
    r = 0 \/ r * (now - nap[c].since) + EarlyCredit >= nap[c].deficit

\* Mutant: the woken caller does not pay for its token.
FreeRide(R) == R

\* tokens = max(0, tokens - 1)
Pay(R) == [R EXCEPT !.tokens = IF R.tokens > Token THEN R.tokens - Token ELSE 0]

Wake(c) ==
    /\ pc[c] = "asleep"
    /\ CanWake(c)
    /\ LET b == at[c] IN
       /\ bucket' = [bucket EXCEPT ![b] = Pay(Refill(bucket[b], now))]
       /\ grants' = [grants EXCEPT ![b] = Append(@, now)]
    /\ pc' = [pc EXCEPT ![c] = "served"]
    /\ UNCHANGED <<now, overrides, serial, made, queue, at, nap>>

-----------------------------------------------------------------------------
(* RateLimiter *)

\* bucket_for then acquire, up to the first suspension.
Acquire(c, d) ==
    LET b == <<d, serial[d]>>
        B == IF b \in made THEN bucket[b] ELSE NewBucket(overrides[d], now)
    IN
    /\ pc[c] = "idle"
    /\ made' = made \union {b}
    /\ at' = [at EXCEPT ![c] = b]
    /\ \/ /\ FreeForNewcomer(b)
          /\ Enter(c, b, B)
          /\ UNCHANGED queue
       \/ /\ ~FreeForNewcomer(b)
          /\ queue' = [queue EXCEPT ![b] = Append(@, c)]
          /\ pc' = [pc EXCEPT ![c] = "queued"]
          /\ bucket' = [bucket EXCEPT ![b] = B]
          /\ UNCHANGED <<nap, grants>>
    /\ UNCHANGED <<now, overrides, serial>>

\* Mutant: the bucket made with the old rate stays in the dictionary.
KeepBucket(d, r) ==
    /\ serial[d] < MaxOverrides
    /\ overrides' = [overrides EXCEPT ![d] = r]
    /\ UNCHANGED <<now, serial, made, bucket, queue, pc, at, nap, grants>>

SetDomainRps(d, r) ==
    /\ serial[d] < MaxOverrides
    /\ overrides' = [overrides EXCEPT ![d] = r]
    /\ serial' = [serial EXCEPT ![d] = @ + 1]
    /\ UNCHANGED <<now, made, bucket, queue, pc, at, nap, grants>>

\* Time passes; for its own sake only up to IdleHorizon, else for a sleeper whose
\* bucket is still earning its credit.
Tick ==
    /\ \/ now < IdleHorizon
       \/ \E c \in Callers : pc[c] = "asleep" /\ bucket[at[c]].rps > 0 /\ ~CanWake(c)
    /\ now' = now + 1
    /\ UNCHANGED <<overrides, serial, made, bucket, queue, pc, at, nap, grants>>

Next ==
    \/ \E c \in Callers : Resume(c) \/ Wake(c) \/ \E d \in Domains : Acquire(c, d)
    \/ \E d \in Domains, r \in Rates : SetDomainRps(d, r)
    \/ Tick

Spec == Init /\ [][Next]_vars

\* The loop runs every ready task and the clock never stops.
Fairness ==
    /\ WF_vars(Tick)
    /\ \A c \in Callers : WF_vars(Resume(c)) /\ WF_vars(Wake(c))

FairSpec == Spec /\ Fairness

-----------------------------------------------------------------------------
(* Properties *)

\* Over every window of every bucket, from one grant to a later one, the tokens
\* given cost no more than the burst plus what the rate earned in the window:
\* "requests are rate-limited per domain" (README, Politeness).  Each grant may
\* be EarlyCredit cheaper, because a timer may fire early and the code clamps
\* the debt at 0.  Rate 0 is the exception the code makes: it never limits.
Conformance ==
    \A b \in Buckets : bucket[b].rps > 0 =>
        \A j \in 1 .. Len(grants[b]) : \A i \in 1 .. j :
            (j - i + 1) * (Token - EarlyCredit)
                <= Full + bucket[b].rps * (grants[b][j] - grants[b][i])

\* A caller asleep in acquire finds its bucket as it left it: no other caller of
\* the same bucket sleeps or refills meanwhile, so the deficit it is waiting for
\* is still the exact one when it wakes (the lock is held across the sleep).
SleeperOwnsBucket ==
    \A c \in Callers : pc[c] = "asleep" =>
        /\ \A e \in Callers : pc[e] = "asleep" /\ at[e] = at[c] => e = c
        /\ bucket[at[c]].updated_at = nap[c].since
        /\ bucket[at[c]].tokens = Token - nap[c].deficit

\* set_domain_rps takes effect for every later caller: the bucket a domain uses
\* now never carries a rate from before the last override.
CurrentRate ==
    \A d \in Domains : LET b == <<d, serial[d]>> IN
        b \in made => bucket[b].rps = overrides[d]

\* Every call of acquire returns, at any rate including 0, whatever the other
\* callers of the domain do.
EveryAcquireReturns ==
    \A c \in Callers : pc[c] # "idle" ~> pc[c] = "served"

=============================================================================
