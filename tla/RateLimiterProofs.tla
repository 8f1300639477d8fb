-------------------------- MODULE RateLimiterProofs --------------------------
(***************************************************************************)
(* Proofs about RateLimiter: type correctness, exclusive ownership of a    *)
(* bucket by its sleeper, and from them the rate bound over every window,  *)
(* for any callers, domains, rates, burst and clock resolution.            *)
(***************************************************************************)
EXTENDS RateLimiter, TLAPS

\* The debt of a bucket B with grant history g: what the grants since g[i] cost,
\* and the tokens still in hand, were all paid by the burst and the rate.
Debt(B, g) ==
    B.rps > 0 => \A i \in 1 .. Len(g) :
        /\ g[i] <= B.updated_at
        /\ (Len(g) - i + 1) * (Token - EarlyCredit) + B.tokens
               <= Full + B.rps * (B.updated_at - g[i])

\* Conformance of one history, stated of one bucket.
Window(B, g) ==
    B.rps > 0 => \A j \in 1 .. Len(g) : \A i \in 1 .. j :
        (j - i + 1) * (Token - EarlyCredit) <= Full + B.rps * (g[j] - g[i])

\* The constants are numbers, and a full bucket holds a token.
LEMMA ConstantTypes ==
    /\ Token \in Nat /\ Token > 0
    /\ EarlyCredit \in Nat /\ EarlyCredit < Token
    /\ Full \in Nat /\ Token <= Full
    /\ DefaultRate \in Nat
    /\ MaxOverrides \in Nat
<1>1. Burst \in Nat /\ Burst >= 1 /\ Token \in Nat /\ Token >= 1
  BY LimiterAssumption
<1>2. Burst * Token \in Nat /\ Token <= Burst * Token
  BY <1>1
<1>3. QED
  BY <1>1, <1>2, LimiterAssumption DEF Full

\* The fields of a bucket.
LEMMA BucketFields ==
    ASSUME NEW B \in BucketType
    PROVE  /\ B.rps \in Nat
           /\ B.tokens \in Nat /\ B.tokens <= Full
           /\ B.updated_at \in Nat
<1>1. Full \in Nat
  BY ConstantTypes
<1>2. QED
  BY <1>1 DEF BucketType

\* A product of integers is one; stated by itself for the solver's sake.
LEMMA Product ==
    ASSUME NEW a \in Int, NEW b \in Int
    PROVE  a * b \in Int
OBVIOUS

\* Time that passes at rate r adds to what a debt of x may be.
LEMMA EarnMore ==
    ASSUME NEW x \in Int, NEW r \in Nat, NEW a \in Int, NEW c \in Int,
           NEW k \in Nat, NEW m \in Nat,
           x + k <= Full + r * a, m <= k + r * c
    PROVE  x + m <= Full + r * (c + a)
<1>1. r * (c + a) = r * c + r * a /\ r * c \in Int /\ r * a \in Int
  OBVIOUS
<1>2. QED
  BY <1>1, ConstantTypes

\* A refill earns what the elapsed time is worth, up to the burst.
LEMMA RefillEarns ==
    ASSUME NEW B \in BucketType, NEW t \in Nat, B.updated_at <= t
    PROVE  /\ Refill(B, t) \in BucketType
           /\ Refill(B, t).rps = B.rps
           /\ Refill(B, t).updated_at = t
           /\ Refill(B, t).tokens <= B.tokens + B.rps * (t - B.updated_at)
           /\ \/ Refill(B, t).tokens = B.tokens + B.rps * (t - B.updated_at)
              \/ Refill(B, t).tokens = Full
<1>. DEFINE e == (t - B.updated_at) * B.rps
<1>1. /\ B.rps \in Nat
      /\ B.tokens \in Nat /\ B.tokens <= Full
      /\ B.updated_at \in Nat
  BY BucketFields
<1>2. e \in Nat /\ e = B.rps * (t - B.updated_at)
  BY <1>1
<1>. HIDE DEF e
<1>3. Refill(B, t) = [rps |-> B.rps,
                      tokens |-> IF B.tokens + e < Full THEN B.tokens + e ELSE Full,
                      updated_at |-> t]
  BY DEF Refill, e
<1>4. QED
  BY <1>1, <1>2, <1>3, ConstantTypes DEF BucketType

\* Time alone never breaks the debt.
LEMMA RefillDebt ==
    ASSUME NEW B \in BucketType, NEW g \in Seq(Nat), NEW t \in Nat,
           B.updated_at <= t, Debt(B, g)
    PROVE  Debt(Refill(B, t), g)
<1>. DEFINE R == Refill(B, t)
<1>1. /\ R \in BucketType /\ R.rps = B.rps /\ R.updated_at = t
      /\ R.tokens <= B.tokens + B.rps * (t - B.updated_at)
  BY RefillEarns
<1>. HIDE DEF R
<1>2. SUFFICES ASSUME B.rps > 0, NEW i \in 1 .. Len(g)
               PROVE  /\ g[i] <= t
                      /\ (Len(g) - i + 1) * (Token - EarlyCredit) + R.tokens
                             <= Full + B.rps * (t - g[i])
  BY <1>1 DEF Debt, R
<1>3. /\ g[i] \in Nat /\ B.updated_at \in Nat /\ B.tokens \in Nat /\ B.rps \in Nat
      /\ R.tokens \in Nat
  BY <1>1, BucketFields
<1>4. /\ g[i] <= B.updated_at
      /\ (Len(g) - i + 1) * (Token - EarlyCredit) + B.tokens
             <= Full + B.rps * (B.updated_at - g[i])
  BY <1>2 DEF Debt
<1>. DEFINE x == (Len(g) - i + 1) * (Token - EarlyCredit)
            a == B.updated_at - g[i]
            c == t - B.updated_at
<1>5. a \in Int /\ c \in Int /\ c + a = t - g[i] /\ g[i] <= t
  <2>1. g[i] <= B.updated_at
    BY <1>4
  <2>2. QED
    BY <1>3, <2>1
<1>6. x \in Int
  <2>1. Len(g) - i + 1 \in Int /\ Token - EarlyCredit \in Int
    BY ConstantTypes
  <2>2. QED
    BY <2>1, Product
<1>. HIDE DEF x, a, c
<1>7. x + B.tokens <= Full + B.rps * a /\ R.tokens <= B.tokens + B.rps * c
  BY <1>1, <1>4 DEF x, a, c
<1>8. x + R.tokens <= Full + B.rps * (c + a)
  BY <1>3, <1>5, <1>6, <1>7, EarnMore
<1>9. QED
  BY <1>5, <1>8 DEF x

\* Giving a token for at least Token - EarlyCredit keeps the debt covered.
LEMMA TakeDebt ==
    ASSUME NEW R \in BucketType, NEW S \in BucketType, NEW g \in Seq(Nat),
           S.rps = R.rps, S.updated_at = R.updated_at,
           S.rps > 0 => S.tokens + (Token - EarlyCredit) <= R.tokens,
           Debt(R, g), Window(R, g)
    PROVE  Debt(S, Append(g, S.updated_at)) /\ Window(S, Append(g, S.updated_at))
<1>. DEFINE t == S.updated_at
            h == Append(g, t)
            n == Len(g)
            p == Token - EarlyCredit
<1>1. /\ t \in Nat /\ S.rps \in Nat /\ S.tokens \in Nat /\ R.tokens \in Nat
      /\ R.tokens <= Full /\ p \in Nat /\ n \in Nat /\ Full \in Nat
  BY ConstantTypes DEF BucketType
<1>2. /\ Len(h) = n + 1 /\ h[n + 1] = t
      /\ \A i \in 1 .. n : h[i] = g[i] /\ g[i] \in Nat
  BY <1>1
<1>. SUFFICES ASSUME S.rps > 0 PROVE Debt(S, h) /\ Window(S, h)
  BY DEF Debt, Window
<1>3. S.tokens + p <= R.tokens
  OBVIOUS
<1>4. ASSUME NEW i \in 1 .. n
      PROVE  /\ h[i] <= t
             /\ (n + 1 - i + 1) * p + S.tokens <= Full + S.rps * (t - h[i])
  <2>1. g[i] <= t /\ (n - i + 1) * p + R.tokens <= Full + S.rps * (t - g[i])
    BY DEF Debt
  <2>2. (n + 1 - i + 1) * p = (n - i + 1) * p + p
    BY <1>1
  <2>. DEFINE x == (n - i + 1) * p
              y == S.rps * (t - g[i])
  <2>3. x \in Int /\ y \in Int /\ x + R.tokens <= Full + y
    <3>1. n - i + 1 \in Int /\ t - g[i] \in Int /\ p \in Int
      BY <1>1, <1>2
    <3>. HIDE DEF n, t, p
    <3>2. x \in Int /\ y \in Int
      BY <1>1, <3>1
    <3>3. QED
      BY <2>1, <3>2
  <2>. HIDE DEF x, y, p
  <2>4. x + p + S.tokens <= Full + y
    BY <1>1, <1>3, <2>3
  <2>5. QED
    BY <1>2, <2>1, <2>2, <2>4 DEF x, y
<1>5. 1 * p + S.tokens <= Full + S.rps * (t - h[n + 1])
  <2>1. S.rps * (t - t) = 0 /\ 1 * p = p
    BY <1>1
  <2>2. p + S.tokens <= Full
    BY <1>1, <1>3
  <2>3. QED
    BY <1>1, <1>2, <2>1, <2>2
<1>. HIDE DEF h, t, n, p
<1>6. ASSUME NEW i \in 1 .. Len(h)
      PROVE  /\ h[i] <= t
             /\ (Len(h) - i + 1) * p + S.tokens <= Full + S.rps * (t - h[i])
  <2>1. CASE i \in 1 .. n
    <3>1. Len(h) - i + 1 = n + 1 - i + 1
      BY <1>1, <1>2, <2>1
    <3>2. QED
      BY <1>4, <2>1, <3>1
  <2>2. CASE i = n + 1
    <3>1. Len(h) - i + 1 = 1 /\ h[i] <= t
      BY <1>1, <1>2, <2>2
    <3>2. QED
      BY <1>5, <2>2, <3>1
  <2>3. QED
    BY <1>1, <1>2, <2>1, <2>2
<1>7. Debt(S, h)
  BY <1>6 DEF Debt, t, p
<1>8. ASSUME NEW j \in 1 .. Len(h), NEW i \in 1 .. j
      PROVE  (j - i + 1) * p <= Full + S.rps * (h[j] - h[i])
  <2>1. CASE j \in 1 .. n
    <3>1. i \in 1 .. n
      BY <1>1, <2>1
    <3>2. (j - i + 1) * p <= Full + S.rps * (g[j] - g[i])
      BY <2>1 DEF Window, p, n
    <3>3. QED
      BY <1>2, <2>1, <3>1, <3>2
  <2>2. CASE j = n + 1
    <3>1. i \in 1 .. Len(h) /\ Len(h) = j /\ h[j] = t
      BY <1>1, <1>2, <2>2
    <3>2. (j - i + 1) * p + S.tokens <= Full + S.rps * (h[j] - h[i])
      BY <1>6, <3>1
    <3>3. (j - i + 1) * p \in Int /\ S.rps * (h[j] - h[i]) \in Int
      <4>1. h[i] \in Int /\ h[j] \in Int
        BY <1>1, <1>2, <3>1
      <4>2. QED
        BY <1>1, <4>1
    <3>4. QED
      BY <1>1, <3>2, <3>3
  <2>3. QED
    BY <1>1, <1>2, <2>1, <2>2
<1>9. Window(S, h)
  BY <1>8 DEF Window, p
<1>10. QED
  BY <1>7, <1>9 DEF h

-----------------------------------------------------------------------------
(* The inductive invariant *)

\* No bucket is refilled in the future.
Clock == \A b \in Buckets : bucket[b].updated_at <= now

\* Where the buckets come from: only ones a domain has reached exist, they were
\* made before they gave a token, and a caller past bucket_for holds one of them.
Lineage ==
    /\ \A d \in Domains : \A k \in 0 .. MaxOverrides : <<d, k>> \in made => k <= serial[d]
    /\ \A b \in Buckets : b \notin made => grants[b] = <<>>
    /\ \A c \in Callers : pc[c] # "idle" => at[c] \in made

\* Every bucket's grants are paid for.
Paid ==
    \A b \in Buckets : Debt(bucket[b], grants[b]) /\ Window(bucket[b], grants[b])

IInv == TypeOK /\ Clock /\ Lineage /\ SleeperOwnsBucket /\ CurrentRate /\ Paid

\* What Enter does, given the bucket object B it starts from.
LEMMA EnterEffect ==
    ASSUME TypeOK, NEW c \in Callers, NEW b \in Buckets, NEW B \in BucketType,
           B.updated_at <= now, Enter(c, b, B)
    PROVE  /\ bucket' \in [Buckets -> BucketType]
           /\ pc' \in [Callers -> {"idle", "queued", "asleep", "served"}]
           /\ nap' \in [Callers -> [since : Nat, deficit : 0 .. Token]]
           /\ grants' \in [Buckets -> Seq(Nat)]
           /\ \A x \in Buckets : x # b => bucket'[x] = bucket[x] /\ grants'[x] = grants[x]
           /\ \A e \in Callers : e # c => pc'[e] = pc[e] /\ nap'[e] = nap[e]
           /\ bucket'[b].rps = B.rps /\ bucket'[b].updated_at = now
           /\ \/ /\ pc'[c] = "served"
                 /\ grants'[b] = Append(grants[b], now)
                 /\ bucket'[b].tokens + Token = Refill(B, now).tokens
              \/ /\ pc'[c] = "asleep"
                 /\ grants'[b] = grants[b]
                 /\ bucket'[b] = Refill(B, now)
                 /\ nap'[c].since = now
                 /\ nap'[c].deficit = Token - bucket'[b].tokens
<1>. DEFINE R == Refill(B, now)
<1>1. now \in Nat /\ grants[b] \in Seq(Nat)
  BY DEF TypeOK
<1>2. R \in BucketType /\ R.rps = B.rps /\ R.updated_at = now
  BY <1>1, RefillEarns
<1>. HIDE DEF R
<1>3. R.tokens \in Nat /\ R.tokens <= Full /\ Full \in Nat /\ Token \in Nat /\ Token > 0
  BY <1>2, BucketFields, ConstantTypes
<1>4. \/ /\ R.tokens >= Token
         /\ bucket' = [bucket EXCEPT ![b] = [R EXCEPT !.tokens = R.tokens - Token]]
         /\ pc' = [pc EXCEPT ![c] = "served"]
         /\ grants' = [grants EXCEPT ![b] = Append(@, now)]
         /\ nap' = nap
      \/ /\ R.tokens < Token
         /\ bucket' = [bucket EXCEPT ![b] = R]
         /\ pc' = [pc EXCEPT ![c] = "asleep"]
         /\ nap' = [nap EXCEPT ![c] = [since |-> now, deficit |-> Token - R.tokens]]
         /\ grants' = grants
  BY DEF Enter, R
<1>5. CASE /\ R.tokens >= Token
           /\ bucket' = [bucket EXCEPT ![b] = [R EXCEPT !.tokens = R.tokens - Token]]
           /\ pc' = [pc EXCEPT ![c] = "served"]
           /\ grants' = [grants EXCEPT ![b] = Append(@, now)]
           /\ nap' = nap
  <2>. DEFINE S == [R EXCEPT !.tokens = R.tokens - Token]
  <2>1. R.tokens - Token \in 0 .. Full
    BY <1>3, <1>5
  <2>2. S \in BucketType
    BY <1>2, <2>1 DEF BucketType
  <2>3. S.rps = R.rps /\ S.updated_at = R.updated_at /\ S.tokens = R.tokens - Token
    BY <1>2 DEF BucketType
  <2>. HIDE DEF S
  <2>4. bucket' = [bucket EXCEPT ![b] = S]
    BY <1>5 DEF S
  <2>5. bucket' \in [Buckets -> BucketType] /\ bucket'[b] = S
    BY <2>2, <2>4 DEF TypeOK
  <2>6. \A x \in Buckets : x # b => bucket'[x] = bucket[x] /\ grants'[x] = grants[x]
    BY <2>4, <1>5 DEF TypeOK
  <2>7. Append(grants[b], now) \in Seq(Nat)
    BY <1>1
  <2>8. grants' \in [Buckets -> Seq(Nat)] /\ grants'[b] = Append(grants[b], now)
    BY <1>5, <2>7 DEF TypeOK
  <2>9. /\ pc' \in [Callers -> {"idle", "queued", "asleep", "served"}]
        /\ pc'[c] = "served" /\ nap' = nap
        /\ \A e \in Callers : e # c => pc'[e] = pc[e]
    BY <1>5 DEF TypeOK
  <2>10. nap' \in [Callers -> [since : Nat, deficit : 0 .. Token]]
    BY <2>9 DEF TypeOK
  <2>11. bucket'[b].tokens + Token = R.tokens
    BY <1>3, <2>3, <2>5
  <2>12. bucket'[b].rps = B.rps /\ bucket'[b].updated_at = now
    BY <1>2, <2>3, <2>5
  <2>13. QED
    BY <2>5, <2>6, <2>8, <2>9, <2>10, <2>11, <2>12 DEF R
<1>6. CASE /\ R.tokens < Token
           /\ bucket' = [bucket EXCEPT ![b] = R]
           /\ pc' = [pc EXCEPT ![c] = "asleep"]
           /\ nap' = [nap EXCEPT ![c] = [since |-> now, deficit |-> Token - R.tokens]]
           /\ grants' = grants
  <2>. DEFINE N == [since |-> now, deficit |-> Token - R.tokens]
  <2>1. Token - R.tokens \in 0 .. Token
    BY <1>3, <1>6
  <2>2. /\ N \in [since : Nat, deficit : 0 .. Token]
        /\ N.since = now /\ N.deficit = Token - R.tokens
    BY <1>1, <2>1
  <2>. HIDE DEF N
  <2>3. nap' = [nap EXCEPT ![c] = N]
    BY <1>6 DEF N
  <2>4. /\ nap' \in [Callers -> [since : Nat, deficit : 0 .. Token]] /\ nap'[c] = N
        /\ \A e \in Callers : e # c => nap'[e] = nap[e]
    BY <2>2, <2>3 DEF TypeOK
  <2>5. /\ bucket' \in [Buckets -> BucketType] /\ bucket'[b] = R
        /\ \A x \in Buckets : x # b => bucket'[x] = bucket[x]
    BY <1>2, <1>6 DEF TypeOK
  <2>6. /\ pc' \in [Callers -> {"idle", "queued", "asleep", "served"}]
        /\ pc'[c] = "asleep"
        /\ \A e \in Callers : e # c => pc'[e] = pc[e]
    BY <1>6 DEF TypeOK
  <2>7. grants' \in [Buckets -> Seq(Nat)]
    BY <1>6 DEF TypeOK
  <2>8. bucket'[b].rps = B.rps /\ bucket'[b].updated_at = now
    BY <1>2, <2>5
  <2>9. nap'[c].since = now /\ nap'[c].deficit = Token - bucket'[b].tokens
    BY <2>2, <2>4, <2>5
  <2>10. QED
    BY <1>6, <2>4, <2>5, <2>6, <2>7, <2>8, <2>9 DEF R
<1>7. QED
  BY <1>4, <1>5, <1>6

\* Enter keeps the bucket it works on paid for.
LEMMA EnterPaid ==
    ASSUME TypeOK, NEW c \in Callers, NEW b \in Buckets, NEW B \in BucketType,
           B.updated_at <= now, Enter(c, b, B),
           Debt(B, grants[b]), Window(B, grants[b])
    PROVE  Debt(bucket'[b], grants'[b]) /\ Window(bucket'[b], grants'[b])
<1>. DEFINE R == Refill(B, now)
            S == bucket'[b]
<1>1. now \in Nat /\ grants[b] \in Seq(Nat)
  BY DEF TypeOK
<1>2. R \in BucketType /\ R.rps = B.rps /\ R.updated_at = now
  BY <1>1, RefillEarns
<1>3. Debt(R, grants[b])
  BY <1>1, RefillDebt
<1>4. Window(R, grants[b])
  BY <1>2 DEF Window
<1>5. /\ S \in BucketType /\ S.rps = B.rps /\ S.updated_at = now
      /\ \/ grants'[b] = Append(grants[b], now) /\ S.tokens + Token = R.tokens
         \/ grants'[b] = grants[b] /\ S = R
  BY EnterEffect
<1>. HIDE DEF R, S
<1>6. CASE grants'[b] = grants[b] /\ S = R
  BY <1>3, <1>4, <1>6 DEF S
<1>7. CASE grants'[b] = Append(grants[b], now) /\ S.tokens + Token = R.tokens
  <2>1. S.tokens \in Nat /\ R.tokens \in Nat
    BY <1>2, <1>5, BucketFields
  <2>2. S.tokens + (Token - EarlyCredit) <= R.tokens
    BY <1>7, <2>1, ConstantTypes
  <2>3. Debt(S, Append(grants[b], S.updated_at)) /\ Window(S, Append(grants[b], S.updated_at))
    BY <1>1, <1>2, <1>3, <1>4, <1>5, <2>2, TakeDebt
  <2>4. QED
    BY <1>5, <1>7, <2>3 DEF S
<1>8. QED
  BY <1>5, <1>6, <1>7

\* Enter keeps the whole invariant when c was let into an unlocked bucket b whose
\* object is B; made' and at' are what the caller's step makes of them.
LEMMA EnterKeeps ==
    ASSUME IInv, NEW c \in Callers, NEW b \in Buckets, NEW B \in BucketType,
           B.updated_at <= now, Enter(c, b, B), ~Locked(b),
           Debt(B, grants[b]), Window(B, grants[b]),
           b \in made => B = bucket[b],
           made' = made \union {b}, at' = [at EXCEPT ![c] = b], pc[c] # "asleep",
           b[2] <= serial[b[1]],
           b = <<b[1], serial[b[1]]>> => B.rps = overrides[b[1]],
           now' = now, overrides' = overrides, serial' = serial,
           queue' \in [Buckets -> Seq(Callers)]
    PROVE  IInv'
<1>1. /\ TypeOK /\ Clock /\ Lineage /\ SleeperOwnsBucket /\ CurrentRate /\ Paid
  BY DEF IInv
<1>2. /\ bucket' \in [Buckets -> BucketType]
      /\ pc' \in [Callers -> {"idle", "queued", "asleep", "served"}]
      /\ nap' \in [Callers -> [since : Nat, deficit : 0 .. Token]]
      /\ grants' \in [Buckets -> Seq(Nat)]
      /\ \A x \in Buckets : x # b => bucket'[x] = bucket[x] /\ grants'[x] = grants[x]
      /\ \A e \in Callers : e # c => pc'[e] = pc[e] /\ nap'[e] = nap[e]
      /\ bucket'[b].rps = B.rps /\ bucket'[b].updated_at = now
      /\ \/ /\ pc'[c] = "served"
            /\ grants'[b] = Append(grants[b], now)
         \/ /\ pc'[c] = "asleep"
            /\ grants'[b] = grants[b]
            /\ nap'[c].since = now
            /\ nap'[c].deficit = Token - bucket'[b].tokens
  BY <1>1, EnterEffect
<1>3. TypeOK'
  BY <1>1, <1>2 DEF TypeOK
<1>4. Clock'
  <2>1. ASSUME NEW x \in Buckets PROVE bucket'[x].updated_at <= now
    <3>1. CASE x = b
      BY <1>1, <1>2, <3>1 DEF TypeOK
    <3>2. CASE x # b
      BY <1>1, <1>2, <3>2 DEF Clock
    <3>3. QED
      BY <3>1, <3>2
  <2>2. QED
    BY <2>1 DEF Clock
<1>5. Lineage'
  <2>1. \A d \in Domains : \A k \in 0 .. MaxOverrides : <<d, k>> \in made' => k <= serial'[d]
    BY <1>1 DEF Lineage
  <2>2. \A x \in Buckets : x \notin made' => grants'[x] = <<>>
    BY <1>1, <1>2 DEF Lineage
  <2>3. \A e \in Callers : pc'[e] # "idle" => at'[e] \in made'
    BY <1>1, <1>2 DEF Lineage, TypeOK
  <2>4. QED
    BY <2>1, <2>2, <2>3 DEF Lineage
<1>6. SleeperOwnsBucket'
  <2>1. SUFFICES ASSUME NEW e \in Callers, pc'[e] = "asleep"
                 PROVE  /\ \A f \in Callers : pc'[f] = "asleep" /\ at'[f] = at'[e] => f = e
                        /\ bucket'[at'[e]].updated_at = nap'[e].since
                        /\ bucket'[at'[e]].tokens = Token - nap'[e].deficit
    BY DEF SleeperOwnsBucket
  <2>2. \A f \in Callers : f # c => at'[f] = at[f]
    BY <1>1 DEF TypeOK
  <2>3. at'[c] = b
    BY <1>1 DEF TypeOK
  <2>4. \A f \in Callers : f # c /\ pc'[f] = "asleep" => pc[f] = "asleep" /\ at'[f] # b
    BY <1>2, <2>2 DEF Locked
  <2>5. CASE e = c
    <3>1. bucket'[b] \in BucketType /\ nap'[c] \in [since : Nat, deficit : 0 .. Token]
      BY <1>2
    <3>2. bucket'[b].tokens \in Nat /\ Token \in Nat
      BY <3>1, BucketFields, ConstantTypes
    <3>3. nap'[c].since = now /\ nap'[c].deficit = Token - bucket'[b].tokens
      BY <1>2, <2>1, <2>5
    <3>4. bucket'[b].tokens = Token - nap'[c].deficit
      BY <3>2, <3>3
    <3>5. \A f \in Callers : pc'[f] = "asleep" /\ at'[f] = at'[e] => f = e
      BY <2>3, <2>4, <2>5
    <3>6. bucket'[at'[e]].updated_at = nap'[e].since
      BY <1>2, <2>3, <2>5, <3>3
    <3>7. bucket'[at'[e]].tokens = Token - nap'[e].deficit
      BY <2>3, <2>5, <3>4
    <3>8. QED
      BY <3>5, <3>6, <3>7
  <2>6. CASE e # c
    <3>1. pc[e] = "asleep" /\ at'[e] = at[e] /\ at[e] # b /\ nap'[e] = nap[e]
      BY <1>2, <2>1, <2>2, <2>4, <2>6
    <3>2. at[e] \in Buckets /\ bucket'[at[e]] = bucket[at[e]]
      BY <1>1, <1>2, <3>1 DEF TypeOK
    <3>3. /\ bucket[at[e]].updated_at = nap[e].since
          /\ bucket[at[e]].tokens = Token - nap[e].deficit
          /\ \A f \in Callers : pc[f] = "asleep" /\ at[f] = at[e] => f = e
      BY <1>1, <3>1 DEF SleeperOwnsBucket
    <3>4. \A f \in Callers : pc'[f] = "asleep" /\ at'[f] = at'[e] => f = e
      BY <2>2, <2>3, <2>4, <3>1, <3>3
    <3>5. QED
      BY <3>1, <3>2, <3>3, <3>4
  <2>7. QED
    BY <2>5, <2>6
<1>7. CurrentRate'
  <2>1. SUFFICES ASSUME NEW d \in Domains, <<d, serial[d]>> \in made'
                 PROVE  bucket'[<<d, serial[d]>>].rps = overrides[d]
    BY DEF CurrentRate
  <2>2. <<d, serial[d]>> \in Buckets
    BY <1>1 DEF TypeOK, Buckets
  <2>3. CASE <<d, serial[d]>> = b
    <3>1. b[1] = d
      BY <2>3
    <3>2. QED
      BY <1>2, <2>3, <3>1
  <2>4. CASE <<d, serial[d]>> # b
    BY <1>1, <1>2, <2>1, <2>2, <2>4 DEF CurrentRate
  <2>5. QED
    BY <2>3, <2>4
<1>8. Paid'
  <2>1. Debt(bucket'[b], grants'[b]) /\ Window(bucket'[b], grants'[b])
    BY <1>1, EnterPaid
  <2>2. \A x \in Buckets : x # b => Debt(bucket'[x], grants'[x]) /\ Window(bucket'[x], grants'[x])
    BY <1>1, <1>2 DEF Paid
  <2>3. \A x \in Buckets : Debt(bucket'[x], grants'[x]) /\ Window(bucket'[x], grants'[x])
    BY <2>1, <2>2
  <2>4. QED
    BY <2>3 DEF Paid, Debt, Window
<1>9. QED
  BY <1>3, <1>4, <1>5, <1>6, <1>7, <1>8 DEF IInv

\* The invariant holds before anybody called.
LEMMA InitInv == Init => IInv
<1>. SUFFICES ASSUME Init PROVE IInv
  OBVIOUS
<1>1. <<CHOOSE d \in Domains : TRUE, 0>> \in Buckets
  BY LimiterAssumption DEF Buckets
<1>. DEFINE B == NewBucket(DefaultRate, 0)
<1>2. B \in BucketType /\ B.updated_at = 0
  BY ConstantTypes DEF NewBucket, BucketType
<1>. HIDE DEF B
<1>3. /\ now = 0 /\ bucket = [b \in Buckets |-> B] /\ grants = [b \in Buckets |-> <<>>]
      /\ pc = [c \in Callers |-> "idle"] /\ made = {}
  BY DEF Init, B
<1>4. TypeOK
  <2>1. [since |-> 0, deficit |-> 0] \in [since : Nat, deficit : 0 .. Token]
    BY ConstantTypes
  <2>2. /\ overrides \in [Domains -> Nat] /\ serial \in [Domains -> 0 .. MaxOverrides]
        /\ nap \in [Callers -> [since : Nat, deficit : 0 .. Token]]
        /\ at \in [Callers -> Buckets]
    <3>1. overrides \in [Domains -> Nat] /\ serial \in [Domains -> 0 .. MaxOverrides]
      BY ConstantTypes DEF Init
    <3>2. nap \in [Callers -> [since : Nat, deficit : 0 .. Token]]
      BY <2>1 DEF Init
    <3>3. at \in [Callers -> Buckets]
      BY <1>1 DEF Init
    <3>4. QED
      BY <3>1, <3>2, <3>3
  <2>3. queue \in [Buckets -> Seq(Callers)] /\ grants \in [Buckets -> Seq(Nat)]
    BY DEF Init
  <2>4. QED
    BY <1>2, <1>3, <2>2, <2>3 DEF TypeOK
<1>5. Clock
  BY <1>2, <1>3 DEF Clock
<1>6. Lineage /\ SleeperOwnsBucket /\ CurrentRate
  BY <1>3 DEF Lineage, SleeperOwnsBucket, CurrentRate
<1>7. Paid
  BY <1>3 DEF Paid, Debt, Window
<1>8. QED
  BY <1>4, <1>5, <1>6, <1>7 DEF IInv

\* The first waiter of a released lock keeps it, served or put to sleep.
LEMMA ResumeKeeps ==
    ASSUME IInv, NEW c \in Callers, Resume(c)
    PROVE  IInv'
<1>. DEFINE b == at[c]
<1>1. /\ TypeOK /\ Clock /\ Lineage /\ CurrentRate /\ Paid
  BY DEF IInv
<1>2. b \in Buckets /\ bucket[b] \in BucketType /\ b \in made /\ pc[c] = "queued"
  BY <1>1 DEF TypeOK, Lineage, Resume
<1>3. /\ Enter(c, b, bucket[b]) /\ ~Locked(b) /\ queue[b] # <<>>
      /\ queue' = [queue EXCEPT ![b] = Tail(@)]
      /\ now' = now /\ overrides' = overrides /\ serial' = serial /\ made' = made /\ at' = at
  BY DEF Resume
<1>4. queue' \in [Buckets -> Seq(Callers)]
  <2>1. queue[b] \in Seq(Callers)
    BY <1>1, <1>2 DEF TypeOK
  <2>2. Tail(queue[b]) \in Seq(Callers)
    BY <2>1, <1>3
  <2>3. QED
    BY <1>1, <1>3, <2>2 DEF TypeOK
<1>5. made' = made \union {b} /\ at' = [at EXCEPT ![c] = b]
  BY <1>1, <1>2, <1>3 DEF TypeOK
<1>6. PICK d \in Domains, k \in 0 .. MaxOverrides : b = <<d, k>>
  BY <1>2 DEF Buckets
<1>7. /\ b[2] <= serial[b[1]]
      /\ b = <<b[1], serial[b[1]]>> => bucket[b].rps = overrides[b[1]]
  BY <1>1, <1>2, <1>6 DEF Lineage, CurrentRate
<1>8. Debt(bucket[b], grants[b]) /\ Window(bucket[b], grants[b]) /\ bucket[b].updated_at <= now
  BY <1>1, <1>2 DEF Paid, Clock
<1>. HIDE DEF b
<1>9. QED
  BY <1>2, <1>3, <1>4, <1>5, <1>7, <1>8, EnterKeeps

\* So does a newcomer, in a bucket that is new or not, served, asleep or queued.
LEMMA AcquireKeeps ==
    ASSUME IInv, NEW c \in Callers, NEW d \in Domains, Acquire(c, d)
    PROVE  IInv'
<1>. DEFINE b == <<d, serial[d]>>
            B == IF b \in made THEN bucket[b] ELSE NewBucket(overrides[d], now)
<1>1. /\ TypeOK /\ Clock /\ Lineage /\ SleeperOwnsBucket /\ CurrentRate /\ Paid
  BY DEF IInv
<1>2. b \in Buckets /\ b[1] = d /\ b[2] = serial[d] /\ serial[d] \in Nat
  BY <1>1, ConstantTypes DEF TypeOK, Buckets
<1>3. /\ pc[c] = "idle" /\ made' = made \union {b} /\ at' = [at EXCEPT ![c] = b]
      /\ now' = now /\ overrides' = overrides /\ serial' = serial
      /\ \/ FreeForNewcomer(b) /\ Enter(c, b, B) /\ queue' = queue
         \/ /\ queue' = [queue EXCEPT ![b] = Append(@, c)]
            /\ pc' = [pc EXCEPT ![c] = "queued"]
            /\ bucket' = [bucket EXCEPT ![b] = B] /\ nap' = nap /\ grants' = grants
  BY DEF Acquire
<1>4. /\ B \in BucketType /\ B.updated_at <= now /\ B.rps = overrides[d]
      /\ Debt(B, grants[b]) /\ Window(B, grants[b])
      /\ b \in made => B = bucket[b]
  <2>1. CASE b \in made
    BY <1>1, <1>2, <2>1 DEF TypeOK, Clock, CurrentRate, Paid
  <2>2. CASE b \notin made
    <3>. DEFINE N == NewBucket(overrides[d], now)
    <3>1. overrides[d] \in Nat /\ now \in Nat /\ Full \in 0 .. Full
      BY <1>1, ConstantTypes DEF TypeOK
    <3>2. N \in BucketType /\ N.updated_at = now /\ N.rps = overrides[d]
      BY <3>1 DEF NewBucket, BucketType
    <3>3. grants[b] = <<>>
      BY <1>1, <1>2, <2>2 DEF Lineage
    <3>4. Debt(N, grants[b]) /\ Window(N, grants[b])
      BY <3>3 DEF Debt, Window
    <3>5. B = N
      BY <2>2
    <3>. HIDE DEF N, B, b
    <3>6. QED
      BY <2>2, <3>1, <3>2, <3>4, <3>5
  <2>3. QED
    BY <2>1, <2>2
<1>. HIDE DEF b, B
<1>5. CASE FreeForNewcomer(b) /\ Enter(c, b, B) /\ queue' = queue
  <2>1. ~Locked(b) /\ queue' \in [Buckets -> Seq(Callers)]
    BY <1>1, <1>5 DEF FreeForNewcomer, TypeOK
  <2>2. pc[c] # "asleep" /\ b[2] <= serial[b[1]] /\ B.rps = overrides[b[1]]
    BY <1>2, <1>3, <1>4
  <2>3. QED
    BY <1>2, <1>3, <1>4, <1>5, <2>1, <2>2, EnterKeeps
<1>6. CASE /\ queue' = [queue EXCEPT ![b] = Append(@, c)]
           /\ pc' = [pc EXCEPT ![c] = "queued"]
           /\ bucket' = [bucket EXCEPT ![b] = B] /\ nap' = nap /\ grants' = grants
  <2>0. /\ bucket' \in [Buckets -> BucketType] /\ bucket'[b] = B
        /\ \A x \in Buckets : x # b => bucket'[x] = bucket[x]
    BY <1>1, <1>2, <1>4, <1>6 DEF TypeOK
  <2>1. TypeOK'
    <3>1. Append(queue[b], c) \in Seq(Callers)
      BY <1>1, <1>2 DEF TypeOK
    <3>2. queue' \in [Buckets -> Seq(Callers)]
      BY <1>1, <1>6, <3>1 DEF TypeOK
    <3>3. at' \in [Callers -> Buckets] /\ made' \subseteq Buckets
      BY <1>1, <1>2, <1>3 DEF TypeOK
    <3>4. pc' \in [Callers -> {"idle", "queued", "asleep", "served"}]
      BY <1>1, <1>6 DEF TypeOK
    <3>5. QED
      BY <1>1, <1>3, <1>6, <2>0, <3>2, <3>3, <3>4 DEF TypeOK
  <2>2. Clock' /\ Paid'
    <3>1. ASSUME NEW x \in Buckets
          PROVE  /\ bucket'[x].updated_at <= now
                 /\ Debt(bucket'[x], grants[x]) /\ Window(bucket'[x], grants[x])
      BY <1>1, <1>4, <2>0 DEF Clock, Paid
    <3>2. QED
      BY <1>3, <1>6, <3>1 DEF Clock, Paid, Debt, Window
  <2>3. Lineage'
    <3>1. \A e \in Domains : \A k \in 0 .. MaxOverrides : <<e, k>> \in made' => k <= serial'[e]
      BY <1>1, <1>2, <1>3 DEF Lineage, b
    <3>2. \A e \in Callers : pc'[e] # "idle" => at'[e] \in made'
      BY <1>1, <1>3, <1>6 DEF Lineage, TypeOK
    <3>3. QED
      BY <1>1, <1>3, <1>6, <3>1, <3>2 DEF Lineage
  <2>4. SleeperOwnsBucket'
    <3>1. \A e \in Callers : pc'[e] = "asleep" => pc[e] = "asleep" /\ at'[e] = at[e]
      BY <1>1, <1>3, <1>6 DEF TypeOK
    <3>2. \A e \in Callers : pc[e] = "asleep" => bucket'[at[e]] = bucket[at[e]]
      BY <1>1, <1>4, <2>0 DEF Lineage, TypeOK
    <3>3. QED
      BY <1>1, <1>6, <3>1, <3>2 DEF SleeperOwnsBucket
  <2>5. CurrentRate'
    <3>1. ASSUME NEW e \in Domains, <<e, serial[e]>> \in made'
          PROVE  bucket'[<<e, serial[e]>>].rps = overrides[e]
      <4>1. CASE <<e, serial[e]>> # b
        <5>1. <<e, serial[e]>> \in Buckets /\ <<e, serial[e]>> \in made
          BY <1>1, <1>3, <3>1, <4>1 DEF TypeOK, Buckets
        <5>2. QED
          BY <1>1, <2>0, <4>1, <5>1 DEF CurrentRate
      <4>2. CASE <<e, serial[e]>> = b
        <5>1. e = d
          BY <4>2 DEF b
        <5>2. QED
          BY <1>4, <2>0, <4>2, <5>1
      <4>3. QED
        BY <4>1, <4>2
    <3>2. QED
      BY <1>3, <3>1 DEF CurrentRate
  <2>6. QED
    BY <2>1, <2>2, <2>3, <2>4, <2>5 DEF IInv
<1>7. QED
  BY <1>3, <1>5, <1>6

\* A sleeper wakes to the bucket it left, pays and is granted its token.
LEMMA WakeKeeps ==
    ASSUME IInv, NEW c \in Callers, Wake(c)
    PROVE  IInv'
<1>. DEFINE b == at[c]
            R == Refill(bucket[b], now)
            S == Pay(R)
<1>1. /\ TypeOK /\ Clock /\ Lineage /\ SleeperOwnsBucket /\ CurrentRate /\ Paid
  BY DEF IInv
<1>2. /\ b \in Buckets /\ bucket[b] \in BucketType /\ grants[b] \in Seq(Nat) /\ now \in Nat
      /\ bucket[b].updated_at <= now /\ b \in made
  BY <1>1 DEF TypeOK, Clock, Lineage, Wake
<1>3. /\ pc[c] = "asleep" /\ CanWake(c)
      /\ bucket' = [bucket EXCEPT ![b] = S]
      /\ grants' = [grants EXCEPT ![b] = Append(grants[b], now)]
      /\ pc' = [pc EXCEPT ![c] = "served"]
      /\ now' = now /\ overrides' = overrides /\ serial' = serial /\ made' = made
      /\ queue' = queue /\ at' = at /\ nap' = nap
  BY DEF Wake
<1>4. /\ R \in BucketType /\ R.rps = bucket[b].rps /\ R.updated_at = now
      /\ \/ R.tokens = bucket[b].tokens + bucket[b].rps * (now - bucket[b].updated_at)
         \/ R.tokens = Full
  BY <1>2, RefillEarns
<1>5. Debt(R, grants[b]) /\ Window(R, grants[b])
  <2>1. Debt(bucket[b], grants[b]) /\ Window(bucket[b], grants[b])
    BY <1>1, <1>2 DEF Paid
  <2>2. QED
    BY <1>2, <1>4, <2>1, RefillDebt DEF Window
<1>6. bucket[b].rps > 0 => R.tokens + EarlyCredit >= Token
  <2>1. SUFFICES ASSUME bucket[b].rps > 0 PROVE R.tokens + EarlyCredit >= Token
    OBVIOUS
  <2>2. bucket[b].rps * (now - nap[c].since) + EarlyCredit >= nap[c].deficit
    BY <1>3, <2>1 DEF CanWake
  <2>3. bucket[b].updated_at = nap[c].since /\ bucket[b].tokens = Token - nap[c].deficit
    BY <1>1, <1>3 DEF SleeperOwnsBucket
  <2>4. nap[c] \in [since : Nat, deficit : 0 .. Token]
    BY <1>1 DEF TypeOK
  <2>5. nap[c].deficit \in Nat
    BY <2>4, ConstantTypes
  <2>6. bucket[b].rps * (now - bucket[b].updated_at) \in Int
    <3>1. bucket[b].rps \in Int /\ now - bucket[b].updated_at \in Int
      BY <1>2, BucketFields
    <3>2. QED
      BY <3>1, Product
  <2>. DEFINE e == bucket[b].rps * (now - bucket[b].updated_at)
  <2>7. e + EarlyCredit >= nap[c].deficit
    BY <2>2, <2>3
  <2>8. R.tokens = bucket[b].tokens + e \/ R.tokens = Full
    BY <1>4
  <2>. HIDE DEF e, R, b
  <2>9. QED
    BY <2>3, <2>5, <2>6, <2>7, <2>8, ConstantTypes DEF e
<1>. HIDE DEF R
<1>7. R.tokens \in Nat /\ R.tokens <= Full
  BY <1>4, BucketFields
<1>8. /\ S \in BucketType /\ S.rps = R.rps /\ S.updated_at = R.updated_at
      /\ S.tokens = IF R.tokens > Token THEN R.tokens - Token ELSE 0
  <2>. DEFINE k == IF R.tokens > Token THEN R.tokens - Token ELSE 0
  <2>1. k \in 0 .. Full
    BY <1>7, ConstantTypes
  <2>2. S = [R EXCEPT !.tokens = k]
    BY DEF Pay
  <2>. HIDE DEF k, S
  <2>3. S \in BucketType /\ S.rps = R.rps /\ S.updated_at = R.updated_at /\ S.tokens = k
    BY <1>4, <2>1, <2>2 DEF BucketType
  <2>4. QED
    BY <2>3 DEF k
<1>. HIDE DEF S
<1>9. S.rps > 0 => S.tokens + (Token - EarlyCredit) <= R.tokens
  BY <1>4, <1>6, <1>7, <1>8, ConstantTypes
<1>10. Debt(S, Append(grants[b], now)) /\ Window(S, Append(grants[b], now))
  <2>1. S.updated_at = now
    BY <1>4, <1>8
  <2>2. QED
    BY <1>2, <1>4, <1>5, <1>8, <1>9, <2>1, TakeDebt
<1>. HIDE DEF b
<1>11. /\ bucket' \in [Buckets -> BucketType] /\ bucket'[b] = S
       /\ \A x \in Buckets : x # b => bucket'[x] = bucket[x]
  BY <1>1, <1>2, <1>3, <1>8 DEF TypeOK
<1>12. /\ grants' \in [Buckets -> Seq(Nat)] /\ grants'[b] = Append(grants[b], now)
       /\ \A x \in Buckets : x # b => grants'[x] = grants[x]
  <2>1. Append(grants[b], now) \in Seq(Nat)
    BY <1>2
  <2>2. QED
    BY <1>1, <1>2, <1>3, <2>1 DEF TypeOK
<1>13. \A e \in Callers : pc'[e] = IF e = c THEN "served" ELSE pc[e]
  BY <1>1, <1>3 DEF TypeOK
<1>14. TypeOK'
  <2>1. pc' \in [Callers -> {"idle", "queued", "asleep", "served"}]
    BY <1>1, <1>3 DEF TypeOK
  <2>2. QED
    BY <1>1, <1>3, <1>11, <1>12, <2>1 DEF TypeOK
<1>15. Clock'
  <2>1. ASSUME NEW x \in Buckets PROVE bucket'[x].updated_at <= now
    BY <1>1, <1>2, <1>4, <1>8, <1>11 DEF Clock
  <2>2. QED
    BY <1>3, <2>1 DEF Clock
<1>16. Lineage'
  <2>1. \A x \in Buckets : x \notin made => grants'[x] = <<>>
    BY <1>1, <1>2, <1>12 DEF Lineage
  <2>2. \A e \in Callers : pc'[e] # "idle" => at[e] \in made
    BY <1>1, <1>3, <1>13 DEF Lineage
  <2>3. QED
    BY <1>1, <1>3, <2>1, <2>2 DEF Lineage
<1>17. SleeperOwnsBucket'
  <2>1. \A e \in Callers : pc'[e] = "asleep" => pc[e] = "asleep" /\ at[e] # b
    BY <1>1, <1>3, <1>13 DEF SleeperOwnsBucket, b
  <2>2. \A e \in Callers : pc'[e] = "asleep" => bucket'[at[e]] = bucket[at[e]]
    BY <1>1, <1>11, <2>1 DEF TypeOK
  <2>3. QED
    BY <1>1, <1>3, <2>1, <2>2 DEF SleeperOwnsBucket
<1>18. CurrentRate'
  <2>1. \A x \in Buckets : bucket'[x].rps = bucket[x].rps
    BY <1>4, <1>8, <1>11
  <2>2. \A d \in Domains : <<d, serial[d]>> \in Buckets
    BY <1>1 DEF TypeOK, Buckets
  <2>3. QED
    BY <1>1, <1>3, <2>1, <2>2 DEF CurrentRate
<1>19. Paid'
  <2>1. \A x \in Buckets : Debt(bucket'[x], grants'[x]) /\ Window(bucket'[x], grants'[x])
    BY <1>1, <1>10, <1>11, <1>12 DEF Paid
  <2>2. QED
    BY <2>1 DEF Paid, Debt, Window
<1>20. QED
  BY <1>14, <1>15, <1>16, <1>17, <1>18, <1>19 DEF IInv

\* An override puts a domain on a bucket that was never made, and touches no other.
LEMMA SetDomainRpsKeeps ==
    ASSUME IInv, NEW d \in Domains, NEW r \in Rates, SetDomainRps(d, r)
    PROVE  IInv'
<1>1. /\ TypeOK /\ Clock /\ Lineage /\ SleeperOwnsBucket /\ CurrentRate /\ Paid
  BY DEF IInv
<1>2. /\ serial[d] < MaxOverrides
      /\ overrides' = [overrides EXCEPT ![d] = r]
      /\ serial' = [serial EXCEPT ![d] = @ + 1]
      /\ UNCHANGED <<now, made, bucket, queue, pc, at, nap, grants>>
  BY DEF SetDomainRps
<1>3. r \in Nat /\ \A e \in Domains : serial[e] \in Nat /\ serial[e] <= MaxOverrides
  <2>1. r \in Nat
    BY LimiterAssumption
  <2>2. \A e \in Domains : serial[e] \in 0 .. MaxOverrides
    BY <1>1 DEF TypeOK
  <2>3. QED
    BY <2>1, <2>2, ConstantTypes
<1>4. /\ serial' \in [Domains -> 0 .. MaxOverrides]
      /\ \A e \in Domains : serial'[e] = IF e = d THEN serial[d] + 1 ELSE serial[e]
  <2>1. serial[d] + 1 \in 0 .. MaxOverrides
    BY <1>2, <1>3, ConstantTypes
  <2>2. QED
    BY <1>1, <1>2, <2>1 DEF TypeOK
<1>5. /\ overrides' \in [Domains -> Nat]
      /\ \A e \in Domains : overrides'[e] = IF e = d THEN r ELSE overrides[e]
  BY <1>1, <1>2, <1>3 DEF TypeOK
<1>6. TypeOK'
  BY <1>1, <1>2, <1>4, <1>5 DEF TypeOK
<1>7. Clock' /\ SleeperOwnsBucket' /\ Paid'
  BY <1>1, <1>2 DEF Clock, SleeperOwnsBucket, Paid, Debt, Window
<1>8. Lineage'
  <2>1. \A e \in Domains : \A k \in 0 .. MaxOverrides : <<e, k>> \in made => k <= serial'[e]
    <3>1. SUFFICES ASSUME NEW e \in Domains, NEW k \in 0 .. MaxOverrides, <<e, k>> \in made
                   PROVE  k <= serial'[e]
      OBVIOUS
    <3>2. k <= serial[e] /\ k \in Nat
      BY <1>1, <3>1, ConstantTypes DEF Lineage
    <3>3. QED
      BY <1>3, <1>4, <3>2
  <2>2. QED
    BY <1>1, <1>2, <2>1 DEF Lineage
<1>9. CurrentRate'
  <2>1. SUFFICES ASSUME NEW e \in Domains, <<e, serial'[e]>> \in made
                 PROVE  bucket[<<e, serial'[e]>>].rps = overrides'[e]
    BY <1>2 DEF CurrentRate
  <2>2. e # d
    <3>1. SUFFICES ASSUME e = d PROVE FALSE
      OBVIOUS
    <3>2. serial'[e] = serial[d] + 1 /\ serial'[e] \in 0 .. MaxOverrides
      BY <1>4, <3>1
    <3>3. serial'[e] <= serial[d]
      BY <1>1, <2>1, <3>1, <3>2 DEF Lineage
    <3>4. QED
      BY <1>3, <3>2, <3>3
  <2>3. QED
    BY <1>1, <1>4, <1>5, <2>1, <2>2 DEF CurrentRate
<1>10. QED
  BY <1>6, <1>7, <1>8, <1>9 DEF IInv

\* Time moves no bucket.
LEMMA TickKeeps ==
    ASSUME IInv, Tick
    PROVE  IInv'
<1>1. /\ TypeOK /\ Clock /\ Lineage /\ SleeperOwnsBucket /\ CurrentRate /\ Paid
  BY DEF IInv
<1>2. /\ now' = now + 1 /\ now \in Nat
      /\ UNCHANGED <<overrides, serial, made, bucket, queue, pc, at, nap, grants>>
  BY <1>1 DEF Tick, TypeOK
<1>3. TypeOK'
  BY <1>1, <1>2 DEF TypeOK
<1>4. Clock'
  <2>1. ASSUME NEW b \in Buckets PROVE bucket[b].updated_at <= now + 1
    <3>1. bucket[b] \in BucketType /\ bucket[b].updated_at <= now
      BY <1>1 DEF TypeOK, Clock
    <3>2. bucket[b].updated_at \in Nat
      BY <3>1, BucketFields
    <3>3. QED
      BY <1>2, <3>1, <3>2
  <2>2. QED
    BY <1>2, <2>1 DEF Clock
<1>5. Lineage' /\ SleeperOwnsBucket' /\ CurrentRate' /\ Paid'
  BY <1>1, <1>2 DEF Lineage, SleeperOwnsBucket, CurrentRate, Paid, Debt, Window
<1>6. QED
  BY <1>3, <1>4, <1>5 DEF IInv

\* Every reachable state satisfies the inductive invariant.
THEOREM Invariance == Spec => []IInv
<1>1. Init => IInv
  BY InitInv
<1>2. IInv /\ [Next]_vars => IInv'
  <2>. SUFFICES ASSUME IInv, [Next]_vars PROVE IInv'
    OBVIOUS
  <2>1. ASSUME NEW c \in Callers, Resume(c) PROVE IInv'
    BY <2>1, ResumeKeeps
  <2>2. ASSUME NEW c \in Callers, Wake(c) PROVE IInv'
    BY <2>2, WakeKeeps
  <2>3. ASSUME NEW c \in Callers, NEW d \in Domains, Acquire(c, d) PROVE IInv'
    BY <2>3, AcquireKeeps
  <2>4. ASSUME NEW d \in Domains, NEW r \in Rates, SetDomainRps(d, r) PROVE IInv'
    BY <2>4, SetDomainRpsKeeps
  <2>5. CASE Tick
    BY <2>5, TickKeeps
  <2>6. CASE UNCHANGED vars
    BY <2>6 DEF vars, IInv, TypeOK, Clock, Lineage, SleeperOwnsBucket, CurrentRate, Paid,
                Debt, Window
  <2>7. QED
    BY <2>1, <2>2, <2>3, <2>4, <2>5, <2>6 DEF Next
<1>3. QED
  BY <1>1, <1>2, PTL DEF Spec

\* Types: in particular no bucket ever holds more than its burst, nor a negative
\* number of tokens.
THEOREM TypeCorrect == Spec => []TypeOK
<1>1. IInv => TypeOK
  BY DEF IInv
<1>2. QED
  BY <1>1, Invariance, PTL

\* The politeness bound: whatever the interleaving of callers, overrides and early
\* timers, the grants of a bucket in any window cost no more than the burst plus
\* what its rate earned in that window.
THEOREM RateConforms == Spec => []Conformance
<1>1. IInv => Conformance
  BY DEF IInv, Paid, Window, Conformance
<1>2. QED
  BY <1>1, Invariance, PTL

\* A sleeper is alone with its bucket, so the deficit it waits for stays exact.
THEOREM SleeperAlone == Spec => []SleeperOwnsBucket
<1>1. IInv => SleeperOwnsBucket
  BY DEF IInv
<1>2. QED
  BY <1>1, Invariance, PTL

\* An override is in force for every caller that arrives after it.
THEOREM OverrideInForce == Spec => []CurrentRate
<1>1. IInv => CurrentRate
  BY DEF IInv
<1>2. QED
  BY <1>1, Invariance, PTL
=============================================================================
