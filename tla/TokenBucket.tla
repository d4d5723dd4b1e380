----------------------------- MODULE TokenBucket -----------------------------
(***************************************************************************)
(* The rate limit of a connection (session/token-bucket.ts) over a wall    *)
(* clock that may stand still or go back. Tokens are counted in parts: one *)
(* part is what a tick of the clock refills, Token parts are one token.    *)
(***************************************************************************)
EXTENDS Integers

CONSTANTS Capacity, Token     \* tokens a bucket holds, ticks that refill one

ASSUME BucketAssumption == Capacity \in Nat \ {0} /\ Token \in Nat \ {0}

AtMost(a, b) == IF a < b THEN a ELSE b
AtLeast(a, b) == IF a > b THEN a ELSE b

FullBucket(now) == [parts |-> Capacity * Token, lastRefill |-> now]

Refilled(bucket, now) ==
  [parts |-> AtMost(Capacity * Token, bucket.parts + AtLeast(now - bucket.lastRefill, 0)),
   lastRefill |-> now]

Grants(bucket, now) == Refilled(bucket, now).parts >= Token

\* Mutant: the time of the refill is kept only with a grant.
Take_ClockOnGrant(bucket, now) ==
  LET full == Refilled(bucket, now)
  IN IF Grants(bucket, now) THEN [full EXCEPT !.parts = @ - Token]
     ELSE [full EXCEPT !.lastRefill = bucket.lastRefill]

\* What take leaves behind, whether it grants or refuses.
Take(bucket, now) ==
  LET full == Refilled(bucket, now)
  IN IF Grants(bucket, now) THEN [full EXCEPT !.parts = @ - Token] ELSE full
=============================================================================
