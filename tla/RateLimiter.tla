------------------------------ MODULE RateLimiter ------------------------------
(***************************************************************************)
(* The token buckets of src/src/c_rest_rate_limit.c, one per client in a   *)
(* hash map under one mutex.  A check reads the clock before it takes the  *)
(* mutex, so that threads may enter with older times than their            *)
(* predecessor's.  Numbers are size_t: arithmetic is modulo Modulus.       *)
(***************************************************************************)
EXTENDS Integers

CONSTANTS Callers,   \* threads
          Clients,   \* identifiers
          Capacity, FillRate,
          Needs,     \* how many tokens a request may ask for
          MaxTime,   \* bound: the last second
          Modulus,   \* the numbers of size_t
          NoBucket

ASSUME LimitAssumption == Capacity \in Nat /\ FillRate \in Nat /\ MaxTime \in Nat /\ Needs \subseteq Nat
ASSUME NoBucketAssumption == NoBucket \notin [tokens : Nat, lastRefill : Nat]

(* No time, and no product of the code, overflows in the time that is looked at. *)
ASSUME WidthAssumption == Modulus \in Nat /\ MaxTime < Modulus /\ Capacity + FillRate * MaxTime < Modulus

VARIABLES
  clock,        (* time(NULL)                                                    *)
  initialized,  (* limiter->initialized                                          *)
  buckets,      (* limiter->buckets                                              *)
  check,        (* per thread: the call it is in, with the time it read          *)
  born,         (* history, per client: when its bucket was made                 *)
  granted,      (* history, per client: the tokens granted since                 *)
  stale         (* history: a time was older than the last refill of its bucket  *)

limiterVars == <<clock, initialized, buckets, check, born, granted, stale>>

Idle == [at |-> "idle"]
Locking(c, n, t) == [at |-> "lock", client |-> c, need |-> n, now |-> t]
Bucket(n, t) == [tokens |-> n, lastRefill |-> t]

AllIdle == \A t \in Callers : check[t].at = "idle"
NoBuckets == [c \in Clients |-> NoBucket]

LimiterInit ==
  /\ clock = 0 /\ initialized = FALSE
  /\ buckets = NoBuckets
  /\ check = [t \in Callers |-> Idle]
  /\ born = [c \in Clients |-> 0] /\ granted = [c \in Clients |-> 0]
  /\ stale = FALSE

Tick ==
  /\ clock < MaxTime
  /\ clock' = clock + 1
  /\ UNCHANGED <<initialized, buckets, check, born, granted, stale>>

(* c_rest_rate_limiter_init; when the mutex fails nothing is kept. *)
InitLimiter ==
  /\ AllIdle /\ ~initialized
  /\ initialized' = TRUE
  /\ buckets' = NoBuckets
  /\ UNCHANGED <<clock, check, born, granted, stale>>

(* c_rest_rate_limiter_destroy, which nobody may run into. *)
DestroyLimiter ==
  /\ AllIdle /\ initialized
  /\ initialized' = FALSE
  /\ buckets' = NoBuckets
  /\ UNCHANGED <<clock, check, born, granted, stale>>

(* c_rest_rate_limiter_check up to the mutex. *)
ReadClock(t) ==
  /\ initialized /\ check[t].at = "idle"
  /\ \E c \in Clients, n \in Needs : check' = [check EXCEPT ![t] = Locking(c, n, clock)]
  /\ UNCHANGED <<clock, initialized, buckets, born, granted, stale>>

(* difftime as a size_t.  A negative one is out of its range, which leaves   *)
(* the result to the build: it wraps around (x86), or is 0 (ARM).            *)
ElapsedOf(d) == IF d >= 0 THEN {d} ELSE {Modulus + d, 0}

(* Mutant: the time of the refill is not kept. *)
RefilledUndated(b, now, elapsed) ==
  LET sum == (b.tokens + elapsed * FillRate) % Modulus
  IN  Bucket(IF sum > Capacity THEN Capacity ELSE sum, b.lastRefill)

(* The refill of a bucket that is there. *)
Refilled(b, now, elapsed) ==
  LET add == (elapsed * FillRate) % Modulus
      sum == (b.tokens + add) % Modulus
  IN  IF add = 0 THEN b ELSE Bucket(IF sum > Capacity THEN Capacity ELSE sum, now)

(* The end of a check, under the mutex: b is the client's bucket. *)
Spend(c, need, b) ==
  IF b.tokens >= need
  THEN /\ buckets' = [buckets EXCEPT ![c] = Bucket(b.tokens - need, b.lastRefill)]
       /\ granted' = [granted EXCEPT ![c] = (IF buckets[c] = NoBucket THEN 0 ELSE @) + need]
  ELSE /\ buckets' = [buckets EXCEPT ![c] = b]
       /\ granted' = [granted EXCEPT ![c] = IF buckets[c] = NoBucket THEN 0 ELSE @]

CheckKnown(t) ==
  /\ check[t].at = "lock" /\ buckets[check[t].client] # NoBucket
  /\ LET b == buckets[check[t].client]
         d == check[t].now - b.lastRefill
     IN  /\ \E e \in ElapsedOf(d) : Spend(check[t].client, check[t].need, Refilled(b, check[t].now, e))
         /\ stale' = (stale \/ d < 0)
  /\ check' = [check EXCEPT ![t] = Idle]
  /\ UNCHANGED <<clock, initialized, born>>

CheckNew(t) ==
  /\ check[t].at = "lock" /\ buckets[check[t].client] = NoBucket
  /\ Spend(check[t].client, check[t].need, Bucket(Capacity, check[t].now))
  /\ born' = [born EXCEPT ![check[t].client] = check[t].now]
  /\ check' = [check EXCEPT ![t] = Idle]
  /\ UNCHANGED <<clock, initialized, stale>>

(* No memory for a new bucket, or for its place in the map. *)
CheckNoMemory(t) ==
  /\ check[t].at = "lock" /\ buckets[check[t].client] = NoBucket
  /\ check' = [check EXCEPT ![t] = Idle]
  /\ UNCHANGED <<clock, initialized, buckets, born, granted, stale>>

LimiterNext ==
  \/ Tick \/ InitLimiter \/ DestroyLimiter
  \/ \E t \in Callers : ReadClock(t) \/ CheckKnown(t) \/ CheckNew(t) \/ CheckNoMemory(t)

LimiterSpec == LimiterInit /\ [][LimiterNext]_limiterVars

-----------------------------------------------------------------------------
LimiterTypeOK ==
  /\ clock \in 0 .. MaxTime /\ initialized \in BOOLEAN /\ stale \in BOOLEAN
  /\ buckets \in [Clients -> [tokens : 0 .. Capacity, lastRefill : 0 .. MaxTime] \cup {NoBucket}]
  /\ check \in [Callers -> {Idle} \cup [at : {"lock"}, client : Clients, need : Needs, now : 0 .. MaxTime]]
  /\ born \in [Clients -> 0 .. MaxTime] /\ granted \in [Clients -> Nat]

(* c_rest_rate_limit.h:57-58 says "Maximum number of tokens per entity" of   *)
(* the capacity and "Tokens replenished per second" of the fill rate: since  *)
(* its bucket was made no client has been granted more than the capacity and *)
(* what was replenished in the seconds since.                                *)
LimitHolds ==
  \A c \in Clients : buckets[c] # NoBucket => granted[c] <= Capacity + FillRate * (clock - born[c])

(* The same as long as every thread that reaches the mutex has a time that   *)
(* is not older than the last refill, however the threads interleave.        *)
LimitHoldsInOrder == ~stale => LimitHolds
=============================================================================
