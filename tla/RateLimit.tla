----------------------------- MODULE RateLimit -----------------------------
(***************************************************************************)
(* Per-cell rate limits (rate_limit.c): token buckets for CPU and for each *)
(* direction of the network, and a memory cap.  The product and the sum of *)
(* a refill are taken modulo the width of the integer, as in the           *)
(* code.  `admitted` and `created` are history: what a bucket let through  *)
(* since it was created, and when that was.  The counters of refusals are  *)
(* left out.                                                               *)
(***************************************************************************)
EXTENDS Timer, FiniteSets

CONSTANTS
    Cells,
    Limits,             \* limits callers ask for: records cap, rate, memory
    Amounts,            \* amounts consumed, committed and released
    Second,             \* units of `now` in a second
    Word                \* one more than the largest integer

ASSUME RateAssumption ==
    /\ Limits \subseteq [cap : Nat, rate : Nat, memory : Nat] /\ Amounts \subseteq Nat
    /\ Second \in Nat \ {0} /\ Word \in Nat \ {0}

VARIABLES
    limit,      \* cell -> active, cap, rate, memory cap and memory used
    bucket,     \* <<cell, bucket>> -> tokens, last refill
    grant       \* <<cell, bucket>> -> admitted and created

Buckets == {"cpu", "rx", "tx"}

rateVars == <<limit, bucket, grant>>

NoLimits == [active |-> FALSE, cap |-> 0, rate |-> 0, memory |-> 0, used |-> 0]

rate_limit_init ==
    /\ limit = [c \in Cells |-> NoLimits]
    /\ bucket = [b \in Cells \X Buckets |-> [tokens |-> 0, last |-> 0]]
    /\ grant = [b \in Cells \X Buckets |-> [admitted |-> 0, created |-> 0]]

\* Creating the limits of a cell that has some replaces them.
rate_limit_create ==
    \E c \in Cells, l \in Limits :
        /\ limit' = [limit EXCEPT ![c] = [active |-> TRUE, cap |-> l.cap, rate |-> l.rate,
                                          memory |-> l.memory, used |-> 0]]
        /\ bucket' = [b \in DOMAIN bucket |->
                         IF b[1] = c THEN [tokens |-> l.cap, last |-> now] ELSE bucket[b]]
        /\ grant' = [b \in DOMAIN grant |->
                        IF b[1] = c THEN [admitted |-> 0, created |-> now] ELSE grant[b]]

rate_limit_destroy ==
    \E c \in Cells :
        /\ limit[c].active
        /\ limit' = [limit EXCEPT ![c].active = FALSE, ![c].used = 0]
        /\ UNCHANGED <<bucket, grant>>

\* Mutant: the time already paid for is paid for again.
bucket_refill_Again(b, l) ==
    LET new == (((now - b.last) * l.rate) % Word) \div Second
        sum == (b.tokens + new) % Word
    IN  IF now <= b.last \/ new = 0 THEN b
        ELSE [b EXCEPT !.tokens = IF sum > l.cap THEN l.cap ELSE sum]

\* Time that earned no whole token stays on the clock.
bucket_refill(b, l) ==
    LET new == (((now - b.last) * l.rate) % Word) \div Second
        sum == (b.tokens + new) % Word
    IN  IF now <= b.last \/ new = 0 THEN b
        ELSE [tokens |-> IF sum > l.cap THEN l.cap ELSE sum, last |-> now]

\* A refusal keeps the refill.
bucket_consume(b, n) ==
    LET full == bucket_refill(bucket[b], limit[b[1]])
        ok == full.tokens >= n
    IN  /\ bucket' = [bucket EXCEPT ![b] = [full EXCEPT !.tokens = IF ok THEN @ - n ELSE @]]
        /\ grant' = [grant EXCEPT ![b].admitted = IF ok THEN @ + n ELSE @]
        /\ UNCHANGED limit

rate_limit_cpu_consume ==
    \E c \in Cells, n \in Amounts : limit[c].active /\ bucket_consume(<<c, "cpu">>, n)

rate_limit_check_network ==
    \E c \in Cells, way \in {"rx", "tx"}, n \in Amounts :
        limit[c].active /\ bucket_consume(<<c, way>>, n)

rate_limit_memory_commit ==
    \E c \in Cells, n \in Amounts :
        /\ limit[c].active
        /\ (limit[c].used + n) % Word <= limit[c].memory
        /\ limit' = [limit EXCEPT ![c].used = (@ + n) % Word]
        /\ UNCHANGED <<bucket, grant>>

rate_limit_memory_release ==
    \E c \in Cells, n \in Amounts :
        /\ limit[c].active
        /\ limit' = [limit EXCEPT ![c].used = IF n > @ THEN 0 ELSE @ - n]
        /\ UNCHANGED <<bucket, grant>>

RateStep ==
    \/ rate_limit_create \/ rate_limit_destroy
    \/ rate_limit_cpu_consume \/ rate_limit_check_network
    \/ rate_limit_memory_commit \/ rate_limit_memory_release

(***************************************************************************)
(* However calls, pauses and refusals follow each other, a bucket has let  *)
(* through no more than it holds plus what its rate earned since it was    *)
(* created, and a cell has no more memory charged than its cap             *)
(* (bucket_refill, bucket_consume, rate_limit_check_memory).               *)
(***************************************************************************)
AdmittedWithinRate ==
    /\ \A b \in DOMAIN bucket : LET l == limit[b[1]] IN l.active =>
          grant[b].admitted * Second <= l.cap * Second + l.rate * (now - grant[b].created)
    /\ \A c \in Cells : limit[c].used <= limit[c].memory

=============================================================================
