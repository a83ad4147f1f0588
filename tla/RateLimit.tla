------------------------------ MODULE RateLimit ------------------------------
(***************************************************************************)
(* createRateLimitMiddleware (src/src/security/rate-limit.middleware.ts)   *)
(* over increment of src/src/cache/redis-cache.service.ts: INCR, then      *)
(* EXPIRE by the call that made the key, and a bucket in the memory of the *)
(* process when a command fails.                                           *)
(*                                                                         *)
(* A key stands for a profile and an identity (IP and User-Agent); what    *)
(* profileFor leaves out of the limit, the headers and the length of the   *)
(* window are left out.                                                    *)
(***************************************************************************)
EXTENDS Naturals, FiniteSets

CONSTANTS
  Servers,        \* processes of the API
  LimitedKeys, NoLimitedKey,
  Calls,          \* slots of requests
  Limit,          \* profile.max
  MaxCalls, MaxLimitFaults

ASSUME LimitAssumption ==
  /\ Limit \in Nat \ {0}
  /\ MaxCalls \in Nat /\ MaxLimitFaults \in Nat
  /\ NoLimitedKey \notin LimitedKeys

VARIABLES
  counter, expires,   \* the keys in Redis: value (0: no key), has it a TTL
  bucket,             \* memoryBuckets of each process
  call,
  calls, limitFaults,
  \* --- history
  admitted, admittedBy  \* requests let through since the key, the bucket was made

limitCounts == <<calls, limitFaults>>
limitVars == <<counter, expires, bucket, call, limitCounts, admitted, admittedBy>>

-----------------------------------------------------------------------------
EmptyBucket == [count |-> 0, running |-> FALSE]
NoLimitedCall == [pc |-> "idle", key |-> NoLimitedKey, server |-> NoLimitedKey]

LimitInit ==
  /\ counter = [k \in LimitedKeys |-> 0]
  /\ expires = [k \in LimitedKeys |-> FALSE]
  /\ bucket = [s \in Servers |-> [k \in LimitedKeys |-> EmptyBucket]]
  /\ call = [c \in Calls |-> NoLimitedCall]
  /\ calls = 0 /\ limitFaults = 0
  /\ admitted = [k \in LimitedKeys |-> 0]
  /\ admittedBy = [s \in Servers |-> [k \in LimitedKeys |-> 0]]

LimitFault == limitFaults < MaxLimitFaults /\ limitFaults' = limitFaults + 1

BeginCall(c, s, k) ==
  /\ call[c].pc = "idle"
  /\ calls < MaxCalls
  /\ calls' = calls + 1
  /\ call' = [call EXCEPT ![c] = [pc |-> "incr", key |-> k, server |-> s]]
  /\ UNCHANGED <<counter, expires, bucket, limitFaults, admitted, admittedBy>>

\* Mutant: one more is let through.
AdmitsOneMore(count) == IF count > Limit + 1 THEN 0 ELSE 1

\* next() or 429.
Admits(count) == IF count > Limit THEN 0 ELSE 1

\* incrementMemory, and the decision.
FallBack(c) ==
  LET k == call[c].key
      s == call[c].server
      count == IF bucket[s][k].running THEN bucket[s][k].count + 1 ELSE 1
  IN /\ bucket' = [bucket EXCEPT ![s][k] = [count |-> count, running |-> TRUE]]
     /\ admittedBy' = [admittedBy EXCEPT ![s][k] =
                         Admits(count) + IF bucket[s][k].running THEN @ ELSE 0]
     /\ call' = [call EXCEPT ![c] = NoLimitedCall]

Incremented(k) == counter[k] + 1

\* Mutant: only a call that finds the limit reached sets the TTL.
SetsTtlLate(value) == value = Limit + 1

SetsTtl(value) == value = 1

Incr(c) ==
  LET k == call[c].key
      value == Incremented(k)
  IN /\ call[c].pc = "incr"
     /\ counter' = [counter EXCEPT ![k] = value]
     /\ IF SetsTtl(value)
          THEN /\ call' = [call EXCEPT ![c].pc = "expire"]
               /\ UNCHANGED admitted
          ELSE /\ call' = [call EXCEPT ![c] = NoLimitedCall]
               /\ admitted' = [admitted EXCEPT ![k] = @ + Admits(value)]
     /\ UNCHANGED <<expires, bucket, limitCounts, admittedBy>>

\* INCR is refused, or executed and not answered in time.
IncrFails(c) ==
  LET k == call[c].key IN
  /\ call[c].pc = "incr"
  /\ LimitFault
  /\ counter' \in {counter, [counter EXCEPT ![k] = Incremented(k)]}
  /\ FallBack(c)
  /\ UNCHANGED <<expires, calls, admitted>>

SetExpire(c) ==
  LET k == call[c].key IN
  /\ call[c].pc = "expire"
  /\ expires' = [expires EXCEPT ![k] = counter[k] > 0]
  /\ admitted' = [admitted EXCEPT ![k] = @ + Admits(1)]
  /\ call' = [call EXCEPT ![c] = NoLimitedCall]
  /\ UNCHANGED <<counter, bucket, limitCounts, admittedBy>>

\* EXPIRE is refused, or executed and not answered in time.
ExpireFails(c) ==
  LET k == call[c].key IN
  /\ call[c].pc = "expire"
  /\ LimitFault
  /\ expires' \in {expires, [expires EXCEPT ![k] = counter[k] > 0]}
  /\ FallBack(c)
  /\ UNCHANGED <<counter, calls, admitted>>

\* A process dies, with its buckets and its requests.
ServerDies(s) ==
  /\ LimitFault
  /\ bucket' = [bucket EXCEPT ![s] = [k \in LimitedKeys |-> EmptyBucket]]
  /\ admittedBy' = [admittedBy EXCEPT ![s] = [k \in LimitedKeys |-> 0]]
  /\ call' = [c \in Calls |-> IF call[c].server = s THEN NoLimitedCall ELSE call[c]]
  /\ UNCHANGED <<counter, expires, calls, admitted>>

\* windowSeconds have passed, in Redis and in the memory of a process.
WindowEnds(k) ==
  /\ expires[k]
  /\ counter' = [counter EXCEPT ![k] = 0]
  /\ expires' = [expires EXCEPT ![k] = FALSE]
  /\ admitted' = [admitted EXCEPT ![k] = 0]
  /\ UNCHANGED <<bucket, call, limitCounts, admittedBy>>

BucketEnds(s, k) ==
  /\ bucket[s][k].running
  /\ bucket' = [bucket EXCEPT ![s][k] = [count |-> @.count, running |-> FALSE]]
  /\ UNCHANGED <<counter, expires, call, limitCounts, admitted, admittedBy>>

LimitNext ==
  \/ \E c \in Calls :
       \/ \E s \in Servers, k \in LimitedKeys : BeginCall(c, s, k)
       \/ Incr(c) \/ IncrFails(c) \/ SetExpire(c) \/ ExpireFails(c)
  \/ \E s \in Servers : ServerDies(s) \/ \E k \in LimitedKeys : BucketEnds(s, k)
  \/ \E k \in LimitedKeys : WindowEnds(k)

-----------------------------------------------------------------------------
(* Properties.                                                             *)

\* However the calls of several processes interleave, one window of a key in Redis
\* lets no more than the limit through, and neither does a bucket in memory: an
\* INCR gives each call a number of its own (increment, incrementMemory).
WindowHoldsLimit ==
  /\ \A k \in LimitedKeys : admitted[k] <= Limit
  /\ \A s \in Servers, k \in LimitedKeys : admittedBy[s][k] <= Limit

\* A counter that nobody is about to give a TTL has one: only a failure between
\* INCR and EXPIRE, of Redis or of the process, leaves a key that blocks its reader
\* for ever, against the answer "Retry after the current window"
\* (rate-limit.middleware.ts:82).
WindowsEndUnlessFault ==
  \A k \in LimitedKeys :
    counter[k] > 0 /\ ~ expires[k] /\ limitFaults = 0
      => \E c \in Calls : call[c].pc = "expire" /\ call[c].key = k
=============================================================================
