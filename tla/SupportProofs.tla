---------------------------- MODULE SupportProofs ----------------------------
(***************************************************************************)
(* Proofs about two parts of Support: RateLimit, for any processes, keys,  *)
(* requests, limit and bounds, and ArticleParts, for any tags, media,      *)
(* lists of tags, requests in flight and bounds.                           *)
(***************************************************************************)
EXTENDS Support, FiniteSetTheorems, TLAPS

-----------------------------------------------------------------------------
(* Rate limits: the inductive invariant.                                   *)

LimitedCall ==
  [pc : {"idle", "incr", "expire"}, key : LimitedKeys \cup {NoLimitedKey},
   server : Servers \cup {NoLimitedKey}]

LimitTypes ==
  /\ counter \in [LimitedKeys -> Nat]
  /\ expires \in [LimitedKeys -> BOOLEAN]
  /\ bucket \in [Servers -> [LimitedKeys -> [count : Nat, running : BOOLEAN]]]
  /\ call \in [Calls -> LimitedCall]
  /\ limitFaults \in Nat
  /\ admitted \in [LimitedKeys -> Nat]
  /\ admittedBy \in [Servers -> [LimitedKeys -> Nat]]
  /\ \A c \in Calls : call[c].pc # "idle" =>
       call[c].key \in LimitedKeys /\ call[c].server \in Servers

\* c has made the key k and has not yet set its TTL.
MadeKey(c, k) == call[c].pc = "expire" /\ call[c].key = k

\* One call at most has made a key, which lives until that call sets its TTL: there is
\* room for it among those the window admits, since each of them has a number of its
\* own.
WindowOK ==
  /\ \A k \in LimitedKeys : expires[k] => counter[k] > 0
  /\ \A k \in LimitedKeys : admitted[k] <= Limit /\ admitted[k] <= counter[k]
  /\ \A c \in Calls, k \in LimitedKeys : MadeKey(c, k) =>
       /\ ~ expires[k] /\ counter[k] > 0
       /\ admitted[k] < Limit /\ admitted[k] < counter[k]
  /\ \A c, d \in Calls, k \in LimitedKeys : MadeKey(c, k) /\ MadeKey(d, k) => c = d

BucketsOK ==
  \A s \in Servers, k \in LimitedKeys :
    admittedBy[s][k] <= Limit /\ admittedBy[s][k] <= bucket[s][k].count

LimitInv == LimitTypes /\ WindowOK /\ BucketsOK /\ WindowsEndUnlessFault

LEMMA LimitInitInv == LimitInit => LimitInv
BY LimitAssumption DEF LimitInit, LimitInv, LimitTypes, WindowOK, BucketsOK,
     WindowsEndUnlessFault, LimitedCall, NoLimitedCall, EmptyBucket, MadeKey

-----------------------------------------------------------------------------
(* Rate limits: a call that leaves Redis for the memory of its process.    *)

\* The slot c is free again.
LEMMA EndCall ==
  ASSUME LimitTypes, NEW c \in Calls, call' = [call EXCEPT ![c] = NoLimitedCall]
  PROVE  /\ call' \in [Calls -> LimitedCall]
         /\ \A d \in Calls : call'[d].pc # "idle" => d # c /\ call'[d] = call[d]
         /\ \A d \in Calls \ {c} : call'[d] = call[d]
         /\ \A k : ~ MadeKey(c, k)'
<1>1. NoLimitedCall \in LimitedCall /\ NoLimitedCall.pc = "idle"
  BY DEF NoLimitedCall, LimitedCall
<1>2. QED
  BY <1>1 DEF LimitTypes, MadeKey

\* incrementMemory numbers the calls of a bucket, and lets the first Limit through.
LEMMA FallBackInv ==
  ASSUME LimitTypes, BucketsOK, NEW c \in Calls, call[c].pc # "idle", FallBack(c)
  PROVE  /\ bucket' \in [Servers -> [LimitedKeys -> [count : Nat, running : BOOLEAN]]]
         /\ admittedBy' \in [Servers -> [LimitedKeys -> Nat]]
         /\ BucketsOK'
<1> DEFINE k == call[c].key
           s == call[c].server
           b == bucket[s][k]
           count == IF b.running THEN b.count + 1 ELSE 1
           number == Admits(count) + IF b.running THEN admittedBy[s][k] ELSE 0
<1>1. k \in LimitedKeys /\ s \in Servers
  BY DEF LimitTypes
<1>2. b \in [count : Nat, running : BOOLEAN] /\ admittedBy[s][k] \in Nat
  BY <1>1 DEF LimitTypes
<1>3. /\ bucket' = [bucket EXCEPT ![s][k] = [count |-> count, running |-> TRUE]]
      /\ admittedBy' = [admittedBy EXCEPT ![s][k] = number]
  BY DEF FallBack
<1>4. b.count \in Nat /\ admittedBy[s][k] <= Limit /\ admittedBy[s][k] <= b.count
  BY <1>1, <1>2 DEF BucketsOK
<1>5. count \in Nat /\ number \in Nat /\ number <= Limit /\ number <= count
  BY <1>2, <1>4, LimitAssumption DEF Admits
<1> HIDE DEF k, s, b, count, number
<1>6. [count |-> count, running |-> TRUE] \in [count : Nat, running : BOOLEAN]
  BY <1>5
<1>7. bucket' \in [Servers -> [LimitedKeys -> [count : Nat, running : BOOLEAN]]]
  BY <1>1, <1>3, <1>6 DEF LimitTypes
<1>8. admittedBy' \in [Servers -> [LimitedKeys -> Nat]]
  BY <1>1, <1>3, <1>5 DEF LimitTypes
<1>9. ASSUME NEW t \in Servers, NEW l \in LimitedKeys
      PROVE  admittedBy'[t][l] <= Limit /\ admittedBy'[t][l] <= bucket'[t][l].count
  <2>1. CASE t = s /\ l = k
    BY <2>1, <1>1, <1>3, <1>5 DEF LimitTypes
  <2>2. CASE ~ (t = s /\ l = k)
    <3>1. bucket'[t][l] = bucket[t][l] /\ admittedBy'[t][l] = admittedBy[t][l]
      BY <2>2, <1>1, <1>3 DEF LimitTypes
    <3>2. QED
      BY <3>1 DEF BucketsOK
  <2>3. QED
    BY <2>1, <2>2
<1>10. QED
  BY <1>7, <1>8, <1>9 DEF BucketsOK

-----------------------------------------------------------------------------
(* Rate limits: the steps.                                                 *)

LEMMA BeginCallInv ==
  ASSUME LimitInv, NEW c \in Calls, NEW s \in Servers, NEW k \in LimitedKeys,
         BeginCall(c, s, k)
  PROVE  LimitInv'
<1> DEFINE q == [pc |-> "incr", key |-> k, server |-> s]
<1>1. q \in LimitedCall /\ call' = [call EXCEPT ![c] = q]
  BY DEF LimitedCall, BeginCall
<1>2. /\ call'[c].pc = "incr" /\ call'[c].key = k /\ call'[c].server = s
      /\ \A d \in Calls \ {c} : call'[d] = call[d]
      /\ call[c].pc = "idle"
  BY <1>1 DEF LimitInv, LimitTypes, BeginCall
<1>3. /\ UNCHANGED <<counter, expires, bucket, limitFaults, admitted, admittedBy>>
      /\ call' \in [Calls -> LimitedCall]
  BY <1>1 DEF LimitInv, LimitTypes, BeginCall
<1>4. LimitTypes'
  BY <1>2, <1>3 DEF LimitInv, LimitTypes
<1>5. \A d \in Calls, l \in LimitedKeys : MadeKey(d, l)' <=> MadeKey(d, l)
  BY <1>2 DEF MadeKey
<1>6. WindowOK' /\ BucketsOK'
  BY <1>3, <1>5 DEF LimitInv, WindowOK, BucketsOK
<1>7. WindowsEndUnlessFault'
  BY <1>3, <1>5 DEF LimitInv, WindowsEndUnlessFault, MadeKey
<1>8. QED
  BY <1>4, <1>6, <1>7 DEF LimitInv

\* The call that finds the value 1 has made the key, and nobody else has.
LEMMA IncrInv ==
  ASSUME LimitInv, NEW c \in Calls, Incr(c)
  PROVE  LimitInv'
<1> DEFINE k == call[c].key
           value == counter[k] + 1
<1>1. k \in LimitedKeys /\ call[c].pc = "incr" /\ call[c] \in LimitedCall
  BY DEF LimitInv, LimitTypes, Incr
<1>2. /\ counter' = [counter EXCEPT ![k] = value]
      /\ UNCHANGED <<expires, bucket, limitFaults, admittedBy>>
  BY DEF Incr, Incremented, limitCounts
<1>3. /\ counter' \in [LimitedKeys -> Nat] /\ counter'[k] = value
      /\ \A l \in LimitedKeys \ {k} : counter'[l] = counter[l]
  BY <1>1, <1>2 DEF LimitInv, LimitTypes
<1>4. BucketsOK'
  BY <1>2 DEF LimitInv, BucketsOK
<1>5. CASE value = 1
  <2>1. call' = [call EXCEPT ![c].pc = "expire"] /\ admitted' = admitted
    BY <1>5 DEF Incr, Incremented, SetsTtl
  <2>2. /\ call' \in [Calls -> LimitedCall]
        /\ call'[c].pc = "expire" /\ call'[c].key = k /\ call'[c].server = call[c].server
        /\ \A d \in Calls \ {c} : call'[d] = call[d]
    BY <2>1, <1>1 DEF LimitInv, LimitTypes, LimitedCall
  <2>3. counter[k] = 0
    <3>1. counter[k] \in Nat
      BY <1>1 DEF LimitInv, LimitTypes
    <3>2. QED
      BY <3>1, <1>5
  <2>4. \A d \in Calls, l \in LimitedKeys :
          MadeKey(d, l)' <=> MadeKey(d, l) \/ (d = c /\ l = k)
    BY <2>2, <1>1 DEF MadeKey
  <2>5. LimitTypes'
    BY <2>1, <2>2, <1>1, <1>2, <1>3 DEF LimitInv, LimitTypes
  <2>6. ~ expires[k] /\ admitted[k] <= 0 /\ \A d \in Calls : ~ MadeKey(d, k)
    BY <2>3, <1>1 DEF LimitInv, WindowOK
  <2>7. WindowOK'
    <3>1. admitted[k] = 0
      BY <2>6, <1>1 DEF LimitInv, LimitTypes
    <3>2. \A l \in LimitedKeys : expires'[l] => counter'[l] > 0
      BY <1>2, <1>3, <1>5 DEF LimitInv, WindowOK
    <3>3. \A l \in LimitedKeys : admitted'[l] <= Limit /\ admitted'[l] <= counter'[l]
      BY <2>1, <3>1, <1>3, <1>5, LimitAssumption DEF LimitInv, WindowOK
    <3>4. \A d \in Calls, l \in LimitedKeys : MadeKey(d, l)' =>
            /\ ~ expires'[l] /\ counter'[l] > 0
            /\ admitted'[l] < Limit /\ admitted'[l] < counter'[l]
      BY <2>1, <2>4, <2>6, <3>1, <1>1, <1>2, <1>3, <1>5, LimitAssumption
      DEF LimitInv, WindowOK
    <3>5. \A d, e \in Calls, l \in LimitedKeys : MadeKey(d, l)' /\ MadeKey(e, l)' => d = e
      BY <2>4, <2>6 DEF LimitInv, WindowOK
    <3>6. QED
      BY <3>2, <3>3, <3>4, <3>5 DEF WindowOK
  <2>8. WindowsEndUnlessFault'
    BY <2>4, <1>2, <1>3 DEF LimitInv, WindowsEndUnlessFault, MadeKey
  <2>9. QED
    BY <2>5, <2>7, <2>8, <1>4 DEF LimitInv
<1>6. CASE value # 1
  <2>1. /\ call' = [call EXCEPT ![c] = NoLimitedCall]
        /\ admitted' = [admitted EXCEPT ![k] = @ + Admits(value)]
    BY <1>6 DEF Incr, Incremented, SetsTtl
  <2>2. /\ call' \in [Calls -> LimitedCall]
        /\ \A d \in Calls : call'[d].pc # "idle" => call'[d] = call[d]
        /\ \A d \in Calls \ {c} : call'[d] = call[d]
    BY <2>1, EndCall DEF LimitInv
  <2>3. \A d \in Calls, l \in LimitedKeys : MadeKey(d, l)' <=> MadeKey(d, l)
    BY <2>1, <2>2, <1>1, EndCall DEF LimitInv, MadeKey
  <2>4. /\ Admits(value) \in {0, 1} /\ (Admits(value) = 1 => value <= Limit)
        /\ counter[k] \in Nat /\ admitted[k] \in Nat
    BY <1>1, LimitAssumption DEF Admits, LimitInv, LimitTypes
  <2>5. /\ admitted' \in [LimitedKeys -> Nat]
        /\ admitted'[k] = admitted[k] + Admits(value)
        /\ \A l \in LimitedKeys \ {k} : admitted'[l] = admitted[l]
    BY <2>1, <2>4, <1>1 DEF LimitInv, LimitTypes
  <2>6. LimitTypes'
    BY <2>2, <2>5, <1>1, <1>2, <1>3 DEF LimitInv, LimitTypes
  <2>7. admitted[k] <= Limit /\ admitted[k] <= counter[k]
    BY <1>1 DEF LimitInv, WindowOK
  <2>8. admitted'[k] <= Limit /\ admitted'[k] <= counter'[k]
    BY <2>4, <2>5, <2>7, <1>3, LimitAssumption
  <2>9. \A d \in Calls : MadeKey(d, k) =>
          admitted'[k] < Limit /\ admitted'[k] < counter'[k]
    BY <2>4, <2>5, <1>1, <1>3, LimitAssumption DEF LimitInv, WindowOK
  <2>10. WindowOK'
    <3>1. \A l \in LimitedKeys : expires'[l] => counter'[l] > 0
      BY <2>4, <1>2, <1>3 DEF LimitInv, WindowOK
    <3>2. \A l \in LimitedKeys : admitted'[l] <= Limit /\ admitted'[l] <= counter'[l]
      BY <2>5, <2>8, <1>3 DEF LimitInv, WindowOK
    <3>3. \A d \in Calls, l \in LimitedKeys : MadeKey(d, l) =>
            /\ ~ expires'[l] /\ counter'[l] > 0
            /\ admitted'[l] < Limit /\ admitted'[l] < counter'[l]
      BY <2>4, <2>5, <2>9, <1>2, <1>3 DEF LimitInv, WindowOK
    <3>4. QED
      BY <2>3, <3>1, <3>2, <3>3 DEF LimitInv, WindowOK
  <2>11. WindowsEndUnlessFault'
    BY <2>3, <2>4, <1>2, <1>3, <1>6 DEF LimitInv, WindowsEndUnlessFault, MadeKey
  <2>12. QED
    BY <2>6, <2>10, <2>11, <1>4 DEF LimitInv
<1>7. QED
  BY <1>5, <1>6

\* The number that INCR gave is never used, whether it was executed or not.
LEMMA IncrFailsInv ==
  ASSUME LimitInv, NEW c \in Calls, IncrFails(c)
  PROVE  LimitInv'
<1> DEFINE k == call[c].key
<1>1. k \in LimitedKeys /\ call[c].pc = "incr"
  BY DEF LimitInv, LimitTypes, IncrFails
<1>2. /\ FallBack(c) /\ UNCHANGED <<expires, admitted>>
      /\ call' = [call EXCEPT ![c] = NoLimitedCall]
      /\ limitFaults' = limitFaults + 1 /\ limitFaults \in Nat
      /\ counter' \in {counter, [counter EXCEPT ![k] = counter[k] + 1]}
  BY DEF IncrFails, LimitFault, FallBack, Incremented, LimitInv, LimitTypes
<1>3. /\ counter' \in [LimitedKeys -> Nat]
      /\ \A l \in LimitedKeys :
           counter'[l] \in Nat /\ counter[l] \in Nat /\ counter[l] <= counter'[l]
  <2>1. counter \in [LimitedKeys -> Nat] /\ counter[k] + 1 \in Nat
    BY <1>1 DEF LimitInv, LimitTypes
  <2>2. CASE counter' = counter
    BY <2>1, <2>2
  <2>3. CASE counter' = [counter EXCEPT ![k] = counter[k] + 1]
    BY <2>1, <2>3, <1>1
  <2>4. QED
    BY <2>2, <2>3, <1>2
<1>4. /\ call' \in [Calls -> LimitedCall]
      /\ \A d \in Calls : call'[d].pc # "idle" => call'[d] = call[d]
  BY <1>2, EndCall DEF LimitInv
<1>5. \A d \in Calls, l \in LimitedKeys : MadeKey(d, l)' => MadeKey(d, l)
  BY <1>4 DEF MadeKey
<1>6. /\ bucket' \in [Servers -> [LimitedKeys -> [count : Nat, running : BOOLEAN]]]
      /\ admittedBy' \in [Servers -> [LimitedKeys -> Nat]]
      /\ BucketsOK'
  BY <1>1, <1>2, FallBackInv DEF LimitInv
<1>7. LimitTypes'
  BY <1>2, <1>3, <1>4, <1>6 DEF LimitInv, LimitTypes
<1>8. \A l \in LimitedKeys : admitted[l] \in Nat
  BY DEF LimitInv, LimitTypes
<1>9. WindowOK'
  BY <1>2, <1>3, <1>5, <1>8, LimitAssumption DEF LimitInv, WindowOK
<1>10. WindowsEndUnlessFault'
  BY <1>2 DEF WindowsEndUnlessFault
<1>11. QED
  BY <1>6, <1>7, <1>9, <1>10 DEF LimitInv

LEMMA SetExpireInv ==
  ASSUME LimitInv, NEW c \in Calls, SetExpire(c)
  PROVE  LimitInv'
<1> DEFINE k == call[c].key
<1>1. k \in LimitedKeys /\ MadeKey(c, k)
  BY DEF LimitInv, LimitTypes, SetExpire, MadeKey
<1>2. /\ ~ expires[k] /\ counter[k] > 0
      /\ admitted[k] < Limit /\ admitted[k] < counter[k]
      /\ \A d \in Calls : MadeKey(d, k) => d = c
  BY <1>1 DEF LimitInv, WindowOK
<1>3. Admits(1) = 1
  BY LimitAssumption DEF Admits
<1>4. /\ expires' = [expires EXCEPT ![k] = TRUE]
      /\ admitted' = [admitted EXCEPT ![k] = admitted[k] + 1]
      /\ call' = [call EXCEPT ![c] = NoLimitedCall]
      /\ UNCHANGED <<counter, bucket, limitFaults, admittedBy>>
  BY <1>1, <1>2, <1>3 DEF SetExpire, limitCounts
<1>5. /\ call' \in [Calls -> LimitedCall]
      /\ \A d \in Calls : call'[d].pc # "idle" => d # c /\ call'[d] = call[d]
      /\ \A d \in Calls \ {c} : call'[d] = call[d]
  BY <1>4, EndCall DEF LimitInv
<1>6. \A d \in Calls, l \in LimitedKeys : MadeKey(d, l)' <=> MadeKey(d, l) /\ l # k
  BY <1>1, <1>2, <1>5 DEF MadeKey
<1>7. /\ expires' \in [LimitedKeys -> BOOLEAN] /\ admitted' \in [LimitedKeys -> Nat]
      /\ expires'[k] /\ admitted'[k] = admitted[k] + 1
      /\ \A l \in LimitedKeys \ {k} : expires'[l] = expires[l] /\ admitted'[l] = admitted[l]
      /\ counter[k] \in Nat /\ admitted[k] \in Nat
  <2>1. /\ expires \in [LimitedKeys -> BOOLEAN] /\ admitted \in [LimitedKeys -> Nat]
        /\ counter[k] \in Nat /\ admitted[k] \in Nat /\ admitted[k] + 1 \in Nat
    BY <1>1 DEF LimitInv, LimitTypes
  <2>2. /\ expires' \in [LimitedKeys -> BOOLEAN] /\ expires'[k]
        /\ \A l \in LimitedKeys \ {k} : expires'[l] = expires[l]
    BY <2>1, <1>1, <1>4
  <2>3. /\ admitted' \in [LimitedKeys -> Nat] /\ admitted'[k] = admitted[k] + 1
        /\ \A l \in LimitedKeys \ {k} : admitted'[l] = admitted[l]
    BY <2>1, <1>1, <1>4
  <2>4. QED
    BY <2>1, <2>2, <2>3
<1>8. LimitTypes'
  BY <1>4, <1>5, <1>7 DEF LimitInv, LimitTypes
<1>9. WindowOK'
  <2>1. \A l \in LimitedKeys : expires'[l] => counter'[l] > 0
    BY <1>2, <1>4, <1>7 DEF LimitInv, WindowOK
  <2>2. \A l \in LimitedKeys : admitted'[l] <= Limit /\ admitted'[l] <= counter'[l]
    BY <1>2, <1>4, <1>7, LimitAssumption DEF LimitInv, WindowOK
  <2>3. \A d \in Calls, l \in LimitedKeys : MadeKey(d, l)' =>
          /\ ~ expires'[l] /\ counter'[l] > 0
          /\ admitted'[l] < Limit /\ admitted'[l] < counter'[l]
    BY <1>4, <1>6, <1>7 DEF LimitInv, WindowOK
  <2>4. QED
    BY <2>1, <2>2, <2>3, <1>6 DEF LimitInv, WindowOK
<1>10. BucketsOK'
  BY <1>4 DEF LimitInv, BucketsOK
<1>11. WindowsEndUnlessFault'
  BY <1>4, <1>6, <1>7 DEF LimitInv, WindowsEndUnlessFault, MadeKey
<1>12. QED
  BY <1>8, <1>9, <1>10, <1>11 DEF LimitInv

LEMMA ExpireFailsInv ==
  ASSUME LimitInv, NEW c \in Calls, ExpireFails(c)
  PROVE  LimitInv'
<1> DEFINE k == call[c].key
<1>1. k \in LimitedKeys /\ call[c].pc = "expire" /\ MadeKey(c, k)
  BY DEF LimitInv, LimitTypes, ExpireFails, MadeKey
<1>2. counter[k] > 0 /\ \A d \in Calls : MadeKey(d, k) => d = c
  BY <1>1 DEF LimitInv, WindowOK
<1>3. /\ FallBack(c) /\ UNCHANGED <<counter, admitted>>
      /\ call' = [call EXCEPT ![c] = NoLimitedCall]
      /\ limitFaults' = limitFaults + 1 /\ limitFaults \in Nat
      /\ expires' = expires \/ expires' = [expires EXCEPT ![k] = TRUE]
  BY <1>2 DEF ExpireFails, LimitFault, FallBack, LimitInv, LimitTypes
<1>4. /\ call' \in [Calls -> LimitedCall]
      /\ \A d \in Calls : call'[d].pc # "idle" => d # c /\ call'[d] = call[d]
  BY <1>3, EndCall DEF LimitInv
<1>5. \A d \in Calls, l \in LimitedKeys : MadeKey(d, l)' => MadeKey(d, l) /\ l # k
  BY <1>1, <1>2, <1>4 DEF MadeKey
<1>6. /\ expires' \in [LimitedKeys -> BOOLEAN]
      /\ \A l \in LimitedKeys \ {k} : expires'[l] = expires[l]
  BY <1>1, <1>3 DEF LimitInv, LimitTypes
<1>7. /\ bucket' \in [Servers -> [LimitedKeys -> [count : Nat, running : BOOLEAN]]]
      /\ admittedBy' \in [Servers -> [LimitedKeys -> Nat]]
      /\ BucketsOK'
  BY <1>1, <1>3, FallBackInv DEF LimitInv
<1>8. LimitTypes'
  BY <1>3, <1>4, <1>6, <1>7 DEF LimitInv, LimitTypes
<1>9. WindowOK'
  BY <1>2, <1>3, <1>5, <1>6 DEF LimitInv, WindowOK
<1>10. WindowsEndUnlessFault'
  BY <1>3 DEF WindowsEndUnlessFault
<1>11. QED
  BY <1>7, <1>8, <1>9, <1>10 DEF LimitInv

LEMMA ServerDiesInv ==
  ASSUME LimitInv, NEW s \in Servers, ServerDies(s)
  PROVE  LimitInv'
<1>1. /\ bucket' = [bucket EXCEPT ![s] = [k \in LimitedKeys |-> EmptyBucket]]
      /\ admittedBy' = [admittedBy EXCEPT ![s] = [k \in LimitedKeys |-> 0]]
      /\ call' = [c \in Calls |-> IF call[c].server = s THEN NoLimitedCall ELSE call[c]]
      /\ UNCHANGED <<counter, expires, admitted>>
      /\ limitFaults' = limitFaults + 1 /\ limitFaults \in Nat
  BY DEF ServerDies, LimitFault, LimitInv, LimitTypes
<1>2. NoLimitedCall \in LimitedCall /\ NoLimitedCall.pc = "idle"
  BY DEF NoLimitedCall, LimitedCall
<1>3. /\ call' \in [Calls -> LimitedCall]
      /\ \A d \in Calls : call'[d].pc # "idle" => call'[d] = call[d]
  BY <1>1, <1>2 DEF LimitInv, LimitTypes
<1>4. \A d \in Calls, l \in LimitedKeys : MadeKey(d, l)' => MadeKey(d, l)
  BY <1>3 DEF MadeKey
<1>5. /\ [k \in LimitedKeys |-> EmptyBucket] \in
           [LimitedKeys -> [count : Nat, running : BOOLEAN]]
      /\ [k \in LimitedKeys |-> 0] \in [LimitedKeys -> Nat]
  BY DEF EmptyBucket
<1>6. LimitTypes'
  BY <1>1, <1>3, <1>5 DEF LimitInv, LimitTypes
<1>7. BucketsOK'
  BY <1>1, LimitAssumption DEF LimitInv, LimitTypes, BucketsOK, EmptyBucket
<1>8. WindowOK'
  BY <1>1, <1>4 DEF LimitInv, WindowOK
<1>9. WindowsEndUnlessFault'
  BY <1>1 DEF WindowsEndUnlessFault
<1>10. QED
  BY <1>6, <1>7, <1>8, <1>9 DEF LimitInv

\* A window that ends has a TTL, so that no call is about to set one.
LEMMA WindowEndsInv ==
  ASSUME LimitInv, NEW k \in LimitedKeys, WindowEnds(k)
  PROVE  LimitInv'
<1>1. /\ counter' = [counter EXCEPT ![k] = 0]
      /\ expires' = [expires EXCEPT ![k] = FALSE]
      /\ admitted' = [admitted EXCEPT ![k] = 0]
      /\ UNCHANGED <<bucket, call, limitFaults, admittedBy>>
  BY DEF WindowEnds, limitCounts
<1>2. /\ counter' \in [LimitedKeys -> Nat] /\ expires' \in [LimitedKeys -> BOOLEAN]
      /\ admitted' \in [LimitedKeys -> Nat]
      /\ counter'[k] = 0 /\ ~ expires'[k] /\ admitted'[k] = 0
      /\ \A l \in LimitedKeys \ {k} : /\ counter'[l] = counter[l] /\ expires'[l] = expires[l]
                                       /\ admitted'[l] = admitted[l]
  BY <1>1 DEF LimitInv, LimitTypes
<1>3. LimitTypes'
  BY <1>1, <1>2 DEF LimitInv, LimitTypes
<1>4. /\ \A c \in Calls : ~ MadeKey(c, k)
      /\ \A c \in Calls, l \in LimitedKeys : MadeKey(c, l)' <=> MadeKey(c, l)
  BY <1>1 DEF LimitInv, WindowOK, WindowEnds, MadeKey
<1>5. WindowOK' /\ BucketsOK'
  BY <1>1, <1>2, <1>4, LimitAssumption DEF LimitInv, WindowOK, BucketsOK
<1>6. WindowsEndUnlessFault'
  BY <1>1, <1>2 DEF LimitInv, WindowsEndUnlessFault
<1>7. QED
  BY <1>3, <1>5, <1>6 DEF LimitInv

LEMMA BucketEndsInv ==
  ASSUME LimitInv, NEW s \in Servers, NEW k \in LimitedKeys, BucketEnds(s, k)
  PROVE  LimitInv'
<1> DEFINE b == [count |-> bucket[s][k].count, running |-> FALSE]
<1>1. /\ bucket' = [bucket EXCEPT ![s][k] = b]
      /\ UNCHANGED <<counter, expires, call, limitFaults, admitted, admittedBy>>
  BY DEF BucketEnds, limitCounts
<1>2. bucket \in [Servers -> [LimitedKeys -> [count : Nat, running : BOOLEAN]]]
  BY DEF LimitInv, LimitTypes
<1>3. b \in [count : Nat, running : BOOLEAN] /\ b.count = bucket[s][k].count
  BY <1>2
<1> HIDE DEF b
<1>4. /\ bucket' \in [Servers -> [LimitedKeys -> [count : Nat, running : BOOLEAN]]]
      /\ \A t \in Servers, l \in LimitedKeys : bucket'[t][l].count = bucket[t][l].count
  BY <1>1, <1>2, <1>3
<1>5. LimitTypes' /\ BucketsOK'
  BY <1>1, <1>4 DEF LimitInv, LimitTypes, BucketsOK
<1>6. WindowOK' /\ WindowsEndUnlessFault'
  BY <1>1 DEF LimitInv, WindowOK, WindowsEndUnlessFault, MadeKey
<1>7. QED
  BY <1>5, <1>6 DEF LimitInv

LEMMA LimitStepInv == LimitInv /\ [LimitNext]_limitVars => LimitInv'
<1> SUFFICES ASSUME LimitInv, [LimitNext]_limitVars PROVE LimitInv'
  OBVIOUS
<1>1. CASE LimitNext
  BY <1>1, BeginCallInv, IncrInv, IncrFailsInv, SetExpireInv, ExpireFailsInv,
     ServerDiesInv, WindowEndsInv, BucketEndsInv
  DEF LimitNext
<1>2. CASE UNCHANGED limitVars
  BY <1>2 DEF limitVars, limitCounts, LimitInv, LimitTypes, WindowOK, BucketsOK,
              WindowsEndUnlessFault, MadeKey
<1>3. QED
  BY <1>1, <1>2

-----------------------------------------------------------------------------
(* Rate limits: the theorems.                                              *)

LEMMA LimitInvariant == SupportSpec => []LimitInv
<1>1. SupportInit => LimitInv
  BY LimitInitInv DEF SupportInit
<1>2. LimitInv /\ [SupportNext]_supportVars => LimitInv'
  BY LimitStepInv DEF SupportNext, supportVars, limitVars
<1>3. QED
  BY <1>1, <1>2, PTL DEF SupportSpec

\* A window of a key in Redis, and a bucket in the memory of a process, let no more
\* than the limit through, whatever calls of whatever processes interleave, fail or
\* die (increment, incrementMemory).
THEOREM WindowsHoldTheLimit == SupportSpec => []WindowHoldsLimit
<1>1. LimitInv => WindowHoldsLimit
  BY DEF LimitInv, WindowOK, BucketsOK, WindowHoldsLimit
<1>2. QED
  BY <1>1, LimitInvariant, PTL

\* Unless a command of Redis or a process fails, a counter has a TTL or a call that is
\* about to set it, so that no reader stays refused for ever.
THEOREM CountersExpire == SupportSpec => []WindowsEndUnlessFault
<1>1. LimitInv => WindowsEndUnlessFault
  BY DEF LimitInv
<1>2. QED
  BY <1>1, LimitInvariant, PTL

-----------------------------------------------------------------------------
(* Article parts: the inductive invariant.                                 *)

EditRequest ==
  [pc : {"idle", "update", "delete", "deleting", "insert", "clear", "clearing",
         "upsert", "commit"},
   kind : {"none", "tags", "media"}, tagIds : Seq(Tags), left : Seq(Tags),
   sees : SUBSET (Tags \cup Media), deleted : SUBSET Tags, inserted : SUBSET Tags,
   medium : Media \cup {NoMedia}, cover : BOOLEAN]

WellFormedEdit(q) ==
  /\ q.pc = "idle" <=> q.kind = "none"
  /\ q.kind = "tags" => q.pc \in {"update", "delete", "deleting", "insert", "commit"}
  /\ q.kind = "media" => q.pc \in {"clear", "clearing", "upsert", "commit"}
  /\ q.kind = "media" => q.medium \in Media
  /\ q.cover => q.kind = "media"

PartsTypes ==
  /\ articleTags \subseteq Tags
  /\ articleMedia \in [Media -> {"none", "plain", "cover"}]
  /\ edit \in [Editors -> EditRequest]
  /\ \A e \in Editors : WellFormedEdit(edit[e])
  /\ loose \in BOOLEAN /\ fresh \in BOOLEAN

\* What q has replaced and has still to insert, when nobody else replaces tags.
KnowsTags(q) ==
  /\ q.pc \in {"update", "delete", "deleting"} => q.inserted = {} /\ q.left = q.tagIds
  /\ q.pc = "deleting" => q.sees = articleTags
  /\ q.pc \in {"insert", "commit"} => q.deleted = articleTags
  /\ q.pc = "insert" => q.inserted \cup Elements(q.left) = Elements(q.tagIds)
  /\ q.pc = "commit" => q.inserted = Elements(q.tagIds)

\* Of several requests for tags all but the one that holds the article wait for it,
\* and that one sees the tags there are.
TagsOK ==
  loose \/
  /\ articleTags = asked
  /\ \A e, o \in Editors : edit[e].kind = "tags" /\ edit[o].kind = "tags" =>
       e = o \/ edit[e].pc = "update" \/ articleLock = e
  /\ \A e \in Editors : edit[e].kind = "tags" => KnowsTags(edit[e])

Covers == {m \in Media : articleMedia[m] = "cover"}

\* Requests for a cover know the media of each other, and each that has cleared the
\* covers knows all those there are.
CoversOK ==
  fresh \/
  /\ \A m, n \in Covers : m = n
  /\ \A e, o \in Editors : edit[e].cover /\ edit[o].cover /\ e # o =>
       /\ articleMedia[edit[e].medium] # "none"
       /\ edit[e].pc # "clear" => edit[o].medium \in edit[e].sees
  /\ \A e \in Editors : edit[e].cover /\ edit[e].pc # "clear" => Covers \subseteq edit[e].sees

PartsInv == PartsTypes /\ TagsOK /\ CoversOK

-----------------------------------------------------------------------------
(* Article parts: facts about lists and sets.                              *)

LEMMA ElementsOfList ==
  ASSUME NEW S, NEW s \in Seq(S)
  PROVE  /\ s = <<>> => Elements(s) = {}
         /\ s # <<>> => /\ Tail(s) \in Seq(S) /\ Head(s) \in S
                        /\ Elements(s) = {Head(s)} \cup Elements(Tail(s))
<1>1. s = <<>> => Elements(s) = {}
  BY DEF Elements
<1>2. ASSUME s # <<>>
      PROVE  /\ Tail(s) \in Seq(S) /\ Head(s) \in S
             /\ Elements(s) = {Head(s)} \cup Elements(Tail(s))
  <2>1. /\ Tail(s) \in Seq(S) /\ Head(s) \in S /\ Head(s) = s[1]
        /\ Len(s) \in Nat /\ Len(s) > 0 /\ Len(Tail(s)) = Len(s) - 1
        /\ DOMAIN s = 1..Len(s) /\ DOMAIN Tail(s) = 1..Len(Tail(s))
        /\ \A i \in 1..Len(Tail(s)) : Tail(s)[i] = s[i + 1]
    BY <1>2
  <2>2. ASSUME NEW x \in Elements(s)
        PROVE  x \in {Head(s)} \cup Elements(Tail(s))
    <3>1. PICK i \in 1..Len(s) : x = s[i]
      BY <2>1, <2>2 DEF Elements
    <3>2. CASE i = 1
      BY <3>1, <3>2, <2>1
    <3>3. CASE i # 1
      <4>1. i - 1 \in 1..Len(Tail(s)) /\ (i - 1) + 1 = i
        BY <3>3, <2>1
      <4>2. x = Tail(s)[i - 1]
        BY <4>1, <3>1, <2>1
      <4>3. QED
        BY <4>1, <4>2, <2>1 DEF Elements
    <3>4. QED
      BY <3>2, <3>3
  <2>3. ASSUME NEW x \in Elements(Tail(s))
        PROVE  x \in Elements(s)
    <3>1. PICK i \in 1..Len(Tail(s)) : x = Tail(s)[i]
      BY <2>1, <2>3 DEF Elements
    <3>2. i + 1 \in DOMAIN s /\ x = s[i + 1]
      BY <3>1, <2>1
    <3>3. QED
      BY <3>2 DEF Elements
  <2>4. Head(s) \in Elements(s)
    <3>1. 1 \in DOMAIN s
      BY <2>1
    <3>2. QED
      BY <3>1, <2>1 DEF Elements
  <2>5. QED
    BY <2>1, <2>2, <2>3, <2>4
<1>3. QED
  BY <1>1, <1>2

\* A finite set has no more than one element just when any two are the same.
LEMMA AtMostOne ==
  ASSUME NEW S, IsFiniteSet(S)
  PROVE  Cardinality(S) <= 1 <=> \A x, y \in S : x = y
<1>1. Cardinality(S) \in Nat
  BY FS_CardinalityType
<1>2. ASSUME Cardinality(S) <= 1
      PROVE  \A x, y \in S : x = y
  <2>1. Cardinality(S) = 0 \/ Cardinality(S) = 1
    BY <1>1, <1>2
  <2>2. CASE Cardinality(S) = 0
    BY <2>2, FS_EmptySet
  <2>3. CASE Cardinality(S) = 1
    <3>1. PICK z : S = {z}
      BY <2>3, FS_Singleton
    <3>2. QED
      BY <3>1
  <2>4. QED
    BY <2>1, <2>2, <2>3
<1>3. ASSUME \A x, y \in S : x = y
      PROVE  Cardinality(S) <= 1
  <2>1. CASE S = {}
    BY <2>1, FS_EmptySet
  <2>2. CASE S # {}
    <3>1. PICK z \in S : TRUE
      BY <2>2
    <3>2. S = {z}
      BY <3>1, <1>3
    <3>3. QED
      BY <3>2, FS_Singleton
  <2>3. QED
    BY <2>1, <2>2
<1>4. QED
  BY <1>2, <1>3

\* The media of an article are finitely many.
LEMMA CoversAreOne == Cardinality(Covers) <= 1 <=> \A m, n \in Covers : m = n
<1>1. Covers \subseteq Media
  BY DEF Covers
<1>2. IsFiniteSet(Covers)
  BY <1>1, FS_Subset, PartsAssumption
<1>3. QED
  BY <1>2, AtMostOne

LEMMA NoEditType ==
  /\ NoEdit \in EditRequest /\ WellFormedEdit(NoEdit)
  /\ NoEdit.kind = "none" /\ NoEdit.pc = "idle" /\ ~ NoEdit.cover
BY DEF NoEdit, EditRequest, WellFormedEdit

LEMMA PartsInitInv == PartsInit => PartsInv
<1> SUFFICES ASSUME PartsInit PROVE PartsInv
  OBVIOUS
<1>1. edit = [e \in Editors |-> NoEdit] /\ articleMedia = FirstMedia
  BY DEF PartsInit
<1>2. PartsTypes
  BY <1>1, NoEditType, PartsAssumption DEF PartsInit, PartsTypes
<1>3. TagsOK
  BY <1>1, NoEditType DEF PartsInit, TagsOK
<1>4. \A m, n \in Covers : m = n
  <2>1. Covers = {m \in Media : FirstMedia[m] = "cover"}
    BY <1>1 DEF Covers
  <2>2. QED
    BY <2>1, CoversAreOne, PartsAssumption
<1>5. CoversOK
  BY <1>1, <1>4, NoEditType DEF CoversOK
<1>6. QED
  BY <1>2, <1>3, <1>5 DEF PartsInv

-----------------------------------------------------------------------------
(* Article parts: the steps that only change a request.                    *)

LEMMA SlotChanges ==
  ASSUME PartsTypes, NEW e \in Editors, NEW q \in EditRequest, WellFormedEdit(q),
         edit' = [edit EXCEPT ![e] = q], UNCHANGED <<articleTags, articleMedia>>,
         loose' \in BOOLEAN, fresh' \in BOOLEAN
  PROVE  /\ PartsTypes'
         /\ edit'[e] = q /\ \A o \in Editors \ {e} : edit'[o] = edit[o]
BY DEF PartsTypes

LEMMA BeginUpdateTagsInv ==
  ASSUME PartsInv, NEW e \in Editors, NEW columns \in BOOLEAN, NEW tagIds \in TagLists,
         BeginUpdateTags(e, columns, tagIds)
  PROVE  PartsInv'
<1> DEFINE q == [NoEdit EXCEPT !.kind = "tags", !.tagIds = tagIds, !.left = tagIds,
                               !.pc = IF columns THEN "update" ELSE "delete"]
<1>1. /\ q \in EditRequest /\ WellFormedEdit(q)
      /\ q.kind = "tags" /\ q.tagIds = tagIds /\ q.left = tagIds /\ q.inserted = {}
      /\ q.pc = IF columns THEN "update" ELSE "delete"
      /\ ~ q.cover
  BY PartsAssumption DEF NoEdit, EditRequest, WellFormedEdit
<1>2. /\ edit' = [edit EXCEPT ![e] = q] /\ edit[e].pc = "idle"
      /\ UNCHANGED <<articleTags, articleMedia, articleLock, asked, fresh>>
      /\ loose' = (loose \/ \E o \in Others(e, "tags") :
                     ~ columns \/ (edit[o].pc # "update" /\ articleLock # o))
  BY DEF BeginUpdateTags, Start, rows
<1> HIDE DEF q
<1>3. /\ PartsTypes'
      /\ edit'[e] = q /\ \A o \in Editors \ {e} : edit'[o] = edit[o]
  BY <1>1, <1>2, SlotChanges DEF PartsInv, PartsTypes
<1>4. TagsOK'
  <2> SUFFICES ASSUME ~ loose'
               PROVE  /\ articleTags' = asked'
                      /\ \A x, o \in Editors : edit'[x].kind = "tags" /\ edit'[o].kind = "tags" =>
                           x = o \/ edit'[x].pc = "update" \/ articleLock' = x
                      /\ \A x \in Editors : edit'[x].kind = "tags" => KnowsTags(edit[x])'
    BY DEF TagsOK
  <2>1. ~ loose /\ \A o \in Editors \ {e} : edit[o].kind = "tags" =>
          columns /\ (edit[o].pc = "update" \/ articleLock = o)
    BY <1>2 DEF Others
  <2>2. /\ articleTags = asked
        /\ \A x, o \in Editors : edit[x].kind = "tags" /\ edit[o].kind = "tags" =>
             x = o \/ edit[x].pc = "update" \/ articleLock = x
        /\ \A x \in Editors : edit[x].kind = "tags" => KnowsTags(edit[x])
    BY <2>1 DEF PartsInv, TagsOK
  <2>3. KnowsTags(edit[e])'
    BY <1>1, <1>3 DEF KnowsTags
  <2>4. ASSUME NEW x \in Editors \ {e}, edit[x].kind = "tags"
        PROVE  KnowsTags(edit[x])'
    BY <2>2, <2>4, <1>2, <1>3 DEF KnowsTags
  <2>5. QED
    BY <2>1, <2>2, <2>3, <2>4, <1>1, <1>2, <1>3
<1>5. CoversOK'
  BY <1>1, <1>2, <1>3 DEF PartsInv, CoversOK, Covers
<1>6. QED
  BY <1>3, <1>4, <1>5 DEF PartsInv

LEMMA BeginAttachInv ==
  ASSUME PartsInv, NEW e \in Editors, NEW m \in Media, NEW cover \in BOOLEAN,
         BeginAttach(e, m, cover)
  PROVE  PartsInv'
<1> DEFINE pc == IF cover THEN "clear" ELSE "upsert"
           c == cover
           p == [NoEdit EXCEPT !.kind = "media", !.medium = m, !.pc = pc]
           q == [p EXCEPT !.cover = c]
<1>1. pc \in {"clear", "upsert"} /\ c \in BOOLEAN
  OBVIOUS
<1> HIDE DEF pc, c
<1>2. /\ q \in EditRequest /\ WellFormedEdit(q)
      /\ q.kind = "media" /\ q.medium = m /\ q.cover = c /\ q.pc = pc
  <2>1. p \in EditRequest /\ p.kind = "media" /\ p.medium = m /\ p.pc = pc
    BY <1>1, NoEditType DEF EditRequest
  <2> HIDE DEF p
  <2>2. q \in EditRequest
    BY <2>1, <1>1 DEF EditRequest
  <2>3. q.kind = "media" /\ q.medium = m /\ q.cover = c /\ q.pc = pc
    BY <2>1 DEF EditRequest
  <2>4. WellFormedEdit(q)
    BY <1>1, <2>3 DEF WellFormedEdit
  <2>5. QED
    BY <2>2, <2>3, <2>4
<1>3. /\ edit' = [edit EXCEPT ![e] = q] /\ edit[e].pc = "idle"
      /\ UNCHANGED <<articleTags, articleMedia, articleLock, asked, loose>>
      /\ fresh' = (fresh \/ \E o \in Others(e, "media") :
                     /\ cover /\ edit[o].cover
                     /\ \/ articleMedia[m] = "none"
                        \/ articleMedia[edit[o].medium] = "none"
                        \/ edit[o].pc # "clear" /\ m \notin edit[o].sees)
  BY DEF BeginAttach, Start, rows, pc, c
<1> HIDE DEF q
<1>4. /\ PartsTypes'
      /\ edit'[e] = q /\ \A o \in Editors \ {e} : edit'[o] = edit[o]
  BY <1>2, <1>3, SlotChanges DEF PartsInv, PartsTypes
<1>5. TagsOK'
  BY <1>2, <1>3, <1>4 DEF PartsInv, TagsOK, KnowsTags
<1>6. CoversOK'
  <2> SUFFICES ASSUME ~ fresh'
               PROVE  /\ \A a, n \in Covers' : a = n
                      /\ \A x, o \in Editors : edit'[x].cover /\ edit'[o].cover /\ x # o =>
                           /\ articleMedia'[edit'[x].medium] # "none"
                           /\ edit'[x].pc # "clear" => edit'[o].medium \in edit'[x].sees
                      /\ \A x \in Editors : edit'[x].cover /\ edit'[x].pc # "clear" =>
                           Covers' \subseteq edit'[x].sees
    BY DEF CoversOK
  <2>1. ~ fresh /\ Covers' = Covers
    BY <1>3 DEF Covers
  <2>2. /\ \A a, n \in Covers : a = n
        /\ \A x, o \in Editors : edit[x].cover /\ edit[o].cover /\ x # o =>
             /\ articleMedia[edit[x].medium] # "none"
             /\ edit[x].pc # "clear" => edit[o].medium \in edit[x].sees
        /\ \A x \in Editors : edit[x].cover /\ edit[x].pc # "clear" =>
             Covers \subseteq edit[x].sees
    BY <2>1 DEF PartsInv, CoversOK
  <2>3. \A o \in Editors \ {e} : edit[o].cover => edit[o].kind = "media"
    BY DEF PartsInv, PartsTypes, WellFormedEdit
  <2>4. \A o \in Editors \ {e} : cover /\ edit[o].cover =>
          /\ articleMedia[m] # "none" /\ articleMedia[edit[o].medium] # "none"
          /\ edit[o].pc # "clear" => m \in edit[o].sees
    BY <2>3, <1>3 DEF Others
  <2>5. QED
    BY <2>1, <2>2, <2>4, <1>2, <1>3, <1>4 DEF pc, c
<1>7. QED
  BY <1>4, <1>5, <1>6 DEF PartsInv

\* A request for tags goes on: it waits no more only with the lock of the article.
LEMMA TagsGoOn ==
  ASSUME PartsInv, NEW e \in Editors, NEW q \in EditRequest, WellFormedEdit(q),
         edit[e].kind = "tags", q.kind = "tags", Continue(e, q),
         ~ loose => KnowsTags(q),
         \/ articleLock' = articleLock /\ edit[e].pc # "update"
         \/ articleLock = NoEditor /\ articleLock' = e
  PROVE  PartsInv'
<1>1. /\ edit' = [edit EXCEPT ![e] = q]
      /\ UNCHANGED <<articleTags, articleMedia, asked, loose, fresh>>
  BY DEF Continue, rows, partHistory
<1>2. /\ PartsTypes'
      /\ edit'[e] = q /\ \A o \in Editors \ {e} : edit'[o] = edit[o]
  BY <1>1, SlotChanges DEF PartsInv, PartsTypes
<1>3. TagsOK'
  <2> SUFFICES ASSUME ~ loose PROVE TagsOK'
    BY <1>1 DEF TagsOK
  <2>1. /\ articleTags = asked
        /\ \A x, o \in Editors : edit[x].kind = "tags" /\ edit[o].kind = "tags" =>
             x = o \/ edit[x].pc = "update" \/ articleLock = x
        /\ \A x \in Editors : edit[x].kind = "tags" => KnowsTags(edit[x])
    BY DEF PartsInv, TagsOK
  <2>2. \A x, o \in Editors : edit'[x].kind = "tags" /\ edit'[o].kind = "tags" =>
          x = o \/ edit'[x].pc = "update" \/ articleLock' = x
    BY <2>1, <1>2, PartsAssumption
  <2>3. KnowsTags(edit[e])'
    BY <1>1, <1>2 DEF KnowsTags
  <2>4. ASSUME NEW x \in Editors \ {e}, edit[x].kind = "tags"
        PROVE  KnowsTags(edit[x])'
    BY <2>1, <2>4, <1>1, <1>2 DEF KnowsTags
  <2>5. QED
    BY <2>1, <2>2, <2>3, <2>4, <1>1, <1>2 DEF TagsOK
<1>4. ~ q.cover /\ ~ edit[e].cover
  BY DEF WellFormedEdit, PartsInv, PartsTypes
<1>5. CoversOK'
  BY <1>1, <1>2, <1>4 DEF PartsInv, CoversOK, Covers
<1>6. QED
  BY <1>2, <1>3, <1>5 DEF PartsInv

\* A request for a medium goes on, with the media it sees or those there are.
LEMMA MediaGoOn ==
  ASSUME PartsInv, NEW e \in Editors, NEW q \in EditRequest, WellFormedEdit(q),
         edit[e].kind = "media", q.kind = "media", Continue(e, q),
         UNCHANGED articleLock,
         q.medium = edit[e].medium, q.cover = edit[e].cover,
         \/ q.sees = Attached
         \/ edit[e].pc # "clear" /\ q.sees = edit[e].sees
  PROVE  PartsInv'
<1>1. /\ edit' = [edit EXCEPT ![e] = q]
      /\ UNCHANGED <<articleTags, articleMedia, articleLock, asked, loose, fresh>>
  BY DEF Continue, rows, partHistory
<1>2. /\ PartsTypes'
      /\ edit'[e] = q /\ \A o \in Editors \ {e} : edit'[o] = edit[o]
  BY <1>1, SlotChanges DEF PartsInv, PartsTypes
<1>3. TagsOK'
  BY <1>1, <1>2 DEF PartsInv, TagsOK, KnowsTags
<1>4. CoversOK'
  <2> SUFFICES ASSUME ~ fresh PROVE CoversOK'
    BY <1>1 DEF CoversOK
  <2>1. /\ \A m, n \in Covers : m = n
        /\ \A x, o \in Editors : edit[x].cover /\ edit[o].cover /\ x # o =>
             /\ articleMedia[edit[x].medium] # "none"
             /\ edit[x].pc # "clear" => edit[o].medium \in edit[x].sees
        /\ \A x \in Editors : edit[x].cover /\ edit[x].pc # "clear" =>
             Covers \subseteq edit[x].sees
    BY DEF PartsInv, CoversOK
  <2>2. Covers' = Covers /\ Covers \subseteq Attached
    BY <1>1 DEF Covers, Attached
  <2>3. \A o \in Editors \ {e} : edit[o].cover => edit[o].medium \in Media
    BY DEF PartsInv, PartsTypes, WellFormedEdit
  <2>4. \A o \in Editors \ {e} : edit[o].cover /\ edit[e].cover =>
          edit[o].medium \in Attached
    BY <2>1, <2>3 DEF Attached
  <2>5. \A o \in Editors \ {e} : q.cover /\ edit[o].cover => edit[o].medium \in q.sees
    BY <2>1, <2>4
  <2>6. q.cover => Covers \subseteq q.sees
    BY <2>1, <2>2
  <2>7. QED
    BY <2>1, <2>2, <2>5, <2>6, <1>1, <1>2 DEF CoversOK
<1>5. QED
  BY <1>2, <1>3, <1>4 DEF PartsInv

-----------------------------------------------------------------------------
(* Article parts: the statements of a transaction.                         *)

LEMMA UpdateColumnsInv ==
  ASSUME PartsInv, NEW e \in Editors, UpdateColumns(e)
  PROVE  PartsInv'
<1> DEFINE q == [edit[e] EXCEPT !.pc = "delete"]
<1>1. edit[e] \in EditRequest /\ WellFormedEdit(edit[e]) /\ edit[e].pc = "update"
  BY DEF PartsInv, PartsTypes, UpdateColumns
<1>2. edit[e].kind = "tags"
  BY <1>1 DEF EditRequest, WellFormedEdit
<1>3. /\ q \in EditRequest /\ q.pc = "delete" /\ q.kind = "tags"
      /\ q.inserted = edit[e].inserted /\ q.left = edit[e].left
      /\ q.tagIds = edit[e].tagIds /\ q.cover = edit[e].cover
  BY <1>1, <1>2 DEF EditRequest
<1>4. Continue(e, q) /\ articleLock = NoEditor /\ articleLock' = e
  BY DEF UpdateColumns
<1> HIDE DEF q
<1>5. WellFormedEdit(q)
  BY <1>1, <1>3 DEF WellFormedEdit
<1>6. ~ loose => KnowsTags(q)
  BY <1>1, <1>2, <1>3 DEF PartsInv, TagsOK, KnowsTags
<1>7. QED
  BY <1>2, <1>3, <1>4, <1>5, <1>6, TagsGoOn

LEMMA DeleteTagsInv ==
  ASSUME PartsInv, NEW e \in Editors, DeleteTags(e)
  PROVE  PartsInv'
<1> DEFINE q == [edit[e] EXCEPT !.pc = "deleting", !.sees = articleTags]
<1>1. /\ edit[e] \in EditRequest /\ WellFormedEdit(edit[e]) /\ edit[e].pc = "delete"
      /\ articleTags \subseteq Tags
  BY DEF PartsInv, PartsTypes, DeleteTags
<1>2. edit[e].kind = "tags"
  BY <1>1 DEF EditRequest, WellFormedEdit
<1>3. /\ q \in EditRequest /\ q.pc = "deleting" /\ q.kind = "tags"
      /\ q.sees = articleTags
      /\ q.inserted = edit[e].inserted /\ q.left = edit[e].left
      /\ q.tagIds = edit[e].tagIds /\ q.cover = edit[e].cover
  BY <1>1, <1>2 DEF EditRequest
<1>4. Continue(e, q) /\ UNCHANGED articleLock
  BY DEF DeleteTags
<1> HIDE DEF q
<1>5. WellFormedEdit(q)
  BY <1>1, <1>3 DEF WellFormedEdit
<1>6. ~ loose => KnowsTags(q)
  BY <1>1, <1>2, <1>3 DEF PartsInv, TagsOK, KnowsTags
<1>7. QED
  BY <1>1, <1>2, <1>3, <1>4, <1>5, <1>6, TagsGoOn

LEMMA DeletedTagsInv ==
  ASSUME PartsInv, NEW e \in Editors, DeletedTags(e)
  PROVE  PartsInv'
<1> DEFINE p == edit[e]
           q == [p EXCEPT !.pc = "insert", !.deleted = p.sees \cap articleTags]
<1>1. /\ p \in EditRequest /\ WellFormedEdit(p) /\ p.pc = "deleting"
      /\ articleTags \subseteq Tags
  BY DEF PartsInv, PartsTypes, DeletedTags
<1>2. p.kind = "tags"
  BY <1>1 DEF EditRequest, WellFormedEdit
<1>3. /\ q \in EditRequest /\ q.pc = "insert" /\ q.kind = "tags"
      /\ q.deleted = p.sees \cap articleTags
      /\ q.inserted = p.inserted /\ q.left = p.left
      /\ q.tagIds = p.tagIds /\ q.cover = p.cover
  BY <1>1, <1>2 DEF EditRequest
<1>4. Continue(e, q) /\ UNCHANGED articleLock
  BY DEF DeletedTags
<1>5. ~ loose => KnowsTags(p)
  BY <1>2 DEF PartsInv, TagsOK
<1>6. ~ loose => KnowsTags(q)
  BY <1>1, <1>3, <1>5 DEF KnowsTags
<1> HIDE DEF q
<1>7. WellFormedEdit(q)
  BY <1>1, <1>3 DEF WellFormedEdit
<1>8. QED
  BY <1>1, <1>2, <1>3, <1>4, <1>6, <1>7, TagsGoOn

\* Nobody else's tag is there that the INSERT would leave alone.
LEMMA InsertTagInv ==
  ASSUME PartsInv, NEW e \in Editors, InsertTag(e)
  PROVE  PartsInv'
<1> DEFINE p == edit[e]
           t == Head(p.left)
           added == IF t \in articleTags \ p.deleted THEN p.inserted
                    ELSE p.inserted \cup {t}
           q == [p EXCEPT !.left = Tail(p.left), !.inserted = added]
<1>1. p \in EditRequest /\ WellFormedEdit(p) /\ p.pc = "insert" /\ p.left # <<>>
  BY DEF PartsInv, PartsTypes, InsertTag
<1>2. p.kind = "tags" /\ p.left \in Seq(Tags) /\ p.inserted \subseteq Tags
  BY <1>1 DEF EditRequest, WellFormedEdit
<1>3. /\ Tail(p.left) \in Seq(Tags) /\ t \in Tags
      /\ Elements(p.left) = {t} \cup Elements(Tail(p.left))
  BY <1>1, <1>2, ElementsOfList
<1>4. added \subseteq Tags
  BY <1>2, <1>3
<1>5. Continue(e, q) /\ UNCHANGED articleLock
  BY DEF InsertTag
<1>6. ~ loose => KnowsTags(p)
  BY <1>2 DEF PartsInv, TagsOK
<1>7. ~ loose => p.deleted = articleTags /\ added = p.inserted \cup {t}
  BY <1>1, <1>6 DEF KnowsTags
<1> HIDE DEF added, t
<1>8. /\ q \in EditRequest /\ q.pc = "insert" /\ q.kind = "tags"
      /\ q.left = Tail(p.left) /\ q.inserted = added
      /\ q.deleted = p.deleted /\ q.tagIds = p.tagIds /\ q.cover = p.cover
  BY <1>1, <1>2, <1>3, <1>4 DEF EditRequest
<1> HIDE DEF q
<1>9. ~ loose => KnowsTags(q)
  BY <1>1, <1>3, <1>6, <1>7, <1>8 DEF KnowsTags
<1>10. WellFormedEdit(q)
  BY <1>1, <1>8 DEF WellFormedEdit
<1>11. QED
  BY <1>1, <1>2, <1>5, <1>8, <1>9, <1>10, TagsGoOn

LEMMA TagsInsertedInv ==
  ASSUME PartsInv, NEW e \in Editors, TagsInserted(e)
  PROVE  PartsInv'
<1> DEFINE p == edit[e]
           q == [p EXCEPT !.pc = "commit"]
<1>1. p \in EditRequest /\ WellFormedEdit(p) /\ p.pc = "insert" /\ p.left = <<>>
  BY DEF PartsInv, PartsTypes, TagsInserted
<1>2. p.kind = "tags" /\ p.left \in Seq(Tags)
  BY <1>1 DEF EditRequest, WellFormedEdit
<1>3. Elements(p.left) = {}
  BY <1>1, <1>2, ElementsOfList
<1>4. Continue(e, q) /\ UNCHANGED articleLock
  BY DEF TagsInserted
<1>5. ~ loose => KnowsTags(p)
  BY <1>2 DEF PartsInv, TagsOK
<1>6. /\ q \in EditRequest /\ q.pc = "commit" /\ q.kind = "tags"
      /\ q.left = p.left /\ q.inserted = p.inserted
      /\ q.deleted = p.deleted /\ q.tagIds = p.tagIds /\ q.cover = p.cover
  BY <1>1, <1>2 DEF EditRequest
<1> HIDE DEF q
<1>7. ~ loose => KnowsTags(q)
  BY <1>1, <1>3, <1>5, <1>6 DEF KnowsTags
<1>8. WellFormedEdit(q)
  BY <1>1, <1>6 DEF WellFormedEdit
<1>9. QED
  BY <1>1, <1>2, <1>4, <1>6, <1>7, <1>8, TagsGoOn

LEMMA ClearCoversInv ==
  ASSUME PartsInv, NEW e \in Editors, ClearCovers(e)
  PROVE  PartsInv'
<1> DEFINE p == edit[e]
           q == [p EXCEPT !.pc = "clearing", !.sees = Attached]
<1>1. p \in EditRequest /\ WellFormedEdit(p) /\ p.pc = "clear" /\ Attached \subseteq Media
  BY DEF PartsInv, PartsTypes, ClearCovers, Attached
<1>2. p.kind = "media"
  BY <1>1 DEF EditRequest, WellFormedEdit
<1>3. /\ q \in EditRequest /\ q.pc = "clearing" /\ q.kind = "media"
      /\ q.sees = Attached /\ q.medium = p.medium /\ q.cover = p.cover
  BY <1>1, <1>2 DEF EditRequest
<1>4. Continue(e, q) /\ UNCHANGED articleLock
  BY DEF ClearCovers
<1> HIDE DEF q
<1>5. WellFormedEdit(q)
  BY <1>1, <1>2, <1>3 DEF WellFormedEdit
<1>6. QED
  BY <1>2, <1>3, <1>4, <1>5, MediaGoOn

LEMMA ClearedCoversInv ==
  ASSUME PartsInv, NEW e \in Editors, ClearedCovers(e)
  PROVE  PartsInv'
<1> DEFINE p == edit[e]
           q == [p EXCEPT !.pc = "upsert"]
<1>1. p \in EditRequest /\ WellFormedEdit(p) /\ p.pc = "clearing"
  BY DEF PartsInv, PartsTypes, ClearedCovers
<1>2. p.kind = "media"
  BY <1>1 DEF EditRequest, WellFormedEdit
<1>3. /\ q \in EditRequest /\ q.pc = "upsert" /\ q.kind = "media"
      /\ q.sees = p.sees /\ q.medium = p.medium /\ q.cover = p.cover
  BY <1>1, <1>2 DEF EditRequest
<1>4. Continue(e, q) /\ UNCHANGED articleLock
  BY DEF ClearedCovers
<1> HIDE DEF q
<1>5. WellFormedEdit(q)
  BY <1>1, <1>2, <1>3 DEF WellFormedEdit
<1>6. QED
  BY <1>1, <1>2, <1>3, <1>4, <1>5, MediaGoOn

LEMMA UpsertMediaInv ==
  ASSUME PartsInv, NEW e \in Editors, UpsertMedia(e)
  PROVE  PartsInv'
<1> DEFINE p == edit[e]
           q == [p EXCEPT !.pc = "commit"]
<1>1. p \in EditRequest /\ WellFormedEdit(p) /\ p.pc = "upsert"
  BY DEF PartsInv, PartsTypes, UpsertMedia
<1>2. p.kind = "media"
  BY <1>1 DEF EditRequest, WellFormedEdit
<1>3. /\ q \in EditRequest /\ q.pc = "commit" /\ q.kind = "media"
      /\ q.sees = p.sees /\ q.medium = p.medium /\ q.cover = p.cover
  BY <1>1, <1>2 DEF EditRequest
<1>4. Continue(e, q) /\ UNCHANGED articleLock
  BY DEF UpsertMedia
<1> HIDE DEF q
<1>5. WellFormedEdit(q)
  BY <1>1, <1>2, <1>3 DEF WellFormedEdit
<1>6. QED
  BY <1>1, <1>2, <1>3, <1>4, <1>5, MediaGoOn

-----------------------------------------------------------------------------
(* Article parts: the end of a transaction, and the theorems.              *)

\* A request that no longer sees some tags is as it was otherwise.
LEMMA SightType ==
  ASSUME NEW p \in EditRequest, WellFormedEdit(p), NEW gone
  PROVE  /\ LosesSight(p, gone) \in EditRequest /\ WellFormedEdit(LosesSight(p, gone))
         /\ LosesSight(p, gone).kind = p.kind /\ LosesSight(p, gone).pc = p.pc
         /\ LosesSight(p, gone).cover = p.cover
         /\ p.pc # "deleting" \/ p.cover \/ gone = {} => LosesSight(p, gone) = p
<1> DEFINE q == [p EXCEPT !.sees = p.sees \ gone]
<1>1. CASE p.pc # "deleting"
  BY <1>1 DEF LosesSight
<1>2. CASE p.pc = "deleting"
  <2>1. LosesSight(p, gone) = q
    BY <1>2 DEF LosesSight
  <2>2. ~ p.cover
    BY <1>2 DEF WellFormedEdit
  <2>3. /\ q \in EditRequest /\ q.kind = p.kind /\ q.pc = p.pc
        /\ q.cover = p.cover /\ q.medium = p.medium
    BY DEF EditRequest
  <2>4. gone = {} => q = p
    <3>1. p = [p EXCEPT !.sees = p.sees]
      BY DEF EditRequest
    <3>2. gone = {} => p.sees \ gone = p.sees
      OBVIOUS
    <3>3. QED
      BY <3>1, <3>2
  <2> HIDE DEF q
  <2>5. WellFormedEdit(q)
    BY <2>3 DEF WellFormedEdit
  <2>6. QED
    BY <1>2, <2>1, <2>2, <2>3, <2>4, <2>5
<1>3. QED
  BY <1>1, <1>2

\* Slot e is free again, and the lock of the article if it was the one of e.  Requests
\* whose DELETE has begun may see less.
LEMMA SlotFreed ==
  ASSUME PartsInv, NEW e \in Editors, NEW gone, EndEdit(e, gone)
  PROVE  /\ edit' \in [Editors -> EditRequest]
         /\ \A o \in Editors : WellFormedEdit(edit'[o])
         /\ edit'[e].kind = "none" /\ ~ edit'[e].cover
         /\ \A o \in Editors \ {e} :
              /\ edit'[o].kind = edit[o].kind /\ edit'[o].pc = edit[o].pc
              /\ edit'[o].cover = edit[o].cover
              /\ edit[o].pc # "deleting" \/ edit[o].cover \/ gone = {} => edit'[o] = edit[o]
         /\ \A o \in Editors \ {e} : articleLock = o => articleLock' = o
<1>1. edit' = [o \in Editors |-> IF o = e THEN NoEdit ELSE LosesSight(edit[o], gone)]
  BY DEF EndEdit
<1>2. \A o \in Editors : edit[o] \in EditRequest /\ WellFormedEdit(edit[o])
  BY DEF PartsInv, PartsTypes
<1>3. edit'[e] = NoEdit /\ \A o \in Editors \ {e} : edit'[o] = LosesSight(edit[o], gone)
  BY <1>1
<1>4. \A o \in Editors : edit'[o] \in EditRequest /\ WellFormedEdit(edit'[o])
  BY <1>2, <1>3, NoEditType, SightType
<1>5. edit' \in [Editors -> EditRequest]
  BY <1>1, <1>4
<1>6. \A o \in Editors \ {e} : articleLock = o => articleLock' = o
  BY DEF EndEdit
<1>7. QED
  BY <1>2, <1>3, <1>4, <1>5, <1>6, NoEditType, SightType

\* When no tags are gone, the others are as they were.
LEMMA SlotEnds ==
  ASSUME PartsInv, NEW e \in Editors, EndEdit(e, {})
  PROVE  /\ edit' \in [Editors -> EditRequest]
         /\ \A o \in Editors : WellFormedEdit(edit'[o])
         /\ edit'[e].kind = "none" /\ ~ edit'[e].cover
         /\ \A o \in Editors \ {e} : edit'[o] = edit[o]
         /\ \A o \in Editors \ {e} : articleLock = o => articleLock' = o
BY SlotFreed

LEMMA DeadlockVictimInv ==
  ASSUME PartsInv, NEW e \in Editors, DeadlockVictim(e)
  PROVE  PartsInv'
<1>1. EndEdit(e, {}) /\ UNCHANGED <<articleTags, articleMedia, asked, loose, fresh>>
  BY DEF DeadlockVictim, rows, partHistory
<1>2. /\ edit' \in [Editors -> EditRequest]
      /\ \A o \in Editors : WellFormedEdit(edit'[o])
      /\ edit'[e].kind = "none" /\ ~ edit'[e].cover
      /\ \A o \in Editors \ {e} : edit'[o] = edit[o]
      /\ \A o \in Editors \ {e} : articleLock = o => articleLock' = o
  BY <1>1, SlotEnds
<1>3. PartsTypes'
  BY <1>1, <1>2 DEF PartsInv, PartsTypes
<1>4. TagsOK'
  BY <1>1, <1>2 DEF PartsInv, TagsOK, KnowsTags
<1>5. CoversOK'
  BY <1>1, <1>2 DEF PartsInv, CoversOK, Covers
<1>6. QED
  BY <1>3, <1>4, <1>5 DEF PartsInv

\* The tags of e are those it was asked for, and no other request has deleted or
\* inserted some.
LEMMA CommitTagsInv ==
  ASSUME PartsInv, NEW e \in Editors, CommitEdit(e), edit[e].kind = "tags"
  PROVE  PartsInv'
<1> DEFINE p == edit[e]
<1>1. /\ EndEdit(e, p.deleted) /\ UNCHANGED <<articleMedia, loose, fresh>>
      /\ articleTags' = (articleTags \ p.deleted) \cup p.inserted
      /\ asked' = Elements(p.tagIds)
      /\ p \in EditRequest /\ WellFormedEdit(p) /\ p.pc = "commit"
  BY DEF CommitEdit, PartsInv, PartsTypes
<1>2. /\ edit' \in [Editors -> EditRequest]
      /\ \A o \in Editors : WellFormedEdit(edit'[o])
      /\ edit'[e].kind = "none" /\ ~ edit'[e].cover
      /\ \A o \in Editors \ {e} :
           /\ edit'[o].kind = edit[o].kind /\ edit'[o].pc = edit[o].pc
           /\ edit'[o].cover = edit[o].cover
           /\ edit[o].pc # "deleting" \/ edit[o].cover => edit'[o] = edit[o]
      /\ \A o \in Editors \ {e} : articleLock = o => articleLock' = o
  BY <1>1, SlotFreed
<1>3. p.inserted \subseteq Tags
  BY <1>1 DEF EditRequest
<1>4. PartsTypes'
  BY <1>1, <1>2, <1>3 DEF PartsInv, PartsTypes
<1>5. TagsOK'
  <2> SUFFICES ASSUME ~ loose PROVE TagsOK'
    BY <1>1 DEF TagsOK
  <2>1. /\ \A x, o \in Editors : edit[x].kind = "tags" /\ edit[o].kind = "tags" =>
             x = o \/ edit[x].pc = "update" \/ articleLock = x
        /\ \A x \in Editors : edit[x].kind = "tags" => KnowsTags(edit[x])
    BY DEF PartsInv, TagsOK
  <2>2. articleTags' = asked'
    <3>1. KnowsTags(p)
      BY <2>1
    <3>2. p.deleted = articleTags /\ p.inserted = Elements(p.tagIds)
      BY <3>1, <1>1 DEF KnowsTags
    <3>3. QED
      BY <3>2, <1>1
  <2>3. \A x, o \in Editors : edit'[x].kind = "tags" /\ edit'[o].kind = "tags" =>
          x = o \/ edit'[x].pc = "update" \/ articleLock' = x
    BY <2>1, <1>2
  <2>4. ASSUME NEW x \in Editors, edit'[x].kind = "tags"
        PROVE  KnowsTags(edit[x])'
    <3>1. x # e /\ edit[x].kind = "tags"
      BY <2>4, <1>2
    <3>2. edit[x].pc = "update"
      <4>1. edit[x].pc = "update" \/ articleLock = x
        BY <2>1, <3>1
      <4>2. articleLock = e
        BY <2>1, <3>1, <1>1
      <4>3. QED
        BY <4>1, <4>2, <3>1
    <3>3. KnowsTags(edit[x])
      BY <2>1, <3>1
    <3>4. QED
      BY <1>2, <3>1, <3>2, <3>3 DEF KnowsTags
  <2>5. QED
    BY <2>2, <2>3, <2>4 DEF TagsOK
<1>6. CoversOK'
  BY <1>1, <1>2 DEF PartsInv, CoversOK, Covers
<1>7. QED
  BY <1>4, <1>5, <1>6 DEF PartsInv

\* A request for a cover has seen every other one, so that it leaves its own alone; the
\* others have seen its medium.
LEMMA CommitMediaInv ==
  ASSUME PartsInv, NEW e \in Editors, CommitEdit(e), edit[e].kind = "media"
  PROVE  PartsInv'
<1> DEFINE p == edit[e]
<1>1. /\ EndEdit(e, {}) /\ UNCHANGED <<articleTags, asked, loose, fresh>>
      /\ articleMedia' = [m \in Media |->
           IF m = p.medium THEN (IF p.cover THEN "cover" ELSE "plain")
           ELSE IF m \in p.sees THEN "plain" ELSE articleMedia[m]]
      /\ p \in EditRequest /\ WellFormedEdit(p) /\ p.pc = "commit"
  BY DEF CommitEdit, PartsInv, PartsTypes
<1>2. /\ edit' \in [Editors -> EditRequest]
      /\ \A o \in Editors : WellFormedEdit(edit'[o])
      /\ edit'[e].kind = "none" /\ ~ edit'[e].cover
      /\ \A o \in Editors \ {e} : edit'[o] = edit[o]
      /\ \A o \in Editors \ {e} : articleLock = o => articleLock' = o
  BY <1>1, SlotEnds
<1>3. /\ articleMedia' \in [Media -> {"none", "plain", "cover"}]
      /\ \A m \in Media : articleMedia[m] # "none" => articleMedia'[m] # "none"
  BY <1>1 DEF PartsInv, PartsTypes
<1>4. PartsTypes'
  BY <1>1, <1>2, <1>3 DEF PartsInv, PartsTypes
<1>5. TagsOK'
  BY <1>1, <1>2 DEF PartsInv, TagsOK, KnowsTags
<1>6. CoversOK'
  <2> SUFFICES ASSUME ~ fresh PROVE CoversOK'
    BY <1>1 DEF CoversOK
  <2>1. /\ \A m, n \in Covers : m = n
        /\ \A x, o \in Editors : edit[x].cover /\ edit[o].cover /\ x # o =>
             /\ articleMedia[edit[x].medium] # "none"
             /\ edit[x].pc # "clear" => edit[o].medium \in edit[x].sees
        /\ \A x \in Editors : edit[x].cover /\ edit[x].pc # "clear" =>
             Covers \subseteq edit[x].sees
    BY DEF PartsInv, CoversOK
  <2>2. p.cover => Covers \subseteq p.sees
    BY <2>1, <1>1
  <2>3. p.cover => Covers' \subseteq {p.medium}
    BY <2>2, <1>1 DEF Covers
  <2>4. ~ p.cover => Covers' \subseteq Covers
    BY <1>1 DEF Covers
  <2>5. \A m, n \in Covers' : m = n
    BY <2>1, <2>3, <2>4
  <2>6. \A x \in Editors \ {e} : edit[x].cover => edit[x].medium \in Media
    BY DEF PartsInv, PartsTypes, WellFormedEdit
  <2>7. \A x, o \in Editors : edit'[x].cover /\ edit'[o].cover /\ x # o =>
          /\ articleMedia'[edit'[x].medium] # "none"
          /\ edit'[x].pc # "clear" => edit'[o].medium \in edit'[x].sees
    BY <2>1, <2>6, <1>2, <1>3
  <2>8. ASSUME NEW x \in Editors, edit'[x].cover, edit'[x].pc # "clear"
        PROVE  Covers' \subseteq edit'[x].sees
    <3>1. x # e /\ edit'[x] = edit[x] /\ edit[x].cover /\ edit[x].pc # "clear"
      BY <2>8, <1>2
    <3>2. Covers \subseteq edit[x].sees /\ (p.cover => p.medium \in edit[x].sees)
      BY <2>1, <3>1
    <3>3. QED
      BY <2>3, <2>4, <3>1, <3>2
  <2>9. QED
    BY <2>5, <2>7, <2>8 DEF CoversOK
<1>7. QED
  BY <1>4, <1>5, <1>6 DEF PartsInv

LEMMA PartsStepInv == PartsInv /\ [PartsNext]_partVars => PartsInv'
<1> SUFFICES ASSUME PartsInv, [PartsNext]_partVars PROVE PartsInv'
  OBVIOUS
<1>1. ASSUME NEW e \in Editors, CommitEdit(e)
      PROVE  PartsInv'
  BY <1>1, CommitTagsInv, CommitMediaInv DEF CommitEdit
<1>2. CASE PartsNext
  BY <1>1, <1>2, BeginUpdateTagsInv, BeginAttachInv, UpdateColumnsInv, DeleteTagsInv,
     DeletedTagsInv, InsertTagInv, TagsInsertedInv, ClearCoversInv, ClearedCoversInv,
     UpsertMediaInv, DeadlockVictimInv
  DEF PartsNext, ServeEdit
<1>3. CASE UNCHANGED partVars
  BY <1>3 DEF partVars, rows, partHistory, PartsInv, PartsTypes, TagsOK, KnowsTags,
              CoversOK, Covers
<1>4. QED
  BY <1>2, <1>3

LEMMA PartsInvariant == SupportSpec => []PartsInv
<1>1. SupportInit => PartsInv
  BY PartsInitInv DEF SupportInit
<1>2. PartsInv /\ [SupportNext]_supportVars => PartsInv'
  BY PartsStepInv DEF SupportNext, supportVars, partVars
<1>3. QED
  BY <1>1, <1>2, PTL DEF SupportSpec

\* The article has the tags of the last request that gave some, however many replace
\* them at once, unless one of them locks nothing: the lock that the others take with
\* the columns makes each see what the one before has left (replaceTags).
THEOREM LastUpdateGivesTags == SupportSpec => []TagsOfLastUpdate
<1>1. PartsInv => TagsOfLastUpdate
  BY DEF PartsInv, TagsOK, TagsOfLastUpdate
<1>2. QED
  BY <1>1, PartsInvariant, PTL

\* Requests for a cover that find each other's media attached leave one cover,
\* whatever number of them overlap (attachMedia).
THEOREM OverlapLeavesOneCover == SupportSpec => []OneCover
<1>1. PartsInv => OneCover
  BY CoversAreOne DEF PartsInv, CoversOK, OneCover, Covers
<1>2. QED
  BY <1>1, PartsInvariant, PTL
=============================================================================
