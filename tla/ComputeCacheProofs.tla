------------------------- MODULE ComputeCacheProofs -------------------------
(***************************************************************************)
(* Theorems about ComputeCache, for any number of requests, any timeouts   *)
(* and any number of data versions.                                        *)
(***************************************************************************)
EXTENDS ComputeCache, FiniteSetTheorems, TLAPS

-----------------------------------------------------------------------------
(* Every variable keeps its type.                                          *)
LEMMA InitType == Init => TypeOK
<1> SUFFICES ASSUME Init PROVE TypeOK
  OBVIOUS
<1>1. entry \in [Keys -> Value]
  <2>1. PICK v \in LegacyEntries : entry = [k \in Keys |-> IF k = "legacy" THEN v ELSE None]
    BY DEF Init
  <2>2. v \in Value
    BY LegacyAssumption, VersionAssumption DEF Value, Versions
  <2>3. QED
    BY <2>1, <2>2 DEF Value
<1>2. 0 \in Versions /\ 0 \in 0 .. LockTimeout + MaxHold
  BY TimeAssumption, VersionAssumption DEF Versions
<1>3. QED
  <2>1. val \in [Requests -> Value]
    BY <1>2 DEF Init, Value
  <2>2. left \in [Requests -> 0 .. LockTimeout + MaxHold] /\ lockTtl \in 0 .. LockTimeout
    BY <1>2, TimeAssumption DEF Init
  <2>3. QED
    BY <1>1, <1>2, <2>1, <2>2 DEF Init, TypeOK

LEMMA NextType == TypeOK /\ [Next]_vars => TypeOK'
<1> SUFFICES ASSUME TypeOK, [Next]_vars PROVE TypeOK'
  OBVIOUS
<1> USE TimeAssumption, VersionAssumption
    DEF TypeOK, Keys, Versions, Value, Holding, Released, Return, Leave
<1>a. 0 \in Versions /\ 0 \in 0 .. LockTimeout + MaxHold /\ None \in Value
  OBVIOUS
<1>l. large' \in Large
  BY DEF Next, vars
<1>b. ASSUME NEW r \in Requests, NEW at, NEW k \in Keys,
             NEW next \in {"readLegacy", "lock"}, Read(r, at, k, next)
      PROVE  TypeOK'
  <2>1. calm' \in BOOLEAN
    BY <1>l, <1>b DEF Read
  <2>2. QED
    BY <1>l, <1>a, <1>b, <2>1 DEF Read
<1>1. ASSUME NEW r \in Requests, Begin(r) PROVE TypeOK'
  <2>1. calm' \in BOOLEAN /\ slow' \in BOOLEAN
    BY <1>1 DEF Begin
  <2>2. QED
    BY <1>l, <1>1, <2>1 DEF Begin
<1>2. ASSUME NEW r \in Requests, ReadNew(r) PROVE TypeOK'
  BY <1>l, <1>2, <1>b DEF ReadNew
<1>3. ASSUME NEW r \in Requests, ReadLegacy(r) PROVE TypeOK'
  BY <1>l, <1>3, <1>b DEF ReadLegacy
<1>3a. ASSUME NEW r \in Requests, WithoutRedis(r) PROVE TypeOK'
  <2>1. left' \in [Requests -> 0 .. LockTimeout + MaxHold]
    BY <1>3a DEF WithoutRedis
  <2>2. QED
    BY <1>l, <1>3a, <2>1 DEF WithoutRedis
<1>3b. ASSUME NEW r \in Requests, ComputeBare(r) PROVE TypeOK'
  BY <1>l, <1>3b, <1>a DEF ComputeBare
<1>4. ASSUME NEW r \in Requests, TryLock(r) PROVE TypeOK'
  <2>1. calm' \in BOOLEAN
    BY <1>l, <1>4 DEF TryLock
  <2>2. lock' \in Requests \cup {Nobody} /\ lockTtl' \in 0 .. LockTimeout
    BY <1>l, <1>4 DEF TryLock
  <2>3. left' \in [Requests -> 0 .. LockTimeout + MaxHold]
    BY <1>l, <1>4 DEF TryLock
  <2>4. val' \in [Requests -> Value]
    BY <1>l, <1>4, <1>a DEF TryLock
  <2>5. QED
    BY <1>l, <1>4, <2>1, <2>2, <2>3, <2>4 DEF TryLock
<1>5. ASSUME NEW r \in Requests, Poll(r) PROVE TypeOK'
  BY <1>l, <1>5 DEF Poll
<1>6. ASSUME NEW r \in Requests, GiveUpWaiting(r) PROVE TypeOK'
  BY <1>l, <1>6 DEF GiveUpWaiting
<1>7. ASSUME NEW r \in Requests, Compute(r) PROVE TypeOK'
  BY <1>l, <1>7 DEF Compute
<1>8. ASSUME NEW r \in Requests, Write(r) PROVE TypeOK'
  BY <1>l, <1>8 DEF Write
<1>9. ASSUME NEW r \in Requests, Unlock(r) PROVE TypeOK'
  <2>1. calm' \in BOOLEAN
    BY <1>l, <1>9 DEF Unlock
  <2>2. left' \in [Requests -> 0 .. LockTimeout + MaxHold]
    BY <1>l, <1>9, <1>a DEF Unlock
  <2>3. QED
    BY <1>l, <1>9, <1>a, <2>1, <2>2 DEF Unlock
<1>10. ASSUME NEW r \in Requests, Crash(r) PROVE TypeOK'
  BY <1>l, <1>a, <1>10 DEF Crash
<1>11. ASSUME NEW k \in Keys, Expire(k) PROVE TypeOK'
  BY <1>l, <1>11 DEF Expire
<1>12. CASE ImportData
  BY <1>l, <1>12 DEF ImportData
<1>13. CASE InvalidateNew
  BY <1>l, <1>13 DEF InvalidateNew
<1>13a. CASE InvalidateLegacy
  BY <1>l, <1>13a DEF InvalidateLegacy
<1>14. CASE AdminInvalidate
  BY <1>l, <1>14 DEF AdminInvalidate
<1>15. CASE Tick
  <2>1. left' \in [Requests -> 0 .. LockTimeout + MaxHold]
    BY <1>l, <1>15 DEF Tick
  <2>2. lockTtl' \in 0 .. LockTimeout /\ lock' \in Requests \cup {Nobody}
    BY <1>l, <1>15 DEF Tick
  <2>3. calm' \in BOOLEAN /\ slow' \in BOOLEAN
    BY <1>15 DEF Tick
  <2>4. QED
    BY <1>l, <1>15, <2>1, <2>2, <2>3 DEF Tick
<1>16. CASE UNCHANGED vars
  BY <1>l, <1>16 DEF vars, moving
<1>17. QED
  BY <1>1, <1>2, <1>3, <1>4, <1>5, <1>6, <1>7, <1>8, <1>9, <1>10, <1>11,
     <1>3a, <1>3b, <1>12, <1>13, <1>13a, <1>14, <1>15, <1>16 DEF Next, Step

\* TypeOK: every variable of the cache model keeps its type.
THEOREM TypeCorrect == Spec => []TypeOK
  BY InitType, NextType, PTL DEF Spec

-----------------------------------------------------------------------------
(* Freshness.  An entry can only be written by a request that has read the *)
(* data since the last invalidation, or before it; the latter is what      *)
(* "spoilt" records.                                                   *)
FreshInv == /\ floor <= source
            /\ \A r \in Computing : val[r] \in Versions
            /\ ~spoilt => \A r \in Computing : val[r] >= floor
            /\ ~spoilt /\ entry["sgp"] # None => entry["sgp"] >= floor
            /\ FreshUnlessSpoilt
            /\ clearing => ~calm

LEMMA InitFresh == Init => FreshInv
  BY LegacyAssumption, VersionAssumption
  DEF Init, FreshInv, FreshUnlessSpoilt, Computing, Keys, Versions

LEMMA NextFresh == TypeOK /\ FreshInv /\ [Next]_vars => FreshInv'
<1> SUFFICES ASSUME TypeOK, FreshInv, [Next]_vars PROVE FreshInv'
  OBVIOUS
<1> USE VersionAssumption
    DEF TypeOK, FreshInv, FreshUnlessSpoilt, Computing, Versions, Value
<1>1. ASSUME NEW r \in Requests, Begin(r) PROVE FreshInv'
  BY <1>1 DEF Begin, Quiet
<1>2. ASSUME NEW r \in Requests, ReadNew(r) PROVE FreshInv'
  BY <1>2 DEF ReadNew, Read, Return, Leave
<1>3. ASSUME NEW r \in Requests, ReadLegacy(r) PROVE FreshInv'
  BY <1>3 DEF ReadLegacy, Read, Return, Leave
<1>3a. ASSUME NEW r \in Requests, WithoutRedis(r) PROVE FreshInv'
  BY <1>3a DEF WithoutRedis
<1>3b. ASSUME NEW r \in Requests, ComputeBare(r) PROVE FreshInv'
  BY <1>3b DEF ComputeBare, Return, Leave
<1>4. ASSUME NEW r \in Requests, TryLock(r) PROVE FreshInv'
  BY <1>4 DEF TryLock, Return, Leave
<1>5. ASSUME NEW r \in Requests, Poll(r) PROVE FreshInv'
  BY <1>5 DEF Poll, Return, Leave
<1>6. ASSUME NEW r \in Requests, GiveUpWaiting(r) PROVE FreshInv'
  BY <1>6 DEF GiveUpWaiting
<1>7. ASSUME NEW r \in Requests, Compute(r) PROVE FreshInv'
  BY <1>7 DEF Compute
<1>8. ASSUME NEW r \in Requests, Write(r) PROVE FreshInv'
  BY <1>8 DEF Write, Keys
<1>9. ASSUME NEW r \in Requests, Unlock(r) PROVE FreshInv'
  BY <1>9 DEF Unlock, Return, Leave
<1>10. ASSUME NEW r \in Requests, Crash(r) PROVE FreshInv'
  BY <1>10 DEF Crash, Leave
<1>11. ASSUME NEW k \in Keys, Expire(k) PROVE FreshInv'
  BY <1>11 DEF Expire
<1>12. CASE ImportData
  BY <1>12 DEF ImportData
<1>13. CASE InvalidateNew
  <2>1. CASE /\ entry' = [entry EXCEPT !["sgp"] = None]
             /\ spoilt' = \E r \in Computing : val[r] # source
    <3>1. ~spoilt' => \A r \in Computing : val[r] = source
      BY <2>1
    <3>2. QED
      BY <1>13, <2>1, <3>1 DEF InvalidateNew, Keys
  <2>2. CASE spoilt' = TRUE /\ UNCHANGED entry
    BY <1>13, <2>2 DEF InvalidateNew
  <2>3. QED
    BY <1>13, <2>1, <2>2 DEF InvalidateNew
<1>13a. CASE InvalidateLegacy
  BY <1>13a DEF InvalidateLegacy, Keys
<1>14. CASE AdminInvalidate
  BY <1>14 DEF AdminInvalidate, Keys
<1>15. CASE Tick
  BY <1>15 DEF Tick
<1>16. CASE UNCHANGED vars
  BY <1>16 DEF vars, moving
<1>17. QED
  BY <1>1, <1>2, <1>3, <1>4, <1>5, <1>6, <1>7, <1>8, <1>9, <1>10, <1>11,
     <1>3a, <1>3b, <1>12, <1>13, <1>13a, <1>14, <1>15, <1>16 DEF Next, Step

\* FreshUnlessSpoilt: an invalidation that meets no computation on older
\* data is final, however requests, expiries and crashes follow it.
THEOREM InvalidationIsFinal == Spec => []FreshUnlessSpoilt
<1>1. TypeOK /\ FreshInv /\ [Next]_vars => (TypeOK /\ FreshInv)'
  BY NextType, NextFresh
<1>2. FreshInv => FreshUnlessSpoilt
  BY DEF FreshInv
<1>3. QED
  BY InitType, InitFresh, <1>1, <1>2, PTL DEF Spec

-----------------------------------------------------------------------------
(* Single flight.  While a computation is younger than the lock, the two    *)
(* count down together.  A waiter outlives the lock it waits for, for it    *)
(* was set no later; and once the holder has written, the next poll finds   *)
(* the value before the waiter's time can run out.                         *)
Served == \E k \in Keys : Readable(k)

HolderIsCovered == \A r \in Requests : pc[r] \in Holding =>
                       lock = r /\ lockTtl + MaxHold = LockTimeout + left[r]

LockIsUsed == lock # Nobody => pc[lock] \in Holding /\ lockTtl > 0

WaiterOutlivesLock ==
    \A r \in Requests : pc[r] = "wait" =>
        /\ left[r] > 0
        /\ Served \/ (lock # Nobody /\ pc[lock] # "unlock" /\ left[r] >= lockTtl)

WrittenBeforeUnlock == \A r \in Requests : pc[r] = "unlock" => Served

Smooth == calm /\ ~slow /\ ~large

Flight == Smooth => /\ HolderIsCovered
                    /\ LockIsUsed
                    /\ WaiterOutlivesLock
                    /\ WrittenBeforeUnlock

LEMMA InitFlight == Init => Flight
  BY DEF Init, Flight, HolderIsCovered, LockIsUsed, WaiterOutlivesLock,
         WrittenBeforeUnlock, Holding

LEMMA NextFlight ==
  ASSUME TypeOK, FreshInv, Flight, [Next]_vars
  PROVE  Flight'
<1> USE TimeAssumption, VersionAssumption, NobodyAssumption
    DEF TypeOK, Versions, Value, Holding
<1> DEFINE Parts == HolderIsCovered' /\ LockIsUsed' /\ WaiterOutlivesLock'
                    /\ WrittenBeforeUnlock'
<1> SUFFICES ASSUME Smooth' PROVE Parts
  BY DEF Flight
<1>l. ~large /\ ~large' /\ calm' /\ ~slow'
  BY DEF Smooth, Next, vars
<1> USE DEF HolderIsCovered, LockIsUsed, WaiterOutlivesLock, WrittenBeforeUnlock
<1>c. ASSUME entry' = entry PROVE Served' <=> Served
  BY <1>c, <1>l DEF Served, Readable
<1>1. ASSUME NEW r \in Requests, Begin(r) PROVE Parts
  <2>1. CASE Quiet
    BY <1>1, <2>1 DEF Begin, Quiet
  <2>2. CASE ~Quiet
    <3>1. Smooth
      BY <1>1, <1>l, <2>2 DEF Begin, Smooth
    <3>2. HolderIsCovered /\ LockIsUsed /\ WaiterOutlivesLock /\ WrittenBeforeUnlock
      BY <3>1 DEF Flight
    <3>3. QED
      BY <1>1, <1>c, <3>2 DEF Begin
  <2>3. QED
    BY <2>1, <2>2
<1>n. SUFFICES ASSUME ~\E r \in Requests : Begin(r) PROVE Parts
  BY <1>1
<1>a. Smooth
  BY <1>l, <1>n DEF Smooth, Next, Step, ReadNew, ReadLegacy, Read, TryLock, Poll,
         GiveUpWaiting, WithoutRedis, ComputeBare, Compute, Write, Unlock, Crash, Expire,
         ImportData, InvalidateNew, InvalidateLegacy, AdminInvalidate, Tick, vars, moving
<1>b. HolderIsCovered /\ LockIsUsed /\ WaiterOutlivesLock /\ WrittenBeforeUnlock
  BY <1>a DEF Flight
<1>2. ASSUME NEW r \in Requests, ReadNew(r) PROVE Parts
  BY <1>2, <1>b, <1>c, ZenonT(60) DEF ReadNew, Read, Return, Leave
<1>3. ASSUME NEW r \in Requests, ReadLegacy(r) PROVE Parts
  BY <1>3, <1>b, <1>c, ZenonT(60) DEF ReadLegacy, Read, Return, Leave
<1>3a. ASSUME NEW r \in Requests, WithoutRedis(r) PROVE Parts
  BY <1>3a, <1>l DEF WithoutRedis
<1>3b. ASSUME NEW r \in Requests, ComputeBare(r) PROVE Parts
  BY <1>3b, <1>b, <1>c DEF ComputeBare, Return, Leave
<1>4. ASSUME NEW r \in Requests, TryLock(r) PROVE Parts
  <2>1. CASE lock = Nobody
    BY <1>4, <1>b, <1>c, <1>l, <2>1 DEF TryLock
  <2>2. CASE lock # Nobody
    <3>1. /\ pc' = [pc EXCEPT ![r] = "wait"]
          /\ left' = [left EXCEPT ![r] = LockTimeout]
          /\ UNCHANGED <<entry, lock, lockTtl>>
      BY <1>4, <1>l, <2>2 DEF TryLock
    <3>2. pc[r] = "lock" /\ lock # r
      BY <1>4, <1>b, <2>2 DEF TryLock
    <3>3. pc[lock] \in Holding /\ lockTtl <= LockTimeout
      BY <1>b, <2>2
    <3>4. QED
      BY <1>b, <1>c, <2>2, <3>1, <3>2, <3>3
  <2>3. QED
    BY <2>1, <2>2
<1>5. ASSUME NEW r \in Requests, Poll(r) PROVE Parts
  BY <1>5, <1>b, <1>c DEF Poll, Return, Leave
<1>6. ASSUME NEW r \in Requests, GiveUpWaiting(r) PROVE Parts
  BY <1>6, <1>b DEF GiveUpWaiting
<1>7. ASSUME NEW r \in Requests, Compute(r) PROVE Parts
  BY <1>7, <1>b, <1>c, <1>l DEF Compute
<1>8. ASSUME NEW r \in Requests, Write(r) PROVE Parts
  <2>1. entry' = [entry EXCEPT !["sgp"] = val[r]]
    BY <1>8, <1>l DEF Write
  <2>2. val[r] \in 0 .. MaxVersion
    BY <1>8 DEF FreshInv, Computing, Write
  <2>3. Served'
    BY <1>l, <2>1, <2>2 DEF Served, Readable, Keys
  <2>4. QED
    BY <1>8, <1>b, <2>3 DEF Write
<1>9. ASSUME NEW r \in Requests, Unlock(r) PROVE Parts
  <2>1. Served /\ lock = r
    BY <1>9, <1>b DEF Unlock
  <2>2. Served'
    BY <1>9, <1>c, <2>1 DEF Unlock
  <2>3. QED
    BY <1>9, <1>b, <1>l, <2>1, <2>2 DEF Unlock, Released, Return, Leave
<1>10. ASSUME NEW r \in Requests, Crash(r) PROVE Parts
  BY <1>10, <1>l DEF Crash, Leave
<1>11. ASSUME NEW k \in Keys, Expire(k) PROVE Parts
  BY <1>11, <1>l DEF Expire
<1>12. CASE ImportData
  BY <1>12, <1>b, <1>c DEF ImportData
<1>13. CASE InvalidateNew
  BY <1>13, <1>l DEF InvalidateNew
<1>13a. CASE InvalidateLegacy
  BY <1>13a, <1>a, <1>l DEF InvalidateLegacy, FreshInv, Smooth
<1>14. CASE AdminInvalidate
  BY <1>14, <1>l DEF AdminInvalidate
<1>15. CASE Tick
  <2>1. left' = [r \in Requests |-> IF left[r] > 0 THEN left[r] - 1 ELSE 0]
    BY <1>15 DEF Tick
  <2>2. UNCHANGED pc /\ (Served' <=> Served)
    BY <1>15, <1>c DEF Tick
  <2>3. \A r \in Requests : pc[r] \in Holding =>
            /\ lock = r /\ lockTtl + MaxHold = LockTimeout + left[r]
            /\ left[r] > 0 /\ lockTtl > 1 /\ left'[r] = left[r] - 1
    <3>1. \A r \in Requests : pc[r] \in Holding => MaxHold - left[r] + 1 < LockTimeout
      BY <1>15, <1>l DEF Tick, Overdue
    <3>2. \A r \in Requests : pc[r] \in Holding => left[r] > 0
      BY <1>15 DEF Tick
    <3>3. QED
      BY <1>b, <2>1, <3>1, <3>2
  <2>4. HolderIsCovered' /\ LockIsUsed'
    BY <1>15, <1>b, <2>2, <2>3 DEF Tick, Released
  <2>5. ASSUME NEW r \in Requests, pc[r] = "wait"
        PROVE  left'[r] > 0 /\ lock' # Nobody /\ pc'[lock'] # "unlock" /\ left'[r] >= lockTtl'
    <3>1. ~Served
      BY <1>15, <1>l, <2>5 DEF Tick, MissedPoll, Served
    <3>2. lock # Nobody /\ pc[lock] \in {"compute", "write"} /\ left[r] >= lockTtl
      BY <1>b, <2>5, <3>1
    <3>3. lockTtl > 1
      BY <2>3, <3>2
    <3>4. lock' = lock /\ lockTtl' = lockTtl - 1
      BY <1>15, <3>3 DEF Tick
    <3>5. QED
      BY <2>1, <2>2, <3>2, <3>3, <3>4
  <2>6. QED
    BY <1>b, <2>2, <2>4, <2>5
<1>16. CASE UNCHANGED vars
  BY <1>16, <1>b, <1>c DEF vars, moving
<1>17. QED
  BY <1>1, <1>2, <1>3, <1>4, <1>5, <1>6, <1>7, <1>8, <1>9, <1>10, <1>11,
     <1>3a, <1>3b, <1>12, <1>13, <1>13a, <1>14, <1>15, <1>16 DEF Next, Step

LEMMA FlightGivesOne == TypeOK /\ Flight => OneComputes
<1> SUFFICES ASSUME TypeOK, Flight, Smooth PROVE Cardinality(Computing) <= 1
  BY DEF OneComputes, Smooth
<1>1. Computing \subseteq {lock}
  BY DEF Computing, Flight, HolderIsCovered, Holding
<1>2. IsFiniteSet({lock}) /\ Cardinality({lock}) = 1
  BY FS_Singleton
<1>3. QED
  BY <1>1, <1>2, FS_Subset

LEMMA FlightIsInvariant == Spec => [](TypeOK /\ Flight)
<1>1. Init => TypeOK /\ FreshInv /\ Flight
  BY InitType, InitFresh, InitFlight
<1>2. TypeOK /\ FreshInv /\ Flight /\ [Next]_vars => (TypeOK /\ FreshInv /\ Flight)'
  BY NextType, NextFresh, NextFlight
<1>3. QED
  BY <1>1, <1>2, PTL DEF Spec

\* OneComputes, whatever the lifetimes of lock, wait and computation are: two
\* requests compute at once only after a failure, a crash, an eviction or a
\* computation that outlasted the lock, or when the value cannot be read back.
THEOREM SingleFlight == Spec => []OneComputes
  BY FlightIsInvariant, FlightGivesOne, PTL

\* ComputingHoldsLock: in the same conditions whoever computes, writes or is
\* about to unlock is the owner of the lock, so its DEL deletes its own lock.
THEOREM HolderKeepsLock == Spec => []ComputingHoldsLock
<1>1. Flight => ComputingHoldsLock
  BY DEF Flight, Smooth, HolderIsCovered, ComputingHoldsLock
<1>2. QED
  BY FlightIsInvariant, <1>1, PTL
=============================================================================
