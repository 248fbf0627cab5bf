---------------------------- MODULE DbPoolProofs ----------------------------
(***************************************************************************)
(* Theorems about DbPool, for any threads, connections and pool sizes.     *)
(***************************************************************************)
EXTENDS DbPool, FiniteSetTheorems, TLAPS

\* A caller has a connection from the return of acquire until release.
HeldByPlace ==
    \A t \in Threads : (held[t] # NoConn) <=> pc[t] \in {"holding", "release", "stuck"}

\* No connection is in two slots or with two callers, and one that is with a
\* caller and in a slot is in use there.
ConnsApart ==
    /\ \A t, u \in Threads : held[t] = held[u] /\ held[t] # NoConn => t = u
    /\ \A i, j \in Slots : conn[i] = conn[j] /\ conn[i] # NoConn => i = j
    /\ \A t \in Threads, i \in Slots : held[t] = conn[i] /\ held[t] # NoConn => used[i]

SlotsInPool ==
    \A i \in Slots : /\ i > size => conn[i] = NoConn /\ ~used[i]
                     /\ used[i] => conn[i] # NoConn /\ \E t \in Threads : held[t] = conn[i]

HeldHasSlot ==
    ~shut => \A t \in Threads : held[t] # NoConn => \E i \in Slots : conn[i] = held[t]

SlotInv == TypeOK /\ HeldByPlace /\ ConnsApart /\ SlotsInPool /\ HeldHasSlot

-----------------------------------------------------------------------------
(* Initial states                                                          *)

LEMMA SlotsAreNat == /\ Slots \subseteq Nat \ {0} /\ MaxConns \in Nat
                     /\ \A i \in Slots : i <= MaxConns
                     /\ \A n \in 0 .. MaxConns : n < MaxConns => n + 1 \in Slots
BY SizeAssumption DEF Slots

LEMMA InitInv == Init => SlotInv
<1> SUFFICES ASSUME Init PROVE SlotInv
  OBVIOUS
<1>1. size \in 0 .. MaxConns
  BY SizeAssumption DEF Init
<1>2. TypeOK
  <2>1. /\ used \in [Slots -> BOOLEAN] /\ alive \in [Slots -> BOOLEAN] /\ old \in [Slots -> BOOLEAN]
        /\ pc \in [Threads -> {"out", "acquire", "waiting", "woken", "holding", "release", "stuck"}]
    BY DEF Init
  <2>2. held \in [Threads -> Pointer]
    BY DEF Init, Pointer
  <2>3. conn \in [Slots -> Pointer] /\ shut \in BOOLEAN /\ calm \in BOOLEAN /\ mutex = Nobody
    BY DEF Init
  <2>4. QED BY <1>1, <2>1, <2>2, <2>3 DEF TypeOK
<1>3. HeldByPlace /\ HeldHasSlot
  BY DEF Init, HeldByPlace, HeldHasSlot
<1>4. ConnsApart
  <2>1. \A i, j \in Slots : conn[i] = conn[j] /\ conn[i] # NoConn => i = j
    <3> SUFFICES ASSUME NEW i \in Slots, NEW j \in Slots, conn[i] = conn[j], conn[i] # NoConn
                 PROVE  i = j
      OBVIOUS
    <3>1. i \in 1 .. size /\ j \in 1 .. size
      BY <1>1, SlotsAreNat DEF Init
    <3>2. QED BY <3>1 DEF Init
  <2>2. QED BY <2>1 DEF Init, ConnsApart
<1>5. SlotsInPool
  BY <1>1, SlotsAreNat DEF Init, SlotsInPool
<1>6. QED BY <1>2, <1>3, <1>4, <1>5 DEF SlotInv

-----------------------------------------------------------------------------
(* acquire                                                                 *)

\* However acquire finds a connection, handing it out keeps the slots right.
LEMMA HandInv ==
    ASSUME SlotInv, NEW t \in Threads, NEW i \in Slots, NEW c \in Conns,
           Hand(t, i, c), pc[t] \in {"acquire", "woken"}, ~used[i],
           Fresh(c) \/ c = conn[i],
           size' \in 0 .. MaxConns, size' >= size, i <= size',
           alive' \in [Slots -> BOOLEAN], old' \in [Slots -> BOOLEAN],
           calm' \in BOOLEAN, UNCHANGED <<shut, mutex>>
    PROVE  SlotInv'
<1> USE DEF SlotInv
<1>1. /\ conn' = [conn EXCEPT ![i] = c] /\ used' = [used EXCEPT ![i] = TRUE]
      /\ held' = [held EXCEPT ![t] = c] /\ pc' = [pc EXCEPT ![t] = "holding"]
  BY DEF Hand
<1>2. c # NoConn /\ held[t] = NoConn
  BY NameAssumption DEF HeldByPlace
<1>3. /\ \A u \in Threads : held[u] # c
      /\ \A j \in Slots : j # i => conn[j] # c
  <2>1. CASE Fresh(c)
    BY <2>1 DEF Fresh
  <2>2. CASE c = conn[i]
    BY <2>2, <1>2 DEF ConnsApart
  <2>3. QED BY <2>1, <2>2
<1>4. TypeOK'
  BY <1>1 DEF TypeOK, Pointer
<1>5. HeldByPlace'
  BY <1>1, <1>2 DEF HeldByPlace, TypeOK
<1>6. ConnsApart'
  <2>1. \A u, v \in Threads : held'[u] = held'[v] /\ held'[u] # NoConn => u = v
    BY <1>1, <1>3 DEF ConnsApart, TypeOK
  <2>2. \A j, k \in Slots : conn'[j] = conn'[k] /\ conn'[j] # NoConn => j = k
    BY <1>1, <1>3 DEF ConnsApart, TypeOK
  <2>3. \A u \in Threads, j \in Slots : held'[u] = conn'[j] /\ held'[u] # NoConn => used'[j]
    BY <1>1, <1>3 DEF ConnsApart, TypeOK
  <2>4. QED BY <2>1, <2>2, <2>3 DEF ConnsApart
<1>7. SlotsInPool'
  <2> SUFFICES ASSUME NEW j \in Slots
               PROVE  /\ j > size' => conn'[j] = NoConn /\ ~used'[j]
                      /\ used'[j] => conn'[j] # NoConn /\ \E u \in Threads : held'[u] = conn'[j]
    BY DEF SlotsInPool
  <2>1. CASE j = i
    BY <2>1, <1>1, <1>2, SlotsAreNat DEF TypeOK
  <2>2. CASE j # i
    <3>1. conn'[j] = conn[j] /\ used'[j] = used[j]
      BY <2>2, <1>1 DEF TypeOK
    <3>2. j > size' => j > size
      BY SlotsAreNat DEF TypeOK
    <3>3. ASSUME used[j] PROVE \E u \in Threads : held'[u] = conn[j]
      <4>1. PICK u \in Threads : held[u] = conn[j] /\ conn[j] # NoConn
        BY <3>3 DEF SlotsInPool
      <4>2. u # t
        BY <4>1, <1>2
      <4>3. QED BY <4>1, <4>2, <1>1 DEF TypeOK
    <3>4. QED BY <3>1, <3>2, <3>3 DEF SlotsInPool
  <2>3. QED BY <2>1, <2>2
<1>8. HeldHasSlot'
  <2> SUFFICES ASSUME ~shut, NEW u \in Threads, held'[u] # NoConn
               PROVE  \E j \in Slots : conn'[j] = held'[u]
    BY DEF HeldHasSlot
  <2>1. CASE u = t
    BY <2>1, <1>1 DEF TypeOK
  <2>2. CASE u # t
    <3>1. held'[u] = held[u]
      BY <2>2, <1>1 DEF TypeOK
    <3>2. PICK j \in Slots : conn[j] = held[u]
      BY <3>1 DEF HeldHasSlot
    <3>3. j # i
      BY <3>1, <3>2 DEF ConnsApart
    <3>4. QED BY <3>1, <3>2, <3>3, <1>1 DEF TypeOK
  <2>3. QED BY <2>1, <2>2
<1>9. QED BY <1>4, <1>5, <1>6, <1>7, <1>8

LEMMA TakeIdleInv ==
    ASSUME SlotInv, NEW t \in Threads, NEW i \in Slots, TakeIdle(t, i) PROVE SlotInv'
<1>1. i \in Idle /\ conn[i] \in Conns
  BY DEF TakeIdle, Broken, SlotInv, TypeOK, Pointer
<1>2. i <= size /\ ~used[i] /\ size \in 0 .. MaxConns
  BY <1>1, SlotsAreNat DEF Idle, SlotInv, TypeOK
<1>3. size' = size /\ calm' \in BOOLEAN
  BY DEF TakeIdle, SlotInv, TypeOK
<1>4. Hand(t, i, conn[i]) /\ pc[t] \in {"acquire", "woken"}
  BY DEF TakeIdle, InLoop
<1>5. alive' \in [Slots -> BOOLEAN] /\ old' \in [Slots -> BOOLEAN] /\ UNCHANGED <<shut, mutex>>
  BY DEF TakeIdle, SlotInv, TypeOK
<1>6. size' >= size /\ i <= size' /\ size' \in 0 .. MaxConns
  BY <1>2, <1>3
<1>7. QED BY <1>1, <1>2, <1>3, <1>4, <1>5, <1>6, HandInv

LEMMA TakeReplacedInv ==
    ASSUME SlotInv, NEW t \in Threads, NEW i \in Slots, TakeReplaced(t, i) PROVE SlotInv'
<1>1. PICK c \in Conns : Fresh(c) /\ Hand(t, i, c)
  BY DEF TakeReplaced
<1>2. i <= size /\ ~used[i] /\ size \in 0 .. MaxConns
  BY SlotsAreNat DEF TakeReplaced, Idle, SlotInv, TypeOK
<1>3. size' = size /\ calm' \in BOOLEAN /\ pc[t] \in {"acquire", "woken"}
  BY DEF TakeReplaced, InLoop, SlotInv, TypeOK
<1>4. alive' \in [Slots -> BOOLEAN] /\ old' \in [Slots -> BOOLEAN] /\ UNCHANGED <<shut, mutex>>
  BY DEF TakeReplaced, SlotInv, TypeOK
<1>5. size' >= size /\ i <= size' /\ size' \in 0 .. MaxConns
  BY <1>2, <1>3
<1>6. QED BY <1>1, <1>2, <1>3, <1>4, <1>5, HandInv

LEMMA GrowInv ==
    ASSUME SlotInv, NEW t \in Threads, Grow(t) PROVE SlotInv'
<1>1. PICK c \in Conns : Fresh(c) /\ Hand(t, size + 1, c)
  BY DEF Grow
<1>2. size \in 0 .. MaxConns /\ size < MaxConns /\ size + 1 \in Slots
  BY SlotsAreNat DEF Grow, SlotInv, TypeOK
<1>3. ~used[size + 1]
  BY <1>2 DEF SlotInv, SlotsInPool
<1>4. size' = size + 1 /\ calm' \in BOOLEAN /\ pc[t] \in {"acquire", "woken"}
  BY DEF Grow, InLoop, SlotInv, TypeOK
<1>5. alive' \in [Slots -> BOOLEAN] /\ old' \in [Slots -> BOOLEAN] /\ UNCHANGED <<shut, mutex>>
  BY DEF Grow, SlotInv, TypeOK
<1>6. size' >= size /\ size + 1 <= size' /\ size' \in 0 .. MaxConns
  BY <1>2, <1>4, SlotsAreNat
<1>7. QED BY <1>1, <1>2, <1>3, <1>4, <1>5, <1>6, HandInv

LEMMA ReplaceThrowsInv ==
    ASSUME SlotInv, NEW t \in Threads, NEW i \in Slots, ReplaceThrows(t, i) PROVE SlotInv'
<1> USE DEF SlotInv
<1>1. /\ conn' = [conn EXCEPT ![i] = NoConn] /\ alive' = [alive EXCEPT ![i] = FALSE]
      /\ pc' = [pc EXCEPT ![t] = "out"] /\ calm' = FALSE
      /\ UNCHANGED <<size, used, old, shut, mutex, held>>
  BY DEF ReplaceThrows
<1>2. ~used[i] /\ pc[t] \in {"acquire", "woken"}
  BY DEF ReplaceThrows, Idle, InLoop
<1>3. TypeOK'
  BY <1>1 DEF TypeOK, Pointer
<1>4. HeldByPlace'
  BY <1>1, <1>2 DEF HeldByPlace, TypeOK
<1>5. ConnsApart'
  BY <1>1 DEF ConnsApart, TypeOK
<1>6. SlotsInPool'
  BY <1>1, <1>2 DEF SlotsInPool, TypeOK
<1>7. HeldHasSlot'
  <2> SUFFICES ASSUME ~shut, NEW u \in Threads, held[u] # NoConn
               PROVE  \E j \in Slots : conn'[j] = held[u]
    BY <1>1 DEF HeldHasSlot
  <2>1. PICK j \in Slots : conn[j] = held[u]
    BY DEF HeldHasSlot
  <2>2. j # i
    BY <2>1, <1>2 DEF ConnsApart
  <2>3. QED BY <2>1, <2>2, <1>1 DEF TypeOK
<1>8. QED BY <1>3, <1>4, <1>5, <1>6, <1>7

-----------------------------------------------------------------------------
(* The other steps                                                         *)

\* The steps that move callers without touching slots or connections.
LEMMA MoveInv ==
    ASSUME SlotInv, UNCHANGED <<size, conn, used, shut, held>>,
           alive' \in [Slots -> BOOLEAN], old' \in [Slots -> BOOLEAN], calm' \in BOOLEAN,
           mutex' \in Threads \cup {Nobody},
           pc' \in [Threads -> {"out", "acquire", "waiting", "woken", "holding", "release", "stuck"}],
           \A t \in Threads : pc'[t] \in {"holding", "release", "stuck"}
                                  <=> pc[t] \in {"holding", "release", "stuck"}
    PROVE  SlotInv'
BY DEF SlotInv, TypeOK, HeldByPlace, ConnsApart, SlotsInPool, HeldHasSlot

\* A release finds at most one slot, and in it the caller's connection.
LEMMA MineIsOne ==
    ASSUME SlotInv, NEW t \in Threads, held[t] # NoConn
    PROVE  /\ Mine(t) \subseteq Slots
           /\ \A i, j \in Mine(t) : i = j
           /\ \A i \in Slots : i \in Mine(t) <=> conn[i] = held[t]
<1> USE DEF SlotInv
<1>1. Mine(t) \subseteq Slots
  BY SlotsAreNat, SizeAssumption DEF Mine, Slots, TypeOK
<1>2. \A i, j \in Mine(t) : i = j
  BY <1>1 DEF Mine, ConnsApart
<1>3. \A i \in Slots : i \in Mine(t) <=> conn[i] = held[t]
  <2> SUFFICES ASSUME NEW i \in Slots, conn[i] = held[t] PROVE used[i] /\ i \in 1 .. size
    BY DEF Mine
  <2>1. used[i]
    BY DEF ConnsApart
  <2>2. i \in 1 .. size
    BY <2>1, SlotsAreNat DEF SlotsInPool, TypeOK
  <2>3. QED BY <2>1, <2>2
<1>4. QED BY <1>1, <1>2, <1>3

LEMMA ReleaseInv ==
    ASSUME SlotInv, NEW t \in Threads, Release(t) PROVE SlotInv'
<1> USE DEF SlotInv
<1>1. /\ pc[t] = "release" /\ held[t] # NoConn /\ held' = [held EXCEPT ![t] = NoConn]
      /\ used' = [i \in Slots |-> used[i] /\ i \notin Mine(t)]
      /\ conn' = [i \in Slots |-> IF i \in Mine(t) /\ TooManyIdle THEN NoConn ELSE conn[i]]
      /\ alive' = [i \in Slots |-> alive[i] /\ ~(i \in Mine(t) /\ TooManyIdle)]
      /\ UNCHANGED <<size, old, shut, mutex, calm>>
  BY DEF Release, HeldByPlace
<1>2. /\ Mine(t) \subseteq Slots
      /\ \A i \in Slots : i \in Mine(t) <=> conn[i] = held[t]
  BY <1>1, MineIsOne
<1>3. \A u \in Threads \ {t} : held[u] # held[t]
  BY <1>1 DEF ConnsApart
<1>4. /\ pc' \in [Threads -> {"out", "acquire", "waiting", "woken", "holding", "release", "stuck"}]
      /\ pc'[t] = "out"
      /\ \A u \in Threads \ {t} : pc'[u] = pc[u] \/ (pc[u] = "waiting" /\ pc'[u] = "woken")
  <2>1. CASE pc' = [pc EXCEPT ![t] = "out"]
    BY <2>1 DEF TypeOK
  <2>2. ASSUME NEW u \in Sleeping, pc' = [pc EXCEPT ![t] = "out", ![u] = "woken"]
        PROVE  /\ pc' \in [Threads -> {"out", "acquire", "waiting", "woken", "holding", "release", "stuck"}]
               /\ pc'[t] = "out"
               /\ \A v \in Threads \ {t} : pc'[v] = pc[v] \/ (pc[v] = "waiting" /\ pc'[v] = "woken")
    <3>1. u \in Threads /\ pc[u] = "waiting" /\ u # t
      BY <1>1, <2>2 DEF Sleeping
    <3>2. QED BY <2>2, <3>1 DEF TypeOK
  <2>3. QED BY <2>1, <2>2 DEF Release, NotifyOne
<1>5. TypeOK'
  <2>1. conn' \in [Slots -> Pointer] /\ held' \in [Threads -> Pointer]
    BY <1>1 DEF TypeOK, Pointer
  <2>2. used' \in [Slots -> BOOLEAN] /\ alive' \in [Slots -> BOOLEAN]
    BY <1>1
  <2>3. QED BY <1>1, <1>4, <2>1, <2>2 DEF TypeOK
<1>6. HeldByPlace'
  <2> SUFFICES ASSUME NEW u \in Threads
               PROVE  (held'[u] # NoConn) <=> pc'[u] \in {"holding", "release", "stuck"}
    BY DEF HeldByPlace
  <2>1. CASE u = t
    BY <2>1, <1>1, <1>4 DEF TypeOK
  <2>2. CASE u # t
    <3>1. held'[u] = held[u]
      BY <2>2, <1>1 DEF TypeOK
    <3>2. QED BY <2>2, <3>1, <1>4 DEF HeldByPlace
  <2>3. QED BY <2>1, <2>2
<1>7. ConnsApart'
  <2>1. \A u, v \in Threads : held'[u] = held'[v] /\ held'[u] # NoConn => u = v
    BY <1>1 DEF ConnsApart, TypeOK
  <2>2. \A i, j \in Slots : conn'[i] = conn'[j] /\ conn'[i] # NoConn => i = j
    BY <1>1 DEF ConnsApart, TypeOK
  <2>3. ASSUME NEW u \in Threads, NEW i \in Slots, held'[u] = conn'[i], held'[u] # NoConn
        PROVE  used'[i]
    <3>1. u # t /\ held'[u] = held[u] /\ conn'[i] = conn[i]
      BY <2>3, <1>1 DEF TypeOK
    <3>2. i \notin Mine(t)
      BY <2>3, <3>1, <1>2, <1>3
    <3>3. QED BY <2>3, <3>1, <3>2, <1>1 DEF ConnsApart
  <2>4. QED BY <2>1, <2>2, <2>3 DEF ConnsApart
<1>8. SlotsInPool'
  <2> SUFFICES ASSUME NEW j \in Slots
               PROVE  /\ j > size => conn'[j] = NoConn /\ ~used'[j]
                      /\ used'[j] => conn'[j] # NoConn /\ \E u \in Threads : held'[u] = conn'[j]
    BY <1>1 DEF SlotsInPool
  <2>1. j > size => conn'[j] = NoConn /\ ~used'[j]
    BY <1>1 DEF SlotsInPool
  <2>2. ASSUME used'[j] PROVE conn'[j] # NoConn /\ \E u \in Threads : held'[u] = conn'[j]
    <3>1. used[j] /\ j \notin Mine(t) /\ conn'[j] = conn[j]
      BY <2>2, <1>1
    <3>2. PICK u \in Threads : held[u] = conn[j] /\ conn[j] # NoConn
      BY <3>1 DEF SlotsInPool
    <3>3. u # t
      BY <3>1, <3>2, <1>2
    <3>4. QED BY <3>1, <3>2, <3>3, <1>1 DEF TypeOK
  <2>3. QED BY <2>1, <2>2
<1>9. HeldHasSlot'
  <2> SUFFICES ASSUME ~shut, NEW u \in Threads, held'[u] # NoConn
               PROVE  \E j \in Slots : conn'[j] = held'[u]
    BY <1>1 DEF HeldHasSlot
  <2>1. u # t /\ held'[u] = held[u]
    BY <1>1 DEF TypeOK
  <2>2. PICK j \in Slots : conn[j] = held[u]
    BY <2>1 DEF HeldHasSlot
  <2>3. j \notin Mine(t)
    BY <2>1, <2>2, <1>2, <1>3
  <2>4. QED BY <2>1, <2>2, <2>3, <1>1
<1>10. QED BY <1>5, <1>6, <1>7, <1>8, <1>9

LEMMA HealthCheckInv == ASSUME SlotInv, HealthCheck PROVE SlotInv'
<1> USE DEF SlotInv
<1>1. PICK broken : broken = {i \in Idle : Broken(i)}
  OBVIOUS
<1>2. broken \subseteq Slots /\ \A i \in broken : ~used[i] /\ i <= size
  BY <1>1, SlotsAreNat, SizeAssumption DEF Idle, Slots, TypeOK
<1>3. PICK f \in [broken -> {c \in Pointer : c = NoConn \/ Fresh(c)}] :
         /\ \A i, j \in broken : f[i] = f[j] => i = j \/ f[i] = NoConn
         /\ conn' = [i \in Slots |-> IF i \in broken THEN f[i] ELSE conn[i]]
         /\ alive' = [i \in Slots |-> IF i \in broken THEN f[i] # NoConn ELSE alive[i]]
         /\ old' = [i \in Slots |-> old[i] /\ ~(i \in broken /\ f[i] # NoConn)]
  BY <1>1, SMTT(60) DEF HealthCheck
<1>4. UNCHANGED <<size, used, shut, mutex, pc, held, calm>>
  BY DEF HealthCheck
<1>5. \A i \in broken : f[i] \in Pointer /\ (f[i] # NoConn => Fresh(f[i]))
  BY <1>3
<1>6. TypeOK'
  <2>1. conn' \in [Slots -> Pointer]
    BY <1>3, <1>5 DEF TypeOK
  <2>2. alive' \in [Slots -> BOOLEAN] /\ old' \in [Slots -> BOOLEAN]
    <3>1. \A i \in Slots : alive[i] \in BOOLEAN /\ old[i] \in BOOLEAN
      BY DEF TypeOK
    <3>2. QED BY <1>3, <3>1
  <2>3. QED BY <1>4, <2>1, <2>2 DEF TypeOK
<1>7. HeldByPlace'
  BY <1>4 DEF HeldByPlace
<1>8. ConnsApart'
  <2>1. \A i, j \in Slots : conn'[i] = conn'[j] /\ conn'[i] # NoConn => i = j
    BY <1>3, <1>5 DEF ConnsApart, Fresh
  <2>2. \A t \in Threads, i \in Slots : held[t] = conn'[i] /\ held[t] # NoConn => used[i]
    BY <1>3, <1>5 DEF ConnsApart, Fresh
  <2>3. QED BY <1>4, <2>1, <2>2 DEF ConnsApart
<1>9. SlotsInPool'
  BY <1>2, <1>3, <1>4, SlotsAreNat DEF SlotsInPool, TypeOK
<1>10. HeldHasSlot'
  <2> SUFFICES ASSUME ~shut, NEW u \in Threads, held[u] # NoConn
               PROVE  \E j \in Slots : conn'[j] = held[u]
    BY <1>4 DEF HeldHasSlot
  <2>1. PICK j \in Slots : conn[j] = held[u]
    BY DEF HeldHasSlot
  <2>2. j \notin broken
    BY <2>1, <1>2 DEF ConnsApart
  <2>3. QED BY <2>1, <2>2, <1>3
<1>11. QED BY <1>6, <1>7, <1>8, <1>9, <1>10

LEMMA ShutdownInv == ASSUME SlotInv, Shutdown PROVE SlotInv'
<1> USE DEF SlotInv
<1>1. TypeOK'
  BY SizeAssumption DEF Shutdown, TypeOK, Pointer
<1>2. HeldByPlace' /\ ConnsApart' /\ HeldHasSlot'
  BY DEF Shutdown, HeldByPlace, ConnsApart, HeldHasSlot
<1>3. SlotsInPool'
  BY DEF Shutdown, SlotsInPool
<1>4. QED BY <1>1, <1>2, <1>3

LEMMA NextInv == SlotInv /\ [Next]_vars => SlotInv'
<1> SUFFICES ASSUME SlotInv, [Next]_vars PROVE SlotInv'
  OBVIOUS
<1> USE DEF slotVars
<1>1. ASSUME NEW t \in Threads, Call(t) PROVE SlotInv'
  BY <1>1, MoveInv DEF Call, SlotInv, TypeOK
<1>2. ASSUME NEW t \in Threads, Grow(t) PROVE SlotInv'
  BY <1>2, GrowInv
<1>3. ASSUME NEW t \in Threads, Sleep(t) PROVE SlotInv'
  BY <1>3, MoveInv DEF Sleep, InLoop, SlotInv, TypeOK
<1>4. ASSUME NEW t \in Threads, SpuriousWake(t) PROVE SlotInv'
  BY <1>4, MoveInv DEF SpuriousWake, SlotInv, TypeOK
<1>5. ASSUME NEW t \in Threads, TimeOut(t) PROVE SlotInv'
  BY <1>5, MoveInv DEF TimeOut, SlotInv, TypeOK
<1>6. ASSUME NEW t \in Threads, FinishQuery(t) PROVE SlotInv'
  BY <1>6, MoveInv DEF FinishQuery, SlotInv, TypeOK
<1>7. ASSUME NEW t \in Threads, MissingStatement(t) PROVE SlotInv'
  BY <1>7, MoveInv DEF MissingStatement, SlotInv, TypeOK
<1>8. ASSUME NEW t \in Threads, Release(t) PROVE SlotInv'
  BY <1>8, ReleaseInv
<1>9. ASSUME NEW t \in Threads, NEW i \in Slots,
             TakeIdle(t, i) \/ TakeReplaced(t, i) \/ ReplaceThrows(t, i)
      PROVE  SlotInv'
  BY <1>9, TakeIdleInv, TakeReplacedInv, ReplaceThrowsInv
<1>10. ASSUME NEW i \in Slots, Die(i) PROVE SlotInv'
  BY <1>10, MoveInv DEF Die, SlotInv, TypeOK
<1>11. ASSUME NEW i \in Slots, GrowOld(i) PROVE SlotInv'
  BY <1>11, MoveInv DEF GrowOld, SlotInv, TypeOK
<1>12. CASE HealthCheck
  BY <1>12, HealthCheckInv
<1>13. CASE Shutdown
  BY <1>13, ShutdownInv
<1>14. CASE UNCHANGED vars
  BY <1>14, MoveInv DEF vars, SlotInv, TypeOK
<1>15. QED
  BY <1>1, <1>2, <1>3, <1>4, <1>5, <1>6, <1>7, <1>8, <1>9, <1>10, <1>11, <1>12, <1>13, <1>14
     DEF Next

LEMMA Invariance == Spec => []SlotInv
BY InitInv, NextInv, PTL DEF Spec

-----------------------------------------------------------------------------
(* Theorems                                                                *)

\* Every variable keeps its type; in particular pool_ never has more than
\* max_connections slots.
THEOREM TypeCorrect == Spec => []TypeOK
<1>1. SlotInv => TypeOK
  BY DEF SlotInv
<1>2. QED BY <1>1, Invariance, PTL

\* No connection has two users, whatever fails, ages or is shut down.
THEOREM OneUser == Spec => []ExclusiveUse
<1>1. SlotInv => ExclusiveUse
  <2> SUFFICES ASSUME SlotInv PROVE ExclusiveUse
    OBVIOUS
  <2>1. Idle \subseteq Slots /\ \A i \in Idle : ~used[i]
    BY SizeAssumption DEF Idle, Slots, SlotInv, TypeOK
  <2>2. QED BY <2>1 DEF SlotInv, ConnsApart, ExclusiveUse
<1>2. QED BY <1>1, Invariance, PTL

\* No slot is in use without a user, and no user is without its slot.
THEOREM SlotsAgree == Spec => []SlotsMatchCallers
<1>1. SlotInv => SlotsMatchCallers
  <2> SUFFICES ASSUME SlotInv PROVE SlotsMatchCallers
    OBVIOUS
  <2>1. 1 .. size \subseteq Slots
    BY SizeAssumption DEF Slots, SlotInv, TypeOK
  <2>2. ASSUME ~shut, NEW t \in Threads, held[t] # NoConn PROVE Mine(t) # {}
    <3>1. PICK i \in Slots : conn[i] = held[t]
      BY <2>2 DEF SlotInv, HeldHasSlot
    <3>2. i \in Mine(t)
      BY <2>2, <3>1, MineIsOne
    <3>3. QED BY <3>2
  <2>3. QED BY <2>1, <2>2 DEF SlotsMatchCallers, SlotInv, SlotsInPool
<1>2. QED BY <1>1, Invariance, PTL

\* acquire, its replacements and the health check together keep at most
\* max_connections connections open.
THEOREM ConnectionsAreBounded == Spec => []BoundedConnections
<1>1. SlotInv => BoundedConnections
  <2> SUFFICES ASSUME SlotInv, ~shut
               PROVE  Cardinality({c \in Conns : ~Fresh(c)}) <= MaxConns
    BY DEF BoundedConnections
  <2>1. PICK S : S = {c \in Conns : ~Fresh(c)}
    OBVIOUS
  <2>2. \A c \in S : \E i \in Slots : conn[i] = c
    <3> SUFFICES ASSUME NEW c \in Conns, ~Fresh(c) PROVE \E i \in Slots : conn[i] = c
      BY <2>1
    <3>1. CASE \E i \in Slots : conn[i] = c
      BY <3>1
    <3>2. ASSUME NEW t \in Threads, held[t] = c PROVE \E i \in Slots : conn[i] = c
      BY <3>2, NameAssumption DEF SlotInv, HeldHasSlot
    <3>3. QED BY <3>1, <3>2 DEF Fresh
  <2>3. PICK f : f = [c \in S |-> CHOOSE i \in Slots : conn[i] = c]
    OBVIOUS
  <2>4. f \in [S -> Slots] /\ \A c \in S : conn[f[c]] = c
    BY <2>2, <2>3
  <2>5. f \in Injection(S, Slots)
    BY <2>4 DEF Injection, IsInjective
  <2>6. IsFiniteSet(Slots) /\ Cardinality(Slots) = MaxConns
    BY SizeAssumption, FS_Interval DEF Slots
  <2>7. Cardinality(S) <= Cardinality(Slots)
    BY <2>5, <2>6, FS_Injection
  <2>8. QED BY <2>1, <2>6, <2>7
<1>2. QED BY <1>1, Invariance, PTL

-----------------------------------------------------------------------------
(* Sleepers                                                                *)

LEMMA FiniteSets ==
    ASSUME SlotInv
    PROVE  /\ IsFiniteSet(Idle) /\ Cardinality(Idle) \in Nat
           /\ IsFiniteSet(Woken) /\ Cardinality(Woken) \in Nat
<1>1. Idle \in SUBSET Slots
  BY SizeAssumption DEF SlotInv, TypeOK, Idle, Slots
<1>2. IsFiniteSet(Slots)
  BY SizeAssumption, FS_Interval DEF Slots
<1>3. Woken \in SUBSET Threads
  BY DEF Woken
<1>4. IsFiniteSet(Idle) /\ IsFiniteSet(Woken)
  BY <1>1, <1>2, <1>3, ThreadsAssumption, FS_Subset
<1>5. QED BY <1>4, FS_CardinalityType

\* One element more makes a finite set larger by at most one.
LEMMA OneMore ==
    ASSUME NEW S, IsFiniteSet(S), NEW x
    PROVE  /\ Cardinality(S) \in Nat /\ Cardinality(S \cup {x}) \in Nat
           /\ Cardinality(S) <= Cardinality(S \cup {x})
           /\ Cardinality(S \cup {x}) <= Cardinality(S) + 1
<1>1. Cardinality(S) \in Nat
  BY FS_CardinalityType
<1>2. Cardinality(S \cup {x}) = IF x \in S THEN Cardinality(S) ELSE Cardinality(S) + 1
  BY FS_AddElement
<1>3. QED BY <1>1, <1>2

\* A step that changes neither the slots in use nor who waits.
LEMMA SleepersUnchanged ==
    ASSUME NoMissedRelease, UNCHANGED <<size, used, shut>>, calm' => calm,
           Sleeping' \subseteq Sleeping, Woken' = Woken
    PROVE  NoMissedRelease'
<1>1. Idle' = Idle
  BY DEF Idle
<1>2. QED BY <1>1 DEF NoMissedRelease

LEMMA TakeSleepers ==
    ASSUME SlotInv, NoMissedRelease, NEW t \in Threads, NEW i \in Slots,
           TakeIdle(t, i) \/ TakeReplaced(t, i)
    PROVE  NoMissedRelease'
<1>1. /\ i \in Idle /\ pc[t] \in {"acquire", "woken"}
      /\ used' = [used EXCEPT ![i] = TRUE] /\ pc' = [pc EXCEPT ![t] = "holding"]
      /\ size' = size /\ shut' = shut /\ (calm' => calm)
  BY DEF TakeIdle, TakeReplaced, Hand, InLoop
<1>2. Idle' = Idle \ {i}
  BY <1>1 DEF Idle, SlotInv, TypeOK
<1>3. Woken' = Woken \ {t} /\ Sleeping' = Sleeping
  BY <1>1 DEF Woken, Sleeping, SlotInv, TypeOK
<1>4. /\ Cardinality(Idle') = Cardinality(Idle) - 1
      /\ Cardinality(Woken') \in {Cardinality(Woken), Cardinality(Woken) - 1}
  BY <1>1, <1>2, <1>3, FiniteSets, FS_RemoveElement
<1>5. QED BY <1>1, <1>3, <1>4, FiniteSets DEF NoMissedRelease

LEMMA ReleaseSleepers ==
    ASSUME SlotInv, NoMissedRelease, NEW t \in Threads, Release(t)
    PROVE  NoMissedRelease'
<1> SUFFICES ASSUME calm', ~shut', Sleeping' # {}
             PROVE  size' = MaxConns /\ Cardinality(Idle') <= Cardinality(Woken')
  BY DEF NoMissedRelease
<1>1. /\ pc[t] = "release" /\ held[t] # NoConn
      /\ used' = [j \in Slots |-> used[j] /\ j \notin Mine(t)]
      /\ UNCHANGED <<size, shut, calm>>
  BY DEF Release, SlotInv, HeldByPlace
<1>2. Sleeping # {}
  <2>1. CASE pc' = [pc EXCEPT ![t] = "out"]
    BY <2>1 DEF Sleeping, SlotInv, TypeOK
  <2>2. QED BY <2>1 DEF Release, NotifyOne
<1>3. PICK u \in Sleeping : pc' = [pc EXCEPT ![t] = "out", ![u] = "woken"]
  BY <1>2 DEF Release, NotifyOne
<1>4. Woken' = Woken \cup {u} /\ u \notin Woken
  <2>1. u \in Threads /\ pc[u] = "waiting" /\ u # t
    BY <1>1 DEF Sleeping
  <2>2. pc \in [Threads -> {"out", "acquire", "waiting", "woken", "holding", "release", "stuck"}]
    BY DEF SlotInv, TypeOK
  <2>3. \A v \in Threads : pc'[v] = IF v = u THEN "woken" ELSE IF v = t THEN "out" ELSE pc[v]
    BY <1>3, <2>1, <2>2
  <2>4. QED BY <1>1, <2>1, <2>3 DEF Woken
<1>5. Cardinality(Woken') = Cardinality(Woken) + 1
  BY <1>4, FiniteSets, FS_AddElement
<1>6. Idle' = Idle \cup Mine(t)
  BY <1>1, SizeAssumption DEF Idle, Mine, SlotInv, TypeOK, Slots
<1>7. Cardinality(Idle') \in Nat /\ Cardinality(Idle') <= Cardinality(Idle) + 1
  <2>1. CASE Mine(t) = {}
    <3>1. Idle' = Idle
      BY <2>1, <1>6
    <3>2. QED BY <3>1, FiniteSets
  <2>2. ASSUME NEW m \in Mine(t)
        PROVE  Cardinality(Idle') \in Nat /\ Cardinality(Idle') <= Cardinality(Idle) + 1
    <3>1. Mine(t) = {m}
      BY <1>1, MineIsOne
    <3>2. Idle' = Idle \cup {m}
      BY <1>6, <3>1
    <3>3. IsFiniteSet(Idle)
      BY FiniteSets
    <3>4. QED BY <3>2, <3>3, OneMore
  <2>3. QED BY <2>1, <2>2
<1>8. size = MaxConns /\ Cardinality(Idle) <= Cardinality(Woken)
  BY <1>1, <1>2 DEF NoMissedRelease
<1>9. Cardinality(Idle) \in Nat /\ Cardinality(Woken) \in Nat
  BY FiniteSets
<1>10. QED BY <1>1, <1>5, <1>7, <1>8, <1>9

LEMMA NextSleepers == SlotInv /\ NoMissedRelease /\ [Next]_vars => NoMissedRelease'
<1> SUFFICES ASSUME SlotInv, NoMissedRelease, [Next]_vars PROVE NoMissedRelease'
  OBVIOUS
<1> USE DEF slotVars
<1>0. pc \in [Threads -> {"out", "acquire", "waiting", "woken", "holding", "release", "stuck"}]
  BY DEF SlotInv, TypeOK
<1>1. ASSUME NEW t \in Threads, Call(t) \/ FinishQuery(t) \/ MissingStatement(t)
      PROVE  NoMissedRelease'
  <2>1. Sleeping' = Sleeping /\ Woken' = Woken
    BY <1>0, <1>1 DEF Call, FinishQuery, MissingStatement, Sleeping, Woken
  <2>2. QED BY <1>1, <2>1, SleepersUnchanged DEF Call, FinishQuery, MissingStatement
<1>2. ASSUME NEW t \in Threads, Grow(t) PROVE NoMissedRelease'
  <2>1. Sleeping' = Sleeping /\ (calm' => calm) /\ shut' = shut /\ size < MaxConns
    BY <1>0, <1>2 DEF Grow, Hand, InLoop, Sleeping
  <2>2. size # MaxConns
    BY <2>1, SlotsAreNat DEF SlotInv, TypeOK
  <2>3. QED BY <2>1, <2>2 DEF NoMissedRelease
<1>3. ASSUME NEW t \in Threads, Sleep(t) PROVE NoMissedRelease'
  <2>1. UNCHANGED <<size, used>> /\ (calm' => Idle = {} /\ size = MaxConns)
    BY <1>3 DEF Sleep
  <2>2. Idle' = Idle
    BY <2>1 DEF Idle
  <2>3. Woken' \in SUBSET Threads
    BY DEF Woken
  <2>4. Cardinality(Woken') \in Nat
    BY <2>3, ThreadsAssumption, FS_Subset, FS_CardinalityType
  <2>5. QED BY <2>1, <2>2, <2>4, FS_EmptySet DEF NoMissedRelease
<1>4. ASSUME NEW t \in Threads, SpuriousWake(t) PROVE NoMissedRelease'
  <2>1. t \in Sleeping /\ Woken' = Woken \cup {t} /\ UNCHANGED <<size, used, shut, calm>>
    BY <1>0, <1>4 DEF SpuriousWake, Sleeping, Woken
  <2>2. Idle' = Idle
    BY <2>1 DEF Idle
  <2>3. Cardinality(Woken') >= Cardinality(Woken) /\ Cardinality(Woken') \in Nat
    <3>1. IsFiniteSet(Woken)
      BY FiniteSets
    <3>2. QED BY <2>1, <3>1, OneMore
  <2>4. QED BY <2>1, <2>2, <2>3, FiniteSets DEF NoMissedRelease
<1>5. ASSUME NEW t \in Threads, TimeOut(t) PROVE NoMissedRelease'
  <2>1. CASE pc[t] = "waiting"
    <3>1. Sleeping' \subseteq Sleeping /\ Woken' = Woken
      BY <1>0, <1>5, <2>1 DEF TimeOut, Sleeping, Woken
    <3>2. QED BY <1>5, <3>1, SleepersUnchanged DEF TimeOut
  <2>2. CASE pc[t] # "waiting"
    BY <1>5, <2>2 DEF TimeOut, NoMissedRelease
  <2>3. QED BY <2>1, <2>2
<1>6. ASSUME NEW t \in Threads, Release(t) PROVE NoMissedRelease'
  BY <1>6, ReleaseSleepers
<1>7. ASSUME NEW t \in Threads, NEW i \in Slots, TakeIdle(t, i) \/ TakeReplaced(t, i)
      PROVE  NoMissedRelease'
  BY <1>7, TakeSleepers
<1>8. ASSUME NEW t \in Threads, NEW i \in Slots, ReplaceThrows(t, i) PROVE NoMissedRelease'
  BY <1>8 DEF ReplaceThrows, NoMissedRelease
<1>9. CASE Shutdown
  BY <1>9 DEF Shutdown, NoMissedRelease
<1>10. ASSUME UNCHANGED <<size, used, shut, pc, calm>> PROVE NoMissedRelease'
  <2>1. Sleeping' = Sleeping /\ Woken' = Woken
    BY <1>10 DEF Sleeping, Woken
  <2>2. QED BY <1>10, <2>1, SleepersUnchanged
<1>11. CASE HealthCheck \/ (\E i \in Slots : Die(i) \/ GrowOld(i)) \/ UNCHANGED vars
  BY <1>10, <1>11 DEF HealthCheck, Die, GrowOld, vars
<1>12. QED
  BY <1>1, <1>2, <1>3, <1>4, <1>5, <1>6, <1>7, <1>8, <1>9, <1>11 DEF Next

\* While connects succeed and no notification arrives at a deadline, whenever a
\* caller sleeps every free connection is promised to a caller that was woken.
THEOREM NobodyIsPassedOver == Spec => []NoMissedRelease
<1>1. Init => NoMissedRelease
  BY DEF Init, NoMissedRelease, Sleeping
<1>2. QED BY <1>1, NextSleepers, Invariance, PTL DEF Spec
=============================================================================
