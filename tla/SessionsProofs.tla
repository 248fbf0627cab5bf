--------------------------- MODULE SessionsProofs ---------------------------
(***************************************************************************)
(* Theorems about Sessions, for any number of calls, users, failures and   *)
(* any limits: the rotation of refresh tokens, logging out, the guard of   *)
(* the login and the cache of the API keys.                                *)
(***************************************************************************)
EXTENDS Sessions, FiniteSetTheorems, TLAPS

-----------------------------------------------------------------------------
(* The invariant                                                           *)

\* Calls that may yet insert a row, and those of user u that may yet count as a
\* failed login, or as a wrong password.
Creating == {"locked", "lookup", "clear", "create"} \cup Refreshing
InState(P) == {c \in Calls : pc[c] \in P}
Trying(u, P) == {c \in Calls : who[c] = u /\ pc[c] \in P}

\* Rows are filled in the order of their ids, and there is one left for every
\* call that may insert one.
RowsLeft(n) == /\ \A i \in Ids : row[i] # "none" <=> i <= n
               /\ n + Cardinality(InState(Creating)) <= begun

\* A token that a call or a client holds is in the table, and so is the login
\* it descends from.
Named == Refreshing \cup {"touch", "logout", "logoutBlack"}
RowInv == /\ \E n \in 0 .. MaxCalls : RowsLeft(n)
          /\ \A i \in Ids : row[i] = "none" => origin[i] = i
          /\ \A i \in Ids : row[i] # "none" => row[origin[i]] # "none"
          /\ \A c \in Calls : pc[c] \in Named => row[token[c]] # "none"
          /\ \A i \in held : row[i] # "none"

\* Why a login has one live session: past its check of the row a rotation is
\* alone with its login, and no row of it is live but the one being replaced.
Past == Refreshing \ {"blacklisted", "session"}
RotationInv ==
    /\ \A i, j \in Ids : row[i] = "live" /\ row[j] = "live" /\ origin[i] = origin[j]
                         => i = j \/ origin[i] \in overlap
    /\ \A c \in Calls, i \in Ids : pc[c] \in Past /\ row[i] = "live" /\ origin[i] = origin[token[c]]
                                   => i = token[c] \/ origin[i] \in overlap
    /\ \A c \in Calls : pc[c] = "insert" => row[token[c]] = "revoked"
    /\ \A c, d \in Calls : pc[c] \in Past /\ pc[d] \in Past /\ origin[token[c]] = origin[token[d]]
                           => c = d \/ origin[token[c]] \in overlap
    /\ \A c, d \in Calls : pc[c] \in Refreshing /\ pc[d] \in Refreshing /\ token[c] = token[d]
                           => c = d \/ origin[token[c]] \in overlap

\* A failure, or a wrong password, is counted once for each call at most.
CountInv == \A u \in Users :
                /\ fails[u] + Cardinality(Trying(u, {"locked", "lookup", "failure"})) <= begun
                /\ guesses[u] + Cardinality(Trying(u, {"locked", "lookup"})) <= begun

\* Why the guard is overrun by the calls in flight only: what was guessed without
\* a lock is counted below the limit or by a call on its way to count it, and
\* once there is a lock only those that are past it go on.
GuardInv ==
    redis = "up" /\ faults = 0 =>
        \A u \in Users :
            LET counting == Cardinality(Trying(u, {"failure", "lock"})) IN
            IF lock[u] THEN guesses[u] + Cardinality(Trying(u, {"lookup"}))
                            <= MaxAttempts - 1 + Cardinality(Calls)
            ELSE guesses[u] <= fails[u] + counting /\ guesses[u] <= MaxAttempts - 1 + counting

\* A call that has read a live key has held it at least as long as the key has
\* been revoked.
KeyInv == /\ key # "revoked" => stale = 0
          /\ \A c \in Calls : IF pc[c] = "keyCache" THEN stale <= hold[c] ELSE hold[c] = 0
          /\ StalenessIsBounded

IInv == TypeOK /\ RowInv /\ RotationInv /\ CountInv /\ GuardInv /\ KeyInv

-----------------------------------------------------------------------------
(* The row that an INSERT fills                                            *)

\* What Cardinality says of a set that grows or shrinks by an element.
LEMMA Count ==
    ASSUME NEW S, IsFiniteSet(S), NEW T, NEW c
    PROVE  /\ Cardinality(S) \in Nat
           /\ T \subseteq S \cup {c} => Cardinality(T) \in Nat /\ Cardinality(T) <= Cardinality(S) + 1
           /\ T \subseteq S => Cardinality(T) \in Nat /\ Cardinality(T) <= Cardinality(S)
           /\ T \subseteq S \ {c} /\ c \in S => Cardinality(T) <= Cardinality(S) - 1
<1>1. Cardinality(S) \in Nat
  BY FS_CardinalityType
<1>2. IsFiniteSet(S \cup {c}) /\ Cardinality(S \cup {c}) <= Cardinality(S) + 1
  BY <1>1, FS_AddElement
<1>3. /\ IsFiniteSet(S \ {c})
      /\ c \in S => Cardinality(S \ {c}) = Cardinality(S) - 1
  BY FS_RemoveElement
<1>4. T \subseteq S \cup {c} => IsFiniteSet(T) /\ Cardinality(T) <= Cardinality(S \cup {c})
  BY <1>2, FS_Subset
<1>5. T \subseteq S => IsFiniteSet(T) /\ Cardinality(T) <= Cardinality(S)
  BY FS_Subset
<1>6. T \subseteq S \ {c} => IsFiniteSet(T) /\ Cardinality(T) <= Cardinality(S \ {c})
  BY <1>3, FS_Subset
<1>7. IsFiniteSet(T) => Cardinality(T) \in Nat
  BY FS_CardinalityType
<1>8. Cardinality(S \cup {c}) \in Nat
  BY <1>2, FS_CardinalityType
<1> QED
  BY <1>1, <1>2, <1>3, <1>4, <1>5, <1>6, <1>7, <1>8

LEMMA CallsAreFinite ==
    /\ \A P : IsFiniteSet(InState(P)) /\ Cardinality(InState(P)) \in Nat
    /\ \A u, P : IsFiniteSet(Trying(u, P)) /\ Cardinality(Trying(u, P)) \in Nat
<1>1. IsFiniteSet(Calls)
  BY SizeAssumption DEF SizeAssumption
<1>2. ASSUME NEW S \in SUBSET Calls PROVE IsFiniteSet(S) /\ Cardinality(S) \in Nat
  BY <1>1, FS_Subset, FS_CardinalityType
<1>3. \A P : InState(P) \in SUBSET Calls
  BY DEF InState
<1>4. \A u, P : Trying(u, P) \in SUBSET Calls
  BY DEF Trying
<1> QED
  BY <1>2, <1>3, <1>4

\* A call that may insert finds a row that is free.
LEMMA FreshIsFree ==
    ASSUME TypeOK, NEW n \in 0 .. MaxCalls, RowsLeft(n), NEW c \in Calls, pc[c] \in Creating
    PROVE  n + 1 \in Ids /\ Fresh = n + 1 /\ row[Fresh] = "none"
<1>1. MaxCalls \in Nat
  BY SizeAssumption DEF SizeAssumption
<1>2. c \in InState(Creating)
  BY DEF InState
<1>3. Cardinality(InState(Creating)) \in Nat /\ Cardinality(InState(Creating)) # 0
  BY <1>2, CallsAreFinite, FS_EmptySet
<1>4. n + 1 \in Ids
  BY <1>1, <1>3 DEF RowsLeft, TypeOK, Ids
<1>5. \A i \in Ids : (row[i] = "none" /\ \A j \in 1 .. i - 1 : row[j] # "none") <=> i = n + 1
  BY <1>1, <1>4 DEF RowsLeft, Ids
<1>6. Fresh = n + 1
  BY <1>4, <1>5 DEF Fresh
<1> QED
  BY <1>4, <1>5, <1>6

-----------------------------------------------------------------------------
(* Every variable keeps its type.                                          *)

Places == {"idle"} \cup SqlSteps \cup RedisSteps \cup Swallowed

\* How a call goes on or ends.
LEMMA PlaceType ==
    ASSUME TypeOK, NEW c \in Calls,
           \/ \E step \in Places : Goto(c, step)
           \/ \E a \in {"ok", "refused", "unavailable", "error"} : Answer(c, a)
    PROVE  /\ pc' \in [Calls -> Places]
           /\ answer' \in [Calls -> {"none", "ok", "refused", "unavailable", "error"}]
<1>1. "idle" \in Places
  BY DEF Places
<1> QED
  BY <1>1 DEF TypeOK, Goto, Answer, Places

LEMMA InitType == Init => TypeOK
<1> SUFFICES ASSUME Init PROVE TypeOK
  OBVIOUS
<1>1. (CHOOSE u \in Users : TRUE) \in Users
  BY SizeAssumption DEF SizeAssumption
<1>2. 1 \in Ids /\ KeyTTL \in Nat /\ MaxHold \in Nat /\ Faults \in Nat /\ MaxCalls \in Nat
  BY SizeAssumption DEF SizeAssumption, Ids
<1> QED
  BY <1>1, <1>2, StoreAssumption DEF Init, TypeOK, StoreAssumption, Ids

LEMMA BeginType ==
    ASSUME TypeOK, NEW c \in Calls, BeginAny(c) \/ BeginWithKey(c)
    PROVE  TypeOK'
<1>1. PICK u \in Users, i \in Ids, step \in Places : Begin(c, u, i, step)
  BY DEF BeginAny, BeginWithKey, TypeOK, Places, SqlSteps, RedisSteps, Swallowed
<1>2. pc' \in [Calls -> Places] /\ answer' = answer
  BY <1>1, PlaceType DEF Begin, Goto
<1>3. begun' \in 0 .. MaxCalls
  BY <1>1, SizeAssumption DEF Begin, TypeOK, SizeAssumption
<1>4. who' \in [Calls -> Users] /\ token' \in [Calls -> Ids]
  BY <1>1 DEF Begin, TypeOK
<1>5. overlap' \subseteq Ids
  BY <1>1 DEF Begin, TypeOK
<1>6. UNCHANGED <<tables, black, guard, apikey, stores, held>>
  BY <1>1 DEF Begin
<1> QED
  BY <1>2, <1>3, <1>4, <1>5, <1>6 DEF TypeOK, Places, tables, black, guard, apikey, stores

\* There is a free row for a call that inserts, and a count below the bound for
\* one that counts.
LEMMA FreshType ==
    ASSUME TypeOK, RowInv, NEW c \in Calls, pc[c] \in Creating
    PROVE  Fresh \in Ids /\ row[Fresh] = "none"
BY FreshIsFree DEF RowInv

LEMMA CountType ==
    ASSUME TypeOK, CountInv, NEW c \in Calls
    PROVE  /\ pc[c] = "failure" => fails[who[c]] + 1 \in 0 .. MaxCalls
           /\ pc[c] = "lookup" => guesses[who[c]] + 1 \in 0 .. MaxCalls
<1>1. who[c] \in Users /\ MaxCalls \in Nat /\ begun \in 0 .. MaxCalls
  BY SizeAssumption DEF TypeOK, SizeAssumption
<1>2. ASSUME NEW P, pc[c] \in P
      PROVE  Cardinality(Trying(who[c], P)) \in Nat /\ Cardinality(Trying(who[c], P)) # 0
  <2>1. c \in Trying(who[c], P)
    BY <1>2 DEF Trying
  <2> QED
    BY <2>1, CallsAreFinite, FS_EmptySet
<1>3. CASE pc[c] = "failure"
  <2>1. Cardinality(Trying(who[c], {"locked", "lookup", "failure"})) \in Nat \ {0}
    BY <1>2, <1>3
  <2> QED
    BY <1>1, <1>3, <2>1 DEF CountInv, TypeOK
<1>4. CASE pc[c] = "lookup"
  <2>1. Cardinality(Trying(who[c], {"locked", "lookup"})) \in Nat \ {0}
    BY <1>2, <1>4
  <2> QED
    BY <1>1, <1>4, <2>1 DEF CountInv, TypeOK
<1> QED
  BY <1>3, <1>4

LEMMA StepType ==
    ASSUME TypeOK, RowInv, CountInv, NEW c \in Calls, Step(c)
    PROVE  TypeOK'
<1> DEFINE Moves == \/ \E step \in Places : Goto(c, step)
                    \/ \E a \in {"ok", "refused", "unavailable", "error"} : Answer(c, a)
<1> USE DEF tables, black, guard, apikey, stores, client
<1>0. who[c] \in Users /\ token[c] \in Ids /\ KeyTTL \in Nat
  BY SizeAssumption DEF TypeOK, SizeAssumption
<1>1. CASE StoreFails(c)
  <2>1. Moves
    BY <1>1 DEF StoreFails
  <2>2. 0 \in 0 .. MaxHold
    BY SizeAssumption DEF SizeAssumption
  <2> QED
    BY <1>1, <2>1, <2>2, PlaceType DEF StoreFails, TypeOK, Places
<1>2. CASE Register(c)
  <2>1. Moves
    BY <1>2 DEF Register, Places, SqlSteps
  <2> QED
    BY <1>0, <1>2, <2>1, PlaceType DEF Register, TypeOK, Places
<1>3. CASE CheckLock(c)
  <2>1. Moves
    BY <1>3 DEF CheckLock, Places, SqlSteps
  <2> QED
    BY <1>3, <2>1, PlaceType DEF CheckLock, TypeOK, Places
<1>4. CASE Verify(c)
  <2>1. Moves
    BY <1>4 DEF Verify, Places, Swallowed
  <2>2. guesses' \in [Users -> 0 .. MaxCalls]
    BY <1>0, <1>4, CountType DEF Verify, At, TypeOK
  <2> QED
    BY <1>4, <2>1, <2>2, PlaceType DEF Verify, TypeOK, Places
<1>5. CASE RecordFailure(c)
  <2>1. Moves
    BY <1>5 DEF RecordFailure, Places, Swallowed
  <2>2. fails' \in [Users -> 0 .. MaxCalls]
    BY <1>0, <1>5, CountType DEF RecordFailure, At, TypeOK
  <2>3. lock' \in [Users -> BOOLEAN]
    BY <1>0, <1>5 DEF RecordFailure, TypeOK
  <2> QED
    BY <1>5, <2>1, <2>2, <2>3, PlaceType DEF RecordFailure, TypeOK, Places
<1>6. CASE LogIn(c)
  <2>1. Moves
    BY <1>6 DEF LogIn, Places, SqlSteps
  <2>2. CASE At(c, "clear")
    <3>1. UNCHANGED <<tables, token, held>> /\ ClearFailures(who[c])
      BY <1>6, <2>2 DEF LogIn, At
    <3>2. fails' \in [Users -> 0 .. MaxCalls] /\ guesses' \in [Users -> 0 .. MaxCalls]
      BY <1>0, <3>1, SizeAssumption DEF ClearFailures, TypeOK, SizeAssumption
    <3>3. lock' \in [Users -> BOOLEAN]
      BY <1>0, <3>1 DEF ClearFailures, TypeOK
    <3> QED
      BY <1>6, <2>1, <3>1, <3>2, <3>3, PlaceType DEF LogIn, TypeOK, Places
  <2>3. CASE At(c, "create")
    <3>1. Fresh \in Ids
      BY <2>3, FreshType DEF At, Creating
    <3>2. /\ NewRow(who[c], Fresh) /\ token' = [token EXCEPT ![c] = Fresh]
          /\ UNCHANGED <<guard, held>>
      BY <1>6, <2>3 DEF LogIn, At
    <3>3. /\ row' \in [Ids -> {"none", "live", "revoked"}]
          /\ owner' \in [Ids -> Users] /\ origin' \in [Ids -> Ids] /\ users' = users
          /\ token' \in [Calls -> Ids]
      BY <1>0, <3>1, <3>2 DEF NewRow, TypeOK
    <3> QED
      BY <1>6, <2>1, <3>2, <3>3, PlaceType DEF LogIn, TypeOK, Places
  <2>4. CASE At(c, "touch")
    <3>1. held' = held \cup {token[c]} /\ UNCHANGED <<tables, guard, token>>
      BY <1>6, <2>4 DEF LogIn, At
    <3> QED
      BY <1>0, <1>6, <2>1, <3>1, PlaceType DEF LogIn, TypeOK, Places
  <2> QED
    BY <1>6, <2>2, <2>3, <2>4 DEF LogIn
<1>7. CASE CheckReuse(c)
  <2>1. Moves
    BY <1>7 DEF CheckReuse, Places, SqlSteps, RedisSteps
  <2> QED
    BY <1>0, <1>7, <2>1, PlaceType DEF CheckReuse, revoke_token_family, TypeOK, Places
<1>8. CASE Rotate(c)
  <2>1. Moves
    BY <1>8 DEF Rotate, Places, SqlSteps, RedisSteps
  <2>2. CASE At(c, "insert")
    <3>1. Fresh \in Ids
      BY <2>2, FreshType DEF At, Creating, Refreshing
    <3>2. NewRow(who[c], origin[token[c]]) /\ held' = held \cup {Fresh} /\ UNCHANGED spent
      BY <1>8, <2>2 DEF Rotate, At
    <3>3. /\ row' \in [Ids -> {"none", "live", "revoked"}]
          /\ owner' \in [Ids -> Users] /\ origin' \in [Ids -> Ids] /\ users' = users
          /\ held' \subseteq Ids
      BY <1>0, <3>1, <3>2 DEF NewRow, TypeOK
    <3> QED
      BY <1>8, <2>1, <3>2, <3>3, PlaceType DEF Rotate, TypeOK, Places
  <2>3. CASE ~At(c, "insert")
    <3>1. /\ row' \in [Ids -> {"none", "live", "revoked"}] /\ spent' \subseteq Ids
          /\ UNCHANGED <<users, owner, origin, held>>
      BY <1>0, <1>8, <2>3 DEF Rotate, blacklist_token, TypeOK
    <3> QED
      BY <1>8, <2>1, <3>1, PlaceType DEF Rotate, TypeOK, Places
  <2> QED
    BY <2>2, <2>3
<1>9. CASE LogOut(c)
  <2>1. Moves
    BY <1>9 DEF LogOut, Places, Swallowed, RedisSteps
  <2>2. row' \in [Ids -> {"none", "live", "revoked"}] /\ spent' \subseteq Ids /\ bumped' = bumped
    BY <1>0, <1>9 DEF LogOut, blacklist_token, TypeOK
  <2> QED
    BY <1>9, <2>1, <2>2, PlaceType DEF LogOut, TypeOK, Places
<1>10. CASE ManageKey(c)
  <2>1. Moves
    BY <1>10 DEF ManageKey
  <2> QED
    BY <1>10, <2>1, PlaceType DEF ManageKey, TypeOK, Places
<1>11. CASE UseKey(c)
  <2>1. Moves
    BY <1>11 DEF UseKey, Places, SqlSteps, RedisSteps
  <2>2. cached' \in 0 .. KeyTTL /\ hold' \in [Calls -> 0 .. MaxHold]
    BY <1>0, <1>11, SizeAssumption DEF UseKey, TypeOK, SizeAssumption
  <2> QED
    BY <1>11, <2>1, <2>2, PlaceType DEF UseKey, TypeOK, Places
<1> QED
  BY <1>1, <1>2, <1>3, <1>4, <1>5, <1>6, <1>7, <1>8, <1>9, <1>10, <1>11 DEF Step

LEMMA StoresType == ASSUME TypeOK, Tick \/ Expire \/ Toggle PROVE TypeOK'
<1> USE DEF tables, black, guard, apikey, stores, client
<1>0. {KeyTTL, MaxHold, Faults, MaxCalls} \subseteq Nat
  BY SizeAssumption DEF SizeAssumption
<1>1. CASE Tick
  <2>1. hold' \in [Calls -> 0 .. MaxHold]
    BY <1>0, <1>1 DEF Tick, TypeOK
  <2>2. cached' \in 0 .. KeyTTL /\ stale' \in 0 .. KeyTTL + MaxHold + 1
    BY <1>0, <1>1 DEF Tick, TypeOK
  <2> QED
    BY <1>1, <2>1, <2>2 DEF Tick, TypeOK
<1>2. CASE Expire
  <2>0. 0 \in 0 .. MaxCalls
    BY <1>0
  <2>1. lock' \in [Users -> BOOLEAN]
    BY <1>2 DEF Expire, TypeOK
  <2>2. fails' \in [Users -> 0 .. MaxCalls]
    BY <1>2, <2>0 DEF Expire, TypeOK
  <2>3. guesses' \in [Users -> 0 .. MaxCalls]
    BY <1>2, <2>0 DEF Expire, TypeOK
  <2>4. spent' \subseteq Ids
    BY <1>2 DEF Expire, TypeOK
  <2> QED
    BY <1>2, <2>1, <2>2, <2>3, <2>4 DEF Expire, TypeOK
<1>3. CASE Toggle
  <2>1. faults' \in 0 .. Faults /\ redis' \in {"up", "down", "absent"} /\ mysql' \in {"up", "down"}
    BY <1>0, <1>3 DEF Toggle, TypeOK
  <2> QED
    BY <1>3, <2>1 DEF Toggle, TypeOK
<1> QED
  BY <1>1, <1>2, <1>3

LEMMA NextType ==
    ASSUME TypeOK, RowInv, CountInv, [Next]_vars
    PROVE  TypeOK'
<1>1. CASE UNCHANGED vars
  BY <1>1 DEF vars, tables, black, guard, apikey, stores, client, TypeOK
<1>2. CASE Next
  BY <1>2, BeginType, StepType, StoresType DEF Next
<1> QED
  BY <1>1, <1>2

-----------------------------------------------------------------------------
(* The steps, as far as sessions go                                        *)

\* Rows are at most revoked, and the call comes no nearer to a new row.
Settles(c) ==
    /\ pc' = [pc EXCEPT ![c] = pc'[c]]
    /\ \A i \in Ids : row'[i] = row[i] \/ (row[i] # "none" /\ row'[i] = "revoked")
    /\ UNCHANGED <<origin, token, held, overlap, begun>>
    /\ \A P \in {Past, Creating, Refreshing, Named} : pc'[c] \in P => pc[c] \in P
    /\ pc'[c] = "insert" => row'[token[c]] = "revoked"

\* A rotation finds its row live.
Checks(c) == /\ pc[c] = "session" /\ row[token[c]] = "live"
             /\ pc' = [pc EXCEPT ![c] = "blacklist"]
             /\ UNCHANGED <<row, origin, token, held, overlap, begun>>

\* A login inserts its row, then hands its token out.
Creates(c) == /\ pc[c] = "create" /\ NewRow(who[c], Fresh)
              /\ token' = [token EXCEPT ![c] = Fresh]
              /\ pc' = [pc EXCEPT ![c] = "touch"] /\ UNCHANGED <<held, overlap, begun>>
Hands(c) == /\ pc[c] = "touch" /\ held' = held \cup {token[c]}
            /\ pc' = [pc EXCEPT ![c] = "idle"] /\ UNCHANGED <<row, origin, token, overlap, begun>>

\* A rotation inserts the successor of its row.
Replaces(c) == /\ pc[c] = "insert" /\ NewRow(who[c], origin[token[c]])
               /\ held' = held \cup {Fresh}
               /\ pc' = [pc EXCEPT ![c] = "idle"] /\ UNCHANGED <<token, overlap, begun>>

LEMMA StepOfSession ==
    ASSUME TypeOK, RowInv, NEW c \in Calls, Step(c)
    PROVE  Settles(c) \/ Checks(c) \/ Creates(c) \/ Hands(c) \/ Replaces(c)
<1> USE DEF tables, black, guard, apikey, stores, client, Goto, Answer, At
<1>0. pc \in [Calls -> Places] /\ token[c] \in Ids
  BY DEF TypeOK, Places
<1>1. CASE \/ StoreFails(c) \/ Register(c) \/ CheckLock(c) \/ Verify(c) \/ RecordFailure(c)
           \/ ManageKey(c) \/ UseKey(c)
  <2>1. UNCHANGED <<row, origin, token, held, overlap, begun>>
    BY <1>1 DEF StoreFails, Register, CheckLock, Verify, RecordFailure, ManageKey, UseKey
  <2>2. \/ pc[c] = "locked" /\ pc' = [pc EXCEPT ![c] = "lookup"]
        \/ pc[c] = "lookup" /\ pc' = [pc EXCEPT ![c] = "clear"]
        \/ \E place \in {"idle", "register", "failure", "lock", "keyRow", "keyCache"} :
              pc' = [pc EXCEPT ![c] = place]
    BY <1>1 DEF StoreFails, Register, CheckLock, Verify, RecordFailure, ManageKey, UseKey
  <2> QED
    BY <1>0, <2>1, <2>2 DEF Settles, Past, Creating, Refreshing, Named
<1>2. CASE LogIn(c)
  <2>1. CASE pc[c] = "clear"
    <3>1. pc' = [pc EXCEPT ![c] = "create"] /\ UNCHANGED <<row, origin, token, held, overlap, begun>>
      BY <1>2, <2>1 DEF LogIn
    <3> QED
      BY <1>0, <2>1, <3>1 DEF Settles, Past, Creating, Refreshing, Named
  <2>2. CASE pc[c] = "create"
    BY <1>2, <2>2 DEF LogIn, Creates
  <2>3. CASE pc[c] = "touch"
    BY <1>2, <2>3 DEF LogIn, Hands
  <2> QED
    BY <1>2, <2>1, <2>2, <2>3 DEF LogIn
<1>3. CASE CheckReuse(c)
  <2>1. UNCHANGED <<row, origin, token, held, overlap, begun>>
    BY <1>3 DEF CheckReuse
  <2>2. \/ pc[c] = "blacklisted" /\ pc' = [pc EXCEPT ![c] = "session"]
        \/ \E place \in {"idle", "bump"} : pc' = [pc EXCEPT ![c] = place]
    BY <1>3 DEF CheckReuse
  <2> QED
    BY <1>0, <2>1, <2>2 DEF Settles, Past, Creating, Refreshing, Named
<1>4. CASE Rotate(c)
  <2>1. CASE pc[c] = "session"
    <3>1. UNCHANGED <<row, origin, token, held, overlap, begun>>
      BY <1>4, <2>1 DEF Rotate
    <3>2. \/ pc' = [pc EXCEPT ![c] = "idle"]
          \/ row[token[c]] = "live" /\ pc' = [pc EXCEPT ![c] = "blacklist"]
      BY <1>4, <2>1 DEF Rotate
    <3> QED
      BY <1>0, <2>1, <3>1, <3>2 DEF Settles, Checks, Past, Creating, Refreshing, Named
  <2>2. CASE pc[c] \in {"blacklist", "role"}
    <3>1. UNCHANGED <<row, origin, token, held, overlap, begun>>
      BY <1>4, <2>2 DEF Rotate
    <3>2. \E place \in {"role", "revoke", "idle"} : pc' = [pc EXCEPT ![c] = place]
      BY <1>4, <2>2 DEF Rotate
    <3> QED
      BY <1>0, <2>2, <3>1, <3>2 DEF Settles, Past, Creating, Refreshing, Named
  <2>3. CASE pc[c] = "revoke"
    <3>1. /\ row' = [row EXCEPT ![token[c]] = "revoked"] /\ pc' = [pc EXCEPT ![c] = "insert"]
          /\ UNCHANGED <<origin, token, held, overlap, begun>>
      BY <1>4, <2>3 DEF Rotate
    <3>2. row[token[c]] # "none"
      BY <2>3 DEF RowInv, Named, Refreshing
    <3>3. \A i \in Ids : row'[i] = row[i] \/ (row[i] # "none" /\ row'[i] = "revoked")
      BY <3>1, <3>2 DEF TypeOK
    <3>4. row'[token[c]] = "revoked"
      BY <1>0, <3>1 DEF TypeOK
    <3> QED
      BY <1>0, <2>3, <3>1, <3>3, <3>4 DEF Settles, Past, Creating, Refreshing, Named
  <2>4. CASE pc[c] = "insert"
    BY <1>4, <2>4 DEF Rotate, Replaces
  <2> QED
    BY <1>4, <2>1, <2>2, <2>3, <2>4 DEF Rotate
<1>5. CASE LogOut(c)
  <2>1. UNCHANGED <<origin, token, held, overlap, begun>>
    BY <1>5 DEF LogOut
  <2>2. \/ pc[c] = "logout" /\ pc' = [pc EXCEPT ![c] = "logoutBlack"]
        \/ \E place \in {"idle", "bump"} : pc' = [pc EXCEPT ![c] = place]
    BY <1>5 DEF LogOut
  <2>3. pc[c] \in {"logout", "logoutBlack"} => row[token[c]] # "none"
    BY DEF RowInv, Named
  <2>4. \A i \in Ids : row'[i] = row[i] \/ (row[i] # "none" /\ row'[i] = "revoked")
    BY <1>5, <2>3 DEF LogOut, TypeOK
  <2> QED
    BY <1>0, <2>1, <2>2, <2>4 DEF Settles, Past, Creating, Refreshing, Named
<1> QED
  BY <1>1, <1>2, <1>3, <1>4, <1>5 DEF Step

\* How a call begins: with a token that a client holds, or without need of one.
Begins(c) == /\ pc[c] = "idle" /\ begun < MaxCalls /\ begun' = begun + 1
             /\ \E i \in Ids, step \in Places :
                   /\ pc' = [pc EXCEPT ![c] = step] /\ token' = [token EXCEPT ![c] = i]
                   /\ step \in {"find", "locked", "blacklisted", "logout", "logoutAll", "keyCreate",
                                "keyRevoke", "keyCached"}
                   /\ step \in {"blacklisted", "logout"} => i \in held
                   /\ step = "blacklisted" =>
                         \A d \in Calls : token[d] = i /\ pc[d] \in Refreshing => origin[i] \in overlap'
             /\ overlap \subseteq overlap'
             /\ UNCHANGED <<row, origin, held>>

LEMMA BeginOfSession ==
    ASSUME TypeOK, NEW c \in Calls, BeginAny(c) \/ BeginWithKey(c)
    PROVE  Begins(c)
<1>1. PICK u \in Users, i \in Ids, step \in {"find", "locked", "blacklisted", "logout", "logoutAll",
                                             "keyCreate", "keyRevoke", "keyCached"} :
          Begin(c, u, i, step) /\ (step \in {"blacklisted", "logout"} => i \in held)
  BY DEF BeginAny, BeginWithKey, TypeOK
<1>2. step \in Places
  BY DEF Places, SqlSteps, RedisSteps, Swallowed
<1>3. /\ pc[c] = "idle" /\ begun < MaxCalls /\ begun' = begun + 1
      /\ pc' = [pc EXCEPT ![c] = step] /\ token' = [token EXCEPT ![c] = i]
      /\ UNCHANGED <<row, origin, held>>
  BY <1>1 DEF Begin, Goto, tables
<1>4. /\ overlap \subseteq overlap'
      /\ step = "blacklisted" =>
            \A d \in Calls : token[d] = i /\ pc[d] \in Refreshing => origin[i] \in overlap'
  BY <1>1 DEF Begin
<1> QED
  BY <1>1, <1>2, <1>3, <1>4 DEF Begins

-----------------------------------------------------------------------------
(* Rows and tokens                                                         *)

\* What is left when no call's place, row or token changes.
LEMMA RowFrame ==
    ASSUME RowInv, UNCHANGED <<row, origin, pc, token, held, begun>>
    PROVE  RowInv'
BY DEF RowInv, RowsLeft, InState

LEMMA RowSettles ==
    ASSUME TypeOK, RowInv, NEW c \in Calls, Settles(c)
    PROVE  RowInv'
<1>1. PICK n \in 0 .. MaxCalls : RowsLeft(n)
  BY DEF RowInv
<1>2. \A d \in Calls, P \in {Past, Creating, Refreshing, Named} : pc'[d] \in P => pc[d] \in P
  BY DEF Settles, TypeOK
<1>3. \A i \in Ids : row'[i] # "none" <=> row[i] # "none"
  BY DEF Settles
<1>4. RowsLeft(n)'
  <2>1. InState(Creating)' \subseteq InState(Creating)
    BY <1>2 DEF InState
  <2>2. Cardinality(InState(Creating)') <= Cardinality(InState(Creating))
    BY <2>1, CallsAreFinite, Count
  <2>3. Cardinality(InState(Creating)') \in Nat /\ Cardinality(InState(Creating)) \in Nat
    BY <2>1, CallsAreFinite, Count
  <2>4. begun' = begun /\ begun \in Nat /\ n \in Nat
    BY DEF Settles, TypeOK
  <2>5. n + Cardinality(InState(Creating)') <= begun'
    BY <1>1, <2>2, <2>3, <2>4 DEF RowsLeft
  <2> QED
    BY <1>1, <1>3, <2>5 DEF RowsLeft
<1>5. \A i \in Ids : origin[i] \in Ids /\ origin'[i] = origin[i]
  BY DEF Settles, TypeOK
<1>6. \A d \in Calls : token[d] \in Ids /\ token'[d] = token[d]
  BY DEF Settles, TypeOK
<1>7. held' = held /\ held \subseteq Ids
  BY DEF Settles, TypeOK
<1> QED
  BY <1>2, <1>3, <1>4, <1>5, <1>6, <1>7 DEF RowInv

\* A new row: it is free before, and the inserting call leaves the queue for one.
LEMMA RowInserted ==
    ASSUME TypeOK, RowInv, NEW c \in Calls, Creates(c) \/ Replaces(c)
    PROVE  RowInv'
<1>1. PICK n \in 0 .. MaxCalls : RowsLeft(n)
  BY DEF RowInv
<1>2. pc[c] \in Creating
  BY DEF Creates, Replaces, Creating, Refreshing
<1>3. n + 1 \in Ids /\ Fresh = n + 1 /\ row[Fresh] = "none"
  BY <1>1, <1>2, FreshIsFree
<1>4. row' = [row EXCEPT ![Fresh] = "live"]
  BY DEF Creates, Replaces, NewRow
<1>5. \A i \in Ids : row'[i] # "none" <=> row[i] # "none" \/ i = Fresh
  BY <1>4 DEF TypeOK
<1>6. \E o \in Ids : origin' = [origin EXCEPT ![Fresh] = o] /\ (o = Fresh \/ row[o] # "none")
  <2>1. CASE Creates(c)
    BY <1>3, <2>1 DEF Creates, NewRow
  <2>2. CASE Replaces(c)
    <3>1. row[token[c]] # "none" /\ token[c] \in Ids
      BY <2>2 DEF RowInv, Replaces, Named, Refreshing, TypeOK
    <3>2. row[origin[token[c]]] # "none" /\ origin[token[c]] \in Ids
      BY <3>1 DEF RowInv, TypeOK
    <3> QED
      BY <2>2, <3>2 DEF Replaces, NewRow
  <2> QED
    BY <2>1, <2>2
<1>7. RowsLeft(n + 1)'
  <2>1. /\ InState(Creating)' \subseteq InState(Creating) \ {c} /\ c \in InState(Creating)
    BY <1>2 DEF InState, Creates, Replaces, Creating, Refreshing, TypeOK
  <2>2. Cardinality(InState(Creating)') <= Cardinality(InState(Creating)) - 1
    BY <2>1, CallsAreFinite, Count
  <2>3. Cardinality(InState(Creating)') \in Nat /\ Cardinality(InState(Creating)) \in Nat
    BY <2>1, CallsAreFinite, Count
  <2>4. begun' = begun /\ begun \in Nat /\ n \in Nat
    BY DEF Creates, Replaces, TypeOK
  <2>5. (n + 1) + Cardinality(InState(Creating)') <= begun'
    BY <1>1, <2>2, <2>3, <2>4 DEF RowsLeft
  <2>6. \A i \in Ids : row'[i] # "none" <=> i <= n + 1
    BY <1>1, <1>3, <1>5, <2>4 DEF RowsLeft, Ids
  <2> QED
    BY <2>5, <2>6 DEF RowsLeft
<1>8. n + 1 \in 0 .. MaxCalls
  BY <1>3, SizeAssumption DEF Ids, SizeAssumption
<1>9. PICK o \in Ids : origin' = [origin EXCEPT ![Fresh] = o] /\ (o = Fresh \/ row[o] # "none")
  BY <1>6
<1>10. \A i \in Ids : row'[i] = "none" => origin'[i] = i
  BY <1>5, <1>9 DEF RowInv, TypeOK
<1>11. \A i \in Ids : row'[i] # "none" => row'[origin'[i]] # "none"
  BY <1>3, <1>5, <1>9 DEF RowInv, TypeOK
<1>12. \A d \in Calls : pc'[d] \in Named => row'[token'[d]] # "none"
  <2> SUFFICES ASSUME NEW d \in Calls, pc'[d] \in Named PROVE row'[token'[d]] # "none"
    OBVIOUS
  <2>1. CASE d = c
    BY <1>3, <1>5, <2>1 DEF Creates, Replaces, TypeOK, Named, Refreshing
  <2>2. CASE d # c
    BY <1>5, <2>2 DEF Creates, Replaces, TypeOK, RowInv
  <2> QED
    BY <2>1, <2>2
<1>13. \A i \in held' : row'[i] # "none"
  BY <1>3, <1>5 DEF Creates, Replaces, TypeOK, RowInv
<1> QED
  BY <1>7, <1>8, <1>10, <1>11, <1>12, <1>13 DEF RowInv

\* The other steps insert nothing: a check, the handing out of a token and the
\* beginning of a call, which takes one of those not yet begun.
LEMMA RowMoves ==
    ASSUME TypeOK, RowInv, NEW c \in Calls, Checks(c) \/ Hands(c) \/ Begins(c)
    PROVE  RowInv'
<1>1. PICK n \in 0 .. MaxCalls : RowsLeft(n)
  BY DEF RowInv
<1>2. UNCHANGED <<row, origin>>
  BY DEF Checks, Hands, Begins
<1>3. RowsLeft(n)'
  <2>0. begun \in Nat /\ n \in Nat /\ begun' \in Nat
    BY DEF TypeOK, Checks, Hands, Begins
  <2>1. CASE Checks(c) \/ Hands(c)
    <3>1. InState(Creating)' \subseteq InState(Creating)
      BY <2>1 DEF InState, Checks, Hands, TypeOK, Creating, Refreshing
    <3>2. /\ Cardinality(InState(Creating)') <= Cardinality(InState(Creating))
          /\ Cardinality(InState(Creating)') \in Nat /\ Cardinality(InState(Creating)) \in Nat
      BY <3>1, CallsAreFinite, Count
    <3>3. begun' = begun
      BY <2>1 DEF Checks, Hands
    <3> QED
      BY <1>1, <1>2, <2>0, <3>2, <3>3 DEF RowsLeft
  <2>2. CASE Begins(c)
    <3>1. InState(Creating)' \subseteq InState(Creating) \cup {c}
      BY <2>2 DEF InState, Begins, TypeOK
    <3>2. /\ Cardinality(InState(Creating)') <= Cardinality(InState(Creating)) + 1
          /\ Cardinality(InState(Creating)') \in Nat /\ Cardinality(InState(Creating)) \in Nat
      BY <3>1, CallsAreFinite, Count
    <3>3. begun' = begun + 1
      BY <2>2 DEF Begins
    <3> QED
      BY <1>1, <1>2, <2>0, <3>2, <3>3 DEF RowsLeft
  <2> QED
    BY <2>1, <2>2
<1>4. \A d \in Calls : pc'[d] \in Named => row'[token'[d]] # "none"
  <2>1. CASE Checks(c) \/ Hands(c)
    BY <1>2, <2>1 DEF Checks, Hands, RowInv, TypeOK, Named, Refreshing
  <2>2. CASE Begins(c)
    BY <1>2, <2>2 DEF Begins, RowInv, TypeOK, Named, Refreshing
  <2> QED
    BY <2>1, <2>2
<1>5. \A i \in held' : row'[i] # "none"
  BY <1>2 DEF Checks, Hands, Begins, RowInv, Named
<1> QED
  BY <1>2, <1>3, <1>4, <1>5 DEF RowInv

-----------------------------------------------------------------------------
(* Rotations                                                               *)

\* Nothing enters a rotation and no row comes alive.
LEMMA RotationQuiet ==
    ASSUME TypeOK, RotationInv, UNCHANGED <<origin, overlap>>,
           \A d \in Calls : pc'[d] \in Past \cup Refreshing => token'[d] = token[d],
           \A d \in Calls, P \in {Past, Refreshing} : pc'[d] \in P => pc[d] \in P,
           \A i \in Ids : row'[i] = row[i] \/ row'[i] = "revoked",
           \A d \in Calls : pc'[d] = "insert" => row'[token[d]] = "revoked"
    PROVE  RotationInv'
<1>1. \A i, j \in Ids : row'[i] = "live" /\ row'[j] = "live" /\ origin'[i] = origin'[j]
                        => i = j \/ origin'[i] \in overlap'
  BY DEF RotationInv
<1>2. \A d \in Calls, i \in Ids :
         pc'[d] \in Past /\ row'[i] = "live" /\ origin'[i] = origin'[token'[d]]
         => i = token'[d] \/ origin'[i] \in overlap'
  BY DEF RotationInv
<1>3. \A d \in Calls : pc'[d] = "insert" => row'[token'[d]] = "revoked"
  BY DEF Past, Refreshing
<1>4. \A d, e \in Calls :
         pc'[d] \in Past /\ pc'[e] \in Past /\ origin'[token'[d]] = origin'[token'[e]]
         => d = e \/ origin'[token'[d]] \in overlap'
  BY DEF RotationInv
<1>5. \A d, e \in Calls : pc'[d] \in Refreshing /\ pc'[e] \in Refreshing /\ token'[d] = token'[e]
                          => d = e \/ origin'[token'[d]] \in overlap'
  BY DEF RotationInv
<1> QED
  BY <1>1, <1>2, <1>3, <1>4, <1>5 DEF RotationInv

LEMMA RotationSettles ==
    ASSUME TypeOK, RotationInv, NEW c \in Calls, Settles(c) \/ Hands(c)
    PROVE  RotationInv'
<1>1. UNCHANGED <<origin, overlap, token>>
  BY DEF Settles, Hands
<1>2. \A d \in Calls, P \in {Past, Refreshing} : pc'[d] \in P => pc[d] \in P
  BY DEF Settles, Hands, TypeOK, Past, Refreshing
<1>3. \A i \in Ids : row'[i] = row[i] \/ row'[i] = "revoked"
  BY DEF Settles, Hands
<1>4. \A d \in Calls : pc'[d] = "insert" => row'[token[d]] = "revoked"
  <2> SUFFICES ASSUME NEW d \in Calls, pc'[d] = "insert" PROVE row'[token[d]] = "revoked"
    OBVIOUS
  <2>1. CASE pc[d] = "insert"
    BY <1>3, <2>1 DEF RotationInv, TypeOK
  <2>2. CASE pc[d] # "insert"
    BY <2>2 DEF Settles, Hands, TypeOK
  <2> QED
    BY <2>1, <2>2
<1> QED
  BY <1>1, <1>2, <1>3, <1>4, RotationQuiet

\* A check that passes is alone with its login: whoever was past it with a live
\* row had the same token, and then the two refreshes overlapped.
LEMMA RotationChecks ==
    ASSUME TypeOK, RotationInv, NEW c \in Calls, Checks(c)
    PROVE  RotationInv'
<1> DEFINE o == origin[token[c]]
<1>1. /\ pc[c] = "session" /\ row[token[c]] = "live" /\ pc' = [pc EXCEPT ![c] = "blacklist"]
      /\ UNCHANGED <<row, origin, token, overlap>> /\ token[c] \in Ids
  BY DEF Checks, TypeOK
<1>2. /\ \A d \in Calls : pc'[d] \in Past <=> pc[d] \in Past \/ d = c
      /\ \A d \in Calls : pc'[d] \in Refreshing <=> pc[d] \in Refreshing
      /\ \A d \in Calls : pc'[d] = "insert" <=> pc[d] = "insert"
  BY <1>1 DEF Past, Refreshing, TypeOK
<1>3. \A d \in Calls \ {c} : pc[d] \in Past /\ origin[token[d]] = o => o \in overlap
  <2> SUFFICES ASSUME NEW d \in Calls \ {c}, pc[d] \in Past, origin[token[d]] = o PROVE o \in overlap
    OBVIOUS
  <2>1. token[c] = token[d] \/ o \in overlap
    BY <1>1 DEF RotationInv
  <2>2. pc[c] \in Refreshing /\ pc[d] \in Refreshing
    BY <1>1 DEF Past, Refreshing
  <2> QED
    BY <2>1, <2>2 DEF RotationInv
<1>4. \A i \in Ids : row[i] = "live" /\ origin[i] = o => i = token[c] \/ o \in overlap
  BY <1>1 DEF RotationInv
<1>5. \A d \in Calls, i \in Ids :
         pc'[d] \in Past /\ row[i] = "live" /\ origin[i] = origin[token[d]]
         => i = token[d] \/ origin[i] \in overlap
  BY <1>2, <1>4 DEF RotationInv
<1>6. \A d, e \in Calls :
         pc'[d] \in Past /\ pc'[e] \in Past /\ origin[token[d]] = origin[token[e]]
         => d = e \/ origin[token[d]] \in overlap
  BY <1>2, <1>3 DEF RotationInv
<1> QED
  BY <1>1, <1>2, <1>5, <1>6 DEF RotationInv

\* A new row of a login of its own, or of one that has no other.
LEMMA RotationInserts ==
    ASSUME TypeOK, RowInv, RotationInv, NEW c \in Calls, Creates(c) \/ Replaces(c)
    PROVE  RotationInv'
<1>1. Fresh \in Ids /\ row[Fresh] = "none"
  BY FreshType DEF Creates, Replaces, Creating, Refreshing
<1>2. PICK o \in Ids : /\ NewRow(who[c], o)
                       /\ IF pc[c] = "create" THEN o = Fresh
                          ELSE pc[c] = "insert" /\ o = origin[token[c]]
  BY <1>1 DEF Creates, Replaces, TypeOK
<1>3. /\ row' = [row EXCEPT ![Fresh] = "live"] /\ origin' = [origin EXCEPT ![Fresh] = o]
      /\ overlap' = overlap
  BY <1>2 DEF NewRow, Creates, Replaces
<1>4. /\ \A d \in Calls, P \in {Past, Refreshing} : pc'[d] \in P <=> pc[d] \in P /\ d # c
      /\ \A d \in Calls \ {c} : token'[d] = token[d] /\ pc'[d] = pc[d]
      /\ pc'[c] \in {"idle", "touch"}
  BY DEF Creates, Replaces, TypeOK, Past, Refreshing
<1>5. \A d \in Calls : pc[d] \in Past \cup Refreshing
                       => /\ token[d] \in Ids \ {Fresh} /\ row[token[d]] # "none"
                          /\ row[origin[token[d]]] # "none"
  BY <1>1 DEF RowInv, Named, Past, TypeOK
<1>6. \A i \in Ids \ {Fresh} : row'[i] = row[i] /\ origin'[i] = origin[i]
  BY <1>3 DEF TypeOK
<1>7. row'[Fresh] = "live" /\ origin'[Fresh] = o
  BY <1>1, <1>3 DEF TypeOK
<1>8. \A i \in Ids : row[i] = "live" /\ origin[i] = o => o \in overlap
  <2> SUFFICES ASSUME NEW i \in Ids, row[i] = "live", origin[i] = o PROVE o \in overlap
    OBVIOUS
  <2>1. CASE pc[c] = "create"
    BY <1>1, <1>2, <2>1 DEF RowInv
  <2>2. CASE pc[c] # "create"
    <3>1. pc[c] \in Past /\ row[token[c]] = "revoked" /\ o = origin[token[c]]
      BY <1>2, <2>2 DEF RotationInv, Past, Refreshing
    <3> QED
      BY <3>1 DEF RotationInv
  <2> QED
    BY <2>1, <2>2
<1>9. \A d \in Calls \ {c} : pc[d] \in Past /\ origin[token[d]] = o => o \in overlap
  <2> SUFFICES ASSUME NEW d \in Calls \ {c}, pc[d] \in Past, origin[token[d]] = o PROVE o \in overlap
    OBVIOUS
  <2>1. CASE pc[c] = "create"
    BY <1>1, <1>2, <1>5, <2>1
  <2>2. CASE pc[c] # "create"
    <3>1. pc[c] \in Past /\ o = origin[token[c]]
      BY <1>2, <2>2 DEF Past, Refreshing
    <3> QED
      BY <3>1 DEF RotationInv
  <2> QED
    BY <2>1, <2>2
<1>10. \A i, j \in Ids : row'[i] = "live" /\ row'[j] = "live" /\ origin'[i] = origin'[j]
                         => i = j \/ origin'[i] \in overlap'
  BY <1>3, <1>6, <1>7, <1>8 DEF RotationInv
<1>11. \A d \in Calls, i \in Ids :
          pc'[d] \in Past /\ row'[i] = "live" /\ origin'[i] = origin'[token'[d]]
          => i = token'[d] \/ origin'[i] \in overlap'
  BY <1>3, <1>4, <1>5, <1>6, <1>7, <1>9 DEF RotationInv
<1>12. \A d \in Calls : pc'[d] = "insert" => row'[token'[d]] = "revoked"
  BY <1>4, <1>5, <1>6 DEF RotationInv, Past, Refreshing
<1>13. \A d, e \in Calls :
          pc'[d] \in Past /\ pc'[e] \in Past /\ origin'[token'[d]] = origin'[token'[e]]
          => d = e \/ origin'[token'[d]] \in overlap'
  BY <1>3, <1>4, <1>5, <1>6 DEF RotationInv
<1>14. \A d, e \in Calls : pc'[d] \in Refreshing /\ pc'[e] \in Refreshing /\ token'[d] = token'[e]
                           => d = e \/ origin'[token'[d]] \in overlap'
  BY <1>3, <1>4, <1>5, <1>6 DEF RotationInv
<1> QED
  BY <1>10, <1>11, <1>12, <1>13, <1>14 DEF RotationInv

LEMMA RotationBegins ==
    ASSUME TypeOK, RotationInv, NEW c \in Calls, Begins(c)
    PROVE  RotationInv'
<1>1. PICK i \in Ids, step \in Places :
         /\ pc' = [pc EXCEPT ![c] = step] /\ token' = [token EXCEPT ![c] = i]
         /\ step \in {"find", "locked", "blacklisted", "logout", "logoutAll", "keyCreate",
                      "keyRevoke", "keyCached"}
         /\ step = "blacklisted" =>
               \A d \in Calls : token[d] = i /\ pc[d] \in Refreshing => origin[i] \in overlap'
  BY DEF Begins
<1>2. overlap \subseteq overlap' /\ UNCHANGED <<row, origin>> /\ pc[c] = "idle"
  BY DEF Begins
<1>3. /\ \A d \in Calls \ {c} : pc'[d] = pc[d] /\ token'[d] = token[d]
      /\ pc'[c] = step /\ token'[c] = i
  BY <1>1 DEF TypeOK
<1>4. /\ \A d \in Calls : pc'[d] \in Past => d # c
      /\ pc'[c] \in Refreshing => step = "blacklisted"
      /\ pc'[c] # "insert"
  BY <1>1, <1>3 DEF Past, Refreshing
<1>5. \A d, e \in Calls : pc'[d] \in Refreshing /\ pc'[e] \in Refreshing /\ token'[d] = token'[e]
                          => d = e \/ origin'[token'[d]] \in overlap'
  <2> SUFFICES ASSUME NEW d \in Calls, NEW e \in Calls, pc'[d] \in Refreshing,
                      pc'[e] \in Refreshing, token'[d] = token'[e], d # e
               PROVE  origin[token'[d]] \in overlap'
    BY <1>2
  <2>1. CASE d = c
    BY <1>1, <1>3, <1>4, <2>1
  <2>2. CASE e = c
    BY <1>1, <1>3, <1>4, <2>2
  <2>3. CASE d # c /\ e # c
    BY <1>2, <1>3, <2>3 DEF RotationInv
  <2> QED
    BY <2>1, <2>2, <2>3
<1>6. \A d, e \in Calls :
         pc'[d] \in Past /\ pc'[e] \in Past /\ origin'[token'[d]] = origin'[token'[e]]
         => d = e \/ origin'[token'[d]] \in overlap'
  BY <1>2, <1>3, <1>4 DEF RotationInv
<1>7. \A d \in Calls, j \in Ids :
          pc'[d] \in Past /\ row'[j] = "live" /\ origin'[j] = origin'[token'[d]]
          => j = token'[d] \/ origin'[j] \in overlap'
  BY <1>2, <1>3, <1>4 DEF RotationInv
<1> QED
  BY <1>2, <1>3, <1>4, <1>5, <1>6, <1>7 DEF RotationInv

-----------------------------------------------------------------------------
(* The login guard                                                         *)

\* A call that goes on from one place to another leaves the calls of its user
\* at the one and joins those at the other.
LEMMA TryingMoves ==
    ASSUME TypeOK, NEW c \in Calls, NEW place, pc' = [pc EXCEPT ![c] = place], UNCHANGED who
    PROVE  \A u \in Users : \A P :
              Cardinality(Trying(u, P)') =
                Cardinality(Trying(u, P)) - (IF who[c] = u /\ pc[c] \in P THEN 1 ELSE 0)
                                          + (IF who[c] = u /\ place \in P THEN 1 ELSE 0)
<1> SUFFICES ASSUME NEW u \in Users, NEW P
             PROVE  Cardinality(Trying(u, P)') =
                      Cardinality(Trying(u, P)) - (IF who[c] = u /\ pc[c] \in P THEN 1 ELSE 0)
                                                + (IF who[c] = u /\ place \in P THEN 1 ELSE 0)
  OBVIOUS
<1> DEFINE S == Trying(u, P)
           R == Trying(u, P) \ {c}
<1>1. IsFiniteSet(S) /\ Cardinality(S) \in Nat
  BY CallsAreFinite
<1>2. c \in S <=> who[c] = u /\ pc[c] \in P
  BY DEF Trying
<1>3. IsFiniteSet(R) /\ Cardinality(R) = IF c \in S THEN Cardinality(S) - 1 ELSE Cardinality(S)
  BY <1>1, FS_RemoveElement
<1>4. Trying(u, P)' = IF who[c] = u /\ place \in P THEN R \cup {c} ELSE R
  BY DEF Trying, TypeOK
<1>5. Cardinality(R \cup {c}) = Cardinality(R) + 1
  BY <1>3, FS_AddElement
<1>6. Cardinality(R) \in Nat
  BY <1>3, FS_CardinalityType
<1> HIDE DEF S, R
<1> QED
  BY <1>1, <1>2, <1>3, <1>4, <1>5, <1>6 DEF S

\* A call that begins is at its first place only.
LEMMA TryingBegins ==
    ASSUME TypeOK, NEW c \in Calls, NEW u \in Users, NEW i, NEW step, Begin(c, u, i, step),
           NEW v \in Users, NEW P, "idle" \notin P
    PROVE  Cardinality(Trying(v, P)') =
             Cardinality(Trying(v, P)) + (IF u = v /\ step \in P THEN 1 ELSE 0)
<1>1. IsFiniteSet(Trying(v, P)) /\ Cardinality(Trying(v, P)) \in Nat
  BY CallsAreFinite
<1>2. c \notin Trying(v, P)
  BY DEF Trying, Begin
<1>3. Trying(v, P)' = IF u = v /\ step \in P THEN Trying(v, P) \cup {c} ELSE Trying(v, P)
  BY DEF Trying, Begin, Goto, TypeOK
<1>4. Cardinality(Trying(v, P) \cup {c}) = Cardinality(Trying(v, P)) + 1
  BY <1>1, <1>2, FS_AddElement
<1> QED
  BY <1>1, <1>3, <1>4

\* The steps of a login that the guard knows of, and all others.
Counts(c) == \/ /\ pc[c] = "locked" /\ pc' = [pc EXCEPT ![c] = "lookup"] /\ UNCHANGED guard
                /\ redis = "up" => ~lock[who[c]]
             \/ /\ pc[c] = "lookup" /\ pc' = [pc EXCEPT ![c] = "failure"] /\ UNCHANGED <<fails, lock>>
                /\ guesses' = [guesses EXCEPT ![who[c]] = @ + 1]
             \/ /\ pc[c] = "failure" /\ UNCHANGED <<lock, guesses>>
                /\ fails' = [fails EXCEPT ![who[c]] = IF redis = "up" THEN @ + 1 ELSE @]
                /\ pc' = [pc EXCEPT ![c] = IF redis = "up" /\ fails[who[c]] + 1 >= MaxAttempts
                                           THEN "lock" ELSE "idle"]
             \/ /\ pc[c] = "lock" /\ pc' = [pc EXCEPT ![c] = "idle"] /\ UNCHANGED <<fails, guesses>>
                /\ lock' = [lock EXCEPT ![who[c]] = @ \/ redis = "up"]
             \/ /\ pc[c] = "clear" /\ pc' = [pc EXCEPT ![c] = "create"] /\ ClearFailures(who[c])
Guarded == {"locked", "lookup", "failure", "lock"}
Ignores(c) == \E place \in Places \ Guarded :
                 /\ pc' = [pc EXCEPT ![c] = place] /\ UNCHANGED guard
                 /\ pc[c] \notin {"failure", "lock"}

LEMMA StepOfGuard ==
    ASSUME TypeOK, NEW c \in Calls, Step(c)
    PROVE  UNCHANGED <<who, begun, redis, faults>> /\ (Counts(c) \/ Ignores(c))
<1> USE DEF Goto, Answer, At, guard, stores, client, apikey
<1>0. pc[c] \in Places
  BY DEF TypeOK, Places
<1>1. CASE StoreFails(c)
  <2>1. pc[c] \notin {"failure", "lock"} /\ pc' = [pc EXCEPT ![c] = "idle"]
    BY <1>1 DEF StoreFails, SqlSteps, RedisSteps
  <2> QED
    BY <1>1, <2>1 DEF StoreFails, Ignores, Places, Guarded
<1>2. CASE Register(c)
  BY <1>2 DEF Register, Ignores, Places, Guarded, SqlSteps
<1>3. CASE CheckLock(c)
  <2>1. \/ pc' = [pc EXCEPT ![c] = "idle"]
        \/ pc' = [pc EXCEPT ![c] = "lookup"] /\ (redis = "up" => ~lock[who[c]])
    BY <1>3 DEF CheckLock
  <2>2. pc[c] = "locked" /\ UNCHANGED guard
    BY <1>3 DEF CheckLock
  <2> QED
    BY <1>3, <2>1, <2>2 DEF CheckLock, Counts, Ignores, Places, Guarded
<1>4. CASE Verify(c)
  <2>1. \/ pc' = [pc EXCEPT ![c] = "clear"] /\ UNCHANGED guesses
        \/ pc' = [pc EXCEPT ![c] = "failure"] /\ guesses' = [guesses EXCEPT ![who[c]] = @ + 1]
    BY <1>4 DEF Verify
  <2>2. pc[c] = "lookup" /\ UNCHANGED <<fails, lock>>
    BY <1>4 DEF Verify
  <2> QED
    BY <1>4, <2>1, <2>2 DEF Verify, Counts, Ignores, Places, Guarded, Swallowed
<1>5. CASE RecordFailure(c)
  <2>1. UNCHANGED <<who, begun, redis, faults, guesses>>
    BY <1>5 DEF RecordFailure
  <2>2. CASE pc[c] = "failure"
    <3>1. /\ fails' = [fails EXCEPT ![who[c]] = IF redis = "up" THEN @ + 1 ELSE @] /\ lock' = lock
          /\ pc' = [pc EXCEPT ![c] = IF redis = "up" /\ fails[who[c]] + 1 >= MaxAttempts
                                     THEN "lock" ELSE "idle"]
      BY <1>5, <2>2 DEF RecordFailure
    <3> QED
      BY <2>1, <2>2, <3>1 DEF Counts
  <2>3. CASE pc[c] = "lock"
    BY <1>5, <2>1, <2>3 DEF RecordFailure, Counts
  <2> QED
    BY <1>5, <2>2, <2>3 DEF RecordFailure
<1>6. CASE LogIn(c)
  <2>1. UNCHANGED <<who, begun, redis, faults>>
    BY <1>6 DEF LogIn
  <2>2. CASE pc[c] = "clear"
    BY <1>6, <2>1, <2>2 DEF LogIn, Counts
  <2>3. CASE pc[c] \in {"create", "touch"}
    <3>1. pc' = [pc EXCEPT ![c] = IF pc[c] = "create" THEN "touch" ELSE "idle"] /\ UNCHANGED guard
      BY <1>6, <2>3 DEF LogIn
    <3> QED
      BY <2>1, <2>3, <3>1 DEF Ignores, Places, Guarded, SqlSteps
  <2> QED
    BY <1>6, <2>2, <2>3 DEF LogIn
<1>7. CASE CheckReuse(c) \/ Rotate(c) \/ LogOut(c) \/ ManageKey(c) \/ UseKey(c)
  <2>1. UNCHANGED <<who, begun, redis, faults, guard>>
    BY <1>7 DEF CheckReuse, Rotate, LogOut, ManageKey, UseKey
  <2>2. pc[c] \notin {"failure", "lock"}
    BY <1>7 DEF CheckReuse, Rotate, LogOut, ManageKey, UseKey
  <2>3. \E place \in {"idle", "bump", "session", "blacklist", "role", "revoke", "insert", "logoutBlack",
                      "keyRow", "keyCache"} : pc' = [pc EXCEPT ![c] = place]
    <3>1. CASE CheckReuse(c)
      BY <3>1 DEF CheckReuse
    <3>2. CASE Rotate(c)
      BY <3>2 DEF Rotate
    <3>3. CASE LogOut(c)
      BY <3>3 DEF LogOut
    <3>4. CASE ManageKey(c) \/ UseKey(c)
      BY <3>4 DEF ManageKey, UseKey
    <3> QED
      BY <1>7, <3>1, <3>2, <3>3, <3>4
  <2> QED
    BY <2>1, <2>2, <2>3 DEF Ignores, Places, Guarded, SqlSteps, RedisSteps, Swallowed
<1> QED
  BY <1>1, <1>2, <1>3, <1>4, <1>5, <1>6, <1>7 DEF Step

LEMMA GuardTypes ==
    ASSUME TypeOK
    PROVE  /\ MaxAttempts \in Nat \ {0} /\ Cardinality(Calls) \in Nat /\ begun \in Nat
           /\ \A u \in Users : fails[u] \in Nat /\ guesses[u] \in Nat /\ lock[u] \in BOOLEAN
           /\ \A u \in Users : \A P : Cardinality(Trying(u, P)) \in Nat
BY SizeAssumption, CallsAreFinite, FS_CardinalityType DEF TypeOK, SizeAssumption

\* Those at the count and those at the password are different calls.
LEMMA CallersDiffer ==
    ASSUME TypeOK, NEW u \in Users
    PROVE  Cardinality(Trying(u, {"failure", "lock"})) + Cardinality(Trying(u, {"lookup"}))
           <= Cardinality(Calls)
<1> DEFINE S == Trying(u, {"failure", "lock"})
           T == Trying(u, {"lookup"})
<1>1. IsFiniteSet(S) /\ IsFiniteSet(T) /\ IsFiniteSet(Calls)
  BY CallsAreFinite, SizeAssumption DEF SizeAssumption
<1>2. S \cup T \in SUBSET Calls /\ S \cap T = {}
  BY DEF Trying
<1>3. Cardinality(S \cup T) = Cardinality(S) + Cardinality(T) - Cardinality({})
  BY <1>1, <1>2, FS_Union
<1>4. Cardinality(S \cup T) <= Cardinality(Calls)
  BY <1>1, <1>2, FS_Subset
<1>5. Cardinality({}) = 0 /\ Cardinality(S) \in Nat /\ Cardinality(T) \in Nat
  BY <1>1, FS_EmptySet, FS_CardinalityType
<1> QED
  BY <1>3, <1>4, <1>5

LEMMA CountFrame ==
    ASSUME CountInv, TypeOK, UNCHANGED <<pc, who, begun>>,
           \A u \in Users : fails'[u] \in 0 .. fails[u] /\ guesses'[u] \in 0 .. guesses[u]
    PROVE  CountInv'
<1>1. ASSUME NEW u \in Users, NEW P PROVE Trying(u, P)' = Trying(u, P)
  BY DEF Trying
<1> QED
  BY <1>1, GuardTypes DEF CountInv

LEMMA CountStep ==
    ASSUME TypeOK, CountInv, NEW c \in Calls, Step(c)
    PROVE  CountInv'
<1>1. UNCHANGED <<who, begun, redis, faults>> /\ (Counts(c) \/ Ignores(c))
  BY StepOfGuard
<1>2. SUFFICES ASSUME NEW u \in Users
      PROVE  /\ fails'[u] + Cardinality(Trying(u, {"locked", "lookup", "failure"})') <= begun
             /\ guesses'[u] + Cardinality(Trying(u, {"locked", "lookup"})') <= begun
  BY <1>1 DEF CountInv
<1> DEFINE P1 == {"locked", "lookup", "failure"}
           P2 == {"locked", "lookup"}
           One(p, P) == IF who[c] = u /\ p \in P THEN 1 ELSE 0
           A == Cardinality(Trying(u, P1))
           AA == Cardinality(Trying(u, P1)')
           B == Cardinality(Trying(u, P2))
           BB == Cardinality(Trying(u, P2)')
<1> HIDE DEF P1, P2
<1>3. /\ AA = A - One(pc[c], P1) + One(pc'[c], P1)
      /\ BB = B - One(pc[c], P2) + One(pc'[c], P2)
  <2>1. UNCHANGED who /\ pc' = [pc EXCEPT ![c] = pc'[c]]
    BY <1>1 DEF Counts, Ignores, TypeOK
  <2>2. \A P : Cardinality(Trying(u, P)') = Cardinality(Trying(u, P)) - One(pc[c], P) + One(pc'[c], P)
    BY <2>1, TryingMoves
  <2> QED
    BY <2>2
<1>4. /\ fails[u] + A <= begun /\ guesses[u] + B <= begun
      /\ fails[u] \in Nat /\ guesses[u] \in Nat /\ begun \in Nat /\ A \in Nat /\ B \in Nat
  BY GuardTypes DEF CountInv, P1, P2
<1> HIDE DEF A, AA, B, BB
<1> SUFFICES fails'[u] + AA <= begun /\ guesses'[u] + BB <= begun
  BY DEF A, AA, B, BB, P1, P2
<1> USE DEF P1, P2
<1>5. CASE Ignores(c)
  <2>1. pc'[c] \notin P1 \cup P2 /\ UNCHANGED guard
    BY <1>5 DEF Ignores, Guarded, TypeOK
  <2> QED
    BY <1>3, <1>4, <2>1 DEF guard
<1>6. CASE Counts(c)
  <2>1. CASE pc[c] = "locked"
    <3>1. pc'[c] = "lookup" /\ UNCHANGED guard
      BY <1>6, <2>1 DEF Counts, TypeOK
    <3> QED
      BY <1>3, <1>4, <2>1, <3>1 DEF guard
  <2>2. CASE pc[c] = "lookup"
    <3>1. /\ pc'[c] = "failure" /\ fails' = fails
          /\ guesses'[u] = guesses[u] + (IF who[c] = u THEN 1 ELSE 0)
      BY <1>6, <2>2 DEF Counts, TypeOK
    <3> QED
      BY <1>3, <1>4, <2>2, <3>1
  <2>3. CASE pc[c] = "failure"
    <3>1. /\ guesses' = guesses /\ pc'[c] \in {"lock", "idle"}
          /\ fails'[u] = fails[u] \/ (fails'[u] = fails[u] + 1 /\ who[c] = u)
      BY <1>6, <2>3 DEF Counts, TypeOK
    <3> QED
      BY <1>3, <1>4, <2>3, <3>1
  <2>4. CASE pc[c] = "lock"
    <3>1. fails' = fails /\ guesses' = guesses /\ pc'[c] = "idle"
      BY <1>6, <2>4 DEF Counts, TypeOK
    <3> QED
      BY <1>3, <1>4, <2>4, <3>1
  <2>5. CASE pc[c] = "clear"
    <3>1. fails'[u] \in {0, fails[u]} /\ guesses'[u] \in {0, guesses[u]} /\ pc'[c] = "create"
      BY <1>6, <2>5 DEF Counts, ClearFailures, TypeOK
    <3> QED
      BY <1>3, <1>4, <2>5, <3>1
  <2> QED
    BY <1>6, <2>1, <2>2, <2>3, <2>4, <2>5 DEF Counts
<1> QED
  BY <1>1, <1>5, <1>6

LEMMA CountBegins ==
    ASSUME TypeOK, CountInv, NEW c \in Calls, BeginAny(c) \/ BeginWithKey(c)
    PROVE  CountInv'
<1>1. PICK v \in Users, i \in Ids, step \in {"find", "locked", "blacklisted", "logout", "logoutAll",
                                            "keyCreate", "keyRevoke", "keyCached"} : Begin(c, v, i, step)
  BY DEF BeginAny, BeginWithKey, TypeOK
<1>2. begun' = begun + 1 /\ UNCHANGED guard
  BY <1>1 DEF Begin
<1>3. ASSUME NEW u \in Users
      PROVE  /\ Cardinality(Trying(u, {"locked", "lookup", "failure"})')
                <= Cardinality(Trying(u, {"locked", "lookup", "failure"})) + 1
             /\ Cardinality(Trying(u, {"locked", "lookup"})')
                <= Cardinality(Trying(u, {"locked", "lookup"})) + 1
             /\ Cardinality(Trying(u, {"locked", "lookup", "failure"})') \in Nat
             /\ Cardinality(Trying(u, {"locked", "lookup"})') \in Nat
  BY <1>1, TryingBegins, GuardTypes
<1> QED
  BY <1>2, <1>3, GuardTypes DEF CountInv, guard

\* The same for the bounds of the guard, with those at the count and those at the
\* password.
LEMMA GuardStep ==
    ASSUME TypeOK, GuardInv, NEW c \in Calls, Step(c)
    PROVE  GuardInv'
<1>1. UNCHANGED <<who, begun, redis, faults>> /\ (Counts(c) \/ Ignores(c))
  BY StepOfGuard
<1> SUFFICES ASSUME redis = "up", faults = 0, NEW u \in Users
             PROVE  LET counting == Cardinality(Trying(u, {"failure", "lock"})') IN
                    IF lock'[u] THEN guesses'[u] + Cardinality(Trying(u, {"lookup"})')
                                     <= MaxAttempts - 1 + Cardinality(Calls)
                    ELSE guesses'[u] <= fails'[u] + counting
                         /\ guesses'[u] <= MaxAttempts - 1 + counting
  BY <1>1 DEF GuardInv
<1> DEFINE P1 == {"failure", "lock"}
           P2 == {"lookup"}
           One(p, P) == IF who[c] = u /\ p \in P THEN 1 ELSE 0
           N == Cardinality(Calls)
           A == Cardinality(Trying(u, P1))
           AA == Cardinality(Trying(u, P1)')
           B == Cardinality(Trying(u, P2))
           BB == Cardinality(Trying(u, P2)')
<1> HIDE DEF P1, P2
<1>2. UNCHANGED who /\ pc' = [pc EXCEPT ![c] = pc'[c]]
  BY <1>1 DEF Counts, Ignores, TypeOK
<1>3. /\ AA = A - One(pc[c], P1) + One(pc'[c], P1)
      /\ BB = B - One(pc[c], P2) + One(pc'[c], P2)
  <2>1. \A P : Cardinality(Trying(u, P)') = Cardinality(Trying(u, P)) - One(pc[c], P) + One(pc'[c], P)
    BY <1>2, TryingMoves
  <2> QED
    BY <2>1
<1>4. /\ IF lock[u] THEN guesses[u] + B <= MaxAttempts - 1 + N
         ELSE guesses[u] <= fails[u] + A /\ guesses[u] <= MaxAttempts - 1 + A
      /\ A + B <= N
  BY CallersDiffer DEF GuardInv, P1, P2
<1>5. /\ fails[u] \in Nat /\ guesses[u] \in Nat /\ A \in Nat /\ B \in Nat /\ N \in Nat
      /\ lock[u] \in BOOLEAN /\ MaxAttempts \in Nat \ {0} /\ AA \in Nat
  <2>1. Trying(u, P1)' \in SUBSET Calls /\ IsFiniteSet(Calls)
    BY SizeAssumption DEF Trying, SizeAssumption
  <2>2. AA \in Nat
    BY <2>1, FS_Subset, FS_CardinalityType
  <2> QED
    BY <2>2, GuardTypes
<1> HIDE DEF A, AA, B, BB, N
<1> SUFFICES IF lock'[u] THEN guesses'[u] + BB <= MaxAttempts - 1 + N
             ELSE guesses'[u] <= fails'[u] + AA /\ guesses'[u] <= MaxAttempts - 1 + AA
  BY DEF A, AA, B, BB, N, P1, P2
<1> USE DEF P1, P2
<1>6. CASE Ignores(c)
  <2>1. pc'[c] \notin P1 \cup P2 /\ pc[c] \notin P1 /\ UNCHANGED guard
    BY <1>6 DEF Ignores, Guarded, TypeOK
  <2> QED
    BY <1>3, <1>4, <1>5, <2>1 DEF guard
<1>7. CASE Counts(c)
  <2>1. CASE pc[c] = "locked"
    <3>1. pc'[c] = "lookup" /\ UNCHANGED guard /\ (who[c] = u => ~lock[u])
      BY <1>7, <2>1 DEF Counts, TypeOK
    <3> QED
      BY <1>3, <1>4, <1>5, <2>1, <3>1 DEF guard
  <2>2. CASE pc[c] = "lookup"
    <3>1. /\ pc'[c] = "failure" /\ fails' = fails /\ lock' = lock
          /\ guesses'[u] = guesses[u] + (IF who[c] = u THEN 1 ELSE 0)
      BY <1>7, <2>2 DEF Counts, TypeOK
    <3> QED
      BY <1>3, <1>4, <1>5, <2>2, <3>1
  <2>3. CASE pc[c] = "failure"
    <3>1. guesses' = guesses /\ lock' = lock
      BY <1>7, <2>3 DEF Counts
    <3>2. BB = B
      BY <1>3, <1>5, <1>7, <2>3 DEF Counts, TypeOK
    <3>3. CASE who[c] # u
      <4>1. fails'[u] = fails[u] /\ AA = A
        BY <1>3, <1>5, <1>7, <2>3, <3>3 DEF Counts, TypeOK
      <4> QED
        BY <1>4, <3>1, <3>2, <4>1
    <3>4. CASE who[c] = u
      <4>1. fails'[u] = fails[u] + 1
        BY <1>7, <2>3, <3>4 DEF Counts, TypeOK
      <4>2. pc'[c] = IF fails[u] + 1 >= MaxAttempts THEN "lock" ELSE "idle"
        BY <1>7, <2>3, <3>4 DEF Counts, TypeOK
      <4>3. CASE fails[u] + 1 >= MaxAttempts
        <5>1. AA = A
          BY <1>3, <1>5, <2>3, <3>4, <4>2, <4>3
        <5> QED
          BY <1>4, <1>5, <3>1, <3>2, <4>1, <5>1
      <4>4. CASE ~(fails[u] + 1 >= MaxAttempts)
        <5>1. AA = A - 1
          BY <1>3, <1>5, <2>3, <3>4, <4>2, <4>4
        <5> QED
          BY <1>4, <1>5, <3>1, <3>2, <4>1, <4>4, <5>1
      <4> QED
        BY <4>3, <4>4
    <3> QED
      BY <3>3, <3>4
  <2>4. CASE pc[c] = "lock"
    <3>1. /\ fails' = fails /\ guesses' = guesses /\ pc'[c] = "idle"
          /\ lock'[u] = (lock[u] \/ who[c] = u)
      BY <1>7, <2>4 DEF Counts, TypeOK
    <3>2. BB = B /\ AA = IF who[c] = u THEN A - 1 ELSE A
      BY <1>3, <1>5, <2>4, <3>1
    <3>3. CASE who[c] = u
      <4>1. lock'[u] /\ guesses'[u] = guesses[u]
        BY <1>5, <3>1, <3>3
      <4>2. guesses[u] + B <= MaxAttempts - 1 + N
        BY <1>4, <1>5
      <4> QED
        BY <3>2, <4>1, <4>2
    <3>4. CASE who[c] # u
      <4>1. lock'[u] = lock[u]
        BY <1>5, <3>1, <3>4
      <4> QED
        BY <1>4, <3>1, <3>2, <3>4, <4>1
    <3> QED
      BY <3>3, <3>4
  <2>5. CASE pc[c] = "clear"
    <3>1. /\ pc'[c] = "create"
          /\ IF who[c] = u THEN fails'[u] = 0 /\ guesses'[u] = 0 /\ ~lock'[u]
             ELSE fails'[u] = fails[u] /\ guesses'[u] = guesses[u] /\ lock'[u] = lock[u]
      BY <1>7, <2>5 DEF Counts, ClearFailures, TypeOK
    <3> QED
      BY <1>3, <1>4, <1>5, <2>5, <3>1
  <2> QED
    BY <1>7, <2>1, <2>2, <2>3, <2>4, <2>5 DEF Counts
<1> QED
  BY <1>1, <1>6, <1>7

LEMMA GuardBegins ==
    ASSUME TypeOK, GuardInv, NEW c \in Calls, BeginAny(c) \/ BeginWithKey(c)
    PROVE  GuardInv'
<1>1. PICK v \in Users, i \in Ids, step \in {"find", "locked", "blacklisted", "logout", "logoutAll",
                                             "keyCreate", "keyRevoke", "keyCached"} : Begin(c, v, i, step)
  BY DEF BeginAny, BeginWithKey, TypeOK
<1>2. UNCHANGED <<guard, redis, faults>>
  BY <1>1 DEF Begin, stores
<1>3. ASSUME NEW u \in Users
      PROVE  /\ Cardinality(Trying(u, {"failure", "lock"})') = Cardinality(Trying(u, {"failure", "lock"}))
             /\ Cardinality(Trying(u, {"lookup"})') = Cardinality(Trying(u, {"lookup"}))
  <2>1. ASSUME NEW P, "idle" \notin P, step \notin P
        PROVE  Cardinality(Trying(u, P)') = Cardinality(Trying(u, P))
    <3>1. Cardinality(Trying(u, P)') = Cardinality(Trying(u, P)) + (IF v = u /\ step \in P THEN 1 ELSE 0)
      BY <1>1, <2>1, TryingBegins
    <3> QED
      BY <2>1, <3>1, GuardTypes
  <2> QED
    BY <2>1
<1> QED
  BY <1>2, <1>3 DEF GuardInv, guard

\* The stores: what expires is forgotten by the guard, too; a store that goes
\* down or comes back ends what is said of it.
LEMMA GuardStores ==
    ASSUME TypeOK, GuardInv, CountInv, Tick \/ Expire \/ Toggle
    PROVE  GuardInv' /\ CountInv'
<1>1. UNCHANGED <<pc, who, begun>>
  BY DEF Tick, Expire, Toggle
<1>2. \A u \in Users : \A P : Trying(u, P)' = Trying(u, P)
  BY <1>1 DEF Trying
<1>3. \A u \in Users : fails'[u] \in 0 .. fails[u] /\ guesses'[u] \in 0 .. guesses[u]
  <2>1. CASE Tick \/ Toggle
    BY <2>1, GuardTypes DEF Tick, Toggle, guard
  <2>2. CASE Expire
    <3>1. fails' = fails \/ \E u \in Users : fails' = [fails EXCEPT ![u] = 0]
      BY <2>2 DEF Expire, guard
    <3>2. guesses' = guesses \/ \E u \in Users : guesses' = [guesses EXCEPT ![u] = 0]
      BY <2>2 DEF Expire, guard
    <3> QED
      BY <3>1, <3>2, GuardTypes DEF TypeOK
  <2> QED
    BY <2>1, <2>2
<1>4. CountInv'
  BY <1>1, <1>3, CountFrame
<1>5. CASE Tick
  <2>1. UNCHANGED <<redis, faults, fails, lock, guesses>>
    BY <1>5 DEF Tick, guard, stores
  <2> QED
    BY <1>2, <1>4, <2>1 DEF GuardInv
<1>6. CASE Toggle
  <2>1. faults' # 0
    BY <1>6 DEF Toggle, TypeOK
  <2> QED
    BY <1>4, <2>1 DEF GuardInv
<1>7. CASE Expire
  <2>1. UNCHANGED <<redis, faults>>
    BY <1>7 DEF Expire, stores
  <2>2. ASSUME NEW u \in Users
        PROVE  \/ UNCHANGED <<fails[u], guesses[u], lock[u]>>
               \/ guesses'[u] = 0 /\ ~lock'[u] /\ fails'[u] \in Nat
    BY <1>7, GuardTypes DEF Expire, guard, TypeOK
  <2>3. ASSUME redis = "up", faults = 0, NEW u \in Users
        PROVE  LET counting == Cardinality(Trying(u, {"failure", "lock"})) IN
               IF lock'[u] THEN guesses'[u] + Cardinality(Trying(u, {"lookup"}))
                                <= MaxAttempts - 1 + Cardinality(Calls)
               ELSE guesses'[u] <= fails'[u] + counting /\ guesses'[u] <= MaxAttempts - 1 + counting
    <3>1. CASE UNCHANGED <<fails[u], guesses[u], lock[u]>>
      BY <2>3, <3>1 DEF GuardInv
    <3>2. CASE guesses'[u] = 0 /\ ~lock'[u] /\ fails'[u] \in Nat
      BY <3>2, GuardTypes
    <3> QED
      BY <2>2, <3>1, <3>2
  <2> QED
    BY <1>2, <1>4, <2>1, <2>3 DEF GuardInv
<1> QED
  BY <1>4, <1>5, <1>6, <1>7

-----------------------------------------------------------------------------
(* The cache of the API keys                                               *)

LEMMA KeyFrame ==
    ASSUME KeyInv, TypeOK, UNCHANGED <<key, cached, stale, hold>>, NEW c \in Calls,
           pc' = [pc EXCEPT ![c] = pc'[c]], pc[c] # "keyCache", pc'[c] # "keyCache"
    PROVE  KeyInv'
<1>1. \A d \in Calls : IF pc'[d] = "keyCache" THEN stale' <= hold'[d] ELSE hold'[d] = 0
  BY DEF KeyInv, TypeOK
<1> QED
  BY <1>1 DEF KeyInv, StalenessIsBounded

LEMMA KeyTypes ==
    ASSUME TypeOK
    PROVE  /\ KeyTTL \in Nat \ {0} /\ MaxHold \in Nat /\ cached \in Nat /\ stale \in Nat
           /\ cached <= KeyTTL /\ \A c \in Calls : hold[c] \in Nat /\ hold[c] <= MaxHold
BY SizeAssumption DEF TypeOK, SizeAssumption

\* A call of the key path: the row is read live, so the key was not revoked before;
\* what is cached then is as old as the call has held the row.
LEMMA KeyStep ==
    ASSUME TypeOK, KeyInv, NEW c \in Calls, Step(c)
    PROVE  KeyInv'
<1> USE DEF Goto, Answer, At, apikey
<1>1. CASE \/ Register(c) \/ CheckLock(c) \/ Verify(c) \/ RecordFailure(c) \/ LogIn(c)
           \/ CheckReuse(c) \/ Rotate(c) \/ LogOut(c)
  <2>1. UNCHANGED <<key, cached, stale, hold>>
    BY <1>1 DEF Register, CheckLock, Verify, RecordFailure, LogIn, CheckReuse, Rotate, LogOut
  <2>2. pc[c] # "keyCache"
    BY <1>1 DEF Register, CheckLock, Verify, RecordFailure, LogIn, CheckReuse, Rotate, LogOut
  <2>3. \E place \in Places \ {"keyCache"} : pc' = [pc EXCEPT ![c] = place]
    <3>1. CASE Register(c) \/ CheckLock(c)
      BY <3>1 DEF Register, CheckLock, Places, SqlSteps
    <3>2. CASE Verify(c) \/ RecordFailure(c)
      BY <3>2 DEF Verify, RecordFailure, Places, Swallowed
    <3>3. CASE LogIn(c) \/ CheckReuse(c)
      BY <3>3 DEF LogIn, CheckReuse, Places, SqlSteps, RedisSteps
    <3>4. CASE Rotate(c)
      BY <3>4 DEF Rotate, Places, SqlSteps, RedisSteps
    <3>5. CASE LogOut(c)
      BY <3>5 DEF LogOut, Places, RedisSteps, Swallowed
    <3> QED
      BY <1>1, <3>1, <3>2, <3>3, <3>4, <3>5
  <2> QED
    BY <2>1, <2>2, <2>3, KeyFrame DEF TypeOK
<1>2. CASE StoreFails(c)
  <2>1. /\ pc' = [pc EXCEPT ![c] = "idle"] /\ hold' = [hold EXCEPT ![c] = 0]
        /\ UNCHANGED <<key, cached, stale>>
    BY <1>2 DEF StoreFails
  <2>2. \A d \in Calls : IF pc'[d] = "keyCache" THEN stale' <= hold'[d] ELSE hold'[d] = 0
    BY <2>1 DEF KeyInv, TypeOK
  <2> QED
    BY <2>1, <2>2 DEF KeyInv, StalenessIsBounded
<1>3. CASE ManageKey(c)
  <2>1. /\ pc' = [pc EXCEPT ![c] = "idle"] /\ pc[c] # "keyCache"
        /\ UNCHANGED <<cached, stale, hold>>
    BY <1>3 DEF ManageKey
  <2>2. \A d \in Calls : IF pc'[d] = "keyCache" THEN stale' <= hold'[d] ELSE hold'[d] = 0
    BY <2>1 DEF KeyInv, TypeOK
  <2>3. key' # "revoked" => key # "revoked"
    BY <1>3 DEF ManageKey
  <2> QED
    BY <2>1, <2>2, <2>3 DEF KeyInv, StalenessIsBounded
<1>4. CASE UseKey(c)
  <2>1. UNCHANGED <<key, stale>>
    BY <1>4 DEF UseKey
  <2>2. CASE pc[c] \in {"keyCached", "keyRow"} /\ pc'[c] # "keyCache"
    BY <1>4, <2>2, KeyFrame DEF UseKey, TypeOK
  <2>3. CASE pc[c] = "keyRow" /\ pc'[c] = "keyCache"
    <3>1. key = "live" /\ pc' = [pc EXCEPT ![c] = "keyCache"] /\ UNCHANGED <<cached, hold>>
      BY <1>4, <2>3 DEF UseKey, TypeOK
    <3>2. \A d \in Calls : IF pc'[d] = "keyCache" THEN stale' <= hold'[d] ELSE hold'[d] = 0
      BY <2>1, <2>3, <3>1, KeyTypes DEF KeyInv, TypeOK
    <3> QED
      BY <2>1, <3>1, <3>2 DEF KeyInv, StalenessIsBounded
  <2>4. CASE pc[c] = "keyCache"
    <3>1. /\ cached' = KeyTTL /\ hold' = [hold EXCEPT ![c] = 0] /\ pc' = [pc EXCEPT ![c] = "idle"]
      BY <1>4, <2>4 DEF UseKey
    <3>2. stale <= MaxHold
      BY <2>4, KeyTypes DEF KeyInv
    <3>3. stale' + cached' <= KeyTTL + MaxHold
      BY <2>1, <3>1, <3>2, KeyTypes
    <3>4. \A d \in Calls : IF pc'[d] = "keyCache" THEN stale' <= hold'[d] ELSE hold'[d] = 0
      BY <2>1, <3>1 DEF KeyInv, TypeOK
    <3> QED
      BY <2>1, <3>3, <3>4 DEF KeyInv, StalenessIsBounded
  <2>5. pc[c] \in {"keyCached", "keyRow", "keyCache"}
    BY <1>4 DEF UseKey
  <2>6. pc[c] = "keyCached" => pc'[c] # "keyCache"
    BY <1>4 DEF UseKey, TypeOK
  <2> QED
    BY <2>2, <2>3, <2>4, <2>5, <2>6
<1> QED
  BY <1>1, <1>2, <1>3, <1>4 DEF Step

LEMMA KeyBegins ==
    ASSUME TypeOK, KeyInv, NEW c \in Calls, BeginAny(c) \/ BeginWithKey(c)
    PROVE  KeyInv'
<1>1. PICK u \in Users, i \in Ids, step \in {"find", "locked", "blacklisted", "logout", "logoutAll",
                                             "keyCreate", "keyRevoke", "keyCached"} :
          Begin(c, u, i, step)
  BY DEF BeginAny, BeginWithKey, TypeOK
<1>2. /\ UNCHANGED <<key, cached, stale, hold>> /\ pc[c] = "idle"
      /\ pc' = [pc EXCEPT ![c] = step] /\ step # "keyCache"
  BY <1>1 DEF Begin, Goto, apikey
<1> QED
  BY <1>2, KeyFrame DEF TypeOK

\* Time: what is left of the entry shrinks as fast as the key grows stale, and
\* the calls that hold the row hold it for as long.
LEMMA KeyStores ==
    ASSUME TypeOK, KeyInv, Tick \/ Expire \/ Toggle
    PROVE  KeyInv'
<1>1. CASE Expire \/ Toggle
  BY <1>1 DEF Expire, Toggle, KeyInv, StalenessIsBounded, apikey
<1>2. CASE Tick
  <2>1. UNCHANGED <<key, pc>>
    BY <1>2 DEF Tick
  <2>2. stale' \in {stale, stale + 1} /\ (key # "revoked" => stale' = stale)
    BY <1>2 DEF Tick
  <2>3. \A d \in Calls : IF pc'[d] = "keyCache" THEN stale' <= hold'[d] ELSE hold'[d] = 0
    BY <1>2, <2>1, <2>2, KeyTypes DEF Tick, KeyInv
  <2>4. cached' = IF cached > 0 THEN cached - 1 ELSE 0
    BY <1>2 DEF Tick
  <2>5. StalenessIsBounded'
    BY <2>2, <2>4, KeyTypes DEF KeyInv, StalenessIsBounded
  <2> QED
    BY <2>1, <2>2, <2>3, <2>5 DEF KeyInv
<1> QED
  BY <1>1, <1>2

-----------------------------------------------------------------------------
(* The invariant is inductive.                                             *)

LEMMA InitIInv == Init => IInv
<1> SUFFICES ASSUME Init PROVE IInv
  OBVIOUS
<1>1. TypeOK
  BY InitType
<1>2. InState(Creating) = {} /\ \A u, P : "idle" \notin P => Trying(u, P) = {}
  BY DEF Init, InState, Trying, Creating, Refreshing
<1>3. RowInv
  <2>1. RowsLeft(0)
    <3>1. \A i \in Ids : ~(i <= 0)
      BY SizeAssumption DEF Ids, SizeAssumption
    <3> QED
      BY <1>2, <3>1, FS_EmptySet DEF Init, RowsLeft
  <2>2. 0 \in 0 .. MaxCalls
    BY SizeAssumption DEF SizeAssumption
  <2> QED
    BY <2>1, <2>2 DEF Init, RowInv, Named, Refreshing
<1>4. RotationInv
  BY DEF Init, RotationInv, Past, Refreshing
<1>5. Cardinality({}) = 0
  BY FS_EmptySet
<1>6. CountInv
  <2>1. \A u \in Users : guesses[u] = 0 /\ fails[u] = 0
    BY DEF Init
  <2>2. \A u \in Users : /\ Trying(u, {"locked", "lookup", "failure"}) = {}
                        /\ Trying(u, {"locked", "lookup"}) = {}
    BY <1>2
  <2>3. begun = 0
    BY DEF Init
  <2> QED
    BY <1>5, <2>1, <2>2, <2>3 DEF CountInv
<1>7. GuardInv
  <2>1. \A u \in Users : ~lock[u] /\ guesses[u] = 0 /\ fails[u] = 0
    BY DEF Init
  <2>2. \A u \in Users : Trying(u, {"failure", "lock"}) = {}
    BY <1>2
  <2>3. MaxAttempts - 1 >= 0
    BY SizeAssumption DEF SizeAssumption
  <2>4. \A u \in Users : /\ guesses[u] <= fails[u] + Cardinality(Trying(u, {"failure", "lock"}))
                        /\ guesses[u] <= MaxAttempts - 1 + Cardinality(Trying(u, {"failure", "lock"}))
    BY <1>1, <1>5, <2>1, <2>2, <2>3, GuardTypes
  <2> QED
    BY <2>1, <2>4 DEF GuardInv
<1>8. KeyInv
  BY DEF Init, KeyInv, StalenessIsBounded
<1> QED
  BY <1>1, <1>3, <1>4, <1>6, <1>7, <1>8 DEF IInv

LEMMA StepIInv == IInv /\ [Next]_vars => IInv'
<1> SUFFICES ASSUME IInv, [Next]_vars PROVE IInv'
  OBVIOUS
<1> USE DEF IInv
<1>1. TypeOK'
  BY NextType
<1>2. CASE UNCHANGED vars
  <2>1. UNCHANGED <<row, origin, pc, who, token, held, overlap, begun>>
    BY <1>2 DEF vars, tables, client
  <2>2. UNCHANGED <<fails, lock, guesses, redis, faults, key, cached, stale, hold>>
    BY <1>2 DEF vars, guard, stores, apikey
  <2>3. RowInv'
    BY <2>1, RowFrame
  <2>4. RotationInv'
    BY <2>1 DEF RotationInv
  <2>5. CountInv' /\ GuardInv'
    BY <2>1, <2>2 DEF CountInv, GuardInv, Trying
  <2>6. KeyInv'
    BY <2>1, <2>2 DEF KeyInv, StalenessIsBounded
  <2> QED
    BY <1>1, <2>3, <2>4, <2>5, <2>6
<1>3. ASSUME NEW c \in Calls, BeginAny(c) \/ BeginWithKey(c) PROVE IInv'
  <2>1. Begins(c)
    BY <1>3, BeginOfSession
  <2> QED
    BY <1>1, <1>3, <2>1, RowMoves, RotationBegins, CountBegins, GuardBegins, KeyBegins
<1>4. ASSUME NEW c \in Calls, Step(c) PROVE IInv'
  <2>1. Settles(c) \/ Checks(c) \/ Creates(c) \/ Hands(c) \/ Replaces(c)
    BY <1>4, StepOfSession
  <2>2. RowInv'
    BY <2>1, RowSettles, RowInserted, RowMoves
  <2>3. RotationInv'
    BY <2>1, RotationSettles, RotationChecks, RotationInserts
  <2> QED
    BY <1>1, <1>4, <2>2, <2>3, CountStep, GuardStep, KeyStep
<1>5. CASE Tick \/ Expire \/ Toggle
  <2>1. UNCHANGED <<row, origin, pc, who, token, held, overlap, begun>>
    BY <1>5 DEF Tick, Expire, Toggle, tables, client
  <2>2. RowInv'
    BY <2>1, RowFrame
  <2>3. RotationInv'
    BY <2>1 DEF RotationInv
  <2> QED
    BY <1>1, <1>5, <2>2, <2>3, GuardStores, KeyStores
<1> QED
  BY <1>2, <1>3, <1>4, <1>5 DEF Next

LEMMA Invariance == Spec => []IInv
<1>1. Init => IInv
  BY InitIInv
<1>2. IInv /\ [Next]_vars => IInv'
  BY StepIInv
<1> QED
  BY <1>1, <1>2, PTL DEF Spec

-----------------------------------------------------------------------------
(* The theorems                                                            *)

\* Every variable of the sessions keeps its type, and no table runs over its bound.
THEOREM TypeCorrect == Spec => []TypeOK
<1>1. IInv => TypeOK
  BY DEF IInv
<1> QED
  BY <1>1, Invariance, PTL

\* refresh_access_token: a login has one live session at most, whatever fails
\* between the statements of a rotation, unless two refreshes of one token
\* overlapped, and what a client holds is in the table.
THEOREM OneLiveSession == Spec => []OneLivePerLogin
<1>1. IInv => OneLivePerLogin
  <2> SUFFICES ASSUME IInv, NEW o \in Ids \ overlap
               PROVE  Cardinality({i \in Ids : origin[i] = o /\ row[i] = "live"}) <= 1
    BY DEF IInv, RowInv, OneLivePerLogin
  <2> DEFINE L == {i \in Ids : origin[i] = o /\ row[i] = "live"}
  <2>1. \A i, j \in L : i = j
    BY DEF IInv, RotationInv
  <2>2. CASE L = {}
    BY <2>2, FS_EmptySet
  <2>3. ASSUME NEW i \in L PROVE Cardinality(L) = 1
    <3>1. L = {i}
      BY <2>1
    <3> QED
      BY <3>1, FS_Singleton
  <2> QED
    BY <2>2, <2>3
<1> QED
  BY <1>1, Invariance, PTL

\* login_user: with Redis answering, an account is tried at most MaxAttempts - 1
\* times more than there are calls in flight before its lock holds.
THEOREM GuardHolds == Spec => []GuardOverrun
<1>1. IInv => GuardOverrun
  <2> SUFFICES ASSUME IInv, redis = "up", faults = 0, NEW u \in Users
               PROVE  guesses[u] <= MaxAttempts - 1 + Cardinality(Calls)
    BY DEF GuardOverrun
  <2> DEFINE A == Cardinality(Trying(u, {"failure", "lock"}))
             B == Cardinality(Trying(u, {"lookup"}))
             N == Cardinality(Calls)
  <2>1. IF lock[u] THEN guesses[u] + B <= MaxAttempts - 1 + N ELSE guesses[u] <= MaxAttempts - 1 + A
    BY DEF IInv, GuardInv
  <2>2. A + B <= N
    BY CallersDiffer DEF IInv
  <2>3. /\ A \in Nat /\ B \in Nat /\ N \in Nat /\ guesses[u] \in Nat
        /\ MaxAttempts \in Nat /\ lock[u] \in BOOLEAN
    BY GuardTypes DEF IInv
  <2> HIDE DEF A, B, N
  <2> QED
    BY <2>1, <2>2, <2>3 DEF N
<1> QED
  BY <1>1, Invariance, PTL

\* _authenticate_api_key: a revoked key is served from the cache no longer than an
\* entry lives after the slowest call that had read the key's row.
THEOREM StaleKeysEnd == Spec => []StalenessIsBounded
<1>1. IInv => StalenessIsBounded
  BY DEF IInv, KeyInv
<1> QED
  BY <1>1, Invariance, PTL

\* What a step does to a login that is dead.
LEMMA DeadStaysDead ==
    ASSUME IInv, [Next]_vars, NEW o \in Ids, Dead(o)
    PROVE  Dead(o)'
<1>0. TypeOK /\ RowInv /\ RotationInv
  BY DEF IInv
<1>1. PICK r \in Ids : origin[r] = o /\ row[r] = "revoked"
  BY DEF Dead
<1>2. /\ \A i \in Ids : origin[i] = o => row[i] # "live"
      /\ \A d \in Calls : pc[d] \in Past => origin[token[d]] # o
  BY DEF Dead, InRotation, Past
<1>3. row[o] # "none"
  BY <1>0, <1>1 DEF RowInv
<1>4. ASSUME origin'[r] = o, row'[r] = "revoked",
             \A i \in Ids : origin'[i] = o => row'[i] # "live",
             \A d \in Calls : pc'[d] \in Past => origin'[token'[d]] # o
      PROVE  Dead(o)'
  BY <1>4 DEF Dead, InRotation, Past
<1>5. ASSUME UNCHANGED <<row, origin, pc, token>> PROVE Dead(o)'
  BY <1>5 DEF Dead, InRotation
<1>6. ASSUME NEW c \in Calls, Begins(c) PROVE Dead(o)'
  <2>1. UNCHANGED <<row, origin>>
    BY <1>6 DEF Begins
  <2>2. \A d \in Calls : pc'[d] \in Past => pc'[d] = pc[d] /\ token'[d] = token[d]
    BY <1>0, <1>6 DEF Begins, TypeOK, Past, Refreshing
  <2> QED
    BY <1>1, <1>2, <1>4, <2>1, <2>2
<1>7. ASSUME NEW c \in Calls, Settles(c) PROVE Dead(o)'
  <2>1. \A d \in Calls : pc'[d] \in Past => pc[d] \in Past
    BY <1>0, <1>7 DEF Settles, TypeOK
  <2> QED
    BY <1>1, <1>2, <1>4, <1>7, <2>1 DEF Settles
<1>8. ASSUME NEW c \in Calls, Checks(c) PROVE Dead(o)'
  <2>1. \A d \in Calls : pc'[d] \in Past => pc[d] \in Past \/ d = c
    BY <1>0, <1>8 DEF Checks, TypeOK
  <2>2. origin[token[c]] # o
    BY <1>0, <1>2, <1>8 DEF Checks, TypeOK
  <2> QED
    BY <1>1, <1>2, <1>4, <1>8, <2>1, <2>2 DEF Checks
<1>9. ASSUME NEW c \in Calls, Hands(c) PROVE Dead(o)'
  <2>1. \A d \in Calls : pc'[d] \in Past => pc[d] \in Past
    BY <1>0, <1>9 DEF Hands, TypeOK, Past, Refreshing
  <2> QED
    BY <1>1, <1>2, <1>4, <1>9, <2>1 DEF Hands
<1>10. ASSUME NEW c \in Calls, Creates(c) \/ Replaces(c) PROVE Dead(o)'
  <2>1. Fresh \in Ids /\ row[Fresh] = "none"
    BY <1>0, <1>10, FreshType DEF Creates, Replaces, Creating, Refreshing
  <2>2. PICK p \in Ids : NewRow(who[c], p) /\ p # o
    <3>1. CASE Creates(c)
      BY <1>3, <2>1, <3>1 DEF Creates
    <3>2. CASE Replaces(c)
      <4>1. origin[token[c]] \in Ids \ {o}
        BY <1>0, <1>2, <3>2 DEF Replaces, Past, Refreshing, TypeOK
      <4> QED
        BY <3>2, <4>1 DEF Replaces
    <3> QED
      BY <1>10, <3>1, <3>2
  <2>3. /\ row' = [row EXCEPT ![Fresh] = "live"] /\ origin' = [origin EXCEPT ![Fresh] = p]
    BY <2>2 DEF NewRow
  <2>4. /\ \A i \in Ids \ {Fresh} : row'[i] = row[i] /\ origin'[i] = origin[i]
        /\ origin'[Fresh] = p
    BY <1>0, <2>1, <2>3 DEF TypeOK
  <2>5. \A d \in Calls : pc'[d] \in Past =>
           pc[d] \in Past /\ token'[d] = token[d] /\ token[d] \in Ids \ {Fresh}
    <3> SUFFICES ASSUME NEW d \in Calls, pc'[d] \in Past
                 PROVE  pc[d] \in Past /\ token'[d] = token[d] /\ token[d] \in Ids \ {Fresh}
      OBVIOUS
    <3>1. d # c
      BY <1>0, <1>10 DEF Creates, Replaces, TypeOK, Past, Refreshing
    <3>2. pc'[d] = pc[d] /\ token'[d] = token[d] /\ token[d] \in Ids
      BY <1>0, <1>10, <3>1 DEF Creates, Replaces, TypeOK
    <3>3. row[token[d]] # "none"
      BY <1>0, <3>2 DEF RowInv, Named, Past
    <3> QED
      BY <2>1, <3>2, <3>3
  <2> QED
    BY <1>1, <1>2, <1>4, <2>1, <2>2, <2>4, <2>5
<1>11. CASE UNCHANGED vars
  BY <1>5, <1>11 DEF vars, tables
<1>12. CASE Tick \/ Expire \/ Toggle
  BY <1>5, <1>12 DEF Tick, Expire, Toggle, tables
<1>13. ASSUME NEW c \in Calls, Step(c) PROVE Dead(o)'
  BY <1>0, <1>7, <1>8, <1>9, <1>10, <1>13, StepOfSession
<1>14. ASSUME NEW c \in Calls, BeginAny(c) \/ BeginWithKey(c) PROVE Dead(o)'
  BY <1>0, <1>6, <1>14, BeginOfSession
<1> QED
  BY <1>11, <1>12, <1>13, <1>14 DEF Next

\* logout_user: a login whose sessions are all revoked, with no rotation past its
\* check of the row, never has a live session again.
THEOREM LogoutFinal == Spec => LogoutIsFinal
<1>1. IInv /\ [Next]_vars => [\A o \in Ids : Dead(o) => Dead(o)']_vars
  BY DeadStaysDead
<1>2. Spec => [][\A o \in Ids : Dead(o) => Dead(o)']_vars
  BY <1>1, Invariance, PTL DEF Spec
<1> QED
  BY <1>2 DEF LogoutIsFinal
=============================================================================
