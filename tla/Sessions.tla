------------------------------ MODULE Sessions ------------------------------
(***************************************************************************)
(* Accounts and sessions of the middleware (auth/service.py, the blacklist *)
(* of core/security.py, the API key path of core/dependencies.py).  Each   *)
(* call is a coroutine; one step runs from an await on MySQL or Redis to   *)
(* the next, and the calls interleave between them.  A refresh token is    *)
(* named by its session: the two are created together and a hash is never  *)
(* shared.  Every SQL statement commits by itself (autocommit).            *)
(***************************************************************************)
EXTENDS Naturals, FiniteSets

CONSTANTS Calls,         \* requests in flight at most
          Users,         \* users that may register, each with one e-mail
          MaxCalls,      \* bound on the calls of a behaviour
          MaxAttempts,   \* login_max_attempts
          KeyTTL,        \* life of a cached API key, in ticks
          MaxHold,       \* longest time from reading a key's row to caching it
          Faults,        \* bound on how often a store goes down or comes back
          RedisAtStart,  \* "up", or "absent": get_redis_async returns None
          Dates          \* "aware", or "naive": the driver's dates have no zone

ASSUME SizeAssumption == /\ IsFiniteSet(Calls) /\ Users # {}
                         /\ {MaxHold, Faults} \subseteq Nat
                         /\ {MaxCalls, MaxAttempts, KeyTTL} \subseteq Nat \ {0}
ASSUME StoreAssumption == RedisAtStart \in {"up", "absent"} /\ Dates \in {"aware", "naive"}

Ids == 1 .. MaxCalls     \* session ids: each call creates at most one

VARIABLES users,    \* e-mails in the users table
          row,      \* the sessions table: state of each row
          owner,    \* and its user
          origin,   \* the login a row descends from (not stored)
          spent,    \* jtis in Redis' blacklist
          bumped,   \* users whose token family version was incremented
          fails,    \* login_fail:<email>
          lock,     \* login_lock:<email> is set
          guesses,  \* wrong passwords tried since the guard last forgot (not stored)
          key,      \* the API key's row
          cached,   \* ticks left of apikey:user:<hash>
          stale,    \* ticks since the key was revoked
          hold,     \* ticks since a call read the key's row
          redis, mysql, faults, begun,
          pc, who, token, answer,   \* each call: place, user, token, last answer
          held,     \* tokens that clients have received
          overlap   \* logins a token of which was refreshed twice at a time

tables == <<users, row, owner, origin>>
black == <<spent, bumped>>
guard == <<fails, lock, guesses>>
apikey == <<key, cached, stale, hold>>
stores == <<redis, mysql, faults>>
client == <<held, overlap>>
vars == <<tables, black, guard, apikey, stores, begun, pc, who, token, answer, client>>

Refreshing == {"blacklisted", "session", "blacklist", "role", "revoke", "insert"}
SqlSteps == {"find", "register", "lookup", "create", "touch", "session", "role", "revoke",
             "insert", "logout", "logoutAll", "keyRow", "keyRevoke", "keyCreate"}
RedisSteps == {"blacklisted", "blacklist", "bump", "keyCached", "keyCache"}
Swallowed == {"locked", "failure", "lock", "clear", "logoutBlack"}

TypeOK == /\ users \subseteq Users
          /\ row \in [Ids -> {"none", "live", "revoked"}]
          /\ owner \in [Ids -> Users] /\ origin \in [Ids -> Ids]
          /\ spent \subseteq Ids /\ bumped \subseteq Users
          /\ fails \in [Users -> 0 .. MaxCalls]
          /\ lock \in [Users -> BOOLEAN]
          /\ guesses \in [Users -> 0 .. MaxCalls]
          /\ key \in {"none", "live", "revoked"}
          /\ cached \in 0 .. KeyTTL /\ stale \in 0 .. KeyTTL + MaxHold + 1
          /\ hold \in [Calls -> 0 .. MaxHold]
          /\ redis \in {"up", "down", "absent"} /\ mysql \in {"up", "down"}
          /\ faults \in 0 .. Faults /\ begun \in 0 .. MaxCalls
          /\ pc \in [Calls -> {"idle"} \cup SqlSteps \cup RedisSteps \cup Swallowed]
          /\ who \in [Calls -> Users] /\ token \in [Calls -> Ids]
          /\ answer \in [Calls -> {"none", "ok", "refused", "unavailable", "error"}]
          /\ held \subseteq Ids /\ overlap \subseteq Ids

Init == /\ users \in SUBSET Users
        /\ row = [i \in Ids |-> "none"]
        /\ owner = [i \in Ids |-> CHOOSE u \in Users : TRUE]
        /\ origin = [i \in Ids |-> i]
        /\ spent = {} /\ bumped = {}
        /\ fails = [u \in Users |-> 0] /\ lock = [u \in Users |-> FALSE]
        /\ guesses = [u \in Users |-> 0]
        /\ key = "none" /\ cached = 0 /\ stale = 0 /\ hold = [c \in Calls |-> 0]
        /\ redis = RedisAtStart /\ mysql = "up" /\ faults = 0 /\ begun = 0
        /\ pc = [c \in Calls |-> "idle"]
        /\ who = [c \in Calls |-> CHOOSE u \in Users : TRUE]
        /\ token = [c \in Calls |-> 1]
        /\ answer = [c \in Calls |-> "none"]
        /\ held = {} /\ overlap = {}

-----------------------------------------------------------------------------
(* Steps of a call                                                         *)

At(c, step) == pc[c] = step /\ (step \in SqlSteps => mysql = "up")
Goto(c, step) == pc' = [pc EXCEPT ![c] = step] /\ UNCHANGED answer
Answer(c, a) == pc' = [pc EXCEPT ![c] = "idle"] /\ answer' = [answer EXCEPT ![c] = a]

Fresh == CHOOSE i \in Ids : row[i] = "none" /\ \A j \in 1 .. i - 1 : row[j] # "none"

\* An INSERT into sessions: a row of its own login, or a successor of row i.
NewRow(u, o) == /\ row' = [row EXCEPT ![Fresh] = "live"]
                /\ owner' = [owner EXCEPT ![Fresh] = u]
                /\ origin' = [origin EXCEPT ![Fresh] = o]
                /\ UNCHANGED users

Begin(c, u, i, step) ==
    /\ pc[c] = "idle" /\ begun < MaxCalls
    /\ begun' = begun + 1
    /\ who' = [who EXCEPT ![c] = u]
    /\ token' = [token EXCEPT ![c] = i]
    /\ overlap' = IF step = "blacklisted" /\ \E d \in Calls : token[d] = i /\ pc[d] \in Refreshing
                  THEN overlap \cup {origin[i]} ELSE overlap
    /\ Goto(c, step)
    /\ UNCHANGED <<tables, black, guard, apikey, stores, held>>

\* _authenticate_jwt asks the blacklist for the access token, which nothing ever
\* puts there: the request fails when Redis does, and passes otherwise.
Authenticated == redis # "down"

\* POST /register, /login, /refresh, /logout, /api-keys, DELETE /api-keys/{id}.
BeginAny(c) == \/ \E u \in Users, s \in {"find", "locked"} : Begin(c, u, token[c], s)
               \/ \E i \in held : Begin(c, owner[i], i, "blacklisted")
               \/ /\ Authenticated
                  /\ \/ \E u \in users, i \in held : Begin(c, u, i, "logout")
                     \/ \E u \in users : Begin(c, u, token[c], "logoutAll")
                     \/ \E s \in {"keyCreate", "keyRevoke"} : Begin(c, who[c], token[c], s)

\* get_current_user of a request that carries an API key only, where the
\* environment is not "development" (there everybody is the demo user).
BeginWithKey(c) == Begin(c, who[c], token[c], "keyCached")

\* execute_query and its siblings let the driver's error through; so do the
\* Redis commands outside a try block.
StoreFails(c) == /\ \/ pc[c] \in SqlSteps /\ mysql = "down"
                    \/ pc[c] \in RedisSteps /\ redis = "down"
                 /\ Answer(c, "error")
                 /\ hold' = [hold EXCEPT ![c] = 0]
                 /\ UNCHANGED <<tables, black, guard, key, cached, stale, stores, begun, who,
                                token, client>>

\* register_user: users.id is not AUTO_INCREMENT, so the lastrowid that
\* execute_insert returns is 0 and the row just written is reported missing.
Register(c) ==
    LET u == who[c] IN
    /\ \/ At(c, "find") /\ UNCHANGED users
          /\ IF u \in users THEN Answer(c, "refused") ELSE Goto(c, "register")
       \/ /\ At(c, "register")
          /\ users' = users \cup {u}
          /\ Answer(c, IF u \in users THEN "error" ELSE "unavailable")
    /\ UNCHANGED <<row, owner, origin, black, guard, apikey, stores, begun, who, token, client>>

-----------------------------------------------------------------------------
(* login_user                                                              *)

\* _check_login_ip_rate_limit: the address has used up its minute.  How is not
\* modelled here, so it may refuse any login.
IpLimited == redis = "up"

\* _get_account_lock and the address; every failure of Redis lets the login through.
CheckLock(c) ==
    /\ At(c, "locked")
    /\ \/ Answer(c, "refused") /\ (IpLimited \/ (redis = "up" /\ lock[who[c]]))
       \/ ~(redis = "up" /\ lock[who[c]]) /\ Goto(c, "lookup")
    /\ UNCHANGED <<tables, black, guard, apikey, stores, begun, who, token, client>>

\* The user is looked up and the password verified.
Verify(c) ==
    LET u == who[c] IN
    /\ At(c, "lookup")
    /\ \/ u \in users /\ Goto(c, "clear") /\ UNCHANGED guesses
       \/ /\ Goto(c, "failure")
          /\ guesses' = [guesses EXCEPT ![u] = @ + 1]
    /\ UNCHANGED <<tables, black, fails, lock, apikey, stores, begun, who, token, client>>

\* Mutant: the account is locked one failure too late.
RecordFailureLate(c) ==
    LET u == who[c] IN
    /\ \/ /\ At(c, "failure")
          /\ fails' = [fails EXCEPT ![u] = IF redis = "up" THEN @ + 1 ELSE @]
          /\ IF redis = "up" /\ fails[u] > MaxAttempts THEN Goto(c, "lock")
             ELSE Answer(c, "refused")
          /\ UNCHANGED lock
       \/ /\ At(c, "lock")
          /\ lock' = [lock EXCEPT ![u] = @ \/ redis = "up"]
          /\ Answer(c, "refused")
          /\ UNCHANGED fails
    /\ UNCHANGED <<tables, black, guesses, apikey, stores, begun, who, token, client>>

\* _record_login_failure: INCR and EXPIRE, then SETEX once the count is reached.
RecordFailure(c) ==
    LET u == who[c] IN
    /\ \/ /\ At(c, "failure")
          /\ fails' = [fails EXCEPT ![u] = IF redis = "up" THEN @ + 1 ELSE @]
          /\ IF redis = "up" /\ fails[u] + 1 >= MaxAttempts THEN Goto(c, "lock")
             ELSE Answer(c, "refused")
          /\ UNCHANGED lock
       \/ /\ At(c, "lock")
          /\ lock' = [lock EXCEPT ![u] = @ \/ redis = "up"]
          /\ Answer(c, "refused")
          /\ UNCHANGED fails
    /\ UNCHANGED <<tables, black, guesses, apikey, stores, begun, who, token, client>>

\* _clear_login_failures: one DEL of both keys, errors swallowed.
ClearFailures(u) == /\ fails' = [fails EXCEPT ![u] = IF redis = "up" THEN 0 ELSE @]
                    /\ lock' = [lock EXCEPT ![u] = @ /\ redis # "up"]
                    /\ guesses' = [guesses EXCEPT ![u] = IF redis = "up" THEN 0 ELSE @]

\* The rest of a login that verified: the INSERT of the session, last_login_at.
LogIn(c) ==
    LET u == who[c] IN
    /\ \/ /\ At(c, "clear")
          /\ ClearFailures(u)
          /\ Goto(c, "create")
          /\ UNCHANGED <<tables, token, held>>
       \/ /\ At(c, "create")
          /\ NewRow(u, Fresh)
          /\ token' = [token EXCEPT ![c] = Fresh]
          /\ Goto(c, "touch")
          /\ UNCHANGED <<guard, held>>
       \/ /\ At(c, "touch")
          /\ held' = held \cup {token[c]}
          /\ Answer(c, "ok")
          /\ UNCHANGED <<tables, guard, token>>
    /\ UNCHANGED <<black, apikey, stores, begun, who, overlap>>

-----------------------------------------------------------------------------
(* refresh_access_token and logout_user                                    *)

\* The blacklist and the family versions of core/security.py; without Redis
\* nothing is blacklisted, and an error of Redis is the caller's.
is_token_blacklisted(i) == redis = "up" /\ i \in spent
blacklist_token(i) == spent' = IF redis = "up" THEN spent \cup {i} ELSE spent
revoke_token_family(u) == bumped' = IF redis = "up" THEN bumped \cup {u} ELSE bumped

\* A token found there bumps its user's token family.
CheckReuse(c) ==
    /\ \/ /\ At(c, "blacklisted") /\ redis # "down"
          /\ Goto(c, IF is_token_blacklisted(token[c]) THEN "bump" ELSE "session")
          /\ UNCHANGED bumped
       \/ /\ At(c, "bump") /\ redis # "down"
          /\ revoke_token_family(who[c])
          /\ Answer(c, "refused")
    /\ UNCHANGED <<tables, spent, guard, apikey, stores, begun, who, token, client>>

\* Mutant: the row is not asked whether it was revoked.
RotateAnyRow(c) ==
    LET u == who[c]  i == token[c] IN
    /\ \/ /\ At(c, "session") /\ Goto(c, "blacklist") /\ UNCHANGED <<tables, spent, held>>
       \/ /\ At(c, "blacklist") /\ redis # "down"
          /\ spent' = IF redis = "up" THEN spent \cup {i} ELSE spent
          /\ Goto(c, "role") /\ UNCHANGED <<tables, held>>
       \/ At(c, "role") /\ Goto(c, "revoke") /\ UNCHANGED <<tables, spent, held>>
       \/ /\ At(c, "revoke")
          /\ row' = [row EXCEPT ![i] = "revoked"]
          /\ Goto(c, "insert") /\ UNCHANGED <<users, owner, origin, spent, held>>
       \/ /\ At(c, "insert")
          /\ NewRow(u, origin[i]) /\ held' = held \cup {Fresh}
          /\ Answer(c, "ok") /\ UNCHANGED spent
    /\ UNCHANGED <<bumped, guard, apikey, stores, begun, who, token, overlap>>

\* Mutant: the old row is left alone when the new one is inserted.
RotateKeepingOld(c) ==
    LET u == who[c]  i == token[c] IN
    /\ \/ /\ At(c, "session")
          /\ IF row[i] = "live" THEN Goto(c, "role") ELSE Answer(c, "refused")
          /\ UNCHANGED <<tables, spent, held>>
       \/ At(c, "role") /\ Goto(c, "insert") /\ UNCHANGED <<tables, spent, held>>
       \/ /\ At(c, "insert")
          /\ NewRow(u, origin[i]) /\ held' = held \cup {Fresh}
          /\ Answer(c, "ok") /\ UNCHANGED spent
    /\ UNCHANGED <<bumped, guard, apikey, stores, begun, who, token, overlap>>

\* The rotation: read the row, which may have expired (comparing its expiry with a
\* time that has a zone raises when the driver's has none), blacklist the token for
\* a day, read the role, revoke the old row, insert the new one.
Rotate(c) ==
    LET u == who[c]  i == token[c] IN
    /\ \/ /\ At(c, "session")
          /\ \/ (row[i] # "live" \/ Dates = "aware") /\ Answer(c, "refused")
             \/ row[i] = "live" /\ Dates = "naive" /\ Answer(c, "error")
             \/ row[i] = "live" /\ Dates = "aware" /\ Goto(c, "blacklist")
          /\ UNCHANGED <<tables, spent, held>>
       \/ /\ At(c, "blacklist") /\ redis # "down"
          /\ blacklist_token(i)
          /\ Goto(c, "role") /\ UNCHANGED <<tables, held>>
       \/ /\ At(c, "role")
          /\ IF u \in users THEN Goto(c, "revoke") ELSE Answer(c, "refused")
          /\ UNCHANGED <<tables, spent, held>>
       \/ /\ At(c, "revoke")
          /\ row' = [row EXCEPT ![i] = "revoked"]
          /\ Goto(c, "insert") /\ UNCHANGED <<users, owner, origin, spent, held>>
       \/ /\ At(c, "insert")
          /\ NewRow(u, origin[i]) /\ held' = held \cup {Fresh}
          /\ Answer(c, "ok") /\ UNCHANGED spent
    /\ UNCHANGED <<bumped, guard, apikey, stores, begun, who, token, overlap>>

\* One device: the row by its hash, if it is the caller's; then the blacklist, in
\* any case (its errors are swallowed).  All devices: every live row of the caller,
\* then the token family.
LogOut(c) ==
    /\ \/ /\ At(c, "logout")
          /\ row' = (IF owner[token[c]] = who[c] THEN [row EXCEPT ![token[c]] = "revoked"]
                     ELSE row)
          /\ Goto(c, "logoutBlack") /\ UNCHANGED black
       \/ /\ At(c, "logoutBlack")
          /\ blacklist_token(token[c])
          /\ Answer(c, "ok") /\ UNCHANGED <<row, bumped>>
       \/ /\ At(c, "logoutAll")
          /\ row' = [i \in Ids |-> IF row[i] = "live" /\ owner[i] = who[c] THEN "revoked"
                                   ELSE row[i]]
          /\ Goto(c, "bump") /\ UNCHANGED black
    /\ UNCHANGED <<users, owner, origin, guard, apikey, stores, begun, who, token, client>>

-----------------------------------------------------------------------------
(* API keys                                                                *)

\* create_user_api_key and revoke_api_key, of one key.
ManageKey(c) ==
    /\ \/ At(c, "keyCreate") /\ key' = (IF key = "none" THEN "live" ELSE key) /\ Answer(c, "ok")
       \/ /\ At(c, "keyRevoke") /\ key' = (IF key = "live" THEN "revoked" ELSE key)
          /\ Answer(c, IF key = "live" THEN "ok" ELSE "refused")
    /\ UNCHANGED <<tables, black, guard, cached, stale, hold, stores, begun, who, token, client>>

\* Mutant: a hit renews the entry.
UseKeySliding(c) ==
    /\ \/ /\ At(c, "keyCached") /\ redis # "down"
          /\ IF redis = "up" /\ cached > 0
             THEN Answer(c, "ok") /\ cached' = KeyTTL
             ELSE Goto(c, "keyRow") /\ UNCHANGED cached
          /\ UNCHANGED hold
       \/ /\ At(c, "keyRow")
          /\ IF key # "live" THEN Answer(c, "refused") ELSE Goto(c, "keyCache")
          /\ UNCHANGED <<cached, hold>>
       \/ /\ At(c, "keyCache") /\ redis = "up"
          /\ cached' = KeyTTL
          /\ hold' = [hold EXCEPT ![c] = 0]
          /\ Answer(c, "ok")
    /\ UNCHANGED <<tables, black, guard, key, stale, stores, begun, who, token, client>>

\* _authenticate_api_key: the Redis entry, else the row, which is then cached.  The
\* key may have expired, or its user be deleted; comparing the expiry may raise.
UseKey(c) ==
    /\ \/ /\ At(c, "keyCached") /\ redis # "down"
          /\ IF redis = "up" /\ cached > 0 THEN Answer(c, "ok") ELSE Goto(c, "keyRow")
          /\ UNCHANGED <<cached, hold>>
       \/ /\ At(c, "keyRow")
          /\ \/ Answer(c, "refused")
             \/ key = "live" /\ Dates = "naive" /\ Answer(c, "error")
             \/ key = "live" /\ redis = "absent" /\ Answer(c, "ok")
             \/ key = "live" /\ redis # "absent" /\ Goto(c, "keyCache")
          /\ UNCHANGED <<cached, hold>>
       \/ /\ At(c, "keyCache") /\ redis = "up"
          /\ cached' = KeyTTL
          /\ hold' = [hold EXCEPT ![c] = 0]
          /\ Answer(c, "ok")
    /\ UNCHANGED <<tables, black, guard, key, stale, stores, begun, who, token, client>>

-----------------------------------------------------------------------------
(* The stores                                                              *)

\* Mutant: a cached key never ages.
TickFrozen ==
    /\ key # "none"
    /\ stale' = IF key = "revoked" THEN stale + 1 ELSE stale
    /\ UNCHANGED <<tables, black, guard, key, cached, hold, stores, begun, pc, who, token,
                   answer, client>>

\* Time for the key cache; Redis' own clock does not stop while it is down.
Tick ==
    /\ key # "none"
    /\ \A c \in Calls : pc[c] = "keyCache" => hold[c] < MaxHold
    /\ hold' = [c \in Calls |-> IF pc[c] = "keyCache" THEN hold[c] + 1 ELSE hold[c]]
    /\ cached' = IF cached > 0 THEN cached - 1 ELSE 0
    /\ stale' = IF key = "revoked" /\ stale < KeyTTL + MaxHold + 1 THEN stale + 1 ELSE stale
    /\ UNCHANGED <<tables, black, guard, key, stores, begun, pc, who, token, answer, client>>

\* A lock, a failure count (kept twice as long and renewed by each failure, so
\* only without a lock) or a blacklist entry runs out.
Expire ==
    /\ \/ \E u \in Users :
            /\ lock[u] /\ lock' = [lock EXCEPT ![u] = FALSE]
            /\ guesses' = [guesses EXCEPT ![u] = 0]
            /\ UNCHANGED <<fails, spent>>
       \/ \E u \in Users :
            /\ fails[u] > 0 /\ ~lock[u] /\ \A c \in Calls : who[c] = u => pc[c] # "lock"
            /\ fails' = [fails EXCEPT ![u] = 0]
            /\ guesses' = [guesses EXCEPT ![u] = 0]
            /\ UNCHANGED <<lock, spent>>
       \/ \E i \in spent : spent' = spent \ {i} /\ UNCHANGED guard
    /\ UNCHANGED <<tables, bumped, apikey, stores, begun, pc, who, token, answer, client>>

Toggle ==
    /\ faults < Faults
    /\ faults' = faults + 1
    /\ \/ /\ redis # "absent" /\ redis' = (IF redis = "up" THEN "down" ELSE "up")
          /\ UNCHANGED mysql
       \/ mysql' = (IF mysql = "up" THEN "down" ELSE "up") /\ UNCHANGED redis
    /\ UNCHANGED <<tables, black, guard, apikey, begun, pc, who, token, answer, client>>

Step(c) == \/ StoreFails(c) \/ Register(c) \/ CheckLock(c) \/ Verify(c) \/ RecordFailure(c)
           \/ LogIn(c) \/ CheckReuse(c) \/ Rotate(c) \/ LogOut(c) \/ ManageKey(c) \/ UseKey(c)

Next == (\E c \in Calls : BeginAny(c) \/ BeginWithKey(c) \/ Step(c)) \/ Tick \/ Expire \/ Toggle

Spec == Init /\ [][Next]_vars

-----------------------------------------------------------------------------
(* Properties                                                              *)

\* Rotation (refresh_access_token): a login has at most one live session,
\* whatever fails between the statements, unless two refreshes of one token
\* overlapped; and what a client holds is always in the table.
OneLivePerLogin ==
    /\ \A o \in Ids \ overlap : Cardinality({i \in Ids : origin[i] = o /\ row[i] = "live"}) <= 1
    /\ \A i \in held : row[i] # "none"

InRotation(o) == \E c \in Calls : pc[c] \in Refreshing \ {"blacklisted", "session"}
                                  /\ origin[token[c]] = o
Dead(o) == /\ \E i \in Ids : origin[i] = o /\ row[i] = "revoked"
           /\ \A i \in Ids : origin[i] = o => row[i] # "live"
           /\ ~InRotation(o)

\* Logging out, of one device or of all, is final: a login whose sessions are
\* all revoked, with no rotation past its check of the row, never has a live
\* session again.
LogoutIsFinal == [][\A o \in Ids : Dead(o) => Dead(o)']_vars

\* The check of the lock, the password and the count are separate steps, so the
\* guard may be overrun, but by no more than the other calls in flight, as
\* long as Redis answers.
GuardOverrun == redis = "up" /\ faults = 0
                => \A u \in Users : guesses[u] <= MaxAttempts - 1 + Cardinality(Calls)

\* A revoked key is served from the cache no longer than the entry's life after
\* the slowest call that had read its row before.
StalenessIsBounded == cached > 0 => stale + cached <= KeyTTL + MaxHold

=============================================================================
