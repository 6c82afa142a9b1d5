------------------------------ MODULE Lockout ------------------------------
(***************************************************************************)
(* Failed logins of one username: the two Redis keys of                    *)
(* backend/app/security/lockout.py, login:fails:{username} and             *)
(* login:locked:{username}, and the requests of routers/auth.py and        *)
(* routers/admin/users.py that read, count and clear them.  Every Redis    *)
(* call is a step of its own, and a request may die between two of them.   *)
(*                                                                         *)
(* What a login that succeeds hands out is in module Sessions.             *)
(***************************************************************************)
EXTENDS Integers

CONSTANTS
    Logins,     \* login requests that may be under way at once
    Threshold,  \* FAILS_THRESHOLD (5 in the code)
    FailsTtl,   \* FAILS_TTL_SECONDS and
    LockTtl,    \* LOCKOUT_TTL_SECONDS, in ticks of the clock (600 s and 1800 s)
    MaxFails    \* bound: the counter of failures is not taken further

ASSUME WindowShorterThanLock ==
    /\ Threshold \in Nat \ {0} /\ FailsTtl \in Nat \ {0} /\ LockTtl \in Nat
    /\ FailsTtl < LockTtl
    /\ MaxFails \in Nat

VARIABLES
    fails,     \* login:fails:{username}; 0 when there is no such key
    failsTtl,  \* ticks that key has left, or NoTtl
    lockTtl,   \* ticks login:locked:{username} has left; 0 when there is none
    login,     \* where a request is
    count,     \* what its INCR returned
    died       \* history: a request died between two of its steps

lockoutVars == <<fails, failsTtl, lockTtl, login, count, died>>

NoTtl == -1
LoginStages == {"idle", "verifying", "counted", "expired", "verified"}

\* The keys and the requests that work on them.
LockoutTypeOK ==
    /\ fails \in Nat
    /\ failsTtl \in 0..FailsTtl \cup {NoTtl}
    /\ (fails = 0) <=> (failsTtl = 0)
    /\ lockTtl \in 0..LockTtl
    /\ login \in [Logins -> LoginStages]
    /\ count \in [Logins -> Nat]
    /\ died \in BOOLEAN

LockoutInit ==
    /\ fails = 0 /\ failsTtl = 0 /\ lockTtl = 0
    /\ login = [r \in Logins |-> "idle"]
    /\ count = [r \in Logins |-> 0]
    /\ died = FALSE

NobodyLogsIn == \A r \in Logins : login[r] = "idle"

MoveLogin(r, from, to) == login[r] = from /\ login' = [login EXCEPT ![r] = to]

-----------------------------------------------------------------------------
(* routers/auth.py: login *)

\* is_locked: a locked username gets a 429, and nothing is counted.
Attempt(r) ==
    /\ lockTtl = 0
    /\ MoveLogin(r, "idle", "verifying")
    /\ UNCHANGED <<fails, failsTtl, lockTtl, count, died>>

\* The account is disabled: 403, and nothing is counted either.
Disabled(r) ==
    /\ MoveLogin(r, "verifying", "idle")
    /\ UNCHANGED <<fails, failsTtl, lockTtl, count, died>>

\* record_failure counts an unknown name, a name without a password, or a wrong
\* password; INCR makes a key without a TTL when there is none.
Increment(r) ==
    /\ fails < MaxFails
    /\ MoveLogin(r, "verifying", "counted")
    /\ fails' = fails + 1
    /\ count' = [count EXCEPT ![r] = fails + 1]
    /\ failsTtl' = IF fails = 0 THEN NoTtl ELSE failsTtl
    /\ UNCHANGED <<lockTtl, died>>

\* (mutant) The constants of the two keys are swapped: the window ...
ExpireLong(r) ==
    /\ MoveLogin(r, "counted", "expired")
    /\ failsTtl' = IF count[r] = 1 /\ fails > 0 THEN LockTtl ELSE failsTtl
    /\ UNCHANGED <<fails, lockTtl, count, died>>

\* (mutant) EXPIRE when the count reaches the threshold.
ExpireAtThreshold(r) ==
    /\ MoveLogin(r, "counted", "expired")
    /\ failsTtl' = IF count[r] = Threshold /\ fails > 0 THEN FailsTtl ELSE failsTtl
    /\ UNCHANGED <<fails, lockTtl, count, died>>

\* EXPIRE follows the first failure only, and does nothing if the key is gone.
ExpireCounter(r) ==
    /\ MoveLogin(r, "counted", "expired")
    /\ failsTtl' = IF count[r] = 1 /\ fails > 0 THEN FailsTtl ELSE failsTtl
    /\ UNCHANGED <<fails, lockTtl, count, died>>

\* SET login:locked once the count has reached the threshold; 401.
LockName(r) ==
    /\ MoveLogin(r, "expired", "idle")
    /\ lockTtl' = IF count[r] >= Threshold THEN LockTtl ELSE lockTtl
    /\ count' = [count EXCEPT ![r] = 0]
    /\ UNCHANGED <<fails, failsTtl, died>>

\* The password is right and last_login_at committed.
VerifyPassword(r) ==
    /\ MoveLogin(r, "verifying", "verified")
    /\ UNCHANGED <<fails, failsTtl, lockTtl, count, died>>

Forget == fails' = 0 /\ failsTtl' = 0 /\ lockTtl' = 0

\* clear_lockout deletes both keys.
ClearLockout(r) ==
    /\ MoveLogin(r, "verified", "idle")
    /\ Forget
    /\ UNCHANGED <<count, died>>

\* admin_unlock: by unlock_user, reset_password, delete_user and a disabling
\* update_user.
AdminUnlock ==
    /\ Forget
    /\ UNCHANGED <<login, count, died>>

\* Redis fails or the API process dies: the rest of the handler is not run.
LoginDies(r) ==
    /\ login[r] # "idle"
    /\ login' = [login EXCEPT ![r] = "idle"]
    /\ count' = [count EXCEPT ![r] = 0]
    /\ died' = TRUE
    /\ UNCHANGED <<fails, failsTtl, lockTtl>>

\* Some minutes pass; a request takes less than that.
MinutesPass ==
    /\ NobodyLogsIn
    /\ failsTtl' = IF failsTtl > 0 THEN failsTtl - 1 ELSE failsTtl
    /\ fails' = IF failsTtl = 1 THEN 0 ELSE fails
    /\ lockTtl' = IF lockTtl > 0 THEN lockTtl - 1 ELSE 0
    /\ UNCHANGED <<login, count, died>>

HandleLogin(r) == Attempt(r) \/ Disabled(r) \/ Increment(r) \/ ExpireCounter(r) \/ LockName(r) \/ VerifyPassword(r) \/ ClearLockout(r)

LockoutNext ==
    \/ \E r \in Logins : HandleLogin(r) \/ LoginDies(r)
    \/ AdminUnlock \/ MinutesPass

LockoutSpec == LockoutInit /\ [][LockoutNext]_lockoutVars

-----------------------------------------------------------------------------
(* Properties *)

\* Between requests the counter of failures does no harm: it has a TTL, so that
\* failures of any age are not added up, and while the username is not locked it is
\* below the threshold, so that one more slip does not lock a user who has waited.
\* Only a request that died between its Redis calls may leave it so (record_failure).
CounterHarmless ==
    NobodyLogsIn /\ ~died =>
        /\ fails > 0 => failsTtl # NoTtl
        /\ lockTtl = 0 => fails < Threshold
=============================================================================
