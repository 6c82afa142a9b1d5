------------------------------ MODULE Sessions ------------------------------
(***************************************************************************)
(* The sessions of one account: the pairs of access and refresh token that *)
(* routers/auth.py hands out, the row of users they are checked against,   *)
(* the jwt:revoked keys of Redis, and what every API process remembers of  *)
(* the row (middleware/auth.py).  Handlers take the steps between which    *)
(* they wait for the database or for Redis, so that they interleave with   *)
(* each other and with the administrator's requests                        *)
(* (routers/admin/users.py).                                               *)
(*                                                                         *)
(* The pairs are numbered by the slots of a pool, which they leave when    *)
(* both tokens have expired.  Lockout after failed logins is in module     *)
(* Lockout, what a membership allows in module Memberships.                *)
(***************************************************************************)
EXTENDS Integers, FiniteSets

CONSTANTS
    Slots,      \* token pairs that may be outstanding at once
    NoSlot,     \* stands for none of them
    Handlers,   \* handlers that may be under way at once
    Processes,  \* API processes
    MaxVersion  \* bound: token_version is not taken further

ASSUME PoolsFinite == NoSlot \notin Slots /\ IsFiniteSet(Handlers)
ASSUME VersionsNatural == MaxVersion \in Nat

VARIABLES
    account,  \* the row of users
    pairs,    \* the pairs handed out and not yet expired
    cache,    \* _TOKEN_VERSION_CACHE of each process, or NoVersion
    request,  \* the handlers under way
    raced     \* history: a token_version was computed from one no longer in the row

sessionsVars == <<account, pairs, cache, request, raced>>

NoVersion == -1

Pair == [version : Nat,         \* the claim token_version
         access : {"live", "gone"},
         refresh : {"live", "revoked", "gone"},
         ended : BOOLEAN,       \* history: the session was ended for all its tokens
         successors : Nat]      \* history: pairs its refresh token was exchanged for

NoPair == [version |-> 0, access |-> "gone", refresh |-> "gone",
         ended |-> FALSE, successors |-> 0]

Handler == [at : {"idle", "checked", "revoked", "issue", "password", "disable", "reset"},
            slot : Slots \cup {NoSlot},   \* the pair the request came with, for a refresh
            version : Nat,                \* token_version as the handler loaded it
            ended : BOOLEAN]              \* history: as in Pair, for the session it issues

NoHandler == [at |-> "idle", slot |-> NoSlot, version |-> 0, ended |-> FALSE]

\* The row, the pairs, the caches and the handlers; a handler that goes on to a new
\* pair has revoked the token it came with (refresh: "Revoke the old refresh JTI FIRST").
SessionsTypeOK ==
    /\ account \in [state : {"enabled", "disabled", "deleted"}, version : 0..MaxVersion]
    /\ pairs \in [Slots -> Pair]
    /\ cache \in [Processes -> Nat \cup {NoVersion}]
    /\ request \in [Handlers -> Handler]
    /\ raced \in BOOLEAN
    /\ \A r \in Handlers :
          /\ request[r].at \in {"checked", "revoked"} => request[r].slot # NoSlot
          /\ request[r].at \in {"revoked", "issue"} /\ request[r].slot # NoSlot
                => pairs[request[r].slot].refresh = "revoked"

SessionsInit ==
    /\ account = [state |-> "enabled", version |-> 0]
    /\ pairs = [s \in Slots |-> NoPair]
    /\ cache = [p \in Processes |-> NoVersion]
    /\ request = [r \in Handlers |-> NoHandler]
    /\ raced = FALSE

UserKnown == account.state # "deleted"

-----------------------------------------------------------------------------
(* middleware/auth.py *)

\* The version a process compares with: its own copy for 30 seconds, then the row.
Compared(p) == IF cache[p] = NoVersion THEN account.version ELSE cache[p]

\* AuthMiddleware.dispatch lets the access token of a pair through.
Accepts(p, s) ==
    /\ pairs[s].access = "live"
    /\ cache[p] # NoVersion \/ UserKnown
    /\ pairs[s].version >= Compared(p)

\* A request that finds no copy, or an old one, reads the row and keeps it.
Remember(p) ==
    /\ cache[p] = NoVersion /\ UserKnown
    /\ cache' = [cache EXCEPT ![p] = account.version]
    /\ UNCHANGED <<account, pairs, request, raced>>

\* 30 seconds have passed.
ForgetVersion(p) ==
    /\ cache[p] # NoVersion
    /\ cache' = [cache EXCEPT ![p] = NoVersion]
    /\ UNCHANGED <<account, pairs, request, raced>>

-----------------------------------------------------------------------------
(* routers/auth.py *)

BeginHandler(r, at, slot, version) ==
    /\ request[r].at = "idle"
    /\ request' = [request EXCEPT ![r] =
                      [at |-> at, slot |-> slot, version |-> version, ended |-> FALSE]]

\* login, and its user as it was loaded: enabled, with the right password.
Login(r) ==
    /\ account.state = "enabled"
    /\ BeginHandler(r, "issue", NoSlot, account.version)
    /\ UNCHANGED <<account, pairs, cache, raced>>

\* (mutant) A used token is exchanged again.
RefreshUsed(r, s) ==
    /\ pairs[s].refresh # "gone"
    /\ BeginHandler(r, "checked", s, 0)
    /\ UNCHANGED <<account, pairs, cache, raced>>

\* refresh looks the token up in Redis ...
RefreshCheck(r, s) ==
    /\ pairs[s].refresh = "live"
    /\ BeginHandler(r, "checked", s, 0)
    /\ UNCHANGED <<account, pairs, cache, raced>>

\* All sessions that there are, and those being started, end.
EndSessions ==
    /\ pairs' = [s \in Slots |-> IF pairs[s] = NoPair THEN NoPair ELSE [pairs[s] EXCEPT !.ended = TRUE]]
    /\ request' = [r \in Handlers |->
                      IF request[r].at = "issue" THEN [request[r] EXCEPT !.ended = TRUE] ELSE request[r]]

\* ... which ends all sessions when the token has been used, or logged out: the
\* UPDATE adds 1 in the database; 401.
RefreshReuse(s) ==
    /\ pairs[s].refresh = "revoked"
    /\ UserKnown /\ account.version < MaxVersion
    /\ account' = [account EXCEPT !.version = @ + 1]
    /\ EndSessions
    /\ UNCHANGED <<cache, raced>>

\* It then revokes the token, for as long as it would have lived, ...
RefreshRevoke(r) ==
    /\ request[r].at = "checked"
    /\ pairs' = [pairs EXCEPT ![request[r].slot].refresh = "revoked"]
    /\ request' = [request EXCEPT ![r].at = "revoked"]
    /\ UNCHANGED <<account, cache, raced>>

\* ... and loads the user: 401 unless it is enabled and the token of its version ...
RefuseRefresh(r) ==
    /\ request[r].at = "revoked"
    /\ account.state # "enabled" \/ pairs[request[r].slot].version < account.version
    /\ request' = [request EXCEPT ![r] = NoHandler]
    /\ UNCHANGED <<account, pairs, cache, raced>>

\* (mutant) The version of the token is not compared.
RefreshAny(r) ==
    /\ request[r].at = "revoked"
    /\ account.state = "enabled"
    /\ request' = [request EXCEPT ![r].at = "issue", ![r].version = account.version,
                                  ![r].ended = pairs[request[r].slot].ended]
    /\ UNCHANGED <<account, pairs, cache, raced>>

\* ... else a new pair, which carries the session on.
RefreshLoad(r) ==
    /\ request[r].at = "revoked"
    /\ account.state = "enabled"
    /\ pairs[request[r].slot].version >= account.version
    /\ request' = [request EXCEPT ![r].at = "issue", ![r].version = account.version,
                                  ![r].ended = pairs[request[r].slot].ended]
    /\ UNCHANGED <<account, pairs, cache, raced>>

\* _issue_tokens_and_cookie, with the version that was loaded: a pair takes a free
\* slot, and is counted with the one it was exchanged for.
IssuePair(r) ==
    /\ request[r].at = "issue"
    /\ \E s \in Slots :
          /\ pairs[s] = NoPair
          /\ pairs' = [t \in Slots |->
                IF t = s THEN [NoPair EXCEPT !.version = request[r].version, !.ended = request[r].ended,
                                           !.access = "live", !.refresh = "live"]
                ELSE IF t = request[r].slot THEN [pairs[t] EXCEPT !.successors = @ + 1]
                ELSE pairs[t]]
    /\ request' = [request EXCEPT ![r] = NoHandler]
    /\ UNCHANGED <<account, cache, raced>>

\* logout revokes the access token it came with for as long as it would have lived,
\* so that it is as good as gone, and, if the cookie is there, the refresh token.
Logout(p, s) ==
    /\ Accepts(p, s)
    /\ \E cookie \in BOOLEAN :
          pairs' = [pairs EXCEPT ![s].access = "gone",
                                 ![s].refresh = IF cookie /\ @ = "live" THEN "revoked" ELSE @]
    /\ UNCHANGED <<account, cache, request, raced>>

\* change_password loads the row and finds the current password right.
ChangePassword(r, p, s) ==
    /\ Accepts(p, s) /\ UserKnown
    /\ BeginHandler(r, "password", NoSlot, account.version)
    /\ UNCHANGED <<account, pairs, cache, raced>>

-----------------------------------------------------------------------------
(* routers/admin/users.py *)

\* update_user, enabled to false, and reset_password load the row.
AdminLoad(r, op) ==
    /\ UserKnown
    /\ op = "disable" => account.state = "enabled"
    /\ BeginHandler(r, op, NoSlot, account.version)
    /\ UNCHANGED <<account, pairs, cache, raced>>

\* The three of them write the version they loaded, plus one.  The row counts as
\* unchanged in between, so that a write in between is lost.  change_password
\* goes on to hand out a pair.
CommitVersion(r) ==
    /\ request[r].at \in {"password", "disable", "reset"}
    /\ UserKnown /\ request[r].version < MaxVersion
    /\ account' = [account EXCEPT !.version = request[r].version + 1,
                                  !.state = IF request[r].at = "disable" THEN "disabled" ELSE @]
    /\ pairs' = [s \in Slots |-> IF pairs[s] = NoPair THEN NoPair ELSE [pairs[s] EXCEPT !.ended = TRUE]]
    /\ request' = [q \in Handlers |->
          IF q = r
          THEN IF request[r].at = "password"
               THEN [request[r] EXCEPT !.at = "issue", !.version = @ + 1] ELSE NoHandler
          ELSE IF request[q].at = "issue" THEN [request[q] EXCEPT !.ended = TRUE] ELSE request[q]]
    /\ raced' = (raced \/ request[r].version # account.version)
    /\ UNCHANGED cache

\* The row is gone: the UPDATE matches nothing, and the handler fails.
CommitNothing(r) ==
    /\ request[r].at \in {"password", "disable", "reset"}
    /\ ~UserKnown
    /\ request' = [request EXCEPT ![r] = NoHandler]
    /\ UNCHANGED <<account, pairs, cache, raced>>

\* update_user, enabled to true.
Enable ==
    /\ account.state = "disabled"
    /\ account' = [account EXCEPT !.state = "enabled"]
    /\ UNCHANGED <<pairs, cache, request, raced>>

\* delete_user.
DeleteUser ==
    /\ UserKnown
    /\ account' = [account EXCEPT !.state = "deleted"]
    /\ UNCHANGED <<pairs, cache, request, raced>>

-----------------------------------------------------------------------------
(* Time *)

PairHeld(s) == \E r \in Handlers : request[r].slot = s

\* An access token lives 15 minutes, ...
ExpireAccess(s) ==
    /\ pairs[s].access = "live"
    /\ pairs' = [pairs EXCEPT ![s].access = "gone"]
    /\ UNCHANGED <<account, cache, request, raced>>

\* ... the refresh token of the same pair 7 days.  A request is shorter than both.
ExpireRefresh(s) ==
    /\ pairs[s].access = "gone" /\ pairs[s].refresh # "gone" /\ ~PairHeld(s)
    /\ pairs' = [pairs EXCEPT ![s] = NoPair]
    /\ UNCHANGED <<account, cache, request, raced>>

Administer == \/ \E r \in Handlers, op \in {"disable", "reset"} : AdminLoad(r, op)
         \/ Enable \/ DeleteUser

SessionStep ==
    \/ \E r \in Handlers :
          \/ Login(r) \/ RefreshRevoke(r) \/ RefuseRefresh(r) \/ RefreshLoad(r) \/ IssuePair(r)
          \/ CommitVersion(r) \/ CommitNothing(r)
          \/ \E s \in Slots : RefreshCheck(r, s) \/ \E p \in Processes : ChangePassword(r, p, s)
    \/ \E s \in Slots : \/ RefreshReuse(s) \/ ExpireAccess(s) \/ ExpireRefresh(s)
                        \/ \E p \in Processes : Logout(p, s)
    \/ \E p \in Processes : Remember(p) \/ ForgetVersion(p)
    \/ Administer

SessionsNext == ~raced /\ SessionStep

SessionsSpec == SessionsInit /\ [][SessionsNext]_sessionsVars

-----------------------------------------------------------------------------
(* Properties *)

\* What ends all sessions of an account (a new password, disabling it, a refresh
\* token used twice) ends them for good: neither a request that was under way, nor
\* a refresh, nor enabling the account again leaves a pair of an ended session with
\* the current version.  Only two handlers that computed the version from the same
\* row may (refresh, change_password, update_user, reset_password).
EndedStaysEnded ==
    \A s \in Slots : pairs[s].ended => pairs[s].version < account.version \/ raced

\* A refresh token is exchanged once, and again only by requests that looked it up
\* before the first one had revoked it: never for more pairs than requests were
\* under way (refresh).
RotationBounded ==
    \A s \in Slots :
        pairs[s].successors + Cardinality({r \in Handlers : request[r].slot = s}) <= Cardinality(Handlers)

\* Sessions end when they should, and multiply no further than they may.
SessionsHold == EndedStaysEnded /\ RotationBounded
=============================================================================
