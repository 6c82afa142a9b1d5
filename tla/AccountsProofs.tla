--------------------------- MODULE AccountsProofs ---------------------------
(***************************************************************************)
(* What modules Sessions, Lockout and Memberships keep of a user's         *)
(* sessions, logins and place in a project, for any number of token pairs, *)
(* handlers, processes, logins, users and requests.                        *)
(***************************************************************************)
EXTENDS Sessions, Lockout, Memberships, FiniteSetTheorems, TLAPS

-----------------------------------------------------------------------------
(***************************************************************************)
(* What module Sessions keeps for any number of token pairs, handlers and  *)
(* processes: the sessions that were ended stay ended, and a refresh token *)
(* is exchanged for no more pairs than handlers are under way.             *)
(***************************************************************************)

LEMMA Shapes ==
    /\ NoPair \in Pair /\ NoHandler \in Handler
    /\ NoPair.refresh = "gone" /\ NoPair.access = "gone" /\ NoPair.successors = 0 /\ NoPair.ended = FALSE
    /\ NoHandler.at = "idle" /\ NoHandler.slot = NoSlot
BY DEF NoPair, Pair, NoHandler, Handler

\* The version of everything that is outstanding is at most that of the row, and what is
\* ended is older.
UpToDate ==
    /\ \A s \in Slots : pairs[s].version <= account.version
    /\ \A s \in Slots : pairs[s].ended => pairs[s].version < account.version
    /\ \A r \in Handlers : request[r].at = "issue" =>
          /\ request[r].version <= account.version
          /\ request[r].ended => request[r].version < account.version
    /\ \A r \in Handlers : request[r].at = "password" => ~request[r].ended

Outdated == raced \/ UpToDate

\* Only a refresh comes with a pair.
OwnSlot == \A r \in Handlers : request[r].at \in {"password", "disable", "reset"} => request[r].slot = NoSlot

\* A token that is not revoked has not been exchanged.
Unused == \A s \in Slots : pairs[s].refresh = "live" => pairs[s].successors = 0

Holders(requests, s) == {r \in Handlers : requests[r].slot = s}

LEMMA HoldersFinite ==
    ASSUME NEW requests, NEW s \in Slots
    PROVE  /\ IsFiniteSet(Holders(requests, s)) /\ Cardinality(Holders(requests, s)) \in Nat
           /\ Cardinality(Holders(requests, s)) <= Cardinality(Handlers) /\ Cardinality(Handlers) \in Nat
<1>1. Holders(requests, s) \subseteq Handlers
    BY DEF Holders
<1> QED
    BY <1>1, PoolsFinite, FS_Subset, FS_CardinalityType

SessionsInv == SessionsTypeOK /\ OwnSlot /\ Outdated /\ Unused /\ RotationBounded

-----------------------------------------------------------------------------
LEMMA SessionsInitInv == SessionsInit => SessionsInv
<1> SUFFICES ASSUME SessionsInit PROVE SessionsInv
    OBVIOUS
<1>1. /\ account = [state |-> "enabled", version |-> 0]
      /\ pairs = [s \in Slots |-> NoPair]
      /\ cache = [p \in Processes |-> NoVersion]
      /\ request = [r \in Handlers |-> NoHandler] /\ raced = FALSE
    BY DEF SessionsInit
<1>2. (\A s \in Slots : pairs[s] = NoPair) /\ \A r \in Handlers : request[r] = NoHandler
    BY <1>1
<1>3. SessionsTypeOK
  <2>1. account \in [state : {"enabled", "disabled", "deleted"}, version : 0..MaxVersion]
    BY <1>1, VersionsNatural
  <2>2. pairs \in [Slots -> Pair] /\ request \in [Handlers -> Handler]
    BY <1>1, Shapes
  <2>3. cache \in [Processes -> Nat \cup {NoVersion}] /\ raced \in BOOLEAN
    BY <1>1
  <2>4. \A r \in Handlers : request[r].at = "idle"
    BY <1>2, Shapes
  <2> QED
    BY <2>1, <2>2, <2>3, <2>4 DEF SessionsTypeOK
<1> OwnSlot
    BY <1>2, Shapes DEF OwnSlot
<1>4. Outdated
    BY <1>1, <1>2 DEF Outdated, UpToDate, NoPair, NoHandler
<1>5. Unused
    BY <1>2, Shapes DEF Unused
<1>6. ASSUME NEW s \in Slots
      PROVE  pairs[s].successors + Cardinality({r \in Handlers : request[r].slot = s}) <= Cardinality(Handlers)
  <2>1. pairs[s].successors = 0
    BY <1>2, Shapes
  <2>2. Cardinality(Holders(request, s)) \in Nat /\ Cardinality(Holders(request, s)) <= Cardinality(Handlers)
    BY HoldersFinite
  <2> QED
    BY <2>1, <2>2 DEF Holders
<1> QED
    BY <1>3, <1>4, <1>5, <1>6 DEF SessionsInv, RotationBounded

-----------------------------------------------------------------------------
(* Types *)

LEMMA Ended ==
    ASSUME NEW x \in Pair
    PROVE  /\ [x EXCEPT !.ended = TRUE] \in Pair
           /\ [x EXCEPT !.ended = TRUE].refresh = x.refresh
           /\ [x EXCEPT !.ended = TRUE].version = x.version
           /\ [x EXCEPT !.ended = TRUE].successors = x.successors
BY DEF Pair

LEMMA EndedHandler ==
    ASSUME NEW x \in Handler
    PROVE  /\ [x EXCEPT !.ended = TRUE] \in Handler
           /\ [x EXCEPT !.ended = TRUE].at = x.at
           /\ [x EXCEPT !.ended = TRUE].slot = x.slot
           /\ [x EXCEPT !.ended = TRUE].version = x.version
BY DEF Handler

\* A new pair is made of the empty one.
LEMMA NewPair ==
    ASSUME NEW x \in Pair, NEW n \in Nat, NEW e \in BOOLEAN
    PROVE  /\ [x EXCEPT !.version = n, !.ended = e, !.access = "live", !.refresh = "live"] \in Pair
           /\ [x EXCEPT !.version = n, !.ended = e, !.access = "live", !.refresh = "live"].refresh = "live"
           /\ [x EXCEPT !.version = n, !.ended = e, !.access = "live", !.refresh = "live"].version = n
           /\ [x EXCEPT !.version = n, !.ended = e, !.access = "live", !.refresh = "live"].ended = e
           /\ [x EXCEPT !.version = n, !.ended = e, !.access = "live", !.refresh = "live"].successors = x.successors
BY DEF Pair

\* change_password goes on with the version it has written.
LEMMA GoesOn ==
    ASSUME NEW x \in Handler, NEW n \in Nat
    PROVE  /\ [x EXCEPT !.at = "issue", !.version = n] \in Handler
           /\ [x EXCEPT !.at = "issue", !.version = n].at = "issue"
           /\ [x EXCEPT !.at = "issue", !.version = n].slot = x.slot
           /\ [x EXCEPT !.at = "issue", !.version = n].version = n
           /\ [x EXCEPT !.at = "issue", !.version = n].ended = x.ended
BY DEF Handler

\* The handlers that have revoked a token come with that token.
RevokedFirst ==
    \A r \in Handlers :
        /\ request[r].at \in {"checked", "revoked"} => request[r].slot # NoSlot
        /\ request[r].at \in {"revoked", "issue"} /\ request[r].slot # NoSlot
              => pairs[request[r].slot].refresh = "revoked"

\* A step of one handler that takes no token back.
LEMMA HandlerStep ==
    ASSUME SessionsTypeOK, OwnSlot, NEW r \in Handlers, NEW h \in Handler,
           request' = [request EXCEPT ![r] = h],
           \A s \in Slots : pairs[s].refresh = "revoked" => pairs'[s].refresh = "revoked",
           h.at \in {"checked", "revoked"} => h.slot # NoSlot,
           h.at \in {"revoked", "issue"} /\ h.slot # NoSlot => pairs'[h.slot].refresh = "revoked",
           h.at \in {"password", "disable", "reset"} => h.slot = NoSlot
    PROVE  request' \in [Handlers -> Handler] /\ RevokedFirst' /\ OwnSlot'
<1>1. request \in [Handlers -> Handler] /\ RevokedFirst
    BY DEF SessionsTypeOK, RevokedFirst
<1>2. request'[r] = h /\ \A q \in Handlers \ {r} : request'[q] = request[q]
    BY <1>1
<1>3. \A q \in Handlers : request[q].slot # NoSlot => request[q].slot \in Slots
    BY <1>1 DEF Handler
<1> QED
    BY <1>1, <1>2, <1>3 DEF RevokedFirst, OwnSlot

\* A step of the pairs alone.
LEMMA PairStep ==
    ASSUME SessionsTypeOK, OwnSlot, request' = request,
           \A s \in Slots : pairs[s].refresh = "revoked" /\ PairHeld(s) => pairs'[s].refresh = "revoked"
    PROVE  request' \in [Handlers -> Handler] /\ RevokedFirst' /\ OwnSlot'
<1>1. request \in [Handlers -> Handler] /\ RevokedFirst
    BY DEF SessionsTypeOK, RevokedFirst
<1>2. \A q \in Handlers : request[q].slot # NoSlot => request[q].slot \in Slots
    BY <1>1 DEF Handler
<1> QED
    BY <1>1, <1>2 DEF RevokedFirst, OwnSlot, PairHeld

Rows ==
    /\ account \in [state : {"enabled", "disabled", "deleted"}, version : 0..MaxVersion]
    /\ pairs \in [Slots -> Pair]
    /\ cache \in [Processes -> Nat \cup {NoVersion}]
    /\ raced \in BOOLEAN

LEMMA TypeParts ==
    SessionsTypeOK <=> Rows /\ request \in [Handlers -> Handler] /\ RevokedFirst
BY DEF SessionsTypeOK, Rows, RevokedFirst

\* One step of a handler, from what it does to the rows and to itself.
LEMMA HandlerKeepsType ==
    ASSUME SessionsTypeOK, OwnSlot, NEW r \in Handlers, NEW h \in Handler, Rows',
           request' = [request EXCEPT ![r] = h],
           \A s \in Slots : pairs[s].refresh = "revoked" => pairs'[s].refresh = "revoked",
           h.at \in {"checked", "revoked"} => h.slot # NoSlot,
           h.at \in {"revoked", "issue"} /\ h.slot # NoSlot => pairs'[h.slot].refresh = "revoked",
           h.at \in {"password", "disable", "reset"} => h.slot = NoSlot
    PROVE  SessionsTypeOK' /\ OwnSlot'
<1>1. request' \in [Handlers -> Handler] /\ RevokedFirst' /\ OwnSlot'
    BY HandlerStep
<1> QED
    BY <1>1 DEF SessionsTypeOK, Rows, RevokedFirst

\* A handler begins.
LEMMA BeginKeepsType ==
    ASSUME SessionsTypeOK, OwnSlot, NEW r \in Handlers, NEW at, NEW slot \in Slots \cup {NoSlot}, NEW version \in Nat,
           at \in {"checked", "issue", "password", "disable", "reset"}, (at = "checked") <=> (slot # NoSlot),
           BeginHandler(r, at, slot, version), UNCHANGED <<account, pairs, cache, raced>>
    PROVE  SessionsTypeOK' /\ OwnSlot'
<1> DEFINE h == [at |-> at, slot |-> slot, version |-> version, ended |-> FALSE]
<1>1. h \in Handler /\ h.at = at /\ h.slot = slot /\ request' = [request EXCEPT ![r] = h]
    BY DEF Handler, BeginHandler
<1>2. Rows'
    BY DEF SessionsTypeOK, Rows
<1> HIDE DEF h
<1> QED
    BY <1>1, <1>2, HandlerKeepsType

\* Everything that is ended keeps its shape.
LEMMA AllEnded ==
    ASSUME SessionsTypeOK, pairs' = [s \in Slots |-> IF pairs[s] = NoPair THEN NoPair ELSE [pairs[s] EXCEPT !.ended = TRUE]]
    PROVE  /\ pairs' \in [Slots -> Pair]
           /\ \A s \in Slots : /\ pairs'[s].refresh = pairs[s].refresh
                               /\ pairs'[s].version = pairs[s].version
                               /\ pairs'[s].successors = pairs[s].successors
<1>1. \A s \in Slots : pairs[s] \in Pair
    BY DEF SessionsTypeOK
<1>2. \A s \in Slots : pairs'[s] = IF pairs[s] = NoPair THEN NoPair ELSE [pairs[s] EXCEPT !.ended = TRUE]
    OBVIOUS
<1>3. \A s \in Slots : pairs'[s] \in Pair
    BY <1>1, <1>2, Ended, Shapes
<1> QED
    BY <1>1, <1>2, <1>3, Ended

LEMMA TypeStep == SessionsTypeOK /\ OwnSlot /\ SessionStep => SessionsTypeOK' /\ OwnSlot'
<1> SUFFICES ASSUME SessionsTypeOK, OwnSlot, SessionStep PROVE SessionsTypeOK' /\ OwnSlot'
    OBVIOUS
<1>1. \A r \in Handlers : request[r] \in Handler
    BY DEF SessionsTypeOK
<1>2. \A s \in Slots : pairs[s] \in Pair
    BY DEF SessionsTypeOK
<1>3. account.version \in Nat /\ account.version \in 0..MaxVersion /\ MaxVersion \in Nat
    BY VersionsNatural DEF SessionsTypeOK
<1>4. CASE \E p \in Processes : Remember(p) \/ ForgetVersion(p)
    BY <1>3, <1>4 DEF Remember, ForgetVersion, SessionsTypeOK, OwnSlot
<1>5. CASE \E r \in Handlers : Login(r)
    BY <1>3, <1>5, BeginKeepsType DEF Login
<1>6. CASE \E r \in Handlers, s \in Slots : RefreshCheck(r, s)
    BY <1>6, PoolsFinite, BeginKeepsType DEF RefreshCheck
<1>7. CASE \E r \in Handlers, s \in Slots, p \in Processes : ChangePassword(r, p, s)
    BY <1>3, <1>7, BeginKeepsType DEF ChangePassword
<1>8. CASE \E r \in Handlers, op \in {"disable", "reset"} : AdminLoad(r, op)
    BY <1>3, <1>8, BeginKeepsType DEF AdminLoad
<1>9. ASSUME NEW r \in Handlers, RefreshRevoke(r) PROVE SessionsTypeOK' /\ OwnSlot'
  <2> DEFINE h == [request[r] EXCEPT !.at = "revoked"]
  <2>1. /\ request[r].at = "checked"
        /\ pairs' = [pairs EXCEPT ![request[r].slot].refresh = "revoked"]
        /\ request' = [request EXCEPT ![r] = h]
        /\ UNCHANGED <<account, cache, raced>>
    BY <1>9 DEF RefreshRevoke
  <2>2. request[r].slot \in Slots /\ request[r].slot # NoSlot
    BY <1>1, <2>1 DEF SessionsTypeOK, Handler
  <2>3. /\ pairs' \in [Slots -> Pair] /\ pairs'[request[r].slot].refresh = "revoked"
        /\ \A s \in Slots : pairs[s].refresh = "revoked" => pairs'[s].refresh = "revoked"
    <3>1. PICK x, p : x = request[r].slot /\ p = [pairs[x] EXCEPT !.refresh = "revoked"]
      OBVIOUS
    <3>2. x \in Slots /\ pairs \in [Slots -> Pair]
      BY <2>2, <3>1 DEF SessionsTypeOK
    <3>3. p \in Pair /\ p.refresh = "revoked"
      BY <1>2, <3>1, <3>2 DEF Pair
    <3>4. pairs' = [pairs EXCEPT ![x] = p]
      BY <2>1, <3>1
    <3>. QED
      BY <3>1, <3>2, <3>3, <3>4
  <2>4. h \in Handler /\ h.at = "revoked" /\ h.slot = request[r].slot
    BY <1>1 DEF Handler
  <2>5. Rows'
    BY <2>1, <2>3 DEF SessionsTypeOK, Rows
  <2> HIDE DEF h
  <2> QED
    BY <2>1, <2>2, <2>3, <2>4, <2>5, HandlerKeepsType
<1>10. ASSUME NEW r \in Handlers, RefuseRefresh(r) \/ CommitNothing(r) PROVE SessionsTypeOK' /\ OwnSlot'
  <2>1. request' = [request EXCEPT ![r] = NoHandler] /\ UNCHANGED <<account, pairs, cache, raced>>
    BY <1>10 DEF RefuseRefresh, CommitNothing
  <2>2. Rows'
    BY <2>1 DEF SessionsTypeOK, Rows
  <2> QED
    BY <2>1, <2>2, Shapes, HandlerKeepsType
<1>11. ASSUME NEW r \in Handlers, RefreshLoad(r) PROVE SessionsTypeOK' /\ OwnSlot'
  <2> DEFINE h == [request[r] EXCEPT !.at = "issue", !.version = account.version,
                                     !.ended = pairs[request[r].slot].ended]
  <2>1. request[r].at = "revoked" /\ request' = [request EXCEPT ![r] = h] /\ UNCHANGED <<account, pairs, cache, raced>>
    BY <1>11 DEF RefreshLoad
  <2>2. request[r].slot \in Slots /\ request[r].slot # NoSlot /\ pairs[request[r].slot].refresh = "revoked"
    BY <1>1, <2>1 DEF SessionsTypeOK, Handler
  <2>3. pairs[request[r].slot].ended \in BOOLEAN
    BY <1>2, <2>2 DEF Pair
  <2>4. h \in Handler /\ h.at = "issue" /\ h.slot = request[r].slot
    BY <1>1, <1>3, <2>3 DEF Handler
  <2>5. Rows'
    BY <2>1 DEF SessionsTypeOK, Rows
  <2> HIDE DEF h
  <2> QED
    BY <2>1, <2>2, <2>4, <2>5, HandlerKeepsType
<1>12. ASSUME NEW r \in Handlers, IssuePair(r) PROVE SessionsTypeOK' /\ OwnSlot'
  <2>1. PICK s \in Slots :
          /\ pairs[s] = NoPair
          /\ pairs' = [t \in Slots |->
                IF t = s THEN [NoPair EXCEPT !.version = request[r].version, !.ended = request[r].ended,
                                           !.access = "live", !.refresh = "live"]
                ELSE IF t = request[r].slot THEN [pairs[t] EXCEPT !.successors = @ + 1]
                ELSE pairs[t]]
    BY <1>12 DEF IssuePair
  <2>2. request' = [request EXCEPT ![r] = NoHandler] /\ UNCHANGED <<account, cache, raced>>
    BY <1>12 DEF IssuePair
  <2>3. ASSUME NEW t \in Slots PROVE pairs'[t] \in Pair
    <3>1. CASE t = s
      <4>1. pairs'[t] = [NoPair EXCEPT !.version = request[r].version, !.ended = request[r].ended,
                                       !.access = "live", !.refresh = "live"]
        BY <2>1, <3>1
      <4>2. request[r].version \in Nat /\ request[r].ended \in BOOLEAN
        BY <1>1 DEF Handler
      <4>3. NoPair \in Pair
        BY Shapes
      <4>4. [NoPair EXCEPT !.version = request[r].version, !.ended = request[r].ended,
                           !.access = "live", !.refresh = "live"] \in Pair
        BY <4>2, <4>3, NewPair, Zenon
      <4> QED
        BY <4>1, <4>4, Zenon
    <3>2. CASE t # s /\ t = request[r].slot
      <4>1. pairs'[t] = [pairs[t] EXCEPT !.successors = @ + 1]
        BY <2>1, <3>2
      <4>2. pairs[t] \in Pair /\ pairs[t].successors + 1 \in Nat
        BY <1>2 DEF Pair
      <4> QED
        BY <4>1, <4>2 DEF Pair
    <3>3. CASE t # s /\ t # request[r].slot
      BY <1>2, <2>1, <3>3
    <3> QED
      BY <3>1, <3>2, <3>3
  <2>4. \A t \in Slots : pairs[t].refresh = "revoked" => pairs'[t].refresh = "revoked"
    BY <1>2, <2>1, Shapes DEF Pair
  <2>5. Rows'
    BY <2>1, <2>2, <2>3 DEF SessionsTypeOK, Rows
  <2> QED
    BY <2>2, <2>4, <2>5, Shapes, HandlerKeepsType
<1>13. ASSUME NEW r \in Handlers, CommitVersion(r) PROVE SessionsTypeOK' /\ OwnSlot'
  <2>1. /\ request[r].at \in {"password", "disable", "reset"}
        /\ request[r].version < MaxVersion
        /\ account' = [account EXCEPT !.version = request[r].version + 1,
                                      !.state = IF request[r].at = "disable" THEN "disabled" ELSE @]
        /\ pairs' = [s \in Slots |-> IF pairs[s] = NoPair THEN NoPair ELSE [pairs[s] EXCEPT !.ended = TRUE]]
        /\ request' = [q \in Handlers |->
              IF q = r
              THEN IF request[r].at = "password"
                   THEN [request[r] EXCEPT !.at = "issue", !.version = @ + 1] ELSE NoHandler
              ELSE IF request[q].at = "issue" THEN [request[q] EXCEPT !.ended = TRUE] ELSE request[q]]
        /\ raced' = (raced \/ request[r].version # account.version)
        /\ cache' = cache
    BY <1>13 DEF CommitVersion
  <2>2. request[r].version \in Nat /\ request[r].slot = NoSlot
    BY <1>1, <2>1 DEF Handler, OwnSlot
  <2>3. account' \in [state : {"enabled", "disabled", "deleted"}, version : 0..MaxVersion]
    <3>1. account \in [state : {"enabled", "disabled", "deleted"}, version : 0..MaxVersion]
      BY DEF SessionsTypeOK
    <3>2. request[r].version + 1 \in 0..MaxVersion
      BY <1>3, <2>1, <2>2
    <3>3. account' = [state |-> IF request[r].at = "disable" THEN "disabled" ELSE account.state,
                      version |-> request[r].version + 1]
      BY <2>1, <3>1
    <3> QED
      BY <3>1, <3>2, <3>3
  <2>4. pairs' \in [Slots -> Pair] /\ \A s \in Slots : pairs'[s].refresh = pairs[s].refresh
    BY <2>1, AllEnded
  <2> DEFINE h == [request[r] EXCEPT !.at = "issue", !.version = @ + 1]
  <2>5. h \in Handler /\ h.at = "issue" /\ h.slot = NoSlot
    <3>1. request[r] \in Handler /\ request[r].version + 1 \in Nat
      BY <1>1, <2>2
    <3> QED
      BY <2>2, <3>1, GoesOn
  <2>6. \A q \in Handlers \ {r} : request'[q] \in Handler /\ request'[q].at = request[q].at /\ request'[q].slot = request[q].slot
    BY <1>1, <2>1, EndedHandler
  <2>7. request'[r] \in Handler /\ request'[r].at \in {"issue", "idle"} /\ request'[r].slot = NoSlot
    BY <2>1, <2>5, Shapes
  <2>8. request' \in [Handlers -> Handler]
    BY <2>1, <2>6, <2>7
  <2>9. Rows'
    BY <2>1, <2>3, <2>4 DEF SessionsTypeOK, Rows
  <2>10. \A q \in Handlers : request[q].slot # NoSlot => request[q].slot \in Slots
    BY <1>1 DEF Handler
  <2>11. RevokedFirst' /\ OwnSlot'
    BY <2>4, <2>6, <2>7, <2>10 DEF SessionsTypeOK, OwnSlot, RevokedFirst
  <2> QED
    BY <2>8, <2>9, <2>11 DEF SessionsTypeOK, Rows, RevokedFirst
<1>14. ASSUME NEW s \in Slots, RefreshReuse(s) PROVE SessionsTypeOK' /\ OwnSlot'
  <2>1. /\ account.version < MaxVersion /\ account' = [account EXCEPT !.version = @ + 1]
        /\ pairs' = [t \in Slots |-> IF pairs[t] = NoPair THEN NoPair ELSE [pairs[t] EXCEPT !.ended = TRUE]]
        /\ request' = [r \in Handlers |->
                      IF request[r].at = "issue" THEN [request[r] EXCEPT !.ended = TRUE] ELSE request[r]]
        /\ UNCHANGED <<cache, raced>>
    BY <1>14 DEF RefreshReuse, EndSessions
  <2>2. account' \in [state : {"enabled", "disabled", "deleted"}, version : 0..MaxVersion]
    BY <1>3, <2>1 DEF SessionsTypeOK
  <2>3. pairs' \in [Slots -> Pair] /\ \A t \in Slots : pairs'[t].refresh = pairs[t].refresh
    BY <2>1, AllEnded
  <2>4. \A q \in Handlers : request'[q] \in Handler /\ request'[q].at = request[q].at /\ request'[q].slot = request[q].slot
    BY <1>1, <2>1, EndedHandler
  <2>5. request' \in [Handlers -> Handler]
    BY <2>1, <2>4
  <2>6. Rows'
    BY <2>1, <2>2, <2>3 DEF SessionsTypeOK, Rows
  <2>7. \A q \in Handlers : request[q].slot # NoSlot => request[q].slot \in Slots
    BY <1>1 DEF Handler
  <2>8. RevokedFirst' /\ OwnSlot'
    BY <2>3, <2>4, <2>7 DEF SessionsTypeOK, OwnSlot, RevokedFirst
  <2> QED
    BY <2>5, <2>6, <2>8 DEF SessionsTypeOK, Rows, RevokedFirst
<1>15. ASSUME NEW s \in Slots, ExpireAccess(s) \/ ExpireRefresh(s) \/ \E p \in Processes : Logout(p, s)
       PROVE  SessionsTypeOK' /\ OwnSlot'
  <2>1. UNCHANGED <<account, cache, request, raced>>
    BY <1>15 DEF ExpireAccess, ExpireRefresh, Logout
  <2>2. pairs' \in [Slots -> Pair]
    BY <1>2, <1>15, Shapes DEF ExpireAccess, ExpireRefresh, Logout, SessionsTypeOK, Pair
  <2>3. \A t \in Slots : pairs[t].refresh = "revoked" /\ PairHeld(t) => pairs'[t].refresh = "revoked"
    BY <1>2, <1>15 DEF ExpireAccess, ExpireRefresh, Logout, SessionsTypeOK, Pair
  <2>4. request' \in [Handlers -> Handler] /\ RevokedFirst' /\ OwnSlot'
    BY <2>1, <2>3, PairStep
  <2>5. Rows'
    BY <2>1, <2>2 DEF SessionsTypeOK, Rows
  <2> QED
    BY <2>4, <2>5 DEF SessionsTypeOK, Rows, RevokedFirst
<1>16. CASE Enable \/ DeleteUser
    BY <1>16 DEF Enable, DeleteUser, SessionsTypeOK, OwnSlot
<1> QED
    BY <1>4, <1>5, <1>6, <1>7, <1>8, <1>9, <1>10, <1>11, <1>12, <1>13, <1>14, <1>15, <1>16
    DEF SessionStep, Administer

-----------------------------------------------------------------------------
(* Ended sessions *)

\* One handler takes a step, and the pairs keep their versions.
LEMMA HandlerKeepsUpToDate ==
    ASSUME UpToDate, SessionsTypeOK, NEW r \in Handlers, NEW h,
           request' = [request EXCEPT ![r] = h], account' = account,
           \A s \in Slots : pairs'[s].version = pairs[s].version /\ pairs'[s].ended = pairs[s].ended,
           h.at = "issue" => /\ h.version <= account.version
                             /\ h.ended => h.version < account.version,
           h.at = "password" => ~h.ended
    PROVE  UpToDate'
<1>1. request'[r] = h /\ \A q \in Handlers \ {r} : request'[q] = request[q]
    BY DEF SessionsTypeOK
<1> QED
    BY <1>1 DEF UpToDate

\* A version that is the old one plus one makes everything there is older.
LEMMA NewVersionKeepsUpToDate ==
    ASSUME UpToDate, SessionsTypeOK, account'.version = account.version + 1,
           \A s \in Slots : pairs'[s].version = pairs[s].version,
           \A q \in Handlers : request'[q].at = "issue" =>
               \/ request[q].at = "issue" /\ request'[q].version = request[q].version
               \/ request'[q].version = account'.version /\ ~request'[q].ended,
           \A q \in Handlers : request'[q].at = "password" => ~request'[q].ended
    PROVE  UpToDate'
<1>1. account.version \in Int /\ account'.version \in Int
    BY VersionsNatural DEF SessionsTypeOK
<1>2. \A s \in Slots : pairs[s].version \in Int
    BY DEF SessionsTypeOK, Pair
<1>3. \A q \in Handlers : request[q].version \in Int
    BY DEF SessionsTypeOK, Handler
<1>4. \A s \in Slots : pairs'[s].version < account'.version
    BY <1>1, <1>2 DEF UpToDate
<1>5. ASSUME NEW q \in Handlers, request'[q].at = "issue"
      PROVE  /\ request'[q].version <= account'.version
             /\ request'[q].ended => request'[q].version < account'.version
    BY <1>1, <1>3, <1>5 DEF UpToDate
<1>6. \A s \in Slots : pairs'[s].version <= account'.version
    BY <1>1, <1>2 DEF UpToDate
<1> QED
    BY <1>4, <1>5, <1>6 DEF UpToDate

LEMMA EndedStep ==
    SessionsTypeOK /\ SessionsTypeOK' /\ OwnSlot /\ Outdated /\ SessionsNext => Outdated'
<1> SUFFICES ASSUME SessionsTypeOK, OwnSlot, UpToDate, SessionStep, ~raced PROVE raced' \/ UpToDate'
    BY DEF Outdated, SessionsNext
<1>1. \A r \in Handlers : request[r] \in Handler
    BY DEF SessionsTypeOK
<1>2. \A s \in Slots : pairs[s] \in Pair
    BY DEF SessionsTypeOK
<1>3. account.version \in Nat
    BY VersionsNatural DEF SessionsTypeOK
<1>4. CASE \E p \in Processes : Remember(p) \/ ForgetVersion(p)
    BY <1>4 DEF Remember, ForgetVersion, UpToDate
<1>5. ASSUME NEW r \in Handlers, NEW at, NEW slot, BeginHandler(r, at, slot, account.version),
             UNCHANGED <<account, pairs, cache, raced>>
      PROVE  UpToDate'
  <2> DEFINE h == [at |-> at, slot |-> slot, version |-> account.version, ended |-> FALSE]
  <2>1. request' = [request EXCEPT ![r] = h] /\ h.version = account.version /\ ~h.ended
    BY <1>5 DEF BeginHandler
  <2> HIDE DEF h
  <2>2. h.version <= account.version
    BY <1>3, <2>1
  <2>3. account' = account /\ pairs' = pairs
    BY <1>5
  <2> QED
    BY <2>1, <2>2, <2>3, HandlerKeepsUpToDate
<1>6. ASSUME NEW r \in Handlers, NEW s \in Slots, RefreshCheck(r, s) PROVE UpToDate'
  <2> DEFINE h == [at |-> "checked", slot |-> s, version |-> 0, ended |-> FALSE]
  <2>1. request' = [request EXCEPT ![r] = h] /\ h.at = "checked" /\ UNCHANGED <<account, pairs>>
    BY <1>6 DEF RefreshCheck, BeginHandler
  <2> HIDE DEF h
  <2> QED
    BY <2>1, HandlerKeepsUpToDate
<1>7. ASSUME NEW r \in Handlers, RefreshRevoke(r) PROVE UpToDate'
  <2> DEFINE h == [request[r] EXCEPT !.at = "revoked"]
  <2>1. /\ request[r].at = "checked" /\ account' = account
        /\ pairs' = [pairs EXCEPT ![request[r].slot].refresh = "revoked"]
        /\ request' = [request EXCEPT ![r] = h]
    BY <1>7 DEF RefreshRevoke
  <2>2. \A s \in Slots : pairs'[s].version = pairs[s].version /\ pairs'[s].ended = pairs[s].ended
    BY <1>2, <2>1 DEF Pair, SessionsTypeOK
  <2>3. h.at = "revoked"
    BY <1>1 DEF Handler
  <2> HIDE DEF h
  <2> QED
    BY <2>1, <2>2, <2>3, HandlerKeepsUpToDate
<1>8. ASSUME NEW r \in Handlers, RefuseRefresh(r) \/ CommitNothing(r) PROVE UpToDate'
  <2>1. request' = [request EXCEPT ![r] = NoHandler] /\ UNCHANGED <<account, pairs>>
    BY <1>8 DEF RefuseRefresh, CommitNothing
  <2> QED
    BY <2>1, Shapes, HandlerKeepsUpToDate
<1>9. ASSUME NEW r \in Handlers, RefreshLoad(r) PROVE UpToDate'
  <2> DEFINE h == [request[r] EXCEPT !.at = "issue", !.version = account.version,
                                     !.ended = pairs[request[r].slot].ended]
  <2>1. /\ request[r].at = "revoked" /\ request' = [request EXCEPT ![r] = h]
        /\ pairs[request[r].slot].version >= account.version /\ UNCHANGED <<account, pairs>>
    BY <1>9 DEF RefreshLoad
  <2>2. request[r].slot \in Slots
    BY <1>1, <2>1 DEF SessionsTypeOK, Handler
  <2>3. ~pairs[request[r].slot].ended
    BY <1>2, <1>3, <2>1, <2>2 DEF UpToDate, Pair
  <2>4. h.at = "issue" /\ h.version = account.version /\ ~h.ended
    BY <1>1, <2>3 DEF Handler
  <2> HIDE DEF h
  <2>5. h.version <= account.version
    BY <1>3, <2>4
  <2> QED
    BY <2>1, <2>4, <2>5, HandlerKeepsUpToDate
<1>10. ASSUME NEW r \in Handlers, IssuePair(r) PROVE UpToDate'
  <2>1. PICK s \in Slots :
          /\ pairs[s] = NoPair
          /\ pairs' = [t \in Slots |->
                IF t = s THEN [NoPair EXCEPT !.version = request[r].version, !.ended = request[r].ended,
                                           !.access = "live", !.refresh = "live"]
                ELSE IF t = request[r].slot THEN [pairs[t] EXCEPT !.successors = @ + 1]
                ELSE pairs[t]]
    BY <1>10 DEF IssuePair
  <2>2. request[r].at = "issue" /\ request' = [request EXCEPT ![r] = NoHandler] /\ account' = account
    BY <1>10 DEF IssuePair
  <2>3. \A q \in Handlers : request'[q].at = "issue" => request'[q] = request[q]
    BY <2>2, Shapes DEF SessionsTypeOK
  <2>4. request[r].version \in Nat /\ request[r].ended \in BOOLEAN
    BY <1>1 DEF Handler
  <2>5. pairs'[s].version = request[r].version /\ pairs'[s].ended = request[r].ended
    <3> DEFINE x == [NoPair EXCEPT !.version = request[r].version, !.ended = request[r].ended,
                                   !.access = "live", !.refresh = "live"]
    <3>1. x.version = request[r].version /\ x.ended = request[r].ended
      BY DEF NoPair
    <3>2. pairs'[s] = x
      BY <2>1
    <3> QED
      BY <3>1, <3>2, Zenon
  <2>6. \A t \in Slots \ {s} : pairs'[t].version = pairs[t].version /\ pairs'[t].ended = pairs[t].ended
    BY <1>2, <2>1 DEF Pair
  <2>7. \A q \in Handlers :
           /\ request'[q].at = "issue" => /\ request'[q].version <= account'.version
                                          /\ request'[q].ended => request'[q].version < account'.version
           /\ request'[q].at = "password" => ~request'[q].ended
    BY <2>2, <2>3, Shapes DEF UpToDate, SessionsTypeOK
  <2>8. /\ pairs'[s].version <= account'.version
        /\ pairs'[s].ended => pairs'[s].version < account'.version
    BY <2>2, <2>5 DEF UpToDate
  <2>9. \A t \in Slots \ {s} :
           /\ pairs'[t].version <= account'.version
           /\ pairs'[t].ended => pairs'[t].version < account'.version
    BY <2>2, <2>6 DEF UpToDate
  <2> QED
    BY <2>7, <2>8, <2>9 DEF UpToDate
<1>11. ASSUME NEW r \in Handlers, CommitVersion(r) PROVE raced' \/ UpToDate'
  <2> DEFINE h == [request[r] EXCEPT !.at = "issue", !.version = @ + 1]
  <2>1. /\ account' = [account EXCEPT !.version = request[r].version + 1,
                                      !.state = IF request[r].at = "disable" THEN "disabled" ELSE @]
        /\ pairs' = [s \in Slots |-> IF pairs[s] = NoPair THEN NoPair ELSE [pairs[s] EXCEPT !.ended = TRUE]]
        /\ request' = [q \in Handlers |->
              IF q = r
              THEN IF request[r].at = "password" THEN h ELSE NoHandler
              ELSE IF request[q].at = "issue" THEN [request[q] EXCEPT !.ended = TRUE] ELSE request[q]]
        /\ raced' = (raced \/ request[r].version # account.version)
    BY <1>11 DEF CommitVersion
  <2> SUFFICES ASSUME request[r].version = account.version PROVE UpToDate'
    BY <2>1
  <2>2. account'.version = account.version + 1
    BY <2>1 DEF SessionsTypeOK
  <2>3. \A s \in Slots : pairs'[s].version = pairs[s].version
    BY <2>1, AllEnded
  <2>4. request[r].version + 1 \in Nat
    BY <1>3
  <2>5. h.version = account'.version /\ h.ended = request[r].ended
    <3>1. h.version = request[r].version + 1 /\ h.ended = request[r].ended
      BY <1>1, <2>4, GoesOn, Zenon
    <3> HIDE DEF h
    <3> QED
      BY <2>2, <3>1
  <2>6. request[r].at = "password" => ~h.ended
    BY <2>5 DEF UpToDate
  <2>7. ASSUME NEW q \in Handlers \ {r}
        PROVE  request'[q].at = request[q].at /\ request'[q].version = request[q].version
    BY <1>1, <2>1, EndedHandler
  <2>8. request'[r].at = "issue" => request'[r].version = account'.version /\ ~request'[r].ended
    <3>1. request'[r] = h \/ request'[r] = NoHandler
      BY <2>1
    <3> HIDE DEF h
    <3> QED
      BY <2>1, <2>5, <2>6, <3>1, Shapes
  <2>9. \A q \in Handlers : request'[q].at = "password" => ~request'[q].ended
    BY <1>1, <2>1, <2>4, GoesOn, Shapes, EndedHandler DEF UpToDate
  <2> QED
    BY <2>2, <2>3, <2>7, <2>8, <2>9, NewVersionKeepsUpToDate
<1>12. ASSUME NEW s \in Slots, RefreshReuse(s) PROVE UpToDate'
  <2>1. /\ account' = [account EXCEPT !.version = @ + 1]
        /\ pairs' = [t \in Slots |-> IF pairs[t] = NoPair THEN NoPair ELSE [pairs[t] EXCEPT !.ended = TRUE]]
        /\ request' = [r \in Handlers |->
                      IF request[r].at = "issue" THEN [request[r] EXCEPT !.ended = TRUE] ELSE request[r]]
    BY <1>12 DEF RefreshReuse, EndSessions
  <2>2. account'.version = account.version + 1
    BY <2>1 DEF SessionsTypeOK
  <2>3. \A t \in Slots : pairs'[t].version = pairs[t].version
    BY <2>1, AllEnded
  <2>4. \A q \in Handlers : request'[q].at = request[q].at /\ request'[q].version = request[q].version
    BY <1>1, <2>1, EndedHandler
  <2>5. \A q \in Handlers : request[q].at = "password" => request'[q] = request[q]
    BY <2>1
  <2>6. \A q \in Handlers : request'[q].at = "password" => ~request'[q].ended
    BY <2>4, <2>5 DEF UpToDate
  <2> QED
    BY <2>2, <2>3, <2>4, <2>6, NewVersionKeepsUpToDate
<1>13. ASSUME NEW s \in Slots, ExpireAccess(s) \/ ExpireRefresh(s) \/ \E p \in Processes : Logout(p, s)
       PROVE  UpToDate'
  <2>1. UNCHANGED <<account, request>>
    BY <1>13 DEF ExpireAccess, ExpireRefresh, Logout
  <2>2. ASSUME NEW t \in Slots
        PROVE  \/ pairs'[t].version = pairs[t].version /\ pairs'[t].ended = pairs[t].ended
               \/ pairs'[t] = NoPair
    BY <1>2, <1>13 DEF ExpireAccess, ExpireRefresh, Logout, SessionsTypeOK, Pair
  <2>3. NoPair.version = 0 /\ NoPair.ended = FALSE
    BY DEF NoPair
  <2> QED
    BY <1>3, <2>1, <2>2, <2>3 DEF UpToDate
<1>14. CASE Enable \/ DeleteUser
  <2>1. account'.version = account.version /\ UNCHANGED <<pairs, request>>
    BY <1>14 DEF Enable, DeleteUser, SessionsTypeOK
  <2> QED
    BY <2>1 DEF UpToDate
<1> QED
    BY <1>4, <1>5, <1>6, <1>7, <1>8, <1>9, <1>10, <1>11, <1>12, <1>13, <1>14
    DEF SessionStep, Administer, Login, ChangePassword, AdminLoad

-----------------------------------------------------------------------------
(* Rotation *)

\* A step that counts no successor, takes no new token and revokes none back.
LEMMA NothingExchanged ==
    ASSUME SessionsTypeOK, Unused, RotationBounded,
           \A s \in Slots : pairs'[s].successors \in Nat /\ pairs'[s].successors <= pairs[s].successors,
           \A s \in Slots : pairs'[s].refresh = "live" => pairs[s].refresh = "live",
           \A r \in Handlers : request'[r].slot = request[r].slot \/ request'[r].slot = NoSlot
    PROVE  Unused' /\ RotationBounded'
<1>1. \A s \in Slots : pairs[s].successors \in Nat
    BY DEF SessionsTypeOK, Pair
<1>2. Unused'
    BY <1>1 DEF Unused
<1>3. ASSUME NEW s \in Slots
      PROVE  pairs'[s].successors + Cardinality(Holders(request', s)) <= Cardinality(Handlers)
  <2>1. Holders(request', s) \subseteq Holders(request, s)
    BY PoolsFinite DEF Holders
  <2>2. /\ Cardinality(Holders(request', s)) \in Nat /\ Cardinality(Holders(request, s)) \in Nat
        /\ IsFiniteSet(Holders(request, s)) /\ Cardinality(Handlers) \in Nat
    BY HoldersFinite
  <2>3. Cardinality(Holders(request', s)) <= Cardinality(Holders(request, s))
    BY <2>1, <2>2, FS_Subset
  <2>4. pairs[s].successors + Cardinality(Holders(request, s)) <= Cardinality(Handlers)
    BY DEF RotationBounded, Holders
  <2> QED
    BY <1>1, <2>2, <2>3, <2>4
<1> QED
    BY <1>2, <1>3 DEF RotationBounded, Holders

LEMMA RotationStep ==
    SessionsTypeOK /\ Unused /\ RotationBounded /\ SessionStep => Unused' /\ RotationBounded'
<1> SUFFICES ASSUME SessionsTypeOK, Unused, RotationBounded, SessionStep PROVE Unused' /\ RotationBounded'
    OBVIOUS
<1>1. \A r \in Handlers : request[r] \in Handler
    BY DEF SessionsTypeOK
<1>2. \A s \in Slots : pairs[s] \in Pair /\ pairs[s].successors \in Nat
    BY DEF SessionsTypeOK, Pair
<1>3. CASE UNCHANGED <<pairs, request>>
    BY <1>2, <1>3, NothingExchanged
<1>4. ASSUME NEW r \in Handlers, NEW at, NEW version, BeginHandler(r, at, NoSlot, version), pairs' = pairs
      PROVE  Unused' /\ RotationBounded'
  <2>1. request'[r].slot = NoSlot /\ \A q \in Handlers \ {r} : request'[q] = request[q]
    BY <1>4 DEF BeginHandler, SessionsTypeOK
  <2> QED
    BY <1>2, <1>4, <2>1, NothingExchanged
<1>5. ASSUME NEW r \in Handlers, NEW s \in Slots, RefreshCheck(r, s) PROVE Unused' /\ RotationBounded'
  <2>1. pairs[s].refresh = "live" /\ pairs' = pairs
    BY <1>5 DEF RefreshCheck
  <2>2. request'[r].slot = s /\ \A q \in Handlers \ {r} : request'[q] = request[q]
    BY <1>5 DEF RefreshCheck, BeginHandler, SessionsTypeOK
  <2>3. ASSUME NEW t \in Slots
        PROVE  pairs'[t].successors + Cardinality(Holders(request', t)) <= Cardinality(Handlers)
    <3>1. CASE t = s
      <4>1. pairs'[t].successors = 0
        BY <2>1, <3>1 DEF Unused
      <4> QED
        BY <4>1, HoldersFinite
    <3>2. CASE t # s
      <4>1. Holders(request', t) \subseteq Holders(request, t)
        BY <2>2, <3>2 DEF Holders
      <4>2. /\ Cardinality(Holders(request', t)) \in Nat /\ Cardinality(Holders(request, t)) \in Nat
            /\ IsFiniteSet(Holders(request, t)) /\ Cardinality(Handlers) \in Nat
        BY HoldersFinite
      <4>3. Cardinality(Holders(request', t)) <= Cardinality(Holders(request, t))
        BY <4>1, <4>2, FS_Subset
      <4>4. pairs[t].successors + Cardinality(Holders(request, t)) <= Cardinality(Handlers)
        BY DEF RotationBounded, Holders
      <4> QED
        BY <1>2, <2>1, <4>2, <4>3, <4>4
    <3> QED
      BY <3>1, <3>2
  <2> QED
    BY <2>1, <2>3 DEF Unused, RotationBounded, Holders
<1>6. ASSUME NEW r \in Handlers, RefreshRevoke(r) PROVE Unused' /\ RotationBounded'
  <2>1. \A s \in Slots : /\ pairs'[s].successors = pairs[s].successors
                         /\ pairs'[s].refresh = "live" => pairs[s].refresh = "live"
    BY <1>2, <1>6 DEF RefreshRevoke, Pair, SessionsTypeOK
  <2>2. \A q \in Handlers : request'[q].slot = request[q].slot
    BY <1>1, <1>6 DEF RefreshRevoke, Handler, SessionsTypeOK
  <2> QED
    BY <1>2, <2>1, <2>2, NothingExchanged
<1>7. ASSUME NEW r \in Handlers, RefuseRefresh(r) \/ CommitNothing(r) PROVE Unused' /\ RotationBounded'
  <2>1. request' = [request EXCEPT ![r] = NoHandler] /\ pairs' = pairs
    BY <1>7 DEF RefuseRefresh, CommitNothing
  <2>2. \A q \in Handlers : request'[q] = request[q] \/ request'[q].slot = NoSlot
    BY <2>1, Shapes DEF SessionsTypeOK
  <2> QED
    BY <1>2, <2>1, <2>2, NothingExchanged
<1>8. ASSUME NEW r \in Handlers, RefreshLoad(r) PROVE Unused' /\ RotationBounded'
  <2>1. \A q \in Handlers : request'[q].slot = request[q].slot
    BY <1>1, <1>8 DEF RefreshLoad, Handler, SessionsTypeOK
  <2>2. pairs' = pairs
    BY <1>8 DEF RefreshLoad
  <2> QED
    BY <1>2, <2>1, <2>2, NothingExchanged
<1>9. ASSUME NEW r \in Handlers, IssuePair(r) PROVE Unused' /\ RotationBounded'
  <2>1. PICK s \in Slots :
          /\ pairs[s] = NoPair
          /\ pairs' = [t \in Slots |->
                IF t = s THEN [NoPair EXCEPT !.version = request[r].version, !.ended = request[r].ended,
                                           !.access = "live", !.refresh = "live"]
                ELSE IF t = request[r].slot THEN [pairs[t] EXCEPT !.successors = @ + 1]
                ELSE pairs[t]]
    BY <1>9 DEF IssuePair
  <2>2. request[r].at = "issue" /\ request' = [request EXCEPT ![r] = NoHandler]
    BY <1>9 DEF IssuePair
  <2>3. request'[r].slot = NoSlot /\ \A q \in Handlers \ {r} : request'[q] = request[q]
    BY <2>2, Shapes DEF SessionsTypeOK
  <2>4. pairs'[s].successors = 0
    BY <2>1 DEF NoPair
  <2>5. \A t \in Slots \ {s, request[r].slot} : pairs'[t] = pairs[t]
    BY <2>1
  <2>6. ASSUME NEW t \in Slots \ {s}, t = request[r].slot
        PROVE  /\ pairs'[t].successors = pairs[t].successors + 1
               /\ pairs'[t].refresh = pairs[t].refresh
    BY <1>2, <2>1, <2>6 DEF Pair
  <2>7. ASSUME NEW t \in Slots \ {s}, t = request[r].slot
        PROVE  pairs'[t].refresh # "live"
    BY <2>2, <2>6, <2>7, PoolsFinite DEF SessionsTypeOK
  <2>8. Unused'
    BY <2>4, <2>5, <2>7 DEF Unused
  <2>9. ASSUME NEW t \in Slots
        PROVE  pairs'[t].successors + Cardinality(Holders(request', t)) <= Cardinality(Handlers)
    <3>1. /\ Cardinality(Holders(request', t)) \in Nat /\ Cardinality(Holders(request, t)) \in Nat
          /\ IsFiniteSet(Holders(request, t)) /\ Cardinality(Handlers) \in Nat
          /\ Cardinality(Holders(request', t)) <= Cardinality(Handlers)
      BY HoldersFinite
    <3>2. pairs[t].successors + Cardinality(Holders(request, t)) <= Cardinality(Handlers)
      BY DEF RotationBounded, Holders
    <3>3. CASE t = s
      BY <2>4, <3>1, <3>3
    <3>4. CASE t # s /\ t = request[r].slot
      <4>1. Holders(request', t) = Holders(request, t) \ {r} /\ r \in Holders(request, t)
        BY <2>3, <3>4, PoolsFinite DEF Holders
      <4>2. Cardinality(Holders(request', t)) = Cardinality(Holders(request, t)) - 1
        BY <3>1, <4>1, FS_RemoveElement
      <4>3. pairs'[t].successors = pairs[t].successors + 1
        BY <2>6, <3>4
      <4> QED
        BY <1>2, <3>1, <3>2, <4>2, <4>3
    <3>5. CASE t # s /\ t # request[r].slot
      <4>1. Holders(request', t) \subseteq Holders(request, t)
        BY <2>3, PoolsFinite DEF Holders
      <4>2. Cardinality(Holders(request', t)) <= Cardinality(Holders(request, t))
        BY <3>1, <4>1, FS_Subset
      <4>3. pairs'[t].successors = pairs[t].successors
        BY <2>5, <3>5
      <4> QED
        BY <1>2, <3>1, <3>2, <4>2, <4>3
    <3> QED
      BY <3>3, <3>4, <3>5
  <2> QED
    BY <2>8, <2>9 DEF RotationBounded, Holders
<1>10. ASSUME NEW r \in Handlers, CommitVersion(r) PROVE Unused' /\ RotationBounded'
  <2> DEFINE h == [request[r] EXCEPT !.at = "issue", !.version = @ + 1]
  <2>1. /\ request[r].at \in {"password", "disable", "reset"}
        /\ pairs' = [s \in Slots |-> IF pairs[s] = NoPair THEN NoPair ELSE [pairs[s] EXCEPT !.ended = TRUE]]
        /\ request' = [q \in Handlers |->
              IF q = r
              THEN IF request[r].at = "password" THEN h ELSE NoHandler
              ELSE IF request[q].at = "issue" THEN [request[q] EXCEPT !.ended = TRUE] ELSE request[q]]
    BY <1>10 DEF CommitVersion
  <2>2. h.slot = request[r].slot
    BY <1>1 DEF Handler
  <2> HIDE DEF h
  <2>3. \A q \in Handlers : request'[q].slot = request[q].slot \/ request'[q].slot = NoSlot
    BY <1>1, <2>1, <2>2, EndedHandler, Shapes
  <2> QED
    BY <1>2, <2>1, <2>3, AllEnded, NothingExchanged
<1>11. ASSUME NEW s \in Slots, RefreshReuse(s) PROVE Unused' /\ RotationBounded'
  <2>1. /\ pairs' = [t \in Slots |-> IF pairs[t] = NoPair THEN NoPair ELSE [pairs[t] EXCEPT !.ended = TRUE]]
        /\ request' = [r \in Handlers |->
                      IF request[r].at = "issue" THEN [request[r] EXCEPT !.ended = TRUE] ELSE request[r]]
    BY <1>11 DEF RefreshReuse, EndSessions
  <2>2. \A q \in Handlers : request'[q].slot = request[q].slot
    BY <1>1, <2>1, EndedHandler
  <2> QED
    BY <1>2, <2>1, <2>2, AllEnded, NothingExchanged
<1>12. ASSUME NEW s \in Slots, ExpireAccess(s) \/ ExpireRefresh(s) \/ \E p \in Processes : Logout(p, s)
       PROVE  Unused' /\ RotationBounded'
  <2>1. request' = request
    BY <1>12 DEF ExpireAccess, ExpireRefresh, Logout
  <2>2. ASSUME NEW t \in Slots
        PROVE  \/ /\ pairs'[t].successors = pairs[t].successors
                  /\ pairs'[t].refresh = "live" => pairs[t].refresh = "live"
               \/ pairs'[t] = NoPair
    BY <1>2, <1>12 DEF ExpireAccess, ExpireRefresh, Logout, SessionsTypeOK, Pair
  <2> QED
    BY <1>2, <2>1, <2>2, Shapes, NothingExchanged
<1>13. CASE Administer
  <2>1. CASE Enable \/ DeleteUser
    BY <1>3, <2>1 DEF Enable, DeleteUser
  <2> QED
    BY <1>4, <1>13, <2>1 DEF Administer, AdminLoad
<1>14. CASE \E p \in Processes : Remember(p) \/ ForgetVersion(p)
    BY <1>3, <1>14 DEF Remember, ForgetVersion
<1> QED
    BY <1>4, <1>5, <1>6, <1>7, <1>8, <1>9, <1>10, <1>11, <1>12, <1>13, <1>14
    DEF SessionStep, Login, ChangePassword

-----------------------------------------------------------------------------
(* The theorems *)

LEMMA SessionsInvNext == SessionsInv /\ [SessionsNext]_sessionsVars => SessionsInv'
<1> SUFFICES ASSUME SessionsInv, [SessionsNext]_sessionsVars PROVE SessionsInv'
    OBVIOUS
<1>1. CASE SessionsNext
    BY <1>1, TypeStep, EndedStep, RotationStep DEF SessionsInv, SessionsNext
<1>2. CASE UNCHANGED sessionsVars
    BY <1>2 DEF sessionsVars, SessionsInv, SessionsTypeOK, OwnSlot, Outdated, UpToDate, Unused, RotationBounded
<1> QED
    BY <1>1, <1>2

LEMMA SessionsInvHolds == SessionsSpec => []SessionsInv
    BY SessionsInitInv, SessionsInvNext, PTL DEF SessionsSpec

\* The row, the pairs, the caches and the handlers are always well formed, and a handler
\* that goes on to a new pair has revoked the token it came with (refresh).
THEOREM SessionsTypeCorrect == SessionsSpec => []SessionsTypeOK
<1>1. SessionsInv => SessionsTypeOK
    BY DEF SessionsInv
<1> QED
    BY <1>1, SessionsInvHolds, PTL

\* For any number of pairs, handlers and processes: no pair of a session that was ended
\* has the current version, unless two handlers computed it from the same row
\* (refresh, change_password, update_user, reset_password).
THEOREM EndedCorrect == SessionsSpec => []EndedStaysEnded
<1>1. SessionsInv => EndedStaysEnded
    BY DEF SessionsInv, Outdated, UpToDate, EndedStaysEnded
<1> QED
    BY <1>1, SessionsInvHolds, PTL

\* For any number of them: a refresh token is exchanged for no more pairs than there can
\* be handlers under way (refresh).
THEOREM RotationCorrect == SessionsSpec => []RotationBounded
<1>1. SessionsInv => RotationBounded
    BY DEF SessionsInv
<1> QED
    BY <1>1, SessionsInvHolds, PTL

\* Both together, as the run checks them.
THEOREM SessionsCorrect == SessionsSpec => []SessionsHold
BY EndedCorrect, RotationCorrect, PTL DEF SessionsHold

-----------------------------------------------------------------------------
(***************************************************************************)
(* The counter of failed logins does no harm between requests, for any     *)
(* number of requests at once, any threshold and any two TTLs of which the *)
(* window is the shorter.  A counter without a TTL, or at the threshold    *)
(* without a lock, has a request under way that is about to see to it; and *)
(* while one is under way no time passes, so that a lock is a full one.    *)
(***************************************************************************)

Working(r) == login[r] \in {"counted", "expired"}

\* Who made the key will give it a TTL.
SoonExpires == died \/ (failsTtl = NoTtl => \E r \in Logins : login[r] = "counted" /\ count[r] = 1)

\* A lock that is older than a request under way cannot be: who was let in saw none.
FreshLock == lockTtl > 0 => NobodyLogsIn \/ lockTtl = LockTtl

\* Who reached the threshold will lock the name, and then the lock outlasts the counter.
SoonLocked ==
    died \/ (fails >= Threshold =>
                \/ lockTtl > 0 /\ lockTtl > failsTtl
                \/ \E r \in Logins : Working(r) /\ count[r] >= Threshold)

LockoutInv == LockoutTypeOK /\ SoonExpires /\ FreshLock /\ SoonLocked

LEMMA Ttls ==
    /\ Threshold \in Nat /\ Threshold > 0 /\ FailsTtl \in Nat /\ FailsTtl > 0
    /\ LockTtl \in Nat /\ FailsTtl < LockTtl /\ NoTtl = -1
BY WindowShorterThanLock DEF NoTtl

LEMMA LockoutInitInv == LockoutInit => LockoutInv
<1> SUFFICES ASSUME LockoutInit PROVE LockoutInv
    OBVIOUS
<1>1. LockoutTypeOK
  <2>1. login \in [Logins -> LoginStages]
    BY DEF LockoutInit, LoginStages
  <2>2. count \in [Logins -> Nat]
    BY DEF LockoutInit
  <2>3. fails = 0 /\ failsTtl = 0 /\ lockTtl = 0
    BY DEF LockoutInit
  <2>4. failsTtl \in 0..FailsTtl \cup {NoTtl} /\ lockTtl \in 0..LockTtl
    BY <2>3, Ttls
  <2>5. died \in BOOLEAN
    BY DEF LockoutInit
  <2> QED
    BY <2>1, <2>2, <2>3, <2>4, <2>5 DEF LockoutTypeOK
<1>2. SoonExpires /\ FreshLock /\ SoonLocked
    BY Ttls DEF LockoutInit, SoonExpires, FreshLock, SoonLocked
<1> QED
    BY <1>1, <1>2 DEF LockoutInv

-----------------------------------------------------------------------------
\* A request goes on, and what it does is neither to count, to lock nor to clear.
LEMMA OtherSteps ==
    ASSUME LockoutInv, NEW r \in Logins, NEW to \in LoginStages,
           ~Working(r), to \notin {"counted", "expired"},
           login' = [login EXCEPT ![r] = to], login[r] # "idle" \/ lockTtl = 0,
           UNCHANGED <<fails, failsTtl, lockTtl, count, died>>
    PROVE  LockoutInv'
<1>1. LockoutTypeOK'
    BY DEF LockoutInv, LockoutTypeOK
<1>2. \A q \in Logins : Working(q) => login'[q] = login[q]
    BY DEF LockoutInv, LockoutTypeOK, Working
<1>3. SoonExpires'
    BY <1>2 DEF LockoutInv, SoonExpires, Working
<1>4. FreshLock'
    BY DEF LockoutInv, LockoutTypeOK, FreshLock, NobodyLogsIn
<1>5. SoonLocked'
    BY <1>2 DEF LockoutInv, SoonLocked, Working
<1> QED
    BY <1>1, <1>3, <1>4, <1>5 DEF LockoutInv

LEMMA IncrementKeeps ==
    ASSUME LockoutInv, NEW r \in Logins, Increment(r)
    PROVE  LockoutInv'
<1>1. /\ login[r] = "verifying" /\ login' = [login EXCEPT ![r] = "counted"]
      /\ fails' = fails + 1 /\ count' = [count EXCEPT ![r] = fails + 1]
      /\ failsTtl' = IF fails = 0 THEN NoTtl ELSE failsTtl
      /\ lockTtl' = lockTtl /\ died' = died
    BY DEF Increment, MoveLogin
<1>2. LockoutTypeOK
    BY DEF LockoutInv
<1>3. /\ login'[r] = "counted" /\ count'[r] = fails + 1
      /\ \A q \in Logins \ {r} : login'[q] = login[q] /\ count'[q] = count[q]
    BY <1>1, <1>2 DEF LockoutTypeOK
<1>4. LockoutTypeOK'
    BY <1>1, <1>2, Ttls DEF LockoutTypeOK, LoginStages
<1>5. SoonExpires'
  <2>1. CASE fails = 0
    BY <1>3, <2>1 DEF SoonExpires
  <2>2. CASE fails # 0
    BY <1>1, <1>3, <2>2 DEF LockoutInv, SoonExpires
  <2> QED
    BY <2>1, <2>2
<1>6. FreshLock'
    BY <1>1, <1>2 DEF LockoutInv, FreshLock, NobodyLogsIn
<1>7. SoonLocked'
  <2>1. fails' >= Threshold => Working(r)' /\ count'[r] >= Threshold
    BY <1>1, <1>2, <1>3 DEF LockoutTypeOK, Working
  <2> QED
    BY <2>1 DEF SoonLocked
<1> QED
    BY <1>4, <1>5, <1>6, <1>7 DEF LockoutInv

LEMMA ExpireCounterKeeps ==
    ASSUME LockoutInv, NEW r \in Logins, ExpireCounter(r)
    PROVE  LockoutInv'
<1>1. /\ login[r] = "counted" /\ login' = [login EXCEPT ![r] = "expired"]
      /\ failsTtl' = IF count[r] = 1 /\ fails > 0 THEN FailsTtl ELSE failsTtl
      /\ fails' = fails /\ lockTtl' = lockTtl /\ count' = count /\ died' = died
    BY DEF ExpireCounter, MoveLogin
<1>2. LockoutTypeOK
    BY DEF LockoutInv
<1>3. login'[r] = "expired" /\ \A q \in Logins \ {r} : login'[q] = login[q]
    BY <1>1, <1>2 DEF LockoutTypeOK
<1>4. LockoutTypeOK'
    BY <1>1, <1>2, Ttls DEF LockoutTypeOK, LoginStages
<1>5. SoonExpires'
  <2>1. CASE count[r] = 1 /\ fails > 0
    BY <1>1, <2>1, Ttls DEF SoonExpires
  <2>2. CASE fails = 0
    BY <1>1, <1>2, <2>2, Ttls DEF LockoutTypeOK, SoonExpires
  <2>3. CASE count[r] # 1
    BY <1>1, <1>3, <2>3 DEF LockoutInv, SoonExpires
  <2> QED
    BY <1>2, <2>1, <2>2, <2>3 DEF LockoutTypeOK
<1>6. FreshLock'
    BY <1>1, <1>2 DEF LockoutInv, FreshLock, NobodyLogsIn
<1>7. SoonLocked'
  <2>1. CASE \E q \in Logins : Working(q) /\ count[q] >= Threshold
    BY <1>1, <1>3, <2>1 DEF SoonLocked, Working
  <2>2. CASE lockTtl > 0 /\ lockTtl > failsTtl
    <3>1. lockTtl = LockTtl
        BY <1>1, <2>2 DEF LockoutInv, FreshLock, NobodyLogsIn
    <3> QED
        BY <1>1, <1>2, <2>2, <3>1, Ttls DEF LockoutTypeOK, SoonLocked
  <2> QED
    BY <1>1, <2>1, <2>2 DEF LockoutInv, SoonLocked
<1> QED
    BY <1>4, <1>5, <1>6, <1>7 DEF LockoutInv

LEMMA LockNameKeeps ==
    ASSUME LockoutInv, NEW r \in Logins, LockName(r)
    PROVE  LockoutInv'
<1>1. /\ login[r] = "expired" /\ login' = [login EXCEPT ![r] = "idle"]
      /\ lockTtl' = IF count[r] >= Threshold THEN LockTtl ELSE lockTtl
      /\ count' = [count EXCEPT ![r] = 0]
      /\ fails' = fails /\ failsTtl' = failsTtl /\ died' = died
    BY DEF LockName, MoveLogin
<1>2. LockoutTypeOK
    BY DEF LockoutInv
<1>3. \A q \in Logins \ {r} : login'[q] = login[q] /\ count'[q] = count[q]
    BY <1>1, <1>2 DEF LockoutTypeOK
<1>4. LockoutTypeOK'
    BY <1>1, <1>2, Ttls DEF LockoutTypeOK, LoginStages
<1>5. SoonExpires'
    BY <1>1, <1>3 DEF LockoutInv, SoonExpires
<1>6. FreshLock'
    BY <1>1, <1>2 DEF LockoutInv, FreshLock, NobodyLogsIn
<1>7. SoonLocked'
  <2>1. CASE count[r] >= Threshold
    BY <1>1, <1>2, <2>1, Ttls DEF LockoutTypeOK, SoonLocked
  <2>2. CASE ~(count[r] >= Threshold)
    BY <1>1, <1>3, <2>2 DEF LockoutInv, SoonLocked, Working
  <2> QED
    BY <2>1, <2>2
<1> QED
    BY <1>4, <1>5, <1>6, <1>7 DEF LockoutInv

\* Both keys are gone.
LEMMA ForgetKeeps ==
    ASSUME LockoutInv, Forget, LockoutTypeOK'
    PROVE  LockoutInv'
BY Ttls DEF LockoutInv, Forget, LockoutTypeOK, SoonExpires, FreshLock, SoonLocked

LEMMA ClearLockoutKeeps ==
    ASSUME LockoutInv, NEW r \in Logins, ClearLockout(r)
    PROVE  LockoutInv'
<1>1. Forget /\ LockoutTypeOK'
    BY Ttls DEF ClearLockout, MoveLogin, Forget, LockoutInv, LockoutTypeOK, LoginStages
<1> QED
    BY <1>1, ForgetKeeps

LEMMA AdminUnlockKeeps ==
    ASSUME LockoutInv, AdminUnlock
    PROVE  LockoutInv'
<1>1. Forget /\ LockoutTypeOK'
    BY Ttls DEF AdminUnlock, Forget, LockoutInv, LockoutTypeOK
<1> QED
    BY <1>1, ForgetKeeps

LEMMA LoginDiesKeeps ==
    ASSUME LockoutInv, NEW r \in Logins, LoginDies(r)
    PROVE  LockoutInv'
<1>1. LockoutTypeOK'
    BY DEF LoginDies, LockoutInv, LockoutTypeOK, LoginStages
<1>2. SoonExpires' /\ SoonLocked'
    BY DEF LoginDies, SoonExpires, SoonLocked
<1>3. FreshLock'
    BY DEF LoginDies, LockoutInv, LockoutTypeOK, FreshLock, NobodyLogsIn
<1> QED
    BY <1>1, <1>2, <1>3 DEF LockoutInv

\* With nobody under way the counter has a TTL, shorter than what is left of the lock.
LEMMA MinutesPassKeeps ==
    ASSUME LockoutInv, MinutesPass
    PROVE  LockoutInv'
<1>1. /\ NobodyLogsIn
      /\ failsTtl' = IF failsTtl > 0 THEN failsTtl - 1 ELSE failsTtl
      /\ fails' = IF failsTtl = 1 THEN 0 ELSE fails
      /\ lockTtl' = IF lockTtl > 0 THEN lockTtl - 1 ELSE 0
      /\ login' = login /\ count' = count /\ died' = died
    BY DEF MinutesPass
<1>2. LockoutTypeOK
    BY DEF LockoutInv
<1>3. LockoutTypeOK'
    BY <1>1, <1>2, Ttls DEF LockoutTypeOK
<1>4. \A r \in Logins : ~Working(r)
    BY <1>1 DEF NobodyLogsIn, Working
<1>5. died \/ failsTtl # NoTtl
    BY <1>4 DEF LockoutInv, SoonExpires, Working
<1>6. SoonExpires'
    BY <1>1, <1>2, <1>5, Ttls DEF LockoutTypeOK, SoonExpires
<1>7. FreshLock'
    BY <1>1 DEF FreshLock, NobodyLogsIn
<1>8. SoonLocked'
  <2>1. CASE died
    BY <1>1, <2>1 DEF SoonLocked
  <2>2. CASE ~died /\ fails' >= Threshold
    <3>1. failsTtl # 1 /\ fails >= Threshold /\ fails # 0
        BY <1>1, <1>2, <2>2, Ttls DEF LockoutTypeOK
    <3>2. lockTtl > failsTtl /\ failsTtl > 1
        BY <1>2, <1>4, <1>5, <2>2, <3>1, Ttls DEF LockoutInv, SoonLocked, LockoutTypeOK
    <3> QED
        BY <1>1, <1>2, <3>2, Ttls DEF LockoutTypeOK, SoonLocked
  <2> QED
    BY <1>1, <2>1, <2>2 DEF SoonLocked
<1> QED
    BY <1>3, <1>6, <1>7, <1>8 DEF LockoutInv

-----------------------------------------------------------------------------
LEMMA HandleLoginKeeps ==
    ASSUME LockoutInv, NEW r \in Logins, HandleLogin(r)
    PROVE  LockoutInv'
<1>1. CASE Attempt(r)
    BY <1>1, OtherSteps DEF Attempt, MoveLogin, Working, LoginStages
<1>2. CASE Disabled(r)
    BY <1>2, OtherSteps DEF Disabled, MoveLogin, Working, LoginStages
<1>3. CASE VerifyPassword(r)
    BY <1>3, OtherSteps DEF VerifyPassword, MoveLogin, Working, LoginStages
<1>4. CASE Increment(r)
    BY <1>4, IncrementKeeps
<1>5. CASE ExpireCounter(r)
    BY <1>5, ExpireCounterKeeps
<1>6. CASE LockName(r)
    BY <1>6, LockNameKeeps
<1>7. CASE ClearLockout(r)
    BY <1>7, ClearLockoutKeeps
<1> QED
    BY <1>1, <1>2, <1>3, <1>4, <1>5, <1>6, <1>7 DEF HandleLogin

LEMMA LockoutNextKeepsInv == LockoutInv /\ [LockoutNext]_lockoutVars => LockoutInv'
<1> SUFFICES ASSUME LockoutInv, [LockoutNext]_lockoutVars PROVE LockoutInv'
    OBVIOUS
<1>1. CASE \E r \in Logins : HandleLogin(r)
    BY <1>1, HandleLoginKeeps
<1>2. CASE \E r \in Logins : LoginDies(r)
    BY <1>2, LoginDiesKeeps
<1>3. CASE AdminUnlock
    BY <1>3, AdminUnlockKeeps
<1>4. CASE MinutesPass
    BY <1>4, MinutesPassKeeps
<1>5. CASE UNCHANGED lockoutVars
    BY <1>5 DEF lockoutVars, LockoutInv, LockoutTypeOK, SoonExpires, FreshLock, SoonLocked, NobodyLogsIn, Working
<1> QED
    BY <1>1, <1>2, <1>3, <1>4, <1>5 DEF LockoutNext

\* The keys and the requests are well formed; there is a TTL exactly when there is a key.
THEOREM LockoutTypeCorrect == LockoutSpec => []LockoutTypeOK
<1>1. LockoutInv => LockoutTypeOK
    BY DEF LockoutInv
<1> QED
    BY LockoutInitInv, LockoutNextKeepsInv, <1>1, PTL DEF LockoutSpec

\* However many requests fail, succeed and are unlocked side by side: between requests the
\* counter has a TTL, and is below the threshold while the name is not locked, unless a
\* request died between two of its Redis calls.
THEOREM CounterCorrect == LockoutSpec => []CounterHarmless
<1>1. ASSUME LockoutInv PROVE CounterHarmless
  <2> SUFFICES ASSUME NobodyLogsIn, ~died
               PROVE  (fails > 0 => failsTtl # NoTtl) /\ (lockTtl = 0 => fails < Threshold)
    BY DEF CounterHarmless
  <2>1. \A r \in Logins : ~Working(r)
    BY DEF NobodyLogsIn, Working
  <2>2. failsTtl # NoTtl
    BY <1>1, <2>1 DEF LockoutInv, SoonExpires, Working
  <2>3. lockTtl = 0 => fails < Threshold
    BY <1>1, <2>1, Ttls DEF LockoutInv, SoonLocked, LockoutTypeOK
  <2> QED
    BY <2>2, <2>3
<1> QED
    BY LockoutInitInv, LockoutNextKeepsInv, <1>1, PTL DEF LockoutSpec

-----------------------------------------------------------------------------
(***************************************************************************)
(* A project keeps a Lead, for every set of users and of requests.  What   *)
(* is inductive says more than that there is one: there is a Lead whom no  *)
(* request under way is about to demote.                                   *)
(***************************************************************************)

\* A request under way is of a user, as the type invariant presupposes.
OfUsers == \A r \in MemberRequests : change[r].open => change[r].user \in Users

\* A Lead whom nobody is about to demote.
Secure(w) == w \in Leads /\ \A r \in Losing : change[r].user # w

SecureLead == crossed \/ \E w \in Users : Secure(w)

MembershipsInv == MembershipsTypeOK /\ OfUsers /\ SecureLead

-----------------------------------------------------------------------------
LEMMA MembershipsInitInv == MembershipsInit => MembershipsInv
<1> SUFFICES ASSUME MembershipsInit PROVE MembershipsInv
    OBVIOUS
<1>1. PICK u \in Users : role = [v \in Users |-> IF v = u THEN "Lead" ELSE "none"]
    BY DEF MembershipsInit
<1>2. \A r \in MemberRequests : change[r] = NoChange
    BY DEF MembershipsInit
<1>3. MembershipsTypeOK /\ OfUsers
    BY <1>1, <1>2 DEF MembershipsInit, MembershipsTypeOK, OfUsers, Change, NoChange, Roles, RoleOrNone
<1>4. Losing = {}
    BY <1>2 DEF Losing, NoChange
<1>5. Secure(u)
    BY <1>1, <1>4 DEF Secure, Leads
<1> QED
    BY <1>3, <1>5 DEF MembershipsInv, SecureLead

-----------------------------------------------------------------------------
(* One lemma for each kind of step *)

LEMMA MintKeeps ==
    ASSUME MembershipsInv, NEW u \in Users, Mint(u)
    PROVE  MembershipsInv'
<1>1. role' = role /\ change' = change /\ crossed' = crossed
    BY DEF Mint
<1>2. MembershipsTypeOK' /\ OfUsers'
    BY <1>1 DEF MembershipsInv, MembershipsTypeOK, OfUsers, Mint
<1>3. Leads' = Leads /\ Losing' = Losing
    BY <1>1 DEF Leads, Losing, LosesLead
<1>4. SecureLead'
    BY <1>1, <1>3 DEF MembershipsInv, SecureLead, Secure
<1> QED
    BY <1>2, <1>4 DEF MembershipsInv

\* The new member has no request under way: nobody loses the role who did not before.
LEMMA AddMemberKeeps ==
    ASSUME MembershipsInv, NEW c, NEW u \in Users, NEW x \in Roles, AddMember(c, u, x)
    PROVE  MembershipsInv'
<1>1. role[u] = "none" /\ role' = [role EXCEPT ![u] = x]
    BY DEF AddMember
<1>2. change' = change /\ claim' = claim /\ crossed' = crossed
    BY DEF AddMember
<1>3. MembershipsTypeOK /\ OfUsers
    BY DEF MembershipsInv
<1>4. \A r \in MemberRequests : change[r].open => change[r].user # u
    BY <1>1, <1>3 DEF MembershipsTypeOK
<1>5. MembershipsTypeOK' /\ OfUsers'
    BY <1>1, <1>2, <1>3, <1>4 DEF MembershipsTypeOK, OfUsers, Roles, RoleOrNone
<1>6. Losing' \subseteq Losing
    BY <1>1, <1>2, <1>3, <1>4 DEF Losing, LosesLead, MembershipsTypeOK, OfUsers
<1>7. \A w \in Leads : w \in Leads'
    BY <1>1, <1>3 DEF Leads, MembershipsTypeOK
<1>8. SecureLead'
    BY <1>2, <1>6, <1>7 DEF MembershipsInv, SecureLead, Secure
<1> QED
    BY <1>5, <1>8 DEF MembershipsInv

\* A request that will demote a Lead has counted another; without one of its kind under
\* way, that one is secure.
LEMMA ChangeMemberKeeps ==
    ASSUME MembershipsInv, NEW r \in MemberRequests, NEW c, NEW u \in Users, NEW x \in RoleOrNone,
           ChangeMember(r, c, u, x)
    PROVE  MembershipsInv'
<1>1. role' = role /\ claim' = claim
    BY DEF ChangeMember
<1>2. /\ ~change[r].open
      /\ change' = [change EXCEPT ![r] = [open |-> TRUE, user |-> u, to |-> x]]
      /\ crossed' = (crossed \/ (LosesLead(u, x) /\ Losing # {}))
    BY DEF ChangeMember, OpenChange
<1>3. role[u] # "none" /\ (LosesLead(u, x) => Leads \ {u} # {})
    BY DEF ChangeMember
<1>4. MembershipsTypeOK /\ OfUsers
    BY DEF MembershipsInv
<1>5. /\ change'[r] = [open |-> TRUE, user |-> u, to |-> x]
      /\ \A q \in MemberRequests \ {r} : change'[q] = change[q]
    BY <1>2, <1>4 DEF MembershipsTypeOK
<1>6. MembershipsTypeOK' /\ OfUsers'
  <2>1. change' \in [MemberRequests -> Change]
    BY <1>2, <1>4 DEF MembershipsTypeOK, Change
  <2>2. crossed' \in BOOLEAN
    BY <1>2, <1>4 DEF MembershipsTypeOK
  <2>3. \A q \in MemberRequests : change'[q].open => change'[q].user \in Users /\ role[change'[q].user] # "none"
    BY <1>3, <1>4, <1>5 DEF MembershipsTypeOK, OfUsers
  <2> QED
    BY <1>1, <1>4, <2>1, <2>2, <2>3 DEF MembershipsTypeOK, OfUsers
<1>7. Leads' = Leads
    BY <1>1 DEF Leads
<1>8. SecureLead'
  <2>1. CASE crossed'
    BY <2>1 DEF SecureLead
  <2>2. CASE ~crossed' /\ LosesLead(u, x)
    <3>1. Losing = {}
        BY <1>2, <2>2
    <3>2. PICK w \in Leads : w # u
        BY <1>3, <2>2
    <3>3. Losing' \subseteq {r}
        BY <1>1, <1>5, <3>1 DEF Losing, LosesLead
    <3>4. Secure(w)'
        BY <1>5, <1>7, <3>2, <3>3 DEF Secure
    <3> QED
        BY <3>2, <3>4 DEF SecureLead, Leads
  <2>3. CASE ~crossed' /\ ~LosesLead(u, x)
    <3>1. Losing' \subseteq Losing /\ r \notin Losing'
        BY <1>1, <1>5, <2>3 DEF Losing, LosesLead
    <3>2. PICK w \in Users : Secure(w)
        BY <1>2, <2>3 DEF MembershipsInv, SecureLead
    <3>3. \A q \in Losing' : change'[q] = change[q]
        BY <1>5, <3>1 DEF Losing
    <3>4. Secure(w)'
        BY <1>7, <3>1, <3>2, <3>3 DEF Secure
    <3> QED
        BY <3>4 DEF SecureLead
  <2> QED
    BY <2>1, <2>2, <2>3
<1> QED
    BY <1>6, <1>8 DEF MembershipsInv

\* The commit demotes nobody who was secure, and what it makes of the others adds no
\* request that would.
LEMMA CommitMemberKeeps ==
    ASSUME MembershipsInv, NEW r \in MemberRequests, CommitMember(r)
    PROVE  MembershipsInv'
<1> DEFINE u == change[r].user
<1> DEFINE x == change[r].to
<1>1. /\ change[r].open
      /\ role' = [role EXCEPT ![u] = x]
      /\ change' = [q \in MemberRequests |->
                       IF q = r \/ (x = "none" /\ change[q].user = u) THEN NoChange ELSE change[q]]
      /\ claim' = claim /\ crossed' = crossed
    BY DEF CommitMember
<1>2. MembershipsTypeOK /\ OfUsers
    BY DEF MembershipsInv
<1>3. u \in Users /\ x \in RoleOrNone
    BY <1>1, <1>2 DEF MembershipsTypeOK, OfUsers, Change
<1>4. \A q \in MemberRequests : change'[q].open => change'[q] = change[q] /\ change[q].open /\ q # r
                                                  /\ (x = "none" => change[q].user # u)
    BY <1>1 DEF NoChange
<1>5. /\ role'[u] = x
      /\ \A v \in Users \ {u} : role'[v] = role[v]
    BY <1>1, <1>2, <1>3 DEF MembershipsTypeOK
<1> HIDE DEF u, x
<1>6. MembershipsTypeOK' /\ OfUsers'
  <2>1. change' \in [MemberRequests -> Change]
    BY <1>1, <1>2 DEF MembershipsTypeOK, Change, NoChange, RoleOrNone
  <2>2. role' \in [Users -> RoleOrNone]
    BY <1>1, <1>2, <1>3 DEF MembershipsTypeOK
  <2>3. \A q \in MemberRequests : change'[q].open => change'[q].user \in Users /\ role'[change'[q].user] # "none"
    BY <1>2, <1>4, <1>5 DEF MembershipsTypeOK, OfUsers
  <2> QED
    BY <1>1, <1>2, <2>1, <2>2, <2>3 DEF MembershipsTypeOK, OfUsers
<1>7. SecureLead'
  <2>1. CASE crossed
    BY <1>1, <2>1 DEF SecureLead
  <2>2. CASE ~crossed
    <3>1. PICK w \in Users : Secure(w)
        BY <2>2 DEF MembershipsInv, SecureLead
    <3>2. role[w] = "Lead" /\ \A q \in Losing : change[q].user # w
        BY <3>1 DEF Secure, Leads
    <3>3. role'[w] = role[w]
      <4>1. CASE w # u
        BY <1>5, <4>1
      <4>2. CASE w = u
        <5>1. r \notin Losing
            BY <3>2, <4>2 DEF u
        <5>2. x = "Lead"
            BY <1>1, <3>2, <4>2, <5>1 DEF Losing, LosesLead, u, x
        <5> QED
            BY <1>5, <3>2, <4>2, <5>2
      <4> QED
        BY <4>1, <4>2
    <3>4. ASSUME NEW q \in Losing' PROVE change'[q].user # w
      <4>1. /\ q \in MemberRequests /\ change'[q].open
            /\ role'[change'[q].user] = "Lead" /\ change'[q].to # "Lead"
        BY <3>4 DEF Losing, LosesLead
      <4>2. change'[q] = change[q] /\ change[q].open
        BY <1>4, <4>1
      <4>3. CASE change'[q].user = w
        <5>1. q \in Losing
            BY <3>2, <3>3, <4>1, <4>2, <4>3 DEF Losing, LosesLead
        <5> QED
            BY <3>2, <4>2, <5>1
      <4> QED
        BY <4>3
    <3>5. Secure(w)'
        BY <3>1, <3>2, <3>3, <3>4 DEF Secure, Leads
    <3> QED
        BY <3>5 DEF SecureLead
  <2> QED
    BY <2>1, <2>2
<1> QED
    BY <1>6, <1>7 DEF MembershipsInv

-----------------------------------------------------------------------------
LEMMA MembershipsNextKeepsInv == MembershipsInv /\ [MembershipsNext]_membershipsVars => MembershipsInv'
<1> SUFFICES ASSUME MembershipsInv, [MembershipsNext]_membershipsVars PROVE MembershipsInv'
    OBVIOUS
<1>1. CASE \E u \in Users : Mint(u)
    BY <1>1, MintKeeps
<1>2. CASE \E c \in Users \cup {Admin}, u \in Users, x \in Roles : AddMember(c, u, x)
    BY <1>2, AddMemberKeeps
<1>3. CASE \E c \in Users \cup {Admin}, u \in Users, r \in MemberRequests, x \in RoleOrNone : ChangeMember(r, c, u, x)
    BY <1>3, ChangeMemberKeeps
<1>4. CASE \E r \in MemberRequests : CommitMember(r)
    BY <1>4, CommitMemberKeeps
<1>5. CASE UNCHANGED membershipsVars
    BY <1>5 DEF membershipsVars, MembershipsInv, MembershipsTypeOK, OfUsers, SecureLead, Secure, Leads, Losing, LosesLead
<1> QED
    BY <1>1, <1>2, <1>3, <1>4, <1>5 DEF MembershipsNext

\* The rows, the claims and the requests of every behaviour are well formed, and a change
\* that has passed the count is of a member.
THEOREM MembershipsTypeCorrect == MembershipsSpec => []MembershipsTypeOK
<1>1. MembershipsInv => MembershipsTypeOK
    BY DEF MembershipsInv
<1> QED
    BY MembershipsInitInv, MembershipsNextKeepsInv, <1>1, PTL DEF MembershipsSpec

\* Whatever users, roles and requests there are, a project keeps a Lead unless two
\* demotions of Leads overlap: the count of _assert_not_last_lead is enough when it is not
\* overtaken, also by promotions and by changes that only become demotions later.
THEOREM LeadCorrect == MembershipsSpec => []LeadKept
<1>1. MembershipsInv => LeadKept
    BY DEF MembershipsInv, SecureLead, Secure, LeadKept
<1> QED
    BY MembershipsInitInv, MembershipsNextKeepsInv, <1>1, PTL DEF MembershipsSpec
=============================================================================
