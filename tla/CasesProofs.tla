---------------------------- MODULE CasesProofs ----------------------------
(***************************************************************************)
(* What analysts decide of an indicator stands, what they attach to a case *)
(* or a campaign is there or accounted for, and the jobs that read         *)
(* indicators for them, from files and from stored events, read what they  *)
(* report; for any number of rows, requests, worker threads and uploads,   *)
(* and any bounds.                                                         *)
(***************************************************************************)
EXTENDS Indicators, Casework, IocJobs, SequenceTheorems, FiniteSetTheorems, WellFoundedInduction, TLAPS

(* Indicators *)

IocRequestState == [op : Ops, scope : IocScopes, into : IocScopes, seen : IndicatorRow, gone : BOOLEAN]
Decision == [status : {NoWord, "active", "whitelisted"}, confidence : Confidences \cup {NoWord}]

\* Of a row that is not there nobody has said anything.
Unspoken == \A s \in IocScopes : ioc[s].status = "none" => decided[s] = Unsaid

IocInv == IndicatorsTypeOK /\ Unspoken /\ AnalystsDecide

\* What an analyst's word has to do with a row.
Obeys(row, word) ==
    /\ row.status = "whitelisted" <=> word.status = "whitelisted"
    /\ word.confidence # NoWord => row.confidence = word.confidence
    /\ row.status = "none" => word = Unsaid

LEMMA ObeysAll ==
    Unspoken /\ AnalystsDecide <=> \A s \in IocScopes : Obeys(ioc[s], decided[s])
BY DEF Unspoken, AnalystsDecide, Obeys

LEMMA IocShapes ==
    /\ Absent \in IndicatorRow /\ Unsaid \in Decision /\ NoRequest \in IocRequestState
    /\ NoRequest.op = "none" /\ Absent.status = "none" /\ Obeys(Absent, Unsaid)
<1>1. (CHOOSE c \in Confidences : TRUE) \in Confidences
    BY ConfidencesGiven
<1>2. Absent \in IndicatorRow /\ Absent.status = "none"
    BY <1>1 DEF Absent, IndicatorRow, IocStatuses
<1>3. Unsaid \in Decision /\ Unsaid.status = NoWord /\ Unsaid.confidence = NoWord
    BY DEF Unsaid, Decision
<1>4. NoRequest \in IocRequestState /\ NoRequest.op = "none"
    BY <1>2 DEF NoRequest, IocRequestState, Ops, IocScopes
<1> QED
    BY <1>2, <1>3, <1>4, NoWordIsNoConfidence DEF Obeys

LEMMA IocTypes ==
    IndicatorsTypeOK <=>
        /\ ioc \in [IocScopes -> IndicatorRow]
        /\ iocRequest \in [IocRequests -> IocRequestState]
        /\ decided \in [IocScopes -> Decision]
        /\ \A r \in IocRequests :
              iocRequest[r].op # "none" =>
                  /\ iocRequest[r].seen.status # "none"
                  /\ ~iocRequest[r].gone => ioc[iocRequest[r].scope].status # "none"
BY DEF IndicatorsTypeOK, IocRequestState, Decision

LEMMA IocInit == IndicatorsInit => IocInv
<1> SUFFICES ASSUME IndicatorsInit PROVE IocInv
    OBVIOUS
<1>1. /\ \A s \in IocScopes : ioc[s] = Absent /\ decided[s] = Unsaid
      /\ \A r \in IocRequests : iocRequest[r] = NoRequest
    BY DEF IndicatorsInit
<1>2. /\ ioc \in [IocScopes -> IndicatorRow] /\ decided \in [IocScopes -> Decision]
      /\ iocRequest \in [IocRequests -> IocRequestState]
    BY IocShapes DEF IndicatorsInit
<1> QED
    BY <1>1, <1>2, IocTypes, IocShapes, ObeysAll DEF IocInv

\* One row is written with what is said of it, and no handler loses its row by that.
LEMMA RowStep ==
    ASSUME IocInv, NEW s \in IocScopes, NEW row \in IndicatorRow, NEW word \in Decision,
           ioc' = [ioc EXCEPT ![s] = row], decided' = [decided EXCEPT ![s] = word],
           row.status # "none", Obeys(row, word)
    PROVE  /\ ioc' \in [IocScopes -> IndicatorRow] /\ decided' \in [IocScopes -> Decision]
           /\ \A t \in IocScopes : ioc[t].status # "none" => ioc'[t].status # "none"
           /\ \A t \in IocScopes : Obeys(ioc'[t], decided'[t])
<1>1. /\ ioc \in [IocScopes -> IndicatorRow] /\ decided \in [IocScopes -> Decision]
      /\ \A t \in IocScopes : Obeys(ioc[t], decided[t])
    BY IocTypes, ObeysAll DEF IocInv
<1>2. /\ ioc'[s] = row /\ decided'[s] = word
      /\ \A t \in IocScopes \ {s} : ioc'[t] = ioc[t] /\ decided'[t] = decided[t]
    BY <1>1
<1> QED
    BY <1>1, <1>2

\* The requests stay, or one of them is done, and the rows that were there still are.
LEMMA RequestsKept ==
    ASSUME IocInv,
           ioc' \in [IocScopes -> IndicatorRow], decided' \in [IocScopes -> Decision],
           \A t \in IocScopes : ioc[t].status # "none" => ioc'[t].status # "none",
           \A t \in IocScopes : Obeys(ioc'[t], decided'[t]),
           iocRequest' = iocRequest \/ \E r \in IocRequests : Respond(r)
    PROVE  IocInv'
<1>1. iocRequest \in [IocRequests -> IocRequestState]
    BY IocTypes DEF IocInv
<1>2. /\ iocRequest' \in [IocRequests -> IocRequestState]
      /\ \A r \in IocRequests : iocRequest'[r] = iocRequest[r] \/ iocRequest'[r].op = "none"
    BY <1>1, IocShapes DEF Respond
<1>3. \A r \in IocRequests : iocRequest[r].scope \in IocScopes
    BY <1>1 DEF IocRequestState
<1>4. IndicatorsTypeOK'
    BY <1>2, <1>3, IocTypes DEF IocInv, IndicatorsTypeOK, IocRequestState, Decision
<1>5. Unspoken' /\ AnalystsDecide'
    BY DEF Unspoken, AnalystsDecide, Obeys
<1> QED
    BY <1>4, <1>5 DEF IocInv

LEMMA IocNext == IocInv /\ IndicatorsNext => IocInv'
<1> SUFFICES ASSUME IocInv, IndicatorsNext PROVE IocInv'
    OBVIOUS
<1>1. /\ ioc \in [IocScopes -> IndicatorRow] /\ decided \in [IocScopes -> Decision]
      /\ iocRequest \in [IocRequests -> IocRequestState]
      /\ \A t \in IocScopes : Obeys(ioc[t], decided[t])
    BY IocTypes, ObeysAll DEF IocInv
<1>2. \A t \in IocScopes : ioc[t] \in IndicatorRow /\ decided[t] \in Decision
    BY <1>1
<1>3. \A r \in IocRequests : /\ iocRequest[r].scope \in IocScopes /\ iocRequest[r].into \in IocScopes
                             /\ iocRequest[r].seen \in IndicatorRow
    BY <1>1 DEF IocRequestState
<1>4. \A r \in IocRequests :
        iocRequest[r].op # "none" =>
            /\ iocRequest[r].seen.status # "none"
            /\ ~iocRequest[r].gone => ioc[iocRequest[r].scope].status # "none"
    BY DEF IocInv, IndicatorsTypeOK
<1>5. ASSUME NEW s \in IocScopes, Sight(s) PROVE IocInv'
  <2>1. decided' = decided /\ iocRequest' = iocRequest
    BY <1>5 DEF Sight
  <2>2. \E row \in IndicatorRow :
          ioc' = [ioc EXCEPT ![s] = row] /\ row.status # "none" /\ Obeys(row, decided[s])
    <3>1. CASE ioc[s].status = "none"
      <4>1. PICK confidence \in Confidences : ioc' = [ioc EXCEPT ![s] = Inserted(confidence)]
        BY <1>5, <3>1 DEF Sight
      <4>2. Inserted(confidence) \in IndicatorRow /\ Inserted(confidence).status # "none"
        BY DEF IndicatorRow, IocStatuses, Inserted
      <4>3. Obeys(Inserted(confidence), decided[s])
        BY <1>1, <3>1, NoWordIsNoConfidence DEF Obeys, Inserted, Unsaid
      <4> QED
        BY <4>1, <4>2, <4>3
    <3>2. CASE ioc[s].status # "none"
      <4>1. ioc' = [ioc EXCEPT ![s] = Resight(ioc[s])]
        BY <1>5, <3>2 DEF Sight
      <4>2. /\ Resight(ioc[s]).confidence = ioc[s].confidence /\ Resight(ioc[s]).status # "none"
            /\ Resight(ioc[s]).status = "whitelisted" <=> ioc[s].status = "whitelisted"
        BY <1>2, <3>2 DEF Resight, IndicatorRow
      <4>3. Resight(ioc[s]) \in IndicatorRow
        BY <1>2 DEF Resight, IndicatorRow, IocStatuses
      <4>4. Obeys(Resight(ioc[s]), decided[s])
        BY <1>1, <3>2, <4>2 DEF Obeys
      <4> QED
        BY <4>1, <4>2, <4>3, <4>4
    <3> QED
      BY <3>1, <3>2
  <2>3. PICK row \in IndicatorRow :
          ioc' = [ioc EXCEPT ![s] = row] /\ row.status # "none" /\ Obeys(row, decided[s])
    BY <2>2
  <2>4. decided' = [decided EXCEPT ![s] = decided[s]]
    BY <1>1, <2>1
  <2>5. /\ ioc' \in [IocScopes -> IndicatorRow] /\ decided' \in [IocScopes -> Decision]
        /\ \A t \in IocScopes : ioc[t].status # "none" => ioc'[t].status # "none"
        /\ \A t \in IocScopes : Obeys(ioc'[t], decided'[t])
    BY <1>2, <2>3, <2>4, RowStep
  <2> QED
    BY <2>1, <2>5, RequestsKept
<1>6. CASE Expire
  <2>1. PICK old \in SUBSET {s \in IocScopes : ioc[s].status = "active"} :
          ioc' = [s \in IocScopes |-> IF s \in old THEN [ioc[s] EXCEPT !.status = "expired"] ELSE ioc[s]]
    BY <1>6 DEF Expire
  <2>2. decided' = decided /\ iocRequest' = iocRequest
    BY <1>6 DEF Expire
  <2>3. ASSUME NEW t \in IocScopes
        PROVE  /\ ioc'[t] \in IndicatorRow
               /\ \/ ioc'[t] = ioc[t]
                  \/ /\ ioc[t].status = "active" /\ ioc'[t].status = "expired"
                     /\ ioc'[t].confidence = ioc[t].confidence
    BY <1>2, <2>1 DEF IndicatorRow, IocStatuses
  <2>4. ioc' \in [IocScopes -> IndicatorRow]
    BY <2>1, <2>3
  <2>5. \A t \in IocScopes : Obeys(ioc'[t], decided'[t])
    BY <1>1, <2>2, <2>3 DEF Obeys
  <2>6. \A t \in IocScopes : ioc[t].status # "none" => ioc'[t].status # "none"
    BY <2>3
  <2> QED
    BY <1>1, <2>2, <2>4, <2>5, <2>6, RequestsKept
<1>7. ASSUME NEW r \in IocRequests, NEW op \in Ops \ {"none"}, NEW s \in IocScopes, LoadIoc(r, op, s)
      PROVE  IocInv'
  <2>1. PICK into \in {IF op = "clone" THEN a ELSE s : a \in {x \in Analysts : Visible(x, s) /\ Allowed(x, op, s)}} :
          iocRequest' = [iocRequest EXCEPT ![r] = [op |-> op, scope |-> s, into |-> into,
                                                   seen |-> ioc[s], gone |-> FALSE]]
    BY <1>7 DEF LoadIoc
  <2>2. ioc[s].status # "none" /\ ioc' = ioc /\ decided' = decided
    BY <1>7 DEF LoadIoc
  <2>3. into \in IocScopes
    <3>1. CASE op = "clone"
      BY <2>1, <3>1 DEF Allowed, Analysts, IocScopes
    <3>2. CASE op # "clone"
      BY <2>1, <3>2
    <3> QED
      BY <3>1, <3>2
  <2> DEFINE q == [op |-> op, scope |-> s, into |-> into, seen |-> ioc[s], gone |-> FALSE]
  <2>4. q \in IocRequestState /\ q.seen = ioc[s] /\ q.scope = s
    BY <1>2, <2>3 DEF IocRequestState
  <2>5. iocRequest' = [iocRequest EXCEPT ![r] = q]
    BY <2>1
  <2> HIDE DEF q
  <2>6. /\ iocRequest' \in [IocRequests -> IocRequestState] /\ iocRequest'[r] = q
        /\ \A v \in IocRequests \ {r} : iocRequest'[v] = iocRequest[v]
    BY <1>1, <2>4, <2>5
  <2>7. IndicatorsTypeOK'
    BY <1>1, <1>4, <2>2, <2>4, <2>6 DEF IndicatorsTypeOK, IocRequestState, Decision
  <2> QED
    BY <2>2, <2>7 DEF IocInv, Unspoken, AnalystsDecide
<1>8. ASSUME NEW r \in IocRequests, NEW op \in {"whitelist", "unwhitelist"},
             NEW status \in {"active", "whitelisted"}, CommitStatus(r, op, status)
      PROVE  IocInv'
  <2> DEFINE s == iocRequest[r].scope
             row == [ioc[s] EXCEPT !.status = status]
             word == [decided[s] EXCEPT !.status = status]
  <2>1. iocRequest[r].op = op /\ ~iocRequest[r].gone /\ Respond(r)
    BY <1>8 DEF CommitStatus
  <2>2. CASE UNCHANGED <<ioc, decided>>
    BY <1>1, <2>1, <2>2, RequestsKept
  <2>3. CASE ~UNCHANGED <<ioc, decided>>
    <3>1. /\ ioc' = [ioc EXCEPT ![s].status = status]
          /\ decided' = [decided EXCEPT ![s].status = status]
      BY <1>8, <2>3 DEF CommitStatus
    <3>2. s \in IocScopes /\ ioc[s].status # "none"
      BY <1>3, <1>4, <2>1
    <3>3. /\ row \in IndicatorRow /\ row.status = status /\ row.confidence = ioc[s].confidence
          /\ word \in Decision /\ word.status = status /\ word.confidence = decided[s].confidence
      BY <1>2, <3>2 DEF IndicatorRow, IocStatuses, Decision
    <3>4. Obeys(row, word)
      BY <1>1, <3>2, <3>3 DEF Obeys
    <3>5. ioc' = [ioc EXCEPT ![s] = row] /\ decided' = [decided EXCEPT ![s] = word]
      BY <3>1
    <3> HIDE DEF s, row, word
    <3>6. /\ ioc' \in [IocScopes -> IndicatorRow] /\ decided' \in [IocScopes -> Decision]
          /\ \A t \in IocScopes : ioc[t].status # "none" => ioc'[t].status # "none"
          /\ \A t \in IocScopes : Obeys(ioc'[t], decided'[t])
      BY <3>2, <3>3, <3>4, <3>5, RowStep
    <3> QED
      BY <2>1, <3>6, RequestsKept
  <2> QED
    BY <2>2, <2>3
<1>9. ASSUME NEW r \in IocRequests, PatchIoc(r) PROVE IocInv'
  <2> DEFINE s == iocRequest[r].scope
  <2>1. iocRequest[r].op = "patch" /\ ~iocRequest[r].gone /\ Respond(r)
    BY <1>9 DEF PatchIoc
  <2>2. CASE UNCHANGED <<ioc, decided>>
    BY <1>1, <2>1, <2>2, RequestsKept
  <2>3. CASE ~UNCHANGED <<ioc, decided>>
    <3>1. PICK confidence \in Confidences :
            /\ ioc' = [ioc EXCEPT ![s].confidence = confidence]
            /\ decided' = [decided EXCEPT ![s].confidence = confidence]
      BY <1>9, <2>3 DEF PatchIoc
    <3> DEFINE row == [ioc[s] EXCEPT !.confidence = confidence]
               word == [decided[s] EXCEPT !.confidence = confidence]
    <3>2. s \in IocScopes /\ ioc[s].status # "none"
      BY <1>3, <1>4, <2>1
    <3>3. /\ row \in IndicatorRow /\ row.status = ioc[s].status /\ row.confidence = confidence
          /\ word \in Decision /\ word.status = decided[s].status /\ word.confidence = confidence
      BY <1>2, <3>2 DEF IndicatorRow, Decision
    <3>4. Obeys(row, word)
      BY <1>1, <3>2, <3>3 DEF Obeys
    <3>5. ioc' = [ioc EXCEPT ![s] = row] /\ decided' = [decided EXCEPT ![s] = word]
      BY <3>1
    <3> HIDE DEF s, row, word
    <3>6. /\ ioc' \in [IocScopes -> IndicatorRow] /\ decided' \in [IocScopes -> Decision]
          /\ \A t \in IocScopes : ioc[t].status # "none" => ioc'[t].status # "none"
          /\ \A t \in IocScopes : Obeys(ioc'[t], decided'[t])
      BY <3>2, <3>3, <3>4, <3>5, RowStep
    <3> QED
      BY <2>1, <3>6, RequestsKept
  <2> QED
    BY <2>2, <2>3
<1>10. ASSUME NEW r \in IocRequests, UpdateNothing(r) PROVE IocInv'
  <2>1. Respond(r) /\ ioc' = ioc /\ decided' = decided
    BY <1>10 DEF UpdateNothing
  <2> QED
    BY <1>1, <2>1, RequestsKept
<1>11. ASSUME NEW r \in IocRequests, CloneIoc(r) PROVE IocInv'
  <2> DEFINE s == iocRequest[r].into
             row == IF ioc[s].status = "none" THEN [iocRequest[r].seen EXCEPT !.status = "whitelisted"]
                    ELSE [ioc[s] EXCEPT !.status = "whitelisted"]
             word == [decided[s] EXCEPT !.status = "whitelisted"]
  <2>1. /\ ioc' = [ioc EXCEPT ![s] = row] /\ decided' = [decided EXCEPT ![s] = word] /\ Respond(r)
    BY <1>11 DEF CloneIoc
  <2>2. s \in IocScopes /\ iocRequest[r].seen \in IndicatorRow
    BY <1>3
  <2>3. /\ row \in IndicatorRow /\ row.status = "whitelisted"
        /\ ioc[s].status # "none" => row.confidence = ioc[s].confidence
    BY <1>2, <2>2 DEF IndicatorRow, IocStatuses
  <2>4. word \in Decision /\ word.status = "whitelisted" /\ word.confidence = decided[s].confidence
    BY <1>2, <2>2 DEF Decision
  <2>5. Obeys(row, word)
    BY <1>1, <2>2, <2>3, <2>4 DEF Obeys, Unsaid
  <2> HIDE DEF s, row, word
  <2>6. /\ ioc' \in [IocScopes -> IndicatorRow] /\ decided' \in [IocScopes -> Decision]
        /\ \A t \in IocScopes : ioc[t].status # "none" => ioc'[t].status # "none"
        /\ \A t \in IocScopes : Obeys(ioc'[t], decided'[t])
    BY <2>1, <2>2, <2>3, <2>4, <2>5, RowStep
  <2> QED
    BY <2>1, <2>6, RequestsKept
<1>12. ASSUME NEW r \in IocRequests, DeleteIoc(r) PROVE IocInv'
  <2>1. CASE iocRequest[r].gone
    <3>1. Respond(r) /\ ioc' = ioc /\ decided' = decided
      BY <1>12, <2>1 DEF DeleteIoc
    <3> QED
      BY <1>1, <3>1, RequestsKept
  <2>2. CASE ~iocRequest[r].gone
    <3> DEFINE s == iocRequest[r].scope
    <3>1. /\ ioc' = [ioc EXCEPT ![s] = Absent] /\ decided' = [decided EXCEPT ![s] = Unsaid]
          /\ iocRequest' = [v \in IocRequests |->
                               IF v = r THEN NoRequest
                               ELSE IF iocRequest[v].op # "none" /\ iocRequest[v].scope = s
                               THEN [iocRequest[v] EXCEPT !.gone = TRUE]
                               ELSE iocRequest[v]]
      BY <1>12, <2>2 DEF DeleteIoc
    <3>2. s \in IocScopes
      BY <1>3
    <3>3. ASSUME NEW v \in IocRequests
          PROVE  /\ iocRequest'[v] \in IocRequestState
                 /\ \/ iocRequest'[v].op = "none"
                    \/ iocRequest'[v].gone /\ iocRequest'[v].seen = iocRequest[v].seen /\ iocRequest[v].op # "none"
                    \/ iocRequest'[v] = iocRequest[v] /\ (iocRequest[v].op = "none" \/ iocRequest[v].scope # s)
      <4>1. iocRequest[v] \in IocRequestState
        BY <1>1
      <4>2. CASE v = r
        <5>1. iocRequest'[v] = NoRequest
          BY <3>1, <4>2
        <5> QED
          BY <5>1, IocShapes
      <4>3. CASE v # r /\ iocRequest[v].op # "none" /\ iocRequest[v].scope = s
        <5>1. iocRequest'[v] = [iocRequest[v] EXCEPT !.gone = TRUE]
          BY <3>1, <4>3
        <5> QED
          BY <4>1, <4>3, <5>1 DEF IocRequestState
      <4>4. CASE v # r /\ ~(iocRequest[v].op # "none" /\ iocRequest[v].scope = s)
        <5>1. iocRequest'[v] = iocRequest[v]
          BY <3>1, <4>4
        <5> QED
          BY <4>1, <4>4, <5>1
      <4> QED
        BY <4>2, <4>3, <4>4
    <3>4. /\ ioc' \in [IocScopes -> IndicatorRow] /\ decided' \in [IocScopes -> Decision]
          /\ ioc'[s] = Absent /\ decided'[s] = Unsaid
          /\ \A t \in IocScopes \ {s} : ioc'[t] = ioc[t] /\ decided'[t] = decided[t]
      BY <1>1, <3>1, <3>2, IocShapes
    <3>5. iocRequest' \in [IocRequests -> IocRequestState]
      BY <3>1, <3>3
    <3>6. ASSUME NEW v \in IocRequests, iocRequest'[v].op # "none"
          PROVE  /\ iocRequest'[v].seen.status # "none"
                 /\ ~iocRequest'[v].gone => ioc'[iocRequest'[v].scope].status # "none"
      BY <1>3, <1>4, <3>3, <3>4, <3>6
    <3>7. IndicatorsTypeOK'
      BY <3>4, <3>5, <3>6 DEF IndicatorsTypeOK, IocRequestState, Decision
    <3>8. \A t \in IocScopes : Obeys(ioc'[t], decided'[t])
      BY <1>1, <3>4, IocShapes
    <3> QED
      BY <3>7, <3>8 DEF IocInv, Unspoken, AnalystsDecide, Obeys
  <2> QED
    BY <2>1, <2>2
<1> QED
    BY <1>5, <1>6, <1>7, <1>8, <1>9, <1>10, <1>11, <1>12
    DEF IndicatorsNext, WhitelistIoc, UnwhitelistIoc

LEMMA IocInvNext == IocInv /\ [IndicatorsNext]_indicatorsVars => IocInv'
<1>1. IocInv /\ UNCHANGED indicatorsVars => IocInv'
    BY DEF indicatorsVars, IocInv, IndicatorsTypeOK, Unspoken, AnalystsDecide
<1> QED
    BY <1>1, IocNext

\* For any projects and indicators: the rows of the store and those an import has read are
\* well formed.
THEOREM IndicatorsTypeCorrect == IndicatorsSpec => []IndicatorsTypeOK
<1>1. IocInv => IndicatorsTypeOK
    BY DEF IocInv
<1> QED
    BY <1>1, IocInit, IocInvNext, PTL DEF IndicatorsSpec

\* For any number of projects and handlers: a row is whitelisted exactly when that was the
\* last word of an analyst on it, and a confidence that was set stays
\* (upsert_ioc_for_event, clone_global_to_project_whitelisted, routers/iocs.py).
THEOREM DecisionsCorrect == IndicatorsSpec => []AnalystsDecide
<1>1. IocInv => AnalystsDecide
    BY DEF IocInv
<1> QED
    BY IocInvNext, <1>1, IocInit, PTL DEF IndicatorsSpec

-----------------------------------------------------------------------------
(* Dossiers *)

Request == [at : {"new", "loaded", "done"}, op : DossierOps \cup {"none"}, of : Dossiers \cup {AnyDossier},
            left : Seq(Evidence), pending : BOOLEAN, seen : BOOLEAN, own : SUBSET Evidence,
            names : SUBSET Evidence, patch : Patches, loaded : Closing]

DossierRows ==
    /\ dossier \in [Dossiers -> Closing] /\ links \subseteq Dossiers \X Evidence
    /\ handling \in [DossierRequests -> Request]

\* What becomes of a link that was logged.
KeptLink(l) == l \in links \/ Said("detached", l) \/ ~Keyed(l)

\* A request holds what it has inserted; what it was asked to attach it has still to come to,
\* or has inserted, or it was there when the request came to it.
Carries(h) ==
    /\ h.of \in Dossiers /\ h.own \subseteq h.names /\ Names(h.left) \subseteq h.names
    /\ \A e \in h.own : Keyed(<<h.of, e>>)
    /\ h.op = "attach" => \A e \in h.names \ (Names(h.left) \cup h.own) : KeptLink(<<h.of, e>>)
    /\ h.pending \/ h.op = "detach" => h.left # <<>>

DossierInv ==
    /\ DossierRows /\ DossiersTraced
    /\ \A r \in DossierRequests : handling[r].at = "loaded" => Carries(handling[r])

LEMMA NamesOf ==
    ASSUME NEW s \in Seq(Evidence)
    PROVE  /\ Names(s) \subseteq Evidence
           /\ s # <<>> => /\ Tail(s) \in Seq(Evidence) /\ Head(s) \in Evidence
                          /\ Names(s) = Names(Tail(s)) \cup {Head(s)}
<1>1. Len(s) \in Nat /\ DOMAIN s = 1..Len(s) /\ \A i \in 1..Len(s) : s[i] \in Evidence
    OBVIOUS
<1>2. Names(s) \subseteq Evidence
    BY <1>1 DEF Names
<1>3. ASSUME s # <<>>
      PROVE  /\ Tail(s) \in Seq(Evidence) /\ Head(s) \in Evidence
             /\ Names(s) = Names(Tail(s)) \cup {Head(s)}
  <2>1. /\ Len(s) # 0 /\ Head(s) = s[1] /\ Tail(s) \in Seq(Evidence)
        /\ Len(Tail(s)) = Len(s) - 1 /\ \A i \in 1..Len(Tail(s)) : Tail(s)[i] = s[i + 1]
      BY <1>3, HeadTailProperties, EmptySeq
  <2>2. PICK n \in Nat : n = Len(s)
      BY <1>1
  <2>3. DOMAIN Tail(s) = 1..(n - 1) /\ \A i \in 1..(n - 1) : Tail(s)[i] = s[i + 1]
      BY <2>1, <2>2
  <2>4. Names(Tail(s)) = {s[i + 1] : i \in 1..(n - 1)}
      BY <2>3 DEF Names
  <2>5. Names(s) = {s[i] : i \in 1..n}
      BY <1>1, <2>2 DEF Names
  <2>6. \A i \in 1..n : i = 1 \/ (i - 1 \in 1..(n - 1) /\ (i - 1) + 1 = i)
      BY <2>2
  <2>7. Names(s) \subseteq Names(Tail(s)) \cup {Head(s)}
      BY <2>1, <2>4, <2>5, <2>6
  <2>8. Names(Tail(s)) \cup {Head(s)} \subseteq Names(s)
    <3>1. 1 \in 1..n /\ \A i \in 1..(n - 1) : i + 1 \in 1..n
        BY <1>1, <2>1, <2>2
    <3> QED
        BY <2>1, <2>4, <2>5, <3>1
  <2> QED
      BY <1>1, <2>1, <2>2, <2>7, <2>8
<1> QED
    BY <1>2, <1>3

LEMMA NewRequest == NotHandled(AnyDossier) \in Request /\ NotHandled(AnyDossier).at = "new"
<1>1. NoPatch \in Patches /\ <<>> \in Seq(Evidence)
    BY DEF NoPatch, Patches
<1>2. [there |-> FALSE, closed |-> FALSE, closedAt |-> FALSE] \in Closing
    BY DEF Closing
<1> QED
    BY <1>1, <1>2 DEF NotHandled, Request

LEMMA FinishedRequest ==
    LET over == [NotHandled(AnyDossier) EXCEPT !.at = "done"]
    IN  over \in Request /\ over.at = "done"
BY NewRequest DEF Request

LEMMA DossierInitInv == CaseworkInit => DossierInv
<1> SUFFICES ASSUME CaseworkInit PROVE DossierInv
    OBVIOUS
<1>2. DossierRows
    BY NewRequest DEF CaseworkInit, DossierRows, Closing
<1>3. DossiersTraced
  <2>1. links = {} /\ trail = {}
      BY DEF CaseworkInit
  <2>2. \A d \in Dossiers : dossier[d].there /\ ~dossier[d].closed
      BY DEF CaseworkInit
  <2>3. \A l : ~Said("attached", l)
      BY <2>1 DEF Said
  <2> QED
      BY <2>1, <2>2, <2>3 DEF DossiersTraced, Dossiers
<1> QED
    BY <1>2, <1>3, NewRequest DEF DossierInv, CaseworkInit

\* Only a request moves.
LEMMA RequestMoves ==
    ASSUME DossierInv, UNCHANGED tablesVars, NEW r \in DossierRequests, NEW h \in Request,
           handling' = [handling EXCEPT ![r] = h], h.at = "loaded" => Carries(h)
    PROVE  DossierInv'
<1>1. DossierRows /\ DossiersTraced
    BY DEF DossierInv
<1>2. handling' \in [DossierRequests -> Request]
    BY <1>1 DEF DossierRows
<1>3. \A w \in DossierRequests : handling'[w] = IF w = r THEN h ELSE handling[w]
    BY <1>1 DEF DossierRows
<1>4. UNCHANGED <<dossier, iocThere, links, trail, raced>>
    BY DEF tablesVars
<1>5. DossierRows'
    BY <1>1, <1>2, <1>4 DEF DossierRows
<1>6. DossiersTraced'
    BY <1>1, <1>4 DEF DossiersTraced, Said, Keyed
<1>7. ASSUME NEW q, Carries(q) PROVE Carries(q)'
    BY <1>4, <1>7 DEF Carries, KeptLink, Said, Keyed
<1>8. ASSUME NEW w \in DossierRequests, handling'[w].at = "loaded" PROVE Carries(handling[w])'
  <2>1. PICK q : q = handling'[w]
      OBVIOUS
  <2>2. Carries(q)
    <3>1. CASE w = r
        BY <1>3, <1>8, <2>1, <3>1
    <3>2. CASE w # r
      <4>1. q = handling[w] /\ q.at = "loaded"
          BY <1>3, <1>8, <2>1, <3>2
      <4> QED
          BY <4>1 DEF DossierInv
    <3> QED
        BY <3>1, <3>2
  <2>3. Carries(q)'
      BY <1>7, <2>2
  <2> QED
      BY <2>1, <2>3
<1> QED
    BY <1>5, <1>6, <1>8 DEF DossierInv

\* The tables move, and the request that moves them is over.
LEMMA TablesMove ==
    ASSUME DossierInv, DossierRows', DossiersTraced', trail \subseteq trail', iocThere' \subseteq iocThere,
           \A d \in Dossiers : dossier'[d].there => dossier[d].there,
           \A w \in DossierRequests : handling'[w] = handling[w] \/ handling'[w].at = "done",
           \A w \in DossierRequests : handling'[w].at = "loaded" => \A e \in handling'[w].own : Keyed(<<handling[w].of, e>>)',
           \A l \in links \ links' : Said("detached", l)' \/ ~Keyed(l)'
    PROVE  DossierInv'
<1>1. \A l : Said("detached", l) => Said("detached", l)'
    BY DEF Said
<1>2. \A l : l[1] \in Dossiers /\ ~Keyed(l) => ~Keyed(l)'
    BY DEF Keyed
<1>3. ASSUME NEW l, l[1] \in Dossiers, KeptLink(l) PROVE KeptLink(l)'
    BY <1>1, <1>2, <1>3 DEF KeptLink
<1>4. ASSUME NEW w \in DossierRequests, handling'[w].at = "loaded" PROVE Carries(handling[w])'
  <2>1. PICK h : h = handling'[w]
      OBVIOUS
  <2>2. h = handling[w] /\ Carries(h)
      BY <1>4, <2>1 DEF DossierInv
  <2>3. \A e \in h.own : Keyed(<<h.of, e>>)'
      BY <1>4, <2>1
  <2>4. \A e \in h.names \ (Names(h.left) \cup h.own) : KeptLink(<<h.of, e>>) => KeptLink(<<h.of, e>>)'
      BY <1>3, <2>2 DEF Carries
  <2>5. Carries(h)'
      BY <2>2, <2>3, <2>4 DEF Carries
  <2> QED
      BY <2>1, <2>5
<1> QED
    BY <1>4 DEF DossierInv

LEMMA LoadDossierKeeps ==
    ASSUME DossierInv, NEW r \in DossierRequests, NEW d \in Dossiers, LoadDossier(r, d)
    PROVE  DossierInv'
<1>1. UNCHANGED tablesVars
    BY DEF LoadDossier
<1>2. CASE ~dossier[d].there
    BY <1>1, <1>2, FinishedRequest, RequestMoves DEF LoadDossier, Over
<1>3. CASE dossier[d].there
  <2>1. PICK b \in Bodies(d), x \in BOOLEAN : handling' = [handling EXCEPT
                ![r] = [NotHandled(d) EXCEPT !.at = "loaded", !.op = b.op, !.left = b.left, !.names = Names(b.left),
                                             !.patch = b.patch, !.loaded = dossier[d], !.seen = x]]
      BY <1>3 DEF LoadDossier
  <2>2. /\ b.op \in DossierOps /\ b.left \in Seq(Evidence) /\ b.patch \in Patches
        /\ b.op = "detach" => b.left # <<>>
    <3>1. /\ \A e \in Evidence : <<e>> \in Seq(Evidence) /\ <<e>> # <<>>
          /\ \A e, f \in Evidence : <<e, f>> \in Seq(Evidence)
        OBVIOUS
    <3>2. <<>> \in Seq(Evidence) /\ NoPatch \in Patches
        BY DEF NoPatch, Patches
    <3> QED
      <4> DEFINE attaching == {[op |-> "attach", left |-> s, patch |-> NoPatch] : s \in Seq(Evidence)}
                 detaching == {[op |-> "detach", left |-> <<e>>, patch |-> NoPatch] : e \in Evidence}
                 patching == {[op |-> "patch", left |-> <<>>, patch |-> p] : p \in Patches}
      <4>1. b \in attaching \/ b \in detaching \/ b \in patching \/ b = [op |-> "delete", left |-> <<>>, patch |-> NoPatch]
        <5>1. {[op |-> "attach", left |-> s, patch |-> NoPatch] :
                  s \in {<<e>> : e \in Evidence} \cup IF d \in Cases THEN {<<e, f>> : e, f \in Evidence} ELSE {}}
              \subseteq attaching
          <6>1. {<<e>> : e \in Evidence} \subseteq Seq(Evidence)
              BY <3>1
          <6>2. {<<e, f>> : e, f \in Evidence} \subseteq Seq(Evidence)
            <7> SUFFICES ASSUME NEW s \in {<<e, f>> : e, f \in Evidence} PROVE s \in Seq(Evidence)
                OBVIOUS
            <7>1. PICK e \in Evidence, f \in Evidence : s = <<e, f>>
                OBVIOUS
            <7> QED
                BY <3>1, <7>1
          <6> QED
              BY <6>1, <6>2
        <5>2. {[op |-> "patch", left |-> <<>>, patch |-> p] : p \in IF d \in Cases THEN Patches ELSE {NoPatch}}
              \subseteq patching
            BY <3>2
        <5> HIDE DEF attaching, patching
        <5> QED
            BY <5>1, <5>2 DEF Bodies
      <4>2. CASE b \in attaching
          BY <3>2, <4>2 DEF DossierOps
      <4>3. CASE b \in detaching
        <5>1. PICK e \in Evidence : b = [op |-> "detach", left |-> <<e>>, patch |-> NoPatch]
            BY <4>3
        <5>2. b.op = "detach" /\ b.left = <<e>> /\ b.patch = NoPatch
            BY <5>1
        <5> QED
            BY <3>1, <3>2, <5>2 DEF DossierOps
      <4>4. CASE b \in patching \/ b = [op |-> "delete", left |-> <<>>, patch |-> NoPatch]
        <5>1. PICK p \in Patches, op \in {"patch", "delete"} : b = [op |-> op, left |-> <<>>, patch |-> p]
            BY <3>2, <4>4
        <5>2. b.op = op /\ b.left = <<>> /\ b.patch = p
            BY <5>1
        <5> QED
            BY <3>2, <5>2 DEF DossierOps
      <4> QED
          BY <4>1, <4>2, <4>3, <4>4
  <2>3. dossier[d] \in Closing
      BY DEF DossierInv, DossierRows
  <2>4. PICK n, op, left, names, patch, loaded :
            /\ n = NotHandled(d) /\ op = b.op /\ left = b.left /\ names = Names(left) /\ patch = b.patch
            /\ loaded = dossier[d]
      OBVIOUS
  <2>5. n \in Request /\ n.of = d /\ n.own = {} /\ ~n.pending
    <3>1. NoPatch \in Patches /\ <<>> \in Seq(Evidence)
        BY DEF NoPatch, Patches
    <3>2. [there |-> FALSE, closed |-> FALSE, closedAt |-> FALSE] \in Closing
        BY DEF Closing
    <3> QED
        BY <2>4, <3>1, <3>2 DEF NotHandled, Request
  <2>6. op \in DossierOps /\ left \in Seq(Evidence) /\ names \in SUBSET Evidence /\ patch \in Patches /\ loaded \in Closing
      BY <2>2, <2>3, <2>4, NamesOf
  <2>7. PICK h : h = [n EXCEPT !.at = "loaded", !.op = op, !.left = left, !.names = names,
                               !.patch = patch, !.loaded = loaded, !.seen = x]
      OBVIOUS
  <2>8. h \in Request
    <3>1. PICK m : m = [n EXCEPT !.at = "loaded", !.op = op]
        OBVIOUS
    <3>2. m \in Request
        BY <2>5, <2>6, <3>1 DEF Request
    <3>3. PICK q : q = [m EXCEPT !.left = left, !.names = names]
        OBVIOUS
    <3>4. q \in Request
        BY <2>5, <2>6, <3>2, <3>3 DEF Request
    <3>5. PICK u : u = [q EXCEPT !.patch = patch, !.loaded = loaded, !.seen = x]
        OBVIOUS
    <3>6. u \in Request
        BY <2>5, <2>6, <3>4, <3>5 DEF Request
    <3>7. h = u
        BY <2>7, <3>1, <3>3, <3>5
    <3> QED
        BY <3>6, <3>7
  <2>9. h.at = "loaded" /\ h.op = op /\ h.of = d /\ h.left = left /\ h.own = {} /\ h.names = names /\ ~h.pending
      BY <2>5, <2>7 DEF Request
  <2>10. Carries(h)
      BY <2>2, <2>4, <2>9 DEF Carries
  <2>11. handling' = [handling EXCEPT ![r] = h]
      BY <2>1, <2>4, <2>7, Zenon
  <2> QED
      BY <1>1, <2>8, <2>10, <2>11, RequestMoves
<1> QED
    BY <1>2, <1>3

\* What a request with ids left has.
LEMMA Attaching ==
    ASSUME DossierInv, NEW r \in DossierRequests, handling[r].at = "loaded"
    PROVE  handling[r] \in Request /\ Carries(handling[r])
BY DEF DossierInv, DossierRows

LEMMA LookKeeps ==
    ASSUME DossierInv, NEW r \in DossierRequests, LookForLink(r)
    PROVE  DossierInv'
<1>1. /\ handling[r].at = "loaded" /\ handling[r].op = "attach" /\ handling[r].left # <<>>
      /\ ~handling[r].pending /\ UNCHANGED tablesVars
    BY DEF LookForLink, Doing
<1>2. PICK h : h = handling[r]
    OBVIOUS
<1>3. h \in Request /\ Carries(h)
    BY <1>1, <1>2, Attaching
<1>4. CASE NextLink(r) \in links \cup HeldBy(r) /\ handling' = [handling EXCEPT ![r].left = Tail(@)]
  <2>1. PICK q : q = [h EXCEPT !.left = Tail(h.left)]
      OBVIOUS
  <2>2. handling' = [handling EXCEPT ![r] = q]
      BY <1>2, <1>4, <2>1
  <2>3. /\ h.left \in Seq(Evidence) /\ h.left # <<>>
        /\ Names(h.left) = Names(Tail(h.left)) \cup {Head(h.left)} /\ Tail(h.left) \in Seq(Evidence)
      BY <1>1, <1>2, <1>3, NamesOf DEF Request
  <2>4. /\ q \in Request /\ q.left = Tail(h.left) /\ q.at = h.at /\ q.op = h.op /\ q.of = h.of
        /\ q.own = h.own /\ q.names = h.names /\ q.pending = h.pending
      BY <1>3, <2>1, <2>3 DEF Request
  <2>5. <<h.of, Head(h.left)>> \in links \/ Head(h.left) \in h.own
      BY <1>2, <1>4 DEF NextLink, HeldBy
  <2>6. Carries(q)
    <3>1. \A e \in q.names \ (Names(q.left) \cup q.own) : KeptLink(<<q.of, e>>)
        BY <1>1, <1>2, <1>3, <2>3, <2>4, <2>5 DEF Carries, KeptLink
    <3> QED
        BY <1>1, <1>2, <1>3, <2>3, <2>4, <3>1 DEF Carries
  <2> QED
      BY <1>1, <2>2, <2>4, <2>6, RequestMoves
<1>5. CASE handling' = [handling EXCEPT ![r].pending = TRUE]
  <2>1. PICK q : q = [h EXCEPT !.pending = TRUE]
      OBVIOUS
  <2>2. handling' = [handling EXCEPT ![r] = q]
      BY <1>2, <1>5, <2>1
  <2>3. /\ q \in Request /\ q.left = h.left /\ q.at = h.at /\ q.op = h.op /\ q.of = h.of
        /\ q.own = h.own /\ q.names = h.names
      BY <1>3, <2>1 DEF Request
  <2>4. Carries(q)
      BY <1>1, <1>2, <1>3, <2>3 DEF Carries
  <2> QED
      BY <1>1, <2>2, <2>3, <2>4, RequestMoves
<1> QED
    BY <1>4, <1>5 DEF LookForLink

LEMMA InsertKeeps ==
    ASSUME DossierInv, NEW r \in DossierRequests, InsertLink(r)
    PROVE  DossierInv'
<1>1. /\ handling[r].at = "loaded" /\ handling[r].op = "attach" /\ UNCHANGED tablesVars
    BY DEF InsertLink, Doing
<1>2. PICK h, link : h = handling[r] /\ link = NextLink(r)
    OBVIOUS
<1>3. h \in Request /\ Carries(h)
    BY <1>1, <1>2, Attaching
<1>4. PICK taken : taken = [h EXCEPT !.left = Tail(h.left), !.pending = FALSE]
    OBVIOUS
<1>5. CASE Over(r)
    BY <1>1, <1>5, FinishedRequest, RequestMoves DEF Over
<1>6. link = <<h.of, Head(h.left)>>
    BY <1>2 DEF NextLink
<1>7. h.left # <<>> =>
         /\ Names(h.left) = Names(Tail(h.left)) \cup {Head(h.left)} /\ Tail(h.left) \in Seq(Evidence)
         /\ Head(h.left) \in Evidence
    BY <1>3, NamesOf DEF Request
<1>8. h.left # <<>> => /\ taken \in Request /\ taken.left = Tail(h.left) /\ taken.at = h.at /\ taken.op = h.op
                       /\ taken.of = h.of /\ taken.own = h.own /\ taken.names = h.names /\ ~taken.pending
    BY <1>3, <1>4, <1>7 DEF Request
<1>9. CASE h.left # <<>> /\ Keyed(link) /\ handling' = [handling EXCEPT ![r] = [taken EXCEPT !.own = @ \cup {link[2]}]]
  <2>1. PICK q : q = [taken EXCEPT !.own = h.own \cup {Head(h.left)}]
      OBVIOUS
  <2>2. handling' = [handling EXCEPT ![r] = q]
      BY <1>6, <1>8, <1>9, <2>1
  <2>3. h.own \cup {Head(h.left)} \in SUBSET Evidence
      BY <1>3, <1>7, <1>9 DEF Request
  <2>4. /\ q \in Request /\ q.left = Tail(h.left) /\ q.at = h.at /\ q.op = h.op
        /\ q.of = h.of /\ q.own = h.own \cup {Head(h.left)} /\ q.names = h.names /\ ~q.pending
      BY <1>8, <1>9, <2>1, <2>3 DEF Request
  <2>5. Carries(q)
      BY <1>1, <1>2, <1>3, <1>6, <1>7, <1>9, <2>4 DEF Carries
  <2> QED
      BY <1>1, <2>2, <2>4, <2>5, RequestMoves
<1>10. CASE h.left # <<>> /\ link \in links /\ handling' = [handling EXCEPT ![r] = taken]
  <2>1. KeptLink(link)
      BY <1>10 DEF KeptLink
  <2>2. Carries(taken)
      BY <1>1, <1>2, <1>3, <1>6, <1>7, <1>8, <1>10, <2>1 DEF Carries
  <2> QED
      BY <1>1, <1>8, <1>10, <2>2, RequestMoves
<1>11. h.left # <<>>
    BY <1>2, <1>3 DEF InsertLink, Carries
<1> QED
    BY <1>2, <1>4, <1>5, <1>9, <1>10, <1>11 DEF InsertLink

LEMMA AttachedKeeps ==
    ASSUME DossierInv, NEW r \in DossierRequests, CommitAttached(r)
    PROVE  DossierInv'
<1>1. PICK h, t : h = handling[r] /\ t = [action |-> "attached", of |-> h.of, evidence |-> h.names]
    OBVIOUS
<1>2. /\ h.at = "loaded" /\ h.op = "attach" /\ h.left = <<>>
      /\ links' = links \cup HeldBy(r) /\ trail' = trail \cup {t}
      /\ UNCHANGED <<dossier, iocThere, raced>> /\ Over(r)
    BY <1>1 DEF CommitAttached, Doing, Logged
<1>3. h \in Request /\ Carries(h)
    BY <1>1, <1>2, Attaching
<1>4. HeldBy(r) = {<<h.of, e>> : e \in h.own}
    BY <1>1 DEF HeldBy
<1>5. Names(h.left) = {}
    BY <1>2 DEF Names
<1>6. \A l : Keyed(l)' = Keyed(l)
    BY <1>2 DEF Keyed
<1>7. /\ \A action, l : Said(action, l) => Said(action, l)'
      /\ \A l : Said("attached", l)' => Said("attached", l) \/ (l[1] = h.of /\ l[2] \in h.names)
      /\ \A e \in h.names : Said("attached", <<h.of, e>>)'
    BY <1>1, <1>2 DEF Said
<1>8. DossiersTraced'
  <2>1. \A l \in links' : Keyed(l)' /\ Said("attached", l)'
    <3> SUFFICES ASSUME NEW l \in links' PROVE Keyed(l) /\ Said("attached", l)'
        BY <1>6
    <3>1. CASE l \in links
        BY <1>7, <3>1 DEF DossierInv, DossiersTraced
    <3>2. CASE l \in HeldBy(r)
      <4>1. PICK e \in h.own : l = <<h.of, e>>
          BY <1>4, <3>2
      <4> QED
          BY <1>3, <1>7, <4>1 DEF Carries
    <3> QED
        BY <1>2, <3>1, <3>2
  <2>2. \A l \in Dossiers \X Evidence : Said("attached", l)' => l \in links' \/ Said("detached", l)' \/ ~Keyed(l)'
    <3> SUFFICES ASSUME NEW l \in Dossiers \X Evidence, Said("attached", l)'
                 PROVE  l \in links' \/ Said("detached", l)' \/ ~Keyed(l)
        BY <1>6
    <3>1. CASE Said("attached", l)
        BY <1>2, <1>7, <3>1 DEF DossierInv, DossiersTraced
    <3>2. CASE l[1] = h.of /\ l[2] \in h.names
      <4>1. PICK e : e = l[2]
          OBVIOUS
      <4>2. l = <<h.of, e>> /\ e \in h.names
          BY <3>2, <4>1
      <4>3. e \in h.own \/ KeptLink(l)
          BY <1>2, <1>3, <1>5, <4>2 DEF Carries
      <4> QED
          BY <1>2, <1>4, <1>7, <4>2, <4>3 DEF KeptLink
    <3> QED
        BY <1>7, <3>1, <3>2
  <2> QED
      BY <1>2, <2>1, <2>2 DEF DossierInv, DossiersTraced
<1>9. DossierRows'
  <2>1. HeldBy(r) \subseteq Dossiers \X Evidence
      BY <1>3, <1>4 DEF Carries, Request
  <2> QED
      BY <1>2, <2>1, FinishedRequest DEF DossierInv, DossierRows, Over
<1>10. /\ \A w \in DossierRequests : handling'[w] = handling[w] \/ handling'[w].at = "done"
       /\ \A w \in DossierRequests : handling'[w].at = "loaded" => handling'[w] = handling[w]
    BY <1>2, FinishedRequest DEF DossierInv, DossierRows, Over
<1>11. \A w \in DossierRequests : handling'[w].at = "loaded" => \A e \in handling'[w].own : Keyed(<<handling[w].of, e>>)'
    BY <1>6, <1>10 DEF DossierInv, Carries
<1> QED
    BY <1>2, <1>8, <1>9, <1>10, <1>11, TablesMove

LEMMA DetachedKeeps ==
    ASSUME DossierInv, NEW r \in DossierRequests, CommitDetached(r)
    PROVE  DossierInv'
<1>1. PICK h, t : h = handling[r] /\ t = [action |-> "detached", of |-> h.of, evidence |-> h.names]
    OBVIOUS
<1>2. /\ h.at = "loaded" /\ h.op = "detach"
      /\ links' \subseteq links /\ links \ links' \subseteq {<<h.of, Head(h.left)>>} /\ trail' = trail \cup {t}
      /\ UNCHANGED <<dossier, iocThere, raced>> /\ Over(r)
    BY <1>1 DEF CommitDetached, Doing, Logged, NextLink
<1>3. h \in Request /\ Carries(h)
    BY <1>1, <1>2, Attaching
<1>4. Head(h.left) \in h.names
    BY <1>2, <1>3, NamesOf DEF Carries, Request
<1>5. \A l : Keyed(l)' = Keyed(l)
    BY <1>2 DEF Keyed
<1>6. /\ \A action, l : Said(action, l) => Said(action, l)'
      /\ \A l : Said("attached", l)' => Said("attached", l)
      /\ \A l \in links \ links' : Said("detached", l)'
    BY <1>1, <1>2, <1>4 DEF Said
<1>7. DossiersTraced'
  <2>1. \A l \in links' : Keyed(l)' /\ Said("attached", l)'
      BY <1>2, <1>5, <1>6 DEF DossierInv, DossiersTraced
  <2>2. \A l \in Dossiers \X Evidence : Said("attached", l)' => l \in links' \/ Said("detached", l)' \/ ~Keyed(l)'
      BY <1>2, <1>5, <1>6 DEF DossierInv, DossiersTraced
  <2> QED
      BY <1>2, <2>1, <2>2 DEF DossierInv, DossiersTraced
<1>8. DossierRows'
    BY <1>2, FinishedRequest DEF DossierInv, DossierRows, Over
<1>9. /\ \A w \in DossierRequests : handling'[w] = handling[w] \/ handling'[w].at = "done"
      /\ \A w \in DossierRequests : handling'[w].at = "loaded" => handling'[w] = handling[w]
    BY <1>2, FinishedRequest DEF DossierInv, DossierRows, Over
<1>10. \A w \in DossierRequests : handling'[w].at = "loaded" => \A e \in handling'[w].own : Keyed(<<handling[w].of, e>>)'
    BY <1>5, <1>9 DEF DossierInv, Carries
<1> QED
    BY <1>2, <1>6, <1>7, <1>8, <1>9, <1>10, TablesMove

LEMMA PatchedKeeps ==
    ASSUME DossierInv, NEW r \in DossierRequests, CommitPatch(r)
    PROVE  DossierInv'
<1>1. PICK h : h = handling[r]
    OBVIOUS
<1>2. /\ h.at = "loaded" /\ Over(r) /\ UNCHANGED <<iocThere, links>>
    BY <1>1 DEF CommitPatch, Doing
<1>3. h \in Request /\ h.of \in Dossiers /\ dossier[h.of] \in Closing /\ h.loaded \in Closing /\ h.patch \in Patches
    BY <1>1, <1>2, Attaching DEF Carries, Request, DossierInv, DossierRows
<1>4. /\ \A w \in DossierRequests : handling'[w] = handling[w] \/ handling'[w].at = "done"
      /\ \A w \in DossierRequests : handling'[w].at = "loaded" => handling'[w] = handling[w]
    BY <1>2, FinishedRequest DEF DossierInv, DossierRows, Over
<1>5. /\ dossier' \in [Dossiers -> Closing]
      /\ \A d \in Dossiers : dossier'[d].there = dossier[d].there
      /\ trail' = trail \/ trail' = trail \cup {[action |-> "changed", of |-> h.of, evidence |-> {}]}
      /\ raced \subseteq raced'
      /\ \A d \in Cases \ raced' : dossier'[d].closed => dossier'[d].closedAt
  <2>1. CASE ~dossier[h.of].there
    <3>1. UNCHANGED <<dossier, raced>>
        BY <1>1, <2>1 DEF CommitPatch
    <3>2. trail' = trail \/ trail' = trail \cup {[action |-> "changed", of |-> h.of, evidence |-> {}]}
        BY <1>1, <2>1 DEF CommitPatch, Logged
    <3> QED
        BY <3>1, <3>2 DEF DossierInv, DossierRows, DossiersTraced
  <2>2. CASE dossier[h.of].there
    <3>1. PICK closed \in BOOLEAN :
              closed = IF h.patch.closed = "unset" THEN h.loaded.closed ELSE h.patch.closed = "yes"
      <4>1. h.loaded.closed \in BOOLEAN
          BY <1>3 DEF Closing
      <4> QED
          BY <4>1
    <3>2. PICK given \in BOOLEAN :
              given = IF h.patch.closedAt = "unset" THEN h.loaded.closedAt ELSE h.patch.closedAt = "given"
      <4>1. h.loaded.closedAt \in BOOLEAN
          BY <1>3 DEF Closing
      <4> QED
          BY <4>1
    <3>3. PICK closedAt \in BOOLEAN :
              closedAt = IF h.of \in Cases THEN ClosedAt(h.loaded, closed, given) ELSE given
        BY DEF ClosedAt
    <3>4. PICK c, ca \in BOOLEAN :
              /\ c = IF closed # h.loaded.closed THEN closed ELSE dossier[h.of].closed
              /\ ca = IF closedAt # h.loaded.closedAt THEN closedAt ELSE dossier[h.of].closedAt
      <4>1. dossier[h.of].closed \in BOOLEAN /\ dossier[h.of].closedAt \in BOOLEAN
          BY <1>3 DEF Closing
      <4> QED
          BY <4>1
    <3>5. PICK now : now = [dossier[h.of] EXCEPT !.closed = c, !.closedAt = ca]
        OBVIOUS
    <3>6. now \in Closing /\ now.there = dossier[h.of].there /\ now.closed = c /\ now.closedAt = ca
        BY <1>3, <3>4, <3>5 DEF Closing
    <3>7. /\ dossier' = [dossier EXCEPT ![h.of] = now]
          /\ raced' = IF dossier[h.of] # h.loaded THEN raced \cup {h.of} ELSE raced
          /\ trail' = trail \cup {[action |-> "changed", of |-> h.of, evidence |-> {}]}
      <4>1. dossier' = [dossier EXCEPT
                ![h.of].closed = IF closed # h.loaded.closed THEN closed ELSE dossier[h.of].closed,
                ![h.of].closedAt = IF closedAt # h.loaded.closedAt THEN closedAt ELSE dossier[h.of].closedAt]
          BY <1>1, <2>2, <3>1, <3>2, <3>3 DEF CommitPatch
      <4>2. dossier' = [dossier EXCEPT ![h.of].closed = c, ![h.of].closedAt = ca]
          BY <3>4, <4>1, Zenon
      <4>3. /\ raced' = IF dossier[h.of] # h.loaded THEN raced \cup {h.of} ELSE raced
            /\ trail' = trail \cup {[action |-> "changed", of |-> h.of, evidence |-> {}]}
          BY <1>1, <2>2 DEF CommitPatch, Logged
      <4>4. [dossier EXCEPT ![h.of].closed = c, ![h.of].closedAt = ca] = [dossier EXCEPT ![h.of] = now]
        <5>1. dossier \in [Dossiers -> Closing]
            BY DEF DossierInv, DossierRows
        <5>2. PICK m : m = [dossier[h.of] EXCEPT !.closed = c]
            OBVIOUS
        <5>3. [dossier EXCEPT ![h.of].closed = c] = [dossier EXCEPT ![h.of] = m]
            BY <5>2, Zenon
        <5>4. now = [m EXCEPT !.closedAt = ca]
            BY <3>5, <5>2
        <5>5. [[dossier EXCEPT ![h.of] = m] EXCEPT ![h.of].closedAt = ca]
              = [dossier EXCEPT ![h.of] = [m EXCEPT !.closedAt = ca]]
            BY <1>3, <5>1
        <5>6. [dossier EXCEPT ![h.of].closed = c, ![h.of].closedAt = ca]
              = [[dossier EXCEPT ![h.of].closed = c] EXCEPT ![h.of].closedAt = ca]
            OBVIOUS
        <5> QED
            BY <5>3, <5>4, <5>5, <5>6
      <4> QED
          BY <4>2, <4>3, <4>4
    <3>8. h.of \in Cases /\ dossier[h.of] = h.loaded /\ c => ca
        BY <1>3, <3>3, <3>4 DEF ClosedAt, Closing
    <3>9. \A d \in Dossiers : dossier'[d] = IF d = h.of THEN now ELSE dossier[d]
        BY <3>7 DEF DossierInv, DossierRows
    <3>10. \A d \in Cases \ raced' : dossier'[d].closed => dossier'[d].closedAt
        BY <3>6, <3>7, <3>8, <3>9 DEF Dossiers, DossierInv, DossiersTraced
    <3> QED
        BY <3>6, <3>7, <3>9, <3>10 DEF DossierInv, DossierRows
  <2> QED
      BY <2>1, <2>2
<1>6. \A l : l[1] \in Dossiers => Keyed(l)' = Keyed(l)
    BY <1>2, <1>5 DEF Keyed
<1>7. \A action, l : action # "changed" => Said(action, l)' = Said(action, l)
    BY <1>5 DEF Said
<1>8. DossiersTraced'
  <2>1. \A l \in links' : Keyed(l)' /\ Said("attached", l)'
      BY <1>2, <1>6, <1>7 DEF DossierInv, DossierRows, DossiersTraced
  <2>2. \A l \in Dossiers \X Evidence : Said("attached", l)' => l \in links' \/ Said("detached", l)' \/ ~Keyed(l)'
      BY <1>2, <1>6, <1>7 DEF DossierInv, DossiersTraced
  <2>3. \A d \in Dossiers : ~dossier'[d].there => [action |-> "deleted", of |-> d, evidence |-> {}] \in trail'
      BY <1>5 DEF DossierInv, DossiersTraced
  <2> QED
      BY <1>5, <2>1, <2>2, <2>3 DEF DossiersTraced
<1>9. DossierRows'
    BY <1>2, <1>5, FinishedRequest DEF DossierInv, DossierRows, Over
<1>10. \A w \in DossierRequests : handling'[w].at = "loaded" => \A e \in handling'[w].own : Keyed(<<handling[w].of, e>>)'
    BY <1>4, <1>6 DEF DossierInv, Carries
<1> QED
    BY <1>2, <1>4, <1>5, <1>8, <1>9, <1>10, TablesMove

LEMMA DeletedKeeps ==
    ASSUME DossierInv, NEW r \in DossierRequests, CommitDelete(r)
    PROVE  DossierInv'
<1>1. PICK h, gone, t : /\ h = handling[r] /\ gone = [there |-> FALSE, closed |-> FALSE, closedAt |-> FALSE]
                        /\ t = [action |-> "deleted", of |-> h.of, evidence |-> {}]
    OBVIOUS
<1>2. /\ h.at = "loaded" /\ Over(r) /\ UNCHANGED <<iocThere, raced>>
      /\ dossier' = [dossier EXCEPT ![h.of] = gone] /\ trail' = trail \cup {t}
      /\ links' = {l \in links : l[1] # h.of}
      /\ \A w \in DossierRequests : handling[w].of = h.of => handling[w].own = {}
    BY <1>1 DEF CommitDelete, Doing, Logged, Cascaded
<1>3. h \in Request /\ h.of \in Dossiers
    BY <1>1, <1>2, Attaching DEF Carries
<1>4. gone \in Closing /\ ~gone.there /\ ~gone.closed
    BY <1>1 DEF Closing
<1>5. /\ dossier' \in [Dossiers -> Closing]
      /\ \A d \in Dossiers : dossier'[d] = IF d = h.of THEN gone ELSE dossier[d]
    BY <1>2, <1>4 DEF DossierInv, DossierRows
<1>6. \A l : l[1] \in Dossiers => Keyed(l)' = (Keyed(l) /\ l[1] # h.of)
    BY <1>2, <1>4, <1>5 DEF Keyed
<1>7. \A action, l : action # "deleted" => Said(action, l)' = Said(action, l)
    BY <1>1, <1>2 DEF Said
<1>8. DossiersTraced'
  <2>1. \A l \in links' : Keyed(l)' /\ Said("attached", l)'
      BY <1>2, <1>6, <1>7 DEF DossierInv, DossierRows, DossiersTraced
  <2>2. \A l \in Dossiers \X Evidence : Said("attached", l)' => l \in links' \/ Said("detached", l)' \/ ~Keyed(l)'
      BY <1>2, <1>6, <1>7 DEF DossierInv, DossiersTraced
  <2>3. \A d \in Dossiers : ~dossier'[d].there => [action |-> "deleted", of |-> d, evidence |-> {}] \in trail'
      BY <1>1, <1>2, <1>5 DEF DossierInv, DossiersTraced
  <2>4. \A d \in Cases \ raced' : dossier'[d].closed => dossier'[d].closedAt
      BY <1>2, <1>4, <1>5 DEF DossierInv, DossiersTraced, Dossiers
  <2> QED
      BY <2>1, <2>2, <2>3, <2>4 DEF DossiersTraced
<1>9. DossierRows'
    BY <1>2, <1>5, FinishedRequest DEF DossierInv, DossierRows, Over
<1>10. /\ \A w \in DossierRequests : handling'[w] = handling[w] \/ handling'[w].at = "done"
       /\ \A w \in DossierRequests : handling'[w].at = "loaded" => handling'[w] = handling[w]
    BY <1>2, FinishedRequest DEF DossierInv, DossierRows, Over
<1>11. \A w \in DossierRequests : handling'[w].at = "loaded" => \A e \in handling'[w].own : Keyed(<<handling[w].of, e>>)'
  <2> SUFFICES ASSUME NEW w \in DossierRequests, handling'[w].at = "loaded"
               PROVE  \A e \in handling'[w].own : Keyed(<<handling[w].of, e>>)'
      OBVIOUS
  <2>1. PICK q : q = handling'[w]
      OBVIOUS
  <2>2. q = handling[w] /\ Carries(q)
      BY <1>10, <2>1 DEF DossierInv
  <2>3. q.of = h.of => q.own = {}
      BY <1>2, <2>2
  <2>4. \A e \in q.own : Keyed(<<q.of, e>>)'
    <3> TAKE e \in q.own
    <3>1. PICK l : l = <<q.of, e>>
        OBVIOUS
    <3>2. l[1] = q.of /\ l[1] \in Dossiers /\ l[1] # h.of /\ Keyed(l)
        BY <2>2, <2>3, <3>1 DEF Carries
    <3>3. Keyed(l)'
        BY <1>6, <3>2
    <3> QED
        BY <3>1, <3>3
  <2> QED
      BY <2>1, <2>2, <2>4
<1>12. \A l \in links \ links' : ~Keyed(l)'
    BY <1>2, <1>6 DEF DossierInv, DossierRows
<1> QED
    BY <1>2, <1>4, <1>5, <1>8, <1>9, <1>10, <1>11, <1>12, TablesMove

LEMMA SeenIocKeeps ==
    ASSUME DossierInv, NEW i \in SeenIocs, DeleteSeenIoc(i)
    PROVE  DossierInv'
<1>1. /\ iocThere' = iocThere \ {i} /\ links' = {l \in links : l[2] # i}
      /\ UNCHANGED <<dossier, handling, trail, raced>>
      /\ \A r \in DossierRequests : i \notin handling[r].own
    BY DEF DeleteSeenIoc
<1>2. \A l : Keyed(l)' <=> Keyed(l) /\ l[2] # i
  <2>1. \A e : (e \in SeenIocs => e \in iocThere') <=> (e \in SeenIocs => e \in iocThere) /\ e # i
      BY <1>1
  <2> QED
      BY <1>1, <2>1 DEF Keyed
<1>3. \A action, l : Said(action, l)' = Said(action, l)
    BY <1>1 DEF Said
<1>4. DossiersTraced'
  <2>1. \A l \in links' : Keyed(l)' /\ Said("attached", l)'
      BY <1>1, <1>2, <1>3 DEF DossierInv, DossiersTraced
  <2>2. \A l \in Dossiers \X Evidence : Said("attached", l)' => l \in links' \/ Said("detached", l)' \/ ~Keyed(l)'
      BY <1>1, <1>2, <1>3 DEF DossierInv, DossiersTraced
  <2> QED
      BY <1>1, <2>1, <2>2 DEF DossierInv, DossiersTraced
<1>5. DossierRows'
    BY <1>1 DEF DossierInv, DossierRows
<1>6. \A w \in DossierRequests : handling'[w].at = "loaded" => \A e \in handling'[w].own : Keyed(<<handling[w].of, e>>)'
    BY <1>1, <1>2 DEF DossierInv, Carries
<1> QED
    BY <1>1, <1>2, <1>4, <1>5, <1>6, TablesMove

LEMMA DossierStep == DossierInv /\ [CaseworkNext]_caseworkVars => DossierInv'
<1> SUFFICES ASSUME DossierInv, [CaseworkNext]_caseworkVars PROVE DossierInv'
    OBVIOUS
<1>1. CASE UNCHANGED caseworkVars
    BY <1>1 DEF DossierInv, DossierRows, DossiersTraced, Carries, KeptLink, Said, Keyed, caseworkVars
<1>2. CASE \E r \in DossierRequests, d \in Dossiers : LoadDossier(r, d)
    BY <1>2, LoadDossierKeeps
<1>3. CASE \E r \in DossierRequests : LookForLink(r) \/ InsertLink(r)
    BY <1>3, LookKeeps, InsertKeeps
<1>4. CASE \E r \in DossierRequests : CommitAttached(r) \/ CommitDetached(r)
    BY <1>4, AttachedKeeps, DetachedKeeps
<1>5. CASE \E r \in DossierRequests : CommitPatch(r) \/ CommitDelete(r)
    BY <1>5, PatchedKeeps, DeletedKeeps
<1>6. CASE \E i \in SeenIocs : DeleteSeenIoc(i)
    BY <1>6, SeenIocKeeps
<1> QED
    BY <1>1, <1>2, <1>3, <1>4, <1>5, <1>6 DEF CaseworkNext

\* For any cases, campaigns, event ids, indicators and requests: the dossier of every link is
\* there, and its indicator if it has one, though dossiers and indicators are deleted while links
\* are being added (of events nothing is said: their links have no foreign key); the audit log
\* tells of every link that came and of every one that went (attach_events, delete_case, log_audit).
THEOREM DossiersCorrect == CaseworkSpec => []DossiersTraced
<1>1. CaseworkInit => DossierInv
    BY DossierInitInv
<1>2. DossierInv /\ [CaseworkNext]_caseworkVars => DossierInv'
    BY DossierStep
<1>3. DossierInv => DossiersTraced
    BY DEF DossierInv
<1> QED
    BY <1>1, <1>2, <1>3, PTL DEF CaseworkSpec

AuditRow == [action : {"attached", "detached", "changed", "deleted"}, of : Dossiers, evidence : SUBSET Evidence]
Untouched == [there |-> TRUE, closed |-> FALSE, closedAt |-> FALSE]

\* A campaign has nothing that a patch closes, and gets one link by one request.
Standing(h) ==
    /\ h.of \in Dossiers
    /\ h.at # "loaded" => h.own = {} /\ ~h.pending
    /\ h.pending => Head(h.left) \notin h.own
    /\ h.of \notin Cases /\ h.left # <<>> => h.own = {} /\ Tail(h.left) = <<>>
    /\ h.of \notin Cases /\ h.at = "loaded" => h.loaded = Untouched /\ h.patch = NoPatch

\* What DossierInv does not say of the state: no two requests hold a link of one dossier.
CaseRest ==
    /\ iocThere \subseteq SeenIocs /\ raced \subseteq Cases /\ trail \subseteq AuditRow
    /\ \A d \in Dossiers \ Cases : dossier[d].there => dossier[d] = Untouched
    /\ \A r \in DossierRequests : Standing(handling[r])
    /\ \A r, w \in DossierRequests : r # w /\ handling[r].of = handling[w].of => handling[r].own \cap handling[w].own = {}

LEMMA DossierThere == AnyDossier \in Dossiers
BY SomeDossier DEF AnyDossier, Dossiers

LEMMA NewStands ==
    LET over == [NotHandled(AnyDossier) EXCEPT !.at = "done"]
    IN  /\ Standing(NotHandled(AnyDossier)) /\ NotHandled(AnyDossier).own = {}
        /\ Standing(over) /\ over.own = {}
<1> DEFINE n == NotHandled(AnyDossier)
           over == [n EXCEPT !.at = "done"]
<1>1. /\ n.at = "new" /\ n.of = AnyDossier /\ n.own = {} /\ n.pending = FALSE /\ n.left = <<>>
      /\ over.at = "done" /\ over.of = AnyDossier /\ over.own = {} /\ over.pending = FALSE /\ over.left = <<>>
    BY DEF NotHandled
<1> HIDE DEF n, over
<1>2. Standing(n) /\ Standing(over)
    BY <1>1, DossierThere DEF Standing
<1> QED
    BY <1>1, <1>2 DEF n, over

LEMMA CaseRestInit == CaseworkInit => CaseRest
<1> SUFFICES ASSUME CaseworkInit PROVE CaseRest
    OBVIOUS
<1>1. PICK n : n = NotHandled(AnyDossier)
    OBVIOUS
<1>2. \A r \in DossierRequests : handling[r] = n
    BY <1>1 DEF CaseworkInit
<1>3. Standing(n) /\ n.own = {}
    BY <1>1, NewStands
<1>4. \A d \in Dossiers : dossier[d] = Untouched
    BY DEF CaseworkInit, Untouched
<1>5. iocThere = SeenIocs /\ raced = {} /\ trail = {}
    BY DEF CaseworkInit
<1> QED
    BY <1>2, <1>3, <1>4, <1>5 DEF CaseRest

\* Only a request moves.
LEMMA RequestRests ==
    ASSUME DossierInv, CaseRest, UNCHANGED tablesVars, NEW r \in DossierRequests, NEW h,
           handling' = [handling EXCEPT ![r] = h], Standing(h),
           \A w \in DossierRequests \ {r} : handling[w].of = h.of => h.own \cap handling[w].own = {}
    PROVE  CaseRest'
<1>1. \A w \in DossierRequests : handling'[w] = IF w = r THEN h ELSE handling[w]
    BY DEF DossierInv, DossierRows
<1>2. UNCHANGED <<dossier, iocThere, links, trail, raced>>
    BY DEF tablesVars
<1>3. \A w \in DossierRequests : Standing(handling'[w])
    BY <1>1 DEF CaseRest
<1>4. ASSUME NEW v \in DossierRequests, NEW w \in DossierRequests, v # w, handling'[v].of = handling'[w].of
      PROVE  handling'[v].own \cap handling'[w].own = {}
  <2>1. CASE v = r
      BY <1>1, <1>4, <2>1
  <2>2. CASE w = r
      BY <1>1, <1>4, <2>2
  <2>3. CASE v # r /\ w # r
      BY <1>1, <1>4, <2>3 DEF CaseRest
  <2> QED
      BY <2>1, <2>2, <2>3
<1>5. \A w \in DossierRequests : Standing(handling[w])'
    BY <1>3 DEF Standing
<1> QED
    BY <1>2, <1>4, <1>5 DEF CaseRest

\* The request that moves is over.
LEMMA OverRests ==
    ASSUME DossierInv, CaseRest, NEW r \in DossierRequests, Over(r),
           iocThere' \subseteq SeenIocs, raced' \subseteq Cases, trail' \subseteq AuditRow,
           \A d \in Dossiers \ Cases : dossier'[d].there => dossier'[d] = Untouched
    PROVE  CaseRest'
<1>1. PICK over : over = [NotHandled(AnyDossier) EXCEPT !.at = "done"]
    OBVIOUS
<1>2. \A w \in DossierRequests : handling'[w] = IF w = r THEN over ELSE handling[w]
    BY <1>1 DEF Over, DossierInv, DossierRows
<1>3. Standing(over) /\ over.own = {}
    BY <1>1, NewStands
<1>4. \A w \in DossierRequests : Standing(handling'[w])
    BY <1>2, <1>3 DEF CaseRest
<1>5. \A w \in DossierRequests : Standing(handling[w])'
    BY <1>4 DEF Standing
<1>6. \A v, w \in DossierRequests : v # w /\ handling'[v].of = handling'[w].of => handling'[v].own \cap handling'[w].own = {}
    BY <1>2, <1>3 DEF CaseRest
<1> QED
    BY <1>5, <1>6 DEF CaseRest

LEMMA LoadRests ==
    ASSUME DossierInv, CaseRest, NEW r \in DossierRequests, NEW d \in Dossiers, LoadDossier(r, d)
    PROVE  CaseRest'
<1>1. UNCHANGED tablesVars
    BY DEF LoadDossier
<1>2. CASE ~dossier[d].there
  <2>1. Over(r)
      BY <1>2 DEF LoadDossier
  <2> QED
      BY <1>1, <2>1, OverRests DEF CaseRest, tablesVars
<1>3. CASE dossier[d].there
  <2>1. PICK b \in Bodies(d), x \in BOOLEAN : handling' = [handling EXCEPT
                ![r] = [NotHandled(d) EXCEPT !.at = "loaded", !.op = b.op, !.left = b.left, !.names = Names(b.left),
                                             !.patch = b.patch, !.loaded = dossier[d], !.seen = x]]
      BY <1>3 DEF LoadDossier
  <2>2. PICK h : h = [NotHandled(d) EXCEPT !.at = "loaded", !.op = b.op, !.left = b.left, !.names = Names(b.left),
                                           !.patch = b.patch, !.loaded = dossier[d], !.seen = x]
      OBVIOUS
  <2>3. /\ h.of = d /\ h.own = {} /\ h.pending = FALSE /\ h.left = b.left /\ h.patch = b.patch /\ h.loaded = dossier[d]
      BY <2>2 DEF NotHandled
  <2>4. d \notin Cases => b.patch = NoPatch /\ (b.left # <<>> => Tail(b.left) = <<>>)
    <3> SUFFICES ASSUME d \notin Cases PROVE b.patch = NoPatch /\ (b.left # <<>> => Tail(b.left) = <<>>)
        OBVIOUS
    <3>1. \A e : Tail(<<e>>) = <<>>
        OBVIOUS
    <3>2. \/ b \in {[op |-> "attach", left |-> s, patch |-> NoPatch] : s \in {<<e>> : e \in Evidence}}
          \/ b \in {[op |-> "detach", left |-> <<e>>, patch |-> NoPatch] : e \in Evidence}
          \/ b \in {[op |-> "patch", left |-> <<>>, patch |-> p] : p \in {NoPatch}}
          \/ b = [op |-> "delete", left |-> <<>>, patch |-> NoPatch]
        BY DEF Bodies
    <3>3. ASSUME b \in {[op |-> "attach", left |-> s, patch |-> NoPatch] : s \in {<<e>> : e \in Evidence}}
          PROVE  b.patch = NoPatch /\ Tail(b.left) = <<>>
      <4>1. PICK e \in Evidence : b = [op |-> "attach", left |-> <<e>>, patch |-> NoPatch]
          BY <3>3
      <4> QED
          BY <3>1, <4>1
    <3>4. ASSUME b \in {[op |-> "detach", left |-> <<e>>, patch |-> NoPatch] : e \in Evidence}
          PROVE  b.patch = NoPatch /\ Tail(b.left) = <<>>
      <4>1. PICK e \in Evidence : b = [op |-> "detach", left |-> <<e>>, patch |-> NoPatch]
          BY <3>4
      <4> QED
          BY <3>1, <4>1
    <3>5. ASSUME \/ b \in {[op |-> "patch", left |-> <<>>, patch |-> p] : p \in {NoPatch}}
                 \/ b = [op |-> "delete", left |-> <<>>, patch |-> NoPatch]
          PROVE  b.patch = NoPatch /\ b.left = <<>>
        BY <3>5
    <3> QED
        BY <3>2, <3>3, <3>4, <3>5
  <2>5. d \notin Cases => dossier[d] = Untouched
      BY <1>3 DEF CaseRest
  <2>6. h.at = "loaded"
      BY <2>2 DEF NotHandled
  <2>7. Standing(h)
      BY <2>3, <2>4, <2>5, <2>6 DEF Standing
  <2>8. handling' = [handling EXCEPT ![r] = h]
      BY <2>1, <2>2, Zenon
  <2> QED
      BY <1>1, <2>3, <2>7, <2>8, RequestRests
<1> QED
    BY <1>2, <1>3

LEMMA LookRests ==
    ASSUME DossierInv, CaseRest, NEW r \in DossierRequests, LookForLink(r)
    PROVE  CaseRest'
<1>1. /\ handling[r].at = "loaded" /\ handling[r].left # <<>> /\ ~handling[r].pending /\ UNCHANGED tablesVars
    BY DEF LookForLink, Doing
<1>2. PICK h : h = handling[r]
    OBVIOUS
<1>3. h \in Request /\ Standing(h) /\ \A w \in DossierRequests \ {r} : handling[w].of = h.of => h.own \cap handling[w].own = {}
    BY <1>2 DEF CaseRest, DossierInv, DossierRows
<1>4. CASE h.of \in Cases /\ NextLink(r) \in links \cup HeldBy(r)
  <2>1. PICK q : q = [h EXCEPT !.left = Tail(h.left)]
      OBVIOUS
  <2>2. handling' = [handling EXCEPT ![r] = q]
      BY <1>2, <1>4, <2>1 DEF LookForLink
  <2>3. /\ q.at = h.at /\ q.of = h.of /\ q.own = h.own /\ q.pending = h.pending
      BY <1>3, <2>1 DEF Request
  <2>4. Standing(q)
      BY <1>1, <1>2, <1>3, <1>4, <2>3 DEF Standing
  <2> QED
      BY <1>1, <1>3, <2>2, <2>3, <2>4, RequestRests
<1>5. CASE ~(h.of \in Cases /\ NextLink(r) \in links \cup HeldBy(r))
  <2>1. PICK q : q = [h EXCEPT !.pending = TRUE]
      OBVIOUS
  <2>2. handling' = [handling EXCEPT ![r] = q]
      BY <1>2, <1>5, <2>1 DEF LookForLink
  <2>3. /\ q.at = h.at /\ q.of = h.of /\ q.own = h.own /\ q.left = h.left /\ q.loaded = h.loaded /\ q.patch = h.patch
      BY <1>3, <2>1 DEF Request
  <2>4. Head(h.left) \notin h.own
    <3>1. CASE h.of \in Cases
        BY <1>2, <1>5, <3>1 DEF NextLink, HeldBy
    <3>2. CASE h.of \notin Cases
        BY <1>1, <1>2, <1>3, <3>2 DEF Standing
    <3> QED
        BY <3>1, <3>2
  <2>5. Standing(q)
      BY <1>1, <1>2, <1>3, <2>3, <2>4 DEF Standing
  <2>6. \A w \in DossierRequests \ {r} : handling[w].of = q.of => q.own \cap handling[w].own = {}
      BY <1>3, <2>3
  <2> QED
      BY <1>1, <2>2, <2>5, <2>6, RequestRests
<1> QED
    BY <1>4, <1>5

LEMMA InsertRests ==
    ASSUME DossierInv, CaseRest, NEW r \in DossierRequests, InsertLink(r)
    PROVE  CaseRest'
<1>1. /\ handling[r].at = "loaded" /\ handling[r].op = "attach" /\ handling[r].pending /\ UNCHANGED tablesVars
    BY DEF InsertLink, Doing
<1>2. PICK h : h = handling[r]
    OBVIOUS
<1>3. /\ h \in Request /\ Standing(h) /\ Carries(h)
      /\ \A w \in DossierRequests \ {r} : handling[w].of = h.of => h.own \cap handling[w].own = {}
    BY <1>1, <1>2 DEF CaseRest, DossierInv, DossierRows
<1>4. h.left # <<>> /\ Tail(h.left) \in Seq(Evidence)
    BY <1>1, <1>2, <1>3, NamesOf DEF Carries, Request
<1>5. PICK taken : taken = [h EXCEPT !.left = Tail(h.left), !.pending = FALSE]
    OBVIOUS
<1>6. /\ taken \in Request /\ taken.at = "loaded" /\ taken.of = h.of /\ taken.own = h.own /\ taken.left = Tail(h.left)
      /\ ~taken.pending /\ taken.loaded = h.loaded /\ taken.patch = h.patch
    BY <1>1, <1>2, <1>3, <1>4, <1>5 DEF Request
<1>7. CASE Over(r)
    BY <1>1, <1>7, OverRests DEF CaseRest, tablesVars
<1>8. CASE handling' = [handling EXCEPT ![r] = taken]
  <2>1. Standing(taken)
      BY <1>1, <1>2, <1>3, <1>4, <1>6 DEF Standing
  <2> QED
      BY <1>1, <1>3, <1>6, <1>8, <2>1, RequestRests
<1>9. CASE ~Waits(r) /\ handling' = [handling EXCEPT ![r] = [taken EXCEPT !.own = @ \cup {NextLink(r)[2]}]]
  <2>1. PICK e : e = Head(h.left)
      OBVIOUS
  <2>2. NextLink(r) = <<h.of, e>>
      BY <1>2, <2>1 DEF NextLink
  <2>3. PICK q : q = [taken EXCEPT !.own = h.own \cup {e}]
      OBVIOUS
  <2>4. handling' = [handling EXCEPT ![r] = q]
      BY <1>6, <1>9, <2>2, <2>3
  <2>5. /\ q.at = "loaded" /\ q.of = h.of /\ q.own = h.own \cup {e} /\ q.left = Tail(h.left)
        /\ ~q.pending /\ q.loaded = h.loaded /\ q.patch = h.patch
      BY <1>6, <2>3 DEF Request
  <2>6. Standing(q)
      BY <1>1, <1>2, <1>3, <1>4, <2>5 DEF Standing
  <2>7. ASSUME NEW w \in DossierRequests \ {r}, handling[w].of = h.of PROVE q.own \cap handling[w].own = {}
    <3>1. <<h.of, e>> \notin HeldBy(r)
        BY <1>1, <1>2, <1>3, <2>1 DEF HeldBy, Standing
    <3>2. <<h.of, e>> \notin Held
        BY <1>1, <1>2, <1>9, <2>2, <3>1 DEF Waits, Doing
    <3>3. e \notin handling[w].own
        BY <2>7, <3>2 DEF Held
    <3> QED
        BY <1>3, <2>5, <2>7, <3>3
  <2>8. \A w \in DossierRequests \ {r} : handling[w].of = q.of => q.own \cap handling[w].own = {}
      BY <2>5, <2>7
  <2> QED
      BY <1>1, <2>4, <2>6, <2>8, RequestRests
<1> QED
    BY <1>2, <1>5, <1>7, <1>8, <1>9 DEF InsertLink

\* What a request that commits writes down.
LEMMA AuditRests ==
    ASSUME DossierInv, CaseRest, NEW r \in DossierRequests, handling[r].at = "loaded"
    PROVE  /\ \A action \in {"attached", "detached"} :
                 trail \cup {[action |-> action, of |-> handling[r].of, evidence |-> handling[r].names]} \subseteq AuditRow
           /\ \A action \in {"changed", "deleted"} :
                 trail \cup {[action |-> action, of |-> handling[r].of, evidence |-> {}]} \subseteq AuditRow
<1>1. PICK of, names : of = handling[r].of /\ names = handling[r].names
    OBVIOUS
<1>2. of \in Dossiers /\ names \in SUBSET Evidence /\ {} \in SUBSET Evidence
    BY <1>1, Attaching DEF Carries, Request
<1>3. ASSUME NEW action \in {"attached", "detached", "changed", "deleted"}, NEW evidence \in SUBSET Evidence
      PROVE  trail \cup {[action |-> action, of |-> of, evidence |-> evidence]} \subseteq AuditRow
    BY <1>2 DEF CaseRest, AuditRow
<1> QED
    BY <1>1, <1>2, <1>3

LEMMA CommitRests ==
    ASSUME DossierInv, CaseRest, NEW r \in DossierRequests, CommitAttached(r) \/ CommitDetached(r) \/ CommitDelete(r)
    PROVE  CaseRest'
<1>1. handling[r].at = "loaded" /\ Over(r) /\ UNCHANGED <<iocThere, raced>>
    BY DEF CommitAttached, CommitDetached, CommitDelete, Doing
<1>2. trail' \subseteq AuditRow
    BY <1>1, AuditRests DEF CommitAttached, CommitDetached, CommitDelete, Logged
<1>3. \A d \in Dossiers \ Cases : dossier'[d].there => dossier'[d] = Untouched
  <2>1. CASE dossier' = dossier
      BY <2>1 DEF CaseRest
  <2>2. CASE CommitDelete(r)
    <3>1. PICK gone : gone = [there |-> FALSE, closed |-> FALSE, closedAt |-> FALSE]
        OBVIOUS
    <3>2. ~gone.there /\ \A d \in Dossiers : dossier'[d] = IF d = handling[r].of THEN gone ELSE dossier[d]
        BY <2>2, <3>1 DEF CommitDelete, DossierInv, DossierRows
    <3> QED
        BY <3>2 DEF CaseRest
  <2> QED
      BY <2>1, <2>2 DEF CommitAttached, CommitDetached
<1> QED
    BY <1>1, <1>2, <1>3, OverRests DEF CaseRest

\* The patch of a campaign writes what it has loaded, which nothing else changes.
LEMMA PatchRests ==
    ASSUME DossierInv, CaseRest, NEW r \in DossierRequests, CommitPatch(r)
    PROVE  CaseRest'
<1>1. handling[r].at = "loaded" /\ Over(r) /\ UNCHANGED iocThere
    BY DEF CommitPatch, Doing
<1>2. PICK h, now : h = handling[r] /\ now = dossier[h.of]
    OBVIOUS
<1>3. h.of \in Dossiers /\ Standing(h) /\ now \in Closing
    BY <1>1, <1>2, Attaching DEF Carries, CaseRest, DossierInv, DossierRows
<1>4. trail' \subseteq AuditRow
  <2>1. trail' = trail \/ trail' = trail \cup {[action |-> "changed", of |-> handling[r].of, evidence |-> {}]}
      BY DEF CommitPatch, Logged
  <2> QED
      BY <1>1, <2>1, AuditRests DEF CaseRest
<1>5. ASSUME h.of \notin Cases, now.there PROVE raced' = raced /\ dossier' = dossier
  <2>1. h.loaded = Untouched /\ h.patch = NoPatch /\ now = Untouched
      BY <1>1, <1>2, <1>3, <1>5 DEF Standing, CaseRest
  <2>2. /\ Untouched.closed = FALSE /\ Untouched.closedAt = FALSE
        /\ NoPatch.closed = "unset" /\ NoPatch.closedAt = "unset"
      BY DEF Untouched, NoPatch
  <2>3. raced' = raced
      BY <1>2, <1>5, <2>1 DEF CommitPatch
  <2>4. dossier' = [dossier EXCEPT ![h.of].closed = @, ![h.of].closedAt = @]
      BY <1>2, <1>5, <2>1, <2>2 DEF CommitPatch
  <2>5. dossier' = dossier
      BY <1>3, <2>4 DEF DossierInv, DossierRows, Closing
  <2> QED
      BY <2>3, <2>5
<1>6. CASE ~now.there
  <2>1. raced' = raced /\ dossier' = dossier
      BY <1>2, <1>6 DEF CommitPatch
  <2> QED
      BY <1>1, <1>4, <2>1, OverRests DEF CaseRest
<1>7. CASE now.there /\ h.of \notin Cases
    BY <1>1, <1>4, <1>5, <1>7, OverRests DEF CaseRest
<1>8. CASE now.there /\ h.of \in Cases
  <2>1. raced' \subseteq Cases
      BY <1>2, <1>8 DEF CommitPatch, CaseRest
  <2>2. \A d \in Dossiers \ {h.of} : dossier'[d] = dossier[d]
      BY <1>2, <1>8 DEF CommitPatch, DossierInv, DossierRows
  <2> QED
      BY <1>1, <1>4, <1>8, <2>1, <2>2, OverRests DEF CaseRest
<1> QED
    BY <1>6, <1>7, <1>8

LEMMA CaseRestNext == DossierInv /\ CaseRest /\ [CaseworkNext]_caseworkVars => CaseRest'
<1> SUFFICES ASSUME DossierInv, CaseRest, [CaseworkNext]_caseworkVars PROVE CaseRest'
    OBVIOUS
<1>1. CASE UNCHANGED caseworkVars
    BY <1>1 DEF caseworkVars, CaseRest, Standing
<1>2. CASE \E i \in SeenIocs : DeleteSeenIoc(i)
  <2>1. iocThere' \subseteq iocThere /\ UNCHANGED <<dossier, handling, trail, raced>>
      BY <1>2 DEF DeleteSeenIoc
  <2> QED
      BY <2>1 DEF CaseRest, Standing
<1> QED
    BY <1>1, <1>2, LoadRests, LookRests, InsertRests, CommitRests, PatchRests DEF CaseworkNext

LEMMA CaseworkTyped == DossierInv /\ CaseRest => CaseworkTypeOK
<1> SUFFICES ASSUME DossierInv, CaseRest PROVE CaseworkTypeOK
    OBVIOUS
<1>1. ASSUME NEW r \in DossierRequests
      PROVE  LET h == handling[r] IN
             /\ h.at \in {"new", "loaded", "done"} /\ h.op \in DossierOps \cup {"none"} /\ h.of \in Dossiers
             /\ h.left \in Seq(Evidence) /\ h.own \subseteq h.names /\ h.names \subseteq Evidence
             /\ h.patch \in Patches /\ h.loaded \in Closing
             /\ h.pending => h.left # <<>> /\ Head(h.left) \notin h.own
             /\ \A w \in DossierRequests \ {r} : handling[w].of = h.of => h.own \cap handling[w].own = {}
             /\ (\E e \in h.own : h.at = "loaded") => dossier[h.of].there
  <2>1. PICK h : h = handling[r]
      OBVIOUS
  <2>2. h \in Request /\ Standing(h) /\ (h.at = "loaded" => Carries(h))
      BY <2>1 DEF DossierInv, DossierRows, CaseRest
  <2>3. \A w \in DossierRequests \ {r} : handling[w].of = h.of => h.own \cap handling[w].own = {}
      BY <2>1 DEF CaseRest
  <2>4. /\ h.at \in {"new", "loaded", "done"} /\ h.op \in DossierOps \cup {"none"} /\ h.of \in Dossiers
        /\ h.left \in Seq(Evidence) /\ h.names \subseteq Evidence
        /\ h.patch \in Patches /\ h.loaded \in Closing
      BY <2>2 DEF Request, Standing
  <2>5. h.own \subseteq h.names
      BY <2>2 DEF Standing, Carries
  <2>6. h.pending => h.left # <<>> /\ Head(h.left) \notin h.own
      BY <2>2 DEF Standing, Carries
  <2>7. ASSUME NEW e \in h.own, h.at = "loaded" PROVE dossier[h.of].there
      BY <2>2, <2>7 DEF Carries, Keyed
  <2> QED
      BY <2>1, <2>3, <2>4, <2>5, <2>6, <2>7
<1> QED
    BY <1>1 DEF DossierInv, DossierRows, CaseRest, CaseworkTypeOK, AuditRow

\* For any dossiers, evidence and requests: no two requests hold an uncommitted link of one dossier to
\* one thing, each holds only what it was asked to attach, and only while its dossier is there
\* (attach_events, attach_iocs, link_event_to_campaign); and only cases are raced.
THEOREM CaseworkTypeCorrect == CaseworkSpec => []CaseworkTypeOK
BY DossierInitInv, DossierStep, CaseRestInit, CaseRestNext, CaseworkTyped, PTL DEF CaseworkSpec

-----------------------------------------------------------------------------
(* Backfill *)

\* The events before another, of those that are there.
Before(S, e) == {f \in S : f < e}

LEMMA LeastNatural ==
    ASSUME NEW N \in SUBSET Nat, N # {}
    PROVE  \E n \in N : \A m \in N : n <= m
<1>1. PICK n \in N : \A m \in N : <<m, n>> \notin OpToRel(<, Nat)
    BY WFMin, NatLessThanWellFounded
<1>2. \A m \in N : ~(m < n)
    BY <1>1 DEF OpToRel
<1> QED
    BY <1>2

LEMMA RanksGrow ==
    ASSUME NEW S \in SUBSET Int, IsFiniteSet(S), NEW e \in S, NEW f \in S, e < f
    PROVE  /\ Cardinality(Before(S, e)) \in Nat /\ Cardinality(Before(S, f)) \in Nat
           /\ Cardinality(Before(S, e)) < Cardinality(Before(S, f))
<1>1. Before(S, e) \subseteq S /\ Before(S, f) \subseteq S
    BY DEF Before
<1>2. IsFiniteSet(Before(S, e)) /\ IsFiniteSet(Before(S, f))
    BY <1>1, FS_Subset
<1>3. \A x \in S : x < e => x < f
    OBVIOUS
<1>4. e \in Before(S, f) /\ e \notin Before(S, e)
    BY DEF Before
<1>5. Before(S, e) \subseteq Before(S, f)
    BY <1>3 DEF Before
<1> QED
    BY <1>2, <1>4, <1>5, FS_Subset, FS_CardinalityType

\* A rank that is passed is held: ranks leave no gap.
LEMMA NoGap ==
    ASSUME NEW S \in SUBSET Int, IsFiniteSet(S), NEW o \in Nat,
           NEW e \in S, o <= Cardinality(Before(S, e))
    PROVE  \E f \in S : Cardinality(Before(S, f)) = o
<1> DEFINE rank(x) == Cardinality(Before(S, x))
           late == {x \in S : o <= rank(x)}
           ranks == {rank(x) : x \in late}
<1>1. \A x \in S : IsFiniteSet(Before(S, x)) /\ rank(x) \in Nat
  <2> SUFFICES ASSUME NEW x \in S PROVE IsFiniteSet(Before(S, x)) /\ rank(x) \in Nat
      OBVIOUS
  <2>1. Before(S, x) \subseteq S
      BY DEF Before
  <2> QED
      BY <2>1, FS_Subset, FS_CardinalityType
<1>2. ranks \in SUBSET Nat /\ ranks # {}
    BY <1>1
<1>3. PICK n \in ranks : \A m \in ranks : n <= m
    BY <1>2, LeastNatural
<1>4. PICK f \in late : n = rank(f)
    OBVIOUS
<1>5. \A x \in S : o <= rank(x) => rank(f) <= rank(x)
    BY <1>3, <1>4
<1> HIDE DEF rank
<1>6. \A x \in Before(S, f) : x \in S /\ x < f /\ rank(x) \in 0..(o - 1)
  <2> SUFFICES ASSUME NEW x \in Before(S, f) PROVE x \in S /\ x < f /\ rank(x) \in 0..(o - 1)
      OBVIOUS
  <2>1. x \in S /\ x < f
      BY DEF Before
  <2>2. rank(x) < rank(f) /\ rank(x) \in Nat /\ rank(f) \in Nat
      BY <2>1, RanksGrow DEF rank
  <2>3. rank(x) < o
      BY <1>5, <2>1, <2>2
  <2> QED
      BY <2>1, <2>2, <2>3
<1>7. rank(f) <= o
  <2> DEFINE r == [x \in Before(S, f) |-> rank(x)]
  <2>1. r \in [Before(S, f) -> 0..(o - 1)]
      BY <1>6
  <2>2. \A x, y \in Before(S, f) : x # y => r[x] # r[y]
    <3> SUFFICES ASSUME NEW x \in Before(S, f), NEW y \in Before(S, f), x # y PROVE rank(x) # rank(y)
        OBVIOUS
    <3>1. x \in S /\ y \in S
        BY <1>6
    <3>2. x < y \/ y < x
        BY <3>1
    <3> QED
        BY <3>1, <3>2, RanksGrow DEF rank
  <2>3. IsFiniteSet(0..(o - 1)) /\ Cardinality(0..(o - 1)) = o
    <3>1. o - 1 \in Int /\ 0 \in Int
        OBVIOUS
    <3>2. IsFiniteSet(0..(o - 1)) /\ Cardinality(0..(o - 1)) = IF 0 > o - 1 THEN 0 ELSE (o - 1) - 0 + 1
        BY <3>1, FS_Interval
    <3> QED
        BY <3>2
  <2>4. IsFiniteSet(Before(S, f))
      BY <1>1
  <2> HIDE DEF r
  <2>5. ~(Cardinality(Before(S, f)) > Cardinality(0..(o - 1)))
      BY <2>1, <2>2, <2>3, <2>4, FS_PigeonHole
  <2> QED
      BY <1>1, <2>3, <2>5 DEF rank
<1>8. f \in S /\ o <= rank(f)
    OBVIOUS
<1>9. rank(f) \in Nat
    BY <1>1, <1>8
<1> HIDE DEF rank, late, ranks
<1>10. rank(f) = o
    BY <1>7, <1>8, <1>9
<1> QED
    BY <1>8, <1>10 DEF rank

-----------------------------------------------------------------------------
\* What was there when it began is there, unless one was deleted; what is before the offset has
\* been read.
BackfillRow == [status : {"none", "running", "complete", "failed"}, offset : Nat, began : SUBSET EventIds,
                found : SUBSET EventIds, removed : BOOLEAN, aborted : BOOLEAN]
BackfillInv ==
    /\ storedEvents \subseteq EventIds /\ IsFiniteSet(storedEvents)
    /\ backfill \in BackfillRow
    /\ backfill.status = "running" /\ ~backfill.removed =>
          /\ backfill.began \subseteq storedEvents
          /\ backfill.aborted \/ \A e \in backfill.began : Rank(e) < backfill.offset => e \in backfill.found
    /\ BackfillReaches

LEMMA RankIs == \A e : Rank(e) = Cardinality(Before(storedEvents, e))
BY DEF Rank, Before

LEMMA RankCounts ==
    ASSUME BackfillInv, NEW e \in storedEvents
    PROVE  Rank(e) \in Nat
<1>1. {f \in storedEvents : f < e} \subseteq storedEvents
    OBVIOUS
<1> QED
    BY <1>1, FS_Subset, FS_CardinalityType DEF Rank, BackfillInv

LEMMA EmptyPageIsPast ==
    ASSUME BackfillInv, PageAt(backfill.offset) = {}, NEW e \in storedEvents
    PROVE  Rank(e) < backfill.offset
<1>1. SUFFICES ASSUME backfill.offset <= Rank(e) PROVE FALSE
    BY RankCounts DEF BackfillInv, BackfillRow
<1>2. storedEvents \in SUBSET Int /\ IsFiniteSet(storedEvents) /\ backfill.offset \in Nat
    BY BackfillAssumption DEF BackfillInv, BackfillRow
<1>3. PICK f \in storedEvents : Rank(f) = backfill.offset
    BY <1>1, <1>2, NoGap, RankIs
<1>4. f \in PageAt(backfill.offset)
    BY <1>2, <1>3, BackfillAssumption DEF PageAt
<1> QED
    BY <1>4

LEMMA BackfillStep ==
    ASSUME BackfillInv, [BackfillNext]_backfillVars
    PROVE  BackfillInv'
<1> USE DEF BackfillInv, BackfillRow
<1>1. CASE StartBackfill
  <2>1. UNCHANGED storedEvents /\ backfill' = [NoBackfill EXCEPT !.status = "running", !.began = storedEvents]
      BY <1>1 DEF StartBackfill
  <2>2. /\ backfill'.offset = 0 /\ backfill'.began = storedEvents /\ backfill'.status = "running"
        /\ backfill' \in BackfillRow
      BY <2>1 DEF NoBackfill
  <2>3. \A e \in storedEvents : ~(Rank(e) < 0)
      BY RankCounts
  <2>4. \A e \in storedEvents : ~(Rank(e)' < 0)
      BY <2>1, <2>3 DEF Rank
  <2> QED
      BY <2>1, <2>2, <2>4 DEF BackfillReaches
<1>2. CASE BackfillPage
  <2>1. PICK aborted \in BOOLEAN :
            backfill' = [backfill EXCEPT !.offset = NextOffset, !.aborted = @ \/ aborted,
                                         !.found = IF aborted THEN @ ELSE @ \cup PageAt(backfill.offset)]
      BY <1>2 DEF BackfillPage
  <2>2. UNCHANGED storedEvents /\ backfill.status = "running"
      BY <1>2 DEF BackfillPage
  <2> DEFINE page == PageAt(backfill.offset)
             found == IF aborted THEN backfill.found ELSE backfill.found \cup page
             next == [backfill EXCEPT !.offset = backfill.offset + Page, !.aborted = @ \/ aborted, !.found = found]
  <2>3. backfill' = next
      BY <2>1 DEF NextOffset
  <2>4. /\ next.offset = backfill.offset + Page /\ next.found = found
        /\ next.aborted = (backfill.aborted \/ aborted)
        /\ UNCHANGED <<backfill.status, backfill.removed, backfill.began>>
    <3>1. backfill \in [status : {"none", "running", "complete", "failed"}, offset : Nat, began : SUBSET EventIds,
                        found : SUBSET EventIds, removed : BOOLEAN, aborted : BOOLEAN]
        OBVIOUS
    <3>2. backfill = [status |-> backfill.status, offset |-> backfill.offset, began |-> backfill.began,
                      found |-> backfill.found, removed |-> backfill.removed, aborted |-> backfill.aborted]
        BY <3>1
    <3> HIDE DEF found, page, BackfillInv, BackfillRow
    <3>3. DOMAIN backfill = {"status", "offset", "began", "found", "removed", "aborted"}
        BY <3>2
    <3> QED
        BY <2>3, <3>3
  <2>5. \A e \in storedEvents : Rank(e) < backfill.offset + Page => Rank(e) < backfill.offset \/ e \in page
      BY RankCounts, BackfillAssumption DEF PageAt
  <2>6. backfill.offset + Page \in Nat
      BY BackfillAssumption
  <2>7. backfill' \in BackfillRow
    <3>1. found \in SUBSET EventIds
        BY DEF PageAt
    <3> HIDE DEF found
    <3> QED
        BY <2>3, <2>6, <3>1
  <2> QED
      BY <2>2, <2>3, <2>4, <2>5, <2>7 DEF Rank, BackfillReaches
<1>3. CASE EndBackfill
  <2>1. UNCHANGED <<storedEvents, backfill.offset, backfill.removed, backfill.aborted, backfill.began, backfill.found>>
      BY <1>3 DEF EndBackfill
  <2>2. backfill.status = "running" /\ \/ PageAt(backfill.offset) = {} /\ backfill'.status = "complete"
                                       \/ backfill'.status = "failed"
      BY <1>3 DEF EndBackfill
  <2>3. BackfillReaches'
      BY <2>1, <2>2, EmptyPageIsPast DEF BackfillReaches
  <2>4. backfill' \in BackfillRow
      BY <1>3 DEF EndBackfill
  <2> QED
      BY <2>1, <2>2, <2>3, <2>4
<1>4. ASSUME NEW e \in EventIds, StoreEvent(e) PROVE BackfillInv'
  <2>1. storedEvents' = storedEvents \cup {e} /\ UNCHANGED backfill
      BY <1>4 DEF StoreEvent
  <2>2. IsFiniteSet(storedEvents')
      BY <2>1, FS_AddElement
  <2>3. \A f \in storedEvents : Rank(f) <= Rank(f)'
    <3> SUFFICES ASSUME NEW f \in storedEvents PROVE Rank(f) <= Rank(f)'
        OBVIOUS
    <3>1. {g \in storedEvents : g < f} \subseteq {g \in storedEvents' : g < f}
        BY <2>1
    <3>2. IsFiniteSet({g \in storedEvents' : g < f})
        BY <2>2, FS_Subset
    <3> QED
        BY <3>1, <3>2, FS_Subset DEF Rank
  <2>4. \A f \in storedEvents : Rank(f) \in Nat /\ Rank(f)' \in Nat
    <3> SUFFICES ASSUME NEW f \in storedEvents PROVE Rank(f) \in Nat /\ Rank(f)' \in Nat
        OBVIOUS
    <3>1. IsFiniteSet({g \in storedEvents' : g < f})
        BY <2>2, FS_Subset
    <3> QED
        BY <3>1, RankCounts, FS_CardinalityType DEF Rank
  <2> QED
      BY <2>1, <2>2, <2>3, <2>4 DEF BackfillReaches
<1>5. ASSUME NEW e \in EventIds, ArchiveEvent(e) PROVE BackfillInv'
  <2>1. storedEvents' = storedEvents \ {e}
      BY <1>5 DEF ArchiveEvent
  <2>2. IsFiniteSet(storedEvents') /\ storedEvents' \subseteq EventIds
      BY <2>1, FS_RemoveElement
  <2>3. /\ UNCHANGED <<backfill.status, backfill.offset, backfill.began, backfill.found, backfill.aborted>>
        /\ backfill'.removed = (backfill.removed \/ backfill.status = "running")
        /\ backfill' \in BackfillRow
      BY <1>5 DEF ArchiveEvent
  <2> QED
      BY <2>2, <2>3 DEF BackfillReaches
<1>6. CASE UNCHANGED backfillVars
    BY <1>6 DEF backfillVars, BackfillReaches, Rank
<1> QED
    BY <1>1, <1>2, <1>3, <1>4, <1>5, <1>6 DEF BackfillNext

\* A backfill that is complete has been through every event that was there when it began, however
\* the feeds store events between its pages, unless one was deleted or a page was aborted.
THEOREM BackfillCorrect == BackfillSpec => []BackfillReaches
<1>1. BackfillInit => BackfillInv
    BY FS_EmptySet DEF BackfillInit, BackfillInv, BackfillRow, NoBackfill, BackfillReaches
<1>2. BackfillInv /\ [BackfillNext]_backfillVars => BackfillInv'
    BY BackfillStep
<1>3. BackfillInv => BackfillReaches
    BY DEF BackfillInv
<1> QED
    BY <1>1, <1>2, <1>3, PTL DEF BackfillSpec

\* What BackfillInv does not say of the state: a page adds no more rows than it is wide.
BackfillRest ==
    /\ archived \in 0..MaxArchived
    /\ backfill.offset % Page = 0
    /\ IsFiniteSet(backfill.found) /\ Cardinality(backfill.found) <= backfill.offset
    /\ backfill.removed => archived > 0
    /\ backfill.status = "none" => backfill = NoBackfill

LEMMA MultiplesAdd ==
    ASSUME NEW n \in Nat, NEW p \in Nat \ {0}, n % p = 0
    PROVE  (n + p) % p = 0
<1>1. PICK q \in Int : n = p * q
    OBVIOUS
<1>2. PICK x \in Int, m \in Int, d \in Int : x = n + p /\ m = x % p /\ d = x \div p
  <2>1. PICK x \in Int : x = n + p
      OBVIOUS
  <2>2. x % p \in Int /\ x \div p \in Int
      OBVIOUS
  <2> QED
      BY <2>1, <2>2
<1>3. m \in 0..(p - 1) /\ x = p * d + m
    BY <1>2
<1>4. PICK e \in Int : e = q + 1 - d
    OBVIOUS
<1>5. p * e = p * q + p - p * d
    BY <1>4
<1>6. p * e = m
  <2>1. p * q \in Int /\ p * d \in Int /\ p * e \in Int
      OBVIOUS
  <2> QED
      BY <1>1, <1>2, <1>5, <1>3, <2>1
<1>7. e = 0
  <2>1. CASE e >= 1
    <3>1. p * e >= p
        BY <2>1
    <3> QED
        BY <1>3, <1>6, <3>1
  <2>2. CASE e <= -1
    <3>1. p * e <= -p
        BY <2>2
    <3> QED
        BY <1>3, <1>6, <3>1
  <2> QED
      BY <2>1, <2>2
<1> QED
    BY <1>2, <1>6, <1>7

\* The rows of a page have as many ranks, and the ranks of a page are as many as it is wide.
LEMMA PageWide ==
    ASSUME NEW S \in SUBSET Int, IsFiniteSet(S), NEW o \in Nat,
           NEW page \in SUBSET S, \A e \in page : o <= Cardinality(Before(S, e)) /\ Cardinality(Before(S, e)) < o + Page
    PROVE  IsFiniteSet(page) /\ Cardinality(page) \in Nat /\ Cardinality(page) <= Page
<1> DEFINE rank(x) == Cardinality(Before(S, x))
           r == [x \in page |-> rank(x)]
<1>1. IsFiniteSet(page) /\ Cardinality(page) \in Nat
    BY FS_Subset, FS_CardinalityType
<1>2. \A x \in S : rank(x) \in Nat
  <2> SUFFICES ASSUME NEW x \in S PROVE rank(x) \in Nat
      OBVIOUS
  <2>1. Before(S, x) \subseteq S
      BY DEF Before
  <2> QED
      BY <2>1, FS_Subset, FS_CardinalityType
<1>3. Page \in Nat \ {0}
    BY BackfillAssumption
<1>4. r \in [page -> o..(o + Page - 1)]
    BY <1>2, <1>3
<1>5. \A x, y \in page : x # y => r[x] # r[y]
  <2> SUFFICES ASSUME NEW x \in page, NEW y \in page, x # y PROVE rank(x) # rank(y)
      OBVIOUS
  <2>1. x < y \/ y < x
      OBVIOUS
  <2> QED
      BY <2>1, RanksGrow
<1>6. IsFiniteSet(o..(o + Page - 1)) /\ Cardinality(o..(o + Page - 1)) = Page
  <2>1. o \in Int /\ o + Page - 1 \in Int
      BY <1>3
  <2>2. /\ IsFiniteSet(o..(o + Page - 1))
        /\ Cardinality(o..(o + Page - 1)) = IF o > o + Page - 1 THEN 0 ELSE (o + Page - 1) - o + 1
      BY <2>1, FS_Interval
  <2> QED
      BY <1>3, <2>2
<1> HIDE DEF r
<1>7. ~(Cardinality(page) > Cardinality(o..(o + Page - 1)))
    BY <1>1, <1>4, <1>5, <1>6, FS_PigeonHole
<1> QED
    BY <1>1, <1>3, <1>6, <1>7

LEMMA BackfillRestInit == BackfillInit => BackfillRest
<1> SUFFICES ASSUME BackfillInit PROVE BackfillRest
    OBVIOUS
<1>1. /\ backfill = NoBackfill /\ backfill.status = "none" /\ backfill.offset = 0 /\ backfill.found = {}
      /\ backfill.removed = FALSE /\ archived = 0
    BY DEF BackfillInit, NoBackfill
<1>2. Page \in Nat \ {0} /\ MaxArchived \in Nat
    BY BackfillAssumption
<1>3. 0 % Page = 0
    BY <1>2
<1> QED
    BY <1>1, <1>2, <1>3, FS_EmptySet DEF BackfillRest

LEMMA BackfillRestNext == BackfillInv /\ BackfillRest /\ [BackfillNext]_backfillVars => BackfillRest'
<1> SUFFICES ASSUME BackfillInv, BackfillRest, [BackfillNext]_backfillVars PROVE BackfillRest'
    OBVIOUS
<1>0. /\ Page \in Nat \ {0} /\ MaxArchived \in Nat /\ EventIds \subseteq Int /\ archived \in Nat
      /\ backfill \in BackfillRow
    BY BackfillAssumption DEF BackfillInv, BackfillRest
<1>1. CASE StartBackfill
  <2>1. /\ backfill'.status = "running" /\ backfill'.offset = 0 /\ backfill'.found = {}
        /\ backfill'.removed = FALSE /\ archived' = archived
      BY <1>1 DEF StartBackfill, NoBackfill
  <2>2. 0 % Page = 0
      BY <1>0
  <2> QED
      BY <2>1, <2>2, FS_EmptySet DEF BackfillRest
<1>2. CASE BackfillPage
  <2>1. PICK n \in Nat, found \in SUBSET backfill.found : n = backfill.offset /\ found = backfill.found
      BY <1>0 DEF BackfillRow
  <2>2. PICK aborted \in BOOLEAN :
          backfill' = [backfill EXCEPT !.offset = NextOffset, !.aborted = @ \/ aborted,
                                       !.found = IF aborted THEN @ ELSE @ \cup PageAt(n)]
      BY <1>2, <2>1 DEF BackfillPage
  <2>3. /\ backfill'.status = "running" /\ backfill'.offset = n + Page /\ backfill'.removed = backfill.removed
        /\ backfill'.found \in {found, found \cup PageAt(n)} /\ archived' = archived
      BY <1>0, <1>2, <2>1, <2>2 DEF BackfillPage, NextOffset, BackfillRow
  <2>4. (n + Page) % Page = 0
      BY <1>0, <2>1, MultiplesAdd DEF BackfillRest
  <2>5. IsFiniteSet(PageAt(n)) /\ Cardinality(PageAt(n)) \in Nat /\ Cardinality(PageAt(n)) <= Page
    <3>1. /\ storedEvents \in SUBSET Int /\ IsFiniteSet(storedEvents) /\ PageAt(n) \in SUBSET storedEvents
          /\ \A e \in PageAt(n) : n <= Cardinality(Before(storedEvents, e))
                                  /\ Cardinality(Before(storedEvents, e)) < n + Page
        BY <1>0, RankIs DEF BackfillInv, PageAt
    <3> QED
        BY <2>1, <3>1, PageWide
  <2>6. IsFiniteSet(found) /\ Cardinality(found) \in Nat /\ Cardinality(found) <= n
      BY <2>1, FS_CardinalityType DEF BackfillRest
  <2>7. /\ IsFiniteSet(found \cup PageAt(n))
        /\ Cardinality(found \cup PageAt(n)) \in Nat
        /\ Cardinality(found \cup PageAt(n)) <= Cardinality(found) + Cardinality(PageAt(n))
    <3>1. /\ IsFiniteSet(found \cup PageAt(n)) /\ IsFiniteSet(found \cap PageAt(n))
          /\ Cardinality(found \cup PageAt(n)) =
                Cardinality(found) + Cardinality(PageAt(n)) - Cardinality(found \cap PageAt(n))
        BY <2>5, <2>6, FS_Union, FS_Intersection
    <3>2. Cardinality(found \cap PageAt(n)) \in Nat /\ Cardinality(found \cup PageAt(n)) \in Nat
        BY <3>1, FS_CardinalityType
    <3> QED
        BY <2>5, <2>6, <3>1, <3>2
  <2>8. IsFiniteSet(backfill'.found) /\ Cardinality(backfill'.found) <= n + Page
    <3>1. CASE backfill'.found = found
        BY <1>0, <2>1, <2>6, <3>1
    <3>2. CASE backfill'.found = found \cup PageAt(n)
        BY <1>0, <2>1, <2>5, <2>6, <2>7, <3>2
    <3> QED
        BY <2>3, <3>1, <3>2
  <2> QED
      BY <2>3, <2>4, <2>8 DEF BackfillRest
<1>3. CASE EndBackfill
  <2>1. /\ backfill'.status \in {"complete", "failed"} /\ backfill'.offset = backfill.offset
        /\ backfill'.found = backfill.found /\ backfill'.removed = backfill.removed /\ archived' = archived
      BY <1>0, <1>3 DEF EndBackfill, BackfillRow
  <2> QED
      BY <2>1 DEF BackfillRest
<1>4. CASE \E e \in EventIds : StoreEvent(e)
    BY <1>4 DEF StoreEvent, BackfillRest
<1>5. CASE \E e \in EventIds : ArchiveEvent(e)
  <2>1. /\ backfill'.status = backfill.status /\ backfill'.offset = backfill.offset
        /\ backfill'.found = backfill.found /\ archived' = archived + 1 /\ archived' \in 0..MaxArchived
      BY <1>0, <1>5 DEF ArchiveEvent, BackfillRow, BackfillRest
  <2>2. backfill.status # "running" => backfill' = backfill
      BY <1>0, <1>5 DEF ArchiveEvent, BackfillRow
  <2>3. archived' > 0
      BY <1>0, <2>1
  <2> QED
      BY <2>1, <2>2, <2>3 DEF BackfillRest
<1>6. CASE UNCHANGED backfillVars
    BY <1>6 DEF backfillVars, BackfillRest
<1> QED
    BY <1>1, <1>2, <1>3, <1>4, <1>5, <1>6 DEF BackfillNext

LEMMA BackfillTyped == BackfillInv /\ BackfillRest => BackfillTypeOK
BY DEF BackfillInv, BackfillRest, BackfillTypeOK, BackfillRow

LEMMA BackfillStart == BackfillInit => BackfillInv
BY FS_EmptySet DEF BackfillInit, BackfillInv, BackfillRow, NoBackfill, BackfillReaches

\* For any events, page size, deletions and restarts: a backfill is at the edge of a page, and has
\* read no more than lies before it (backfill_iocs_for_project).
THEOREM BackfillTypeCorrect == BackfillSpec => []BackfillTypeOK
BY BackfillStart, BackfillStep, BackfillRestInit, BackfillRestNext, BackfillTyped, PTL DEF BackfillSpec

-----------------------------------------------------------------------------
(* Imports *)

\* The rows from a number on that the dry run would count by what is stored now, ...
LeftOf(rows, n) == {i \in DOMAIN rows : n <= i /\ (rows[i].fault = "blank" \/ rows[i].value \notin stored)}
Left(rows, n) == Cardinality(LeftOf(rows, n))

\* ... the row a thread will count as inserted, if it has looked one up and not found it, and
\* the first row it has not looked up.
Fresh(s) == IF s.at = "write" /\ ~s.known THEN 1 ELSE 0
Here(s) == IF s.at = "write" THEN s.next + 1 ELSE s.next

Stored(rows, n, own) ==
    \A i \in DOMAIN rows : i < n /\ rows[i].fault # "blank" => rows[i].value \in stored \cup deleted \cup own

\* A thread at work on an upload has kept the rows before its next one, unless a batch was
\* aborted, and may still insert no more than was expected, unless a row was deleted.
WorksAt(s, row, u) ==
    /\ s.inserted + s.updated + s.skipped = s.next - 1
    /\ s.next <= Len(row.rows) + 1
    /\ s.at = "write" => s.next <= Len(row.rows)
    /\ s.at \in {"report", "clean"} => s.next = Len(row.rows) + 1 /\ s.own = {}
    /\ s.at = "clean" => row.status = "complete"
    /\ u \in broken \/ (~s.aborted /\ Stored(row.rows, s.next, s.own))
    /\ deleted = {} => s.inserted + Fresh(s) + Left(row.rows, Here(s)) <= row.expected

Complete(row, u) ==
    /\ u \notin broken => Wanted(row.rows) \subseteq stored \cup deleted
    /\ row.processed = Len(row.rows)
    /\ row.processed = row.inserted + row.updated + row.skipped
    /\ row.inserted <= row.expected \/ deleted # {}

Reported(row, u) ==
    /\ row.status = "complete" => Complete(row, u)
    /\ row.status # "none" /\ deleted = {} => Left(row.rows, 1) <= row.expected

\* An upload has one message or one thread, and none when it has settled.
Seen(u) == \E t \in Importers : u \in importer[t].of
OneThread(u) == \A t, w \in Importers : u \in importer[t].of /\ u \in importer[w].of => t = w
Attended(u) ==
    /\ OneThread(u)
    /\ \A m, n \in importMessages[u] : m = n
    /\ Seen(u) => importMessages[u] = {}
    /\ upload[u].status = "none" => importMessages[u] = {} /\ ~Seen(u)
    /\ upload[u].status = "queued" => importMessages[u] # {}
    /\ upload[u].status = "running" => importMessages[u] # {} \/ Seen(u) \/ u \in mute

UploadRow == [rows : Seq(RawRow), status : JobStatus, processed : Int, inserted : Nat, updated : Nat,
              skipped : Nat, expected : Nat]
ThreadRow == [at : {"idle", "next", "write", "batch", "report", "clean"}, of : SUBSET Uploads,
              failed : Nat, next : Nat \ {0}, known : BOOLEAN, own : SUBSET Values, aborted : BOOLEAN,
              inserted : Nat, updated : Nat, skipped : Nat]
Single(s) == (s.at = "idle" <=> s.of = {}) /\ \A u, v \in s.of : u = v

ImportInv ==
    /\ upload \in [Uploads -> UploadRow]
    /\ importer \in [Importers -> ThreadRow]
    /\ importMessages \in [Uploads -> SUBSET Nat]
    /\ \A u \in Uploads : Attended(u) /\ Reported(upload[u], u)
    /\ \A t \in Importers : Single(importer[t])
    /\ \A t \in Importers : \A u \in Uploads : u \in importer[t].of => WorksAt(importer[t], upload[u], u)

-----------------------------------------------------------------------------
(* Rows *)

LEMMA RowsParsed ==
    ASSUME NEW file \in Files, NEW format \in {"csv", "json", "stix"}
    PROVE  Rows(file, format) \in Seq(RawRow)
<1>1. ParsedRows(file) \in Seq(RawRow)
    BY ImportAssumption
<1>2. StixRows(file) \in Seq(RawRow)
  <2> DEFINE atomic == ParsedRows(file)
             stix == [i \in DOMAIN atomic |->
                         IF atomic[i].fault = "blank" THEN atomic[i] ELSE [atomic[i] EXCEPT !.fault = "none"]]
  <2>1. Len(atomic) \in Nat /\ DOMAIN atomic = 1..Len(atomic) /\ \A i \in 1..Len(atomic) : atomic[i] \in RawRow
      BY <1>1
  <2> HIDE DEF atomic
  <2>2. \A i \in 1..Len(atomic) : stix[i] \in RawRow
      BY <2>1 DEF RawRow
  <2> HIDE DEF stix
  <2>3. stix \in [1..Len(atomic) -> RawRow]
      BY <2>1, <2>2 DEF stix
  <2>4. stix \in Seq(RawRow)
      BY <2>1, <2>3
  <2> QED
      BY <2>4 DEF stix, atomic, StixRows
<1> QED
    BY <1>1, <1>2 DEF Rows

LEMMA LeftCounts ==
    ASSUME NEW rows \in Seq(RawRow), NEW n \in Int
    PROVE  IsFiniteSet(LeftOf(rows, n)) /\ Left(rows, n) \in Nat
<1>1. IsFiniteSet(1..Len(rows))
    BY FS_Interval
<1>2. LeftOf(rows, n) \subseteq 1..Len(rows)
    BY DEF LeftOf
<1> QED
    BY <1>1, <1>2, FS_Subset, FS_CardinalityType DEF Left

\* One row further, one less if it would have been inserted.
LEMMA LeftShrinks ==
    ASSUME NEW rows \in Seq(RawRow), NEW n \in 1..Len(rows)
    PROVE  /\ Left(rows, n + 1) <= Left(rows, n)
           /\ rows[n].value \notin stored => Left(rows, n) = Left(rows, n + 1) + 1
<1>1. IsFiniteSet(LeftOf(rows, n + 1)) /\ IsFiniteSet(LeftOf(rows, n))
    BY LeftCounts
<1>2. LeftOf(rows, n + 1) \subseteq LeftOf(rows, n)
    BY DEF LeftOf
<1>3. ASSUME rows[n].value \notin stored PROVE LeftOf(rows, n) = LeftOf(rows, n + 1) \cup {n}
    BY <1>3 DEF LeftOf
<1>4. n \notin LeftOf(rows, n + 1)
    BY DEF LeftOf
<1> QED
    BY <1>1, <1>2, <1>3, <1>4, FS_Subset, FS_AddElement DEF Left

-----------------------------------------------------------------------------
(* What others do *)

\* What was stored stays, or has been deleted.
Onward ==
    /\ stored \cup deleted \subseteq stored' \cup deleted' /\ deleted \subseteq deleted' /\ broken \subseteq broken'
    /\ deleted' = {} => stored \subseteq stored'

LEMMA StepOnward ==
    ASSUME [ImportNext]_importVars
    PROVE  Onward
<1>1. CASE \E u \in Uploads : BulkUpload(u)
    BY <1>1 DEF BulkUpload, historyVars, Onward
<1>2. CASE \E t \in Importers, u \in Uploads : TakeImport(t, u) \/ LookUp(t, u) \/ WriteRow(t, u)
    BY <1>2 DEF TakeImport, LookUp, WriteRow, historyVars, Onward
<1>3. CASE \E t \in Importers, u \in Uploads : WriteFails(t, u) \/ CommitBatch(t, u) \/ CommitLast(t, u)
    BY <1>3 DEF WriteFails, CommitBatch, CommitLast, Committed, historyVars, Onward
<1>4. CASE \E t \in Importers, u \in Uploads : ReportComplete(t, u) \/ CleanPayload(t, u)
    BY <1>4 DEF ReportComplete, CleanPayload, historyVars, Onward
<1>5. CASE \E t \in Importers, u \in Uploads : ImportRaises(t, u) \/ ImporterDies(t, u)
    BY <1>5 DEF ImportRaises, ImporterDies, Onward
<1>6. CASE \E v \in Values : SightValue(v) \/ DeleteValue(v)
    BY <1>6 DEF SightValue, DeleteValue, Onward
<1>7. CASE UNCHANGED importVars
    BY <1>7 DEF importVars, Onward
<1> QED
    BY <1>1, <1>2, <1>3, <1>4, <1>5, <1>6, <1>7 DEF ImportNext

LEMMA LeftOnward ==
    ASSUME Onward, deleted' = {}, NEW rows \in Seq(RawRow), NEW n \in Int
    PROVE  Left(rows, n)' <= Left(rows, n) /\ Left(rows, n) \in Nat /\ Left(rows, n)' \in Nat /\ deleted = {}
<1> DEFINE now == LeftOf(rows, n)
           then == {i \in DOMAIN rows : n <= i /\ (rows[i].fault = "blank" \/ rows[i].value \notin stored')}
<1>1. then \subseteq now /\ deleted = {}
    BY DEF Onward, LeftOf
<1>2. IsFiniteSet(now) /\ Cardinality(now) \in Nat
    BY LeftCounts DEF Left
<1>3. IsFiniteSet(then) /\ Cardinality(then) <= Cardinality(now) /\ Cardinality(then) \in Nat
    BY <1>1, <1>2, FS_Subset, FS_CardinalityType
<1>4. Left(rows, n)' = Cardinality(then) /\ Left(rows, n) = Cardinality(now)
    BY DEF Left, LeftOf
<1> QED
    BY <1>1, <1>2, <1>3, <1>4

LEMMA WorksOnward ==
    ASSUME Onward, NEW s \in ThreadRow, NEW row \in UploadRow, NEW u, WorksAt(s, row, u)
    PROVE  WorksAt(s, row, u)'
<1>1. row.rows \in Seq(RawRow) /\ Here(s) \in Int /\ s.inserted \in Nat /\ Fresh(s) \in Nat /\ row.expected \in Nat
    BY DEF ThreadRow, UploadRow, Here, Fresh
<1>2. deleted' = {} => s.inserted + Fresh(s) + Left(row.rows, Here(s))' <= row.expected
  <2> SUFFICES ASSUME deleted' = {} PROVE s.inserted + Fresh(s) + Left(row.rows, Here(s))' <= row.expected
      OBVIOUS
  <2>1. PICK rows \in Seq(RawRow), n \in Int : rows = row.rows /\ n = Here(s)
      BY <1>1
  <2>2. /\ Left(rows, n)' <= Left(rows, n) /\ Left(rows, n) \in Nat /\ Left(rows, n)' \in Nat
        /\ deleted = {}
      BY LeftOnward
  <2>3. s.inserted + Fresh(s) + Left(rows, n) <= row.expected
      BY <2>1, <2>2 DEF WorksAt
  <2>4. s.inserted + Fresh(s) + Left(rows, n)' <= row.expected
      BY <1>1, <2>2, <2>3
  <2> QED
      BY <2>1, <2>4
<1>3. u \in broken' \/ (~s.aborted /\ Stored(row.rows, s.next, s.own)')
    BY DEF WorksAt, Stored, Onward
<1> QED
    BY <1>2, <1>3 DEF WorksAt

LEMMA ReportedOnward ==
    ASSUME Onward, NEW row \in UploadRow, NEW u, Reported(row, u)
    PROVE  Reported(row, u)'
<1>1. row.rows \in Seq(RawRow) /\ 1 \in Int /\ row.expected \in Nat
    BY DEF UploadRow
<1>2. row.status # "none" /\ deleted' = {} => Left(row.rows, 1)' <= row.expected
  <2> SUFFICES ASSUME row.status # "none", deleted' = {} PROVE Left(row.rows, 1)' <= row.expected
      OBVIOUS
  <2>1. PICK rows \in Seq(RawRow) : rows = row.rows
      BY <1>1
  <2>2. /\ Left(rows, 1)' <= Left(rows, 1) /\ Left(rows, 1) \in Nat /\ Left(rows, 1)' \in Nat
        /\ deleted = {}
      BY <1>1, LeftOnward
  <2>3. Left(rows, 1) <= row.expected
      BY <2>1, <2>2 DEF Reported
  <2>4. Left(rows, 1)' <= row.expected
      BY <1>1, <2>2, <2>3
  <2> QED
      BY <2>1, <2>4
<1>3. row.status = "complete" => Complete(row, u)'
    BY DEF Reported, Complete, Onward
<1> QED
    BY <1>2, <1>3 DEF Reported

-----------------------------------------------------------------------------
(* A step at one upload *)

LEMMA OthersKept ==
    ASSUME ImportInv, Onward, NEW u \in Uploads, NEW row \in UploadRow, NEW ms \in SUBSET Nat,
           upload' = [upload EXCEPT ![u] = row], importMessages' = [importMessages EXCEPT ![u] = ms],
           importer' \in [Importers -> ThreadRow], mute \subseteq mute',
           \A w \in Importers :
               \/ importer'[w] = importer[w] /\ u \notin importer[w].of
               \/ /\ importer[w].of \subseteq {u} /\ importer'[w].of \subseteq {u} /\ Single(importer'[w])
                  /\ u \in importer'[w].of => WorksAt(importer[w], row, u)',
           Reported(row, u)', Attended(u)'
    PROVE  ImportInv'
<1>1. /\ upload' \in [Uploads -> UploadRow] /\ importMessages' \in [Uploads -> SUBSET Nat]
      /\ upload'[u] = row
      /\ \A v \in Uploads : v # u => upload'[v] = upload[v] /\ importMessages'[v] = importMessages[v]
    BY DEF ImportInv
<1>2. \A v \in Uploads : v # u => \A w \in Importers : v \in importer'[w].of <=> v \in importer[w].of
    OBVIOUS
<1>3. \A v \in Uploads : Attended(v)'
  <2> SUFFICES ASSUME NEW v \in Uploads, v # u PROVE Attended(v)'
      OBVIOUS
  <2>1. Attended(v)
      BY DEF ImportInv
  <2> QED
      BY <1>1, <1>2, <2>1 DEF Attended, OneThread, Seen
<1>4. \A v \in Uploads : Reported(upload[v], v)'
  <2> SUFFICES ASSUME NEW v \in Uploads, v # u PROVE Reported(upload[v], v)'
      BY <1>1
  <2>1. PICK other \in UploadRow : other = upload[v]
      BY DEF ImportInv
  <2>2. Reported(other, v)
      BY <2>1 DEF ImportInv
  <2>3. Reported(other, v)'
      BY <2>2, ReportedOnward
  <2> QED
      BY <1>1, <2>1, <2>3
<1>5. \A w \in Importers : Single(importer[w])'
    BY DEF ImportInv, Single
<1>6. \A w \in Importers : \A v \in Uploads : v \in importer'[w].of => WorksAt(importer[w], upload[v], v)'
  <2> SUFFICES ASSUME NEW w \in Importers, NEW v \in Uploads, v \in importer'[w].of
               PROVE  WorksAt(importer[w], upload[v], v)'
      OBVIOUS
  <2>1. CASE v = u
      BY <1>1, <2>1
  <2>2. CASE v # u
    <3>1. importer'[w] = importer[w] /\ upload'[v] = upload[v]
        BY <1>1, <2>2
    <3>2. PICK state \in ThreadRow, other \in UploadRow : state = importer[w] /\ other = upload[v]
        BY DEF ImportInv
    <3>3. WorksAt(state, other, v)
        BY <3>1, <3>2 DEF ImportInv
    <3>4. WorksAt(state, other, v)'
        BY <3>3, WorksOnward
    <3> QED
        BY <3>1, <3>2, <3>4
  <2> QED
      BY <2>1, <2>2
<1> QED
    BY <1>1, <1>3, <1>4, <1>5, <1>6 DEF ImportInv

LEMMA AtWork ==
    ASSUME ImportInv, NEW t \in Importers, NEW u \in Uploads, importer[t].of = {u}
    PROVE  /\ upload[u] \in UploadRow /\ importer[t] \in ThreadRow
           /\ upload[u].status \notin {"none", "queued"} /\ importMessages[u] = {}
           /\ WorksAt(importer[t], upload[u], u) /\ Reported(upload[u], u)
           /\ importer[t].at # "idle"
           /\ \A w \in Importers : w # t => u \notin importer[w].of
BY DEF ImportInv, Attended, OneThread, Seen, Single

\* A thread goes on with its upload, ...
LEMMA GoesOn ==
    ASSUME ImportInv, Onward, NEW t \in Importers, NEW u \in Uploads, importer[t].of = {u},
           NEW s \in ThreadRow, s.of = {u}, s.at # "idle", importer' = [importer EXCEPT ![t] = s],
           NEW row \in UploadRow, row.status \notin {"none", "queued"}, upload' = [upload EXCEPT ![u] = row],
           UNCHANGED importMessages, mute \subseteq mute',
           WorksAt(s, row, u)', Reported(row, u)'
    PROVE  ImportInv'
<1>1. /\ importer[t] \in ThreadRow /\ importMessages[u] = {}
      /\ \A w \in Importers : w # t => u \notin importer[w].of
    BY AtWork
<1>2. importer' \in [Importers -> ThreadRow] /\ importer'[t] = s
    BY DEF ImportInv
<1>3. importMessages' = [importMessages EXCEPT ![u] = {}] /\ {} \in SUBSET Nat
    BY <1>1 DEF ImportInv
<1>4. \A w \in Importers : w # t => importer'[w] = importer[w]
    BY DEF ImportInv
<1>5. Single(s)
    BY DEF Single
<1>6. upload'[u] = row /\ importMessages'[u] = {}
    BY <1>3 DEF ImportInv
<1>7. Seen(u)' /\ OneThread(u)'
    BY <1>1, <1>2, <1>4 DEF Seen, OneThread
<1>8. Attended(u)'
    BY <1>6, <1>7 DEF Attended
<1>9. \A w \in Importers :
        \/ importer'[w] = importer[w] /\ u \notin importer[w].of
        \/ /\ importer[w].of \subseteq {u} /\ importer'[w].of \subseteq {u} /\ Single(importer'[w])
           /\ u \in importer'[w].of => WorksAt(importer[w], row, u)'
    BY <1>1, <1>2, <1>4, <1>5
<1> QED
    BY <1>2, <1>3, <1>8, <1>9, OthersKept

\* ... or leaves it, with its message or with a status that says how it has ended.
LEMMA Leaves ==
    ASSUME ImportInv, Onward, NEW t \in Importers, NEW u \in Uploads, importer[t].of = {u},
           importer' = [importer EXCEPT ![t] = Pausing],
           NEW ms \in SUBSET Nat, \A m, n \in ms : m = n, importMessages' = [importMessages EXCEPT ![u] = ms],
           NEW row \in UploadRow, row.status \notin {"none", "queued"}, upload' = [upload EXCEPT ![u] = row],
           mute \subseteq mute', row.status = "running" => ms # {} \/ u \in mute', Reported(row, u)'
    PROVE  ImportInv'
<1>1. /\ importer[t] \in ThreadRow
      /\ \A w \in Importers : w # t => u \notin importer[w].of
    BY AtWork
<1>2. Pausing \in ThreadRow /\ Pausing.of = {} /\ Single(Pausing)
    BY DEF Pausing, ThreadRow, Single
<1>3. importer' \in [Importers -> ThreadRow] /\ importer'[t] = Pausing
    BY <1>2 DEF ImportInv
<1>4. \A w \in Importers : w # t => importer'[w] = importer[w]
    BY DEF ImportInv
<1>5. upload'[u] = row /\ importMessages'[u] = ms
    BY DEF ImportInv
<1>6. ~Seen(u)'
    BY <1>1, <1>2, <1>3, <1>4 DEF Seen
<1>7. OneThread(u)'
    BY <1>1, <1>2, <1>3, <1>4 DEF OneThread
<1>8. Attended(u)'
    BY <1>5, <1>6, <1>7 DEF Attended
<1>9. \A w \in Importers :
        \/ importer'[w] = importer[w] /\ u \notin importer[w].of
        \/ /\ importer[w].of \subseteq {u} /\ importer'[w].of \subseteq {u} /\ Single(importer'[w])
           /\ u \in importer'[w].of => WorksAt(importer[w], row, u)'
    BY <1>1, <1>2, <1>3, <1>4
<1> QED
    BY <1>3, <1>8, <1>9, OthersKept

-----------------------------------------------------------------------------
(* The records *)

StatusOf(was, status, n) == [was EXCEPT !.status = status, !.processed = n]
Queued(rows) == [NoUpload EXCEPT !.rows = rows, !.status = "queued", !.expected = Left(rows, 1)]
Begun(u, n) == [Pausing EXCEPT !.at = "next", !.of = {u}, !.failed = n]

LEMMA StatusBecomes ==
    ASSUME NEW was \in UploadRow, NEW status \in JobStatus, NEW n \in Int
    PROVE  /\ StatusOf(was, status, n) \in UploadRow
           /\ StatusOf(was, status, n).status = status /\ StatusOf(was, status, n).processed = n
           /\ StatusOf(was, status, n).rows = was.rows /\ StatusOf(was, status, n).expected = was.expected
BY DEF UploadRow, StatusOf

LEMMA EndsAs ==
    ASSUME NEW was \in UploadRow, NEW status
    PROVE  [was EXCEPT !.status = status] = StatusOf(was, status, was.processed)
BY DEF UploadRow, StatusOf

LEMMA QueuedIs ==
    ASSUME NEW rows \in Seq(RawRow)
    PROVE  /\ Queued(rows) \in UploadRow
           /\ Queued(rows).rows = rows /\ Queued(rows).status = "queued" /\ Queued(rows).expected = Left(rows, 1)
<1>1. PICK status \in JobStatus : status = "queued"
    BY DEF JobStatus
<1>2. PICK n \in Nat : n = Left(rows, 1)
    BY LeftCounts, 1 \in Int
<1>3. PICK none \in UploadRow : none = NoUpload
  <2>1. NoUpload \in UploadRow
      BY DEF NoUpload, UploadRow, JobStatus
  <2> QED
      BY <2>1
<1> DEFINE row == [none EXCEPT !.rows = rows, !.status = status, !.expected = n]
<1>4. row \in UploadRow /\ row.rows = rows /\ row.status = status /\ row.expected = n
    BY DEF UploadRow
<1> QED
    BY <1>1, <1>2, <1>3, <1>4 DEF Queued

LEMMA PausingIs ==
    /\ Pausing \in ThreadRow /\ Pausing.next = 1 /\ Pausing.own = {} /\ ~Pausing.aborted /\ Pausing.of = {}
    /\ Pausing.at = "idle" /\ Pausing.inserted = 0 /\ Pausing.updated = 0 /\ Pausing.skipped = 0
BY DEF Pausing, ThreadRow

LEMMA BegunIs ==
    ASSUME NEW u \in Uploads, NEW n \in Nat
    PROVE  /\ Begun(u, n) \in ThreadRow /\ Begun(u, n).of = {u} /\ Begun(u, n).at = "next"
           /\ Begun(u, n).next = 1 /\ ~Begun(u, n).aborted
           /\ Begun(u, n).inserted = 0 /\ Begun(u, n).updated = 0 /\ Begun(u, n).skipped = 0
<1>1. PICK p, one, at : p = Pausing /\ one = {u} /\ at = "next"
    OBVIOUS
<1>2. /\ p \in ThreadRow /\ one \in SUBSET Uploads /\ at \in {"idle", "next", "write", "batch", "report", "clean"}
      /\ p.next = 1 /\ ~p.aborted /\ p.inserted = 0 /\ p.updated = 0 /\ p.skipped = 0
    BY <1>1, PausingIs
<1> DEFINE s == [p EXCEPT !.at = at, !.of = one, !.failed = n]
<1>3. /\ s \in ThreadRow /\ s.at = at /\ s.of = one /\ s.next = p.next /\ s.aborted = p.aborted
      /\ s.inserted = p.inserted /\ s.updated = p.updated /\ s.skipped = p.skipped
    BY <1>2 DEF ThreadRow
<1> QED
    BY <1>1, <1>2, <1>3 DEF Begun

-----------------------------------------------------------------------------
(* The steps *)

LEMMA UploadKeepsImports ==
    ASSUME ImportInv, NEW u \in Uploads, BulkUpload(u), Onward
    PROVE  ImportInv'
<1>1. PICK file \in Files, format \in {"csv", "json", "stix"}, admin \in BOOLEAN :
         LET rows == Rows(file, format) IN
         upload' = [upload EXCEPT ![u] = [NoUpload EXCEPT !.rows = rows, !.status = "queued",
                                                          !.expected = WouldInsert(rows)]]
    BY DEF BulkUpload
<1>2. PICK rows \in Seq(RawRow) : rows = Rows(file, format)
    BY RowsParsed
<1>3. UNCHANGED <<stored, importer, deleted, broken, mute>> /\ importMessages' = [importMessages EXCEPT ![u] = {0}]
    BY DEF BulkUpload, historyVars
<1>4. WouldInsert(rows) = Left(rows, 1) /\ Left(rows, 1) \in Nat
  <2>1. {i \in DOMAIN rows : rows[i].fault = "blank" \/ rows[i].value \notin stored} = LeftOf(rows, 1)
      BY DEF LeftOf
  <2> QED
      BY <2>1, LeftCounts, 1 \in Int DEF WouldInsert, Left
<1>5. PICK row \in UploadRow : row = Queued(rows)
    BY QueuedIs
<1>6. /\ row.rows = rows /\ row.status = "queued" /\ row.expected = Left(rows, 1)
      /\ upload' = [upload EXCEPT ![u] = row]
    BY <1>1, <1>2, <1>4, <1>5, QueuedIs DEF Queued
<1>7. Left(rows, 1)' = Left(rows, 1)
    BY <1>3 DEF Left, LeftOf
<1>8. Reported(row, u)'
    BY <1>4, <1>6, <1>7 DEF Reported
<1>9. upload[u].status = "none" /\ importMessages[u] = {} /\ ~Seen(u)
  <2>1. upload[u].status = "none"
      BY DEF BulkUpload, NoUpload
  <2> QED
      BY <2>1 DEF ImportInv, Attended
<1>10. Attended(u)'
  <2>1. upload'[u].status = "queued" /\ importMessages'[u] = {0}
      BY <1>3, <1>6 DEF ImportInv
  <2>2. ~Seen(u)' /\ OneThread(u)'
      BY <1>3, <1>9 DEF Seen, OneThread
  <2> QED
      BY <2>1, <2>2 DEF Attended
<1>11. \A w \in Importers : importer'[w] = importer[w] /\ u \notin importer[w].of
    BY <1>3, <1>9 DEF Seen
<1>12. importer' \in [Importers -> ThreadRow] /\ {0} \in SUBSET Nat /\ mute \subseteq mute'
    BY <1>3 DEF ImportInv
<1> QED
    BY <1>3, <1>6, <1>8, <1>10, <1>11, <1>12, OthersKept

LEMMA TakeKeepsImports ==
    ASSUME ImportInv, NEW t \in Importers, NEW u \in Uploads, TakeImport(t, u), Onward
    PROVE  ImportInv'
<1>1. PICK n \in importMessages[u] :
         /\ importMessages' = [importMessages EXCEPT ![u] = @ \ {n}]
         /\ \/ /\ upload' = [upload EXCEPT ![u].status = "running", ![u].processed = 0]
               /\ Becomes(t, [Pausing EXCEPT !.at = "next", !.of = {u}, !.failed = n])
            \/ /\ upload' = [upload EXCEPT ![u].status = "failed"]
               /\ UNCHANGED importer
    BY DEF TakeImport
<1>2. /\ UNCHANGED <<stored, deleted, broken, mute>>
      /\ importer[t].at = "idle" /\ importer[t].of = {}
    BY DEF TakeImport, historyVars, ImportInv, Single
<1>3. /\ upload[u] \in UploadRow /\ n \in Nat /\ Reported(upload[u], u)
      /\ ~Seen(u) /\ upload[u].status # "none" /\ importMessages[u] \ {n} = {}
    BY DEF ImportInv, Attended
<1>4. importMessages' = [importMessages EXCEPT ![u] = {}] /\ {} \in SUBSET Nat
    BY <1>1, <1>3
<1>5. importMessages'[u] = {}
    BY <1>4 DEF ImportInv
<1>6. PICK was \in UploadRow : was = upload[u]
    BY <1>3
<1>7. Reported(was, u)'
    BY <1>3, <1>6, ReportedOnward
<1>8. CASE /\ upload' = [upload EXCEPT ![u].status = "running", ![u].processed = 0]
           /\ Becomes(t, [Pausing EXCEPT !.at = "next", !.of = {u}, !.failed = n])
  <2>1. PICK state \in ThreadRow, r \in UploadRow : state = Begun(u, n) /\ r = StatusOf(was, "running", 0)
    <3>1. "running" \in JobStatus /\ 0 \in Int
        BY DEF JobStatus
    <3> QED
        BY <1>3, <3>1, BegunIs, StatusBecomes
  <2>2. /\ state.of = {u} /\ state.at = "next" /\ state.next = 1 /\ ~state.aborted
        /\ state.inserted = 0 /\ state.updated = 0 /\ state.skipped = 0
      BY <1>3, <2>1, BegunIs
  <2>3. r.status = "running" /\ r.rows = was.rows /\ r.expected = was.expected
    <3>1. "running" \in JobStatus /\ 0 \in Int
        BY DEF JobStatus
    <3> QED
        BY <2>1, <3>1, StatusBecomes
  <2>4. upload' = [upload EXCEPT ![u] = r] /\ importer' = [importer EXCEPT ![t] = state]
      BY <1>6, <1>8, <2>1 DEF Becomes, Begun, StatusOf
  <2>5. Reported(r, u)'
      BY <1>3, <1>6, <1>7, <2>3 DEF Reported
  <2>6. WorksAt(state, r, u)'
    <3>1. r.rows \in Seq(RawRow) /\ Len(r.rows) \in Nat
        BY DEF UploadRow
    <3>2. deleted' = {} => Left(r.rows, 1)' <= r.expected
        BY <2>3, <2>5 DEF Reported
    <3>3. Fresh(state) = 0 /\ Here(state) = 1
        BY <2>2 DEF Fresh, Here
    <3>4. Left(r.rows, Here(state))' = Left(r.rows, 1)'
        BY <3>3
    <3>5. deleted' = {} => state.inserted + Fresh(state) + Left(r.rows, Here(state))' <= r.expected
      <4>1. PICK rows \in Seq(RawRow) : rows = r.rows
          BY <3>1
      <4>2. deleted' = {} => Left(rows, 1)' \in Nat
          BY LeftOnward
      <4> QED
          BY <2>2, <3>2, <3>3, <3>4, <4>1, <4>2
    <3>6. Stored(r.rows, state.next, state.own)'
        BY <2>2, <3>1 DEF Stored
    <3> QED
        BY <2>2, <3>1, <3>5, <3>6 DEF WorksAt
  <2>7. Attended(u)'
    <3>1. upload'[u].status = "running"
        BY <2>3, <2>4 DEF ImportInv
    <3>2. \A w \in Importers : u \in importer'[w].of <=> w = t
        BY <1>3, <2>2, <2>4 DEF Seen, ImportInv
    <3> QED
        BY <1>5, <3>1, <3>2 DEF Attended, OneThread, Seen
  <2>8. importer' \in [Importers -> ThreadRow] /\ importer'[t] = state
      BY <2>4 DEF ImportInv
  <2>10. Single(state)
      BY <2>2 DEF Single
  <2>9. \A w \in Importers :
          \/ importer'[w] = importer[w] /\ u \notin importer[w].of
          \/ /\ importer[w].of \subseteq {u} /\ importer'[w].of \subseteq {u} /\ Single(importer'[w])
             /\ u \in importer'[w].of => WorksAt(importer[w], r, u)'
    <3>1. \A w \in Importers : w # t => importer'[w] = importer[w] /\ u \notin importer[w].of
        BY <1>3, <2>4 DEF Seen, ImportInv
    <3> QED
        BY <1>2, <2>2, <2>6, <2>8, <2>10, <3>1
  <2> QED
      BY <1>2, <1>4, <2>4, <2>5, <2>7, <2>8, <2>9, OthersKept
<1>9. CASE upload' = [upload EXCEPT ![u].status = "failed"] /\ UNCHANGED importer
  <2>1. PICK r \in UploadRow : r = StatusOf(was, "failed", was.processed)
    <3>1. "failed" \in JobStatus /\ was.processed \in Int
        BY DEF JobStatus, UploadRow
    <3> QED
        BY <3>1, StatusBecomes
  <2>2. r.status = "failed" /\ r.rows = was.rows /\ r.expected = was.expected
    <3>1. "failed" \in JobStatus /\ was.processed \in Int
        BY DEF JobStatus, UploadRow
    <3> QED
        BY <2>1, <3>1, StatusBecomes
  <2>3. upload' = [upload EXCEPT ![u] = r]
      BY <1>6, <1>9, <2>1, EndsAs
  <2>4. Reported(r, u)'
      BY <1>3, <1>6, <1>7, <2>2 DEF Reported
  <2>5. Attended(u)'
    <3>1. upload'[u].status = "failed"
        BY <2>2, <2>3 DEF ImportInv
    <3>2. ~Seen(u)'
        BY <1>3, <1>9 DEF Seen
    <3> QED
        BY <1>5, <3>1, <3>2 DEF Attended, OneThread, Seen
  <2>6. \A w \in Importers : importer'[w] = importer[w] /\ u \notin importer[w].of
      BY <1>3, <1>9 DEF Seen
  <2>7. importer' \in [Importers -> ThreadRow]
      BY <1>9 DEF ImportInv
  <2> QED
      BY <1>2, <1>4, <2>3, <2>4, <2>5, <2>6, <2>7, OthersKept
<1> QED
    BY <1>1, <1>8, <1>9

\* The thread behind a row, with the counts it has then.
LEMMA BehindIs ==
    ASSUME NEW s \in ThreadRow
    PROVE  /\ Behind(s) \in ThreadRow /\ Behind(s).next = s.next + 1 /\ Behind(s).at \in {"batch", "next"}
           /\ Behind(s).failed = s.failed /\ Behind(s).of = s.of /\ Behind(s).own = s.own /\ Behind(s).aborted = s.aborted
           /\ Behind(s).inserted = s.inserted /\ Behind(s).updated = s.updated /\ Behind(s).skipped = s.skipped
<1>1. PICK at \in {"batch", "next"}, n \in Nat \ {0} : n = s.next + 1 /\ at = IF s.next % Batch = 0 THEN "batch" ELSE "next"
    BY DEF ThreadRow
<1> DEFINE b == [s EXCEPT !.next = n, !.at = at]
<1>2. /\ b \in ThreadRow /\ b.next = n /\ b.at = at
      /\ b.failed = s.failed /\ b.of = s.of /\ b.own = s.own /\ b.aborted = s.aborted
      /\ b.inserted = s.inserted /\ b.updated = s.updated /\ b.skipped = s.skipped
    BY DEF ThreadRow
<1> QED
    BY <1>1, <1>2 DEF Behind

LEMMA SkipIs ==
    ASSUME NEW s \in ThreadRow
    PROVE  /\ SkipRow(s) \in ThreadRow /\ SkipRow(s).next = s.next + 1 /\ SkipRow(s).at \in {"batch", "next"}
           /\ SkipRow(s).of = s.of /\ SkipRow(s).own = s.own /\ SkipRow(s).aborted = s.aborted
           /\ SkipRow(s).inserted = s.inserted /\ SkipRow(s).updated = s.updated
           /\ SkipRow(s).skipped = s.skipped + 1
<1>1. PICK n \in Nat : n = s.skipped + 1
    BY DEF ThreadRow
<1> DEFINE k == [s EXCEPT !.skipped = n]
<1>2. /\ k \in ThreadRow /\ k.next = s.next /\ k.of = s.of /\ k.own = s.own /\ k.aborted = s.aborted
      /\ k.inserted = s.inserted /\ k.updated = s.updated /\ k.skipped = n
    BY DEF ThreadRow
<1>3. PICK b \in ThreadRow : b = k
    BY <1>2
<1>4. SkipRow(s) = Behind(b)
    BY <1>1, <1>3 DEF SkipRow
<1>5. /\ Behind(b) \in ThreadRow /\ Behind(b).next = b.next + 1 /\ Behind(b).at \in {"batch", "next"}
      /\ Behind(b).of = b.of /\ Behind(b).own = b.own /\ Behind(b).aborted = b.aborted
      /\ Behind(b).inserted = b.inserted /\ Behind(b).updated = b.updated /\ Behind(b).skipped = b.skipped
    BY BehindIs
<1> QED
    BY <1>1, <1>2, <1>3, <1>4, <1>5

Written(s, v) ==
    LET kept == [s EXCEPT !.own = @ \cup {v}]
    IN  Behind(IF kept.known THEN [kept EXCEPT !.updated = @ + 1] ELSE [kept EXCEPT !.inserted = @ + 1])

LEMMA WriteIs ==
    ASSUME NEW s \in ThreadRow, NEW v \in Values
    PROVE  /\ Written(s, v) \in ThreadRow /\ Written(s, v).next = s.next + 1 /\ Written(s, v).at \in {"batch", "next"}
           /\ Written(s, v).failed = s.failed /\ Written(s, v).of = s.of
           /\ Written(s, v).own = s.own \cup {v} /\ Written(s, v).aborted = s.aborted
           /\ Written(s, v).inserted = s.inserted + (IF s.known THEN 0 ELSE 1)
           /\ Written(s, v).updated = s.updated + (IF s.known THEN 1 ELSE 0) /\ Written(s, v).skipped = s.skipped
<1> DEFINE kept == [s EXCEPT !.own = @ \cup {v}]
<1>1. PICK k \in ThreadRow : k = kept
  <2>1. kept \in ThreadRow
      BY DEF ThreadRow
  <2> QED
      BY <2>1
<1>2. /\ k.failed = s.failed /\ k.own = s.own \cup {v} /\ k.next = s.next /\ k.of = s.of /\ k.aborted = s.aborted /\ k.known = s.known
      /\ k.inserted = s.inserted /\ k.updated = s.updated /\ k.skipped = s.skipped
    BY <1>1 DEF ThreadRow
<1> HIDE DEF kept
<1>3. PICK m \in Nat, n \in Nat : m = k.updated + 1 /\ n = k.inserted + 1
    BY DEF ThreadRow
<1> DEFINE up == [k EXCEPT !.updated = m]
           in == [k EXCEPT !.inserted = n]
<1>4. /\ up \in ThreadRow /\ up.failed = k.failed /\ up.own = k.own /\ up.next = k.next /\ up.of = k.of /\ up.aborted = k.aborted
      /\ up.inserted = k.inserted /\ up.updated = m /\ up.skipped = k.skipped
    BY DEF ThreadRow
<1>5. /\ in \in ThreadRow /\ in.failed = k.failed /\ in.own = k.own /\ in.next = k.next /\ in.of = k.of /\ in.aborted = k.aborted
      /\ in.inserted = n /\ in.updated = k.updated /\ in.skipped = k.skipped
    BY DEF ThreadRow
<1>6. PICK b \in ThreadRow : b = IF k.known THEN up ELSE in
    BY <1>4, <1>5
<1>7. /\ b.failed = k.failed /\ b.own = k.own /\ b.next = k.next /\ b.of = k.of /\ b.aborted = k.aborted /\ b.skipped = k.skipped
      /\ b.inserted = k.inserted + (IF k.known THEN 0 ELSE 1) /\ b.updated = k.updated + (IF k.known THEN 1 ELSE 0)
    BY <1>3, <1>4, <1>5, <1>6 DEF ThreadRow
<1>8. b = IF kept.known THEN [kept EXCEPT !.updated = @ + 1] ELSE [kept EXCEPT !.inserted = @ + 1]
    BY <1>1, <1>3, <1>6
<1>9. Written(s, v) = Behind(b)
    BY <1>8 DEF Written, kept
<1> QED
    BY <1>2, <1>7, <1>9, BehindIs

\* A thread that leaves a row behind, ...
LEMMA RowBehind ==
    ASSUME NEW s \in ThreadRow, NEW k \in ThreadRow, NEW row \in UploadRow, NEW u, NEW rows \in Seq(RawRow),
           rows = row.rows, s.next \in 1..Len(rows), s.inserted + s.updated + s.skipped = s.next - 1,
           k.next = s.next + 1, k.at \in {"batch", "next"},
           k.inserted + k.updated + k.skipped = s.inserted + s.updated + s.skipped + 1,
           deleted' = {} => k.inserted + Left(rows, s.next + 1)' <= row.expected,
           \/ u \in broken'
           \/ /\ ~k.aborted /\ Stored(rows, s.next, k.own)'
              /\ rows[s.next].fault = "blank" \/ rows[s.next].value \in k.own
    PROVE  WorksAt(k, row, u)'
<1>1. PICK n \in Nat : n = s.next
    BY DEF ThreadRow
<1>2. Fresh(k) = 0 /\ Here(k) = n + 1
    BY <1>1 DEF Fresh, Here
<1>3. Left(row.rows, Here(k))' = Left(rows, n + 1)'
    BY <1>2
<1>4. deleted' = {} => k.inserted + Fresh(k) + Left(row.rows, Here(k))' <= row.expected
  <2>1. deleted' = {} => Left(rows, n + 1)' \in Nat
    <3>1. IsFiniteSet(1..Len(rows))
      <4>1. PICK top \in Int : top = Len(rows)
          OBVIOUS
      <4> QED
          BY <4>1, FS_Interval
    <3>2. {i \in DOMAIN rows : n + 1 <= i /\ (rows[i].fault = "blank" \/ rows[i].value \notin stored')} \subseteq 1..Len(rows)
        OBVIOUS
    <3> QED
        BY <3>1, <3>2, FS_Subset, FS_CardinalityType DEF Left, LeftOf
  <2> QED
      BY <1>1, <1>2, <1>3, <2>1 DEF ThreadRow
<1>5. u \in broken' \/ (~k.aborted /\ Stored(row.rows, k.next, k.own)')
  <2> SUFFICES ASSUME u \notin broken' PROVE ~k.aborted /\ Stored(row.rows, k.next, k.own)'
      OBVIOUS
  <2>1. \A i \in DOMAIN rows : i < n /\ rows[i].fault # "blank" => rows[i].value \in stored' \cup deleted' \cup k.own
      BY <1>1 DEF Stored
  <2>2. \A i \in DOMAIN rows : i < n + 1 => i < n \/ i = n
      BY <1>1
  <2>3. \A i \in DOMAIN rows : i < n + 1 /\ rows[i].fault # "blank" => rows[i].value \in stored' \cup deleted' \cup k.own
      BY <1>1, <2>1, <2>2
  <2> QED
      BY <1>1, <2>3 DEF Stored
<1>6. k.inserted + k.updated + k.skipped = k.next - 1
    BY <1>1
<1>7. k.next <= Len(row.rows) + 1
    BY <1>1
<1> QED
    BY <1>4, <1>5, <1>6, <1>7 DEF WorksAt

LEMMA LookKeepsImports ==
    ASSUME ImportInv, NEW t \in Importers, NEW u \in Uploads, LookUp(t, u), Onward
    PROVE  ImportInv'
<1>1. /\ importer[t].of = {u} /\ importer[t].at = "next" /\ HasRow(t, u)
      /\ UNCHANGED <<stored, deleted, broken, mute, upload, importMessages>>
    BY DEF LookUp, At, historyVars
<1>2. PICK s \in ThreadRow, row \in UploadRow : s = importer[t] /\ row = upload[u]
    BY <1>1, AtWork
<1>3. /\ WorksAt(s, row, u) /\ Reported(row, u) /\ row.status \notin {"none", "queued"}
      /\ upload' = [upload EXCEPT ![u] = row]
    BY <1>1, <1>2, AtWork DEF ImportInv
<1>4. Reported(row, u)' /\ mute \subseteq mute'
    BY <1>1, <1>3, ReportedOnward
<1>5. PICK rows \in Seq(RawRow) : rows = row.rows
    BY DEF UploadRow
<1>6. PICK n \in 1..Len(rows) : n = s.next
    BY <1>1, <1>2, <1>5 DEF HasRow, ThreadRow
<1>7. /\ Left(rows, n + 1) <= Left(rows, n)
      /\ rows[n].value \notin stored => Left(rows, n) = Left(rows, n + 1) + 1
      /\ Left(rows, n) \in Nat /\ Left(rows, n + 1) \in Nat
    BY LeftShrinks, LeftCounts
<1>8. \A m \in Int : Left(rows, m)' = Left(rows, m)
    BY <1>1 DEF Left, LeftOf
<1>9. deleted = {} => s.inserted + Left(rows, n) <= row.expected
  <2>1. Fresh(s) = 0 /\ Here(s) = n
      BY <1>1, <1>2, <1>6 DEF Fresh, Here
  <2> QED
      BY <1>3, <1>5, <2>1 DEF WorksAt, ThreadRow
<1>10. Row(t, u) = rows[n]
    BY <1>2, <1>5, <1>6 DEF Row
<1>11. /\ s.inserted + s.updated + s.skipped = s.next - 1
       /\ u \in broken \/ (~s.aborted /\ Stored(rows, n, s.own))
    BY <1>3, <1>5, <1>6 DEF WorksAt
<1>12. CASE Row(t, u).fault = "blank" \/ importer[t].aborted
  <2>1. PICK k \in ThreadRow : k = SkipRow(s)
      BY SkipIs
  <2>2. /\ k.next = n + 1 /\ k.at \in {"batch", "next"} /\ k.of = {u} /\ k.own = s.own /\ k.aborted = s.aborted
        /\ k.inserted = s.inserted /\ k.updated = s.updated /\ k.skipped = s.skipped + 1
      BY <1>1, <1>2, <1>6, <2>1, SkipIs
  <2>3. importer' = [importer EXCEPT ![t] = k]
      BY <1>2, <1>12, <2>1 DEF LookUp, Becomes
  <2>4. deleted' = {} => k.inserted + Left(rows, n + 1)' <= row.expected
    <3>1. Left(rows, n + 1)' = Left(rows, n + 1)
        BY <1>8
    <3>2. s.inserted \in Nat /\ row.expected \in Nat
        BY DEF ThreadRow, UploadRow
    <3>3. PICK a \in Nat, b \in Nat : a = Left(rows, n) /\ b = Left(rows, n + 1)
        BY <1>7
    <3>4. b <= a
        BY <1>7, <3>3
    <3>5. deleted = {} => k.inserted + b <= row.expected
        BY <1>9, <2>2, <3>2, <3>3, <3>4
    <3> QED
        BY <1>1, <3>1, <3>3, <3>5
  <2>5. Stored(rows, n, s.own) => Stored(rows, n, k.own)'
      BY <1>1, <2>2 DEF Stored
  <2>6. WorksAt(k, row, u)'
    <3>1. k.inserted + k.updated + k.skipped = s.inserted + s.updated + s.skipped + 1
        BY <2>2 DEF ThreadRow
    <3>2. \/ u \in broken'
          \/ /\ ~k.aborted /\ Stored(rows, s.next, k.own)'
             /\ rows[s.next].fault = "blank" \/ rows[s.next].value \in k.own
        BY <1>1, <1>2, <1>6, <1>10, <1>11, <1>12, <2>2, <2>5
    <3>3. deleted' = {} => k.inserted + Left(rows, s.next + 1)' <= row.expected
        BY <1>6, <2>4
    <3> QED
        BY <1>5, <1>6, <1>11, <2>2, <3>1, <3>2, <3>3, RowBehind
  <2> QED
      BY <1>3, <1>4, <1>1, <2>2, <2>3, <2>6, GoesOn
<1>13. CASE ~(Row(t, u).fault = "blank" \/ importer[t].aborted)
  <2>1. \E known \in BOOLEAN : known <=> rows[n].value \in stored \cup s.own
    <3>1. CASE rows[n].value \in stored \cup s.own
        BY <3>1
    <3>2. CASE rows[n].value \notin stored \cup s.own
        BY <3>2
    <3> QED
        BY <3>1, <3>2
  <2>0. PICK known \in BOOLEAN : known <=> rows[n].value \in stored \cup s.own
      BY <2>1
  <2> DEFINE looked == [s EXCEPT !.at = "write", !.known = known]
  <2>2. PICK k \in ThreadRow : k = looked
      BY DEF ThreadRow
  <2>3. /\ k.at = "write" /\ k.known = known /\ k.next = n /\ k.of = {u} /\ k.own = s.own /\ k.aborted = s.aborted
        /\ k.inserted = s.inserted /\ k.updated = s.updated /\ k.skipped = s.skipped
      BY <1>1, <1>2, <1>6, <2>2 DEF ThreadRow
  <2>4. importer' = [importer EXCEPT ![t] = k]
      BY <1>2, <1>10, <1>13, <2>0, <2>2 DEF LookUp, Becomes
  <2>5. WorksAt(k, row, u)'
    <3>1. deleted' = {} => k.inserted + Fresh(k) + Left(row.rows, Here(k))' <= row.expected
      <4>1. Fresh(k) = (IF known THEN 0 ELSE 1) /\ Here(k) = n + 1 /\ n + 1 \in Int
          BY <2>3 DEF Fresh, Here
      <4>2. Left(row.rows, Here(k))' = Left(rows, n + 1)
          BY <1>5, <1>8, <4>1
      <4>3. ~known => rows[n].value \notin stored
          BY <2>0
      <4> QED
        <5>1. s.inserted \in Nat /\ row.expected \in Nat
            BY DEF ThreadRow, UploadRow
        <5>2. PICK a \in Nat, b \in Nat, f \in Nat : a = Left(rows, n) /\ b = Left(rows, n + 1) /\ f = Fresh(k)
            BY <1>7, <4>1
        <5>3. b + f <= a
            BY <1>7, <4>1, <4>3, <5>2
        <5>4. deleted = {} => k.inserted + f + b <= row.expected
            BY <1>9, <2>3, <5>1, <5>2, <5>3
        <5> QED
            BY <1>1, <4>2, <5>2, <5>4
    <3>2. u \in broken' \/ (~k.aborted /\ Stored(row.rows, k.next, k.own)')
        BY <1>1, <1>5, <1>11, <2>3 DEF Stored
    <3>3. k.inserted + k.updated + k.skipped = k.next - 1 /\ k.next <= Len(row.rows)
        BY <1>5, <1>6, <1>11, <2>3
    <3> QED
        BY <1>5, <2>3, <3>1, <3>2, <3>3 DEF WorksAt
  <2> QED
      BY <1>1, <1>3, <1>4, <2>3, <2>4, <2>5, GoesOn
<1> QED
    BY <1>12, <1>13

\* What is known of a thread about to write.
LEMMA AtWrite ==
    ASSUME ImportInv, NEW t \in Importers, NEW u \in Uploads, At(t, u, "write"),
           NEW s \in ThreadRow, NEW row \in UploadRow, NEW rows \in Seq(RawRow),
           s = importer[t], row = upload[u], rows = row.rows
    PROVE  /\ s.next \in 1..Len(rows) /\ s.inserted + s.updated + s.skipped = s.next - 1
           /\ deleted = {} => s.inserted + (IF s.known THEN 0 ELSE 1) + Left(rows, s.next + 1) <= row.expected
           /\ u \in broken \/ (~s.aborted /\ Stored(rows, s.next, s.own))
           /\ Row(t, u) = rows[s.next]
<1>1. WorksAt(s, row, u) /\ s.at = "write"
    BY AtWork DEF At
<1>2. Fresh(s) = (IF s.known THEN 0 ELSE 1) /\ Here(s) = s.next + 1
    BY <1>1 DEF Fresh, Here
<1>3. deleted = {} => s.inserted + (IF s.known THEN 0 ELSE 1) + Left(rows, s.next + 1) <= row.expected
    BY <1>1, <1>2 DEF WorksAt
<1>4. s.next \in Nat \ {0} /\ s.next <= Len(rows)
    BY <1>1 DEF WorksAt, ThreadRow
<1> QED
    BY <1>1, <1>3, <1>4 DEF WorksAt, Row

LEMMA WriteKeepsImports ==
    ASSUME ImportInv, NEW t \in Importers, NEW u \in Uploads, WriteRow(t, u), Onward
    PROVE  ImportInv'
<1>1. /\ importer[t].of = {u} /\ At(t, u, "write")
      /\ UNCHANGED <<stored, deleted, broken, mute, upload, importMessages>>
    BY DEF WriteRow, At, historyVars
<1>2. PICK s \in ThreadRow, row \in UploadRow : s = importer[t] /\ row = upload[u]
    BY <1>1, AtWork
<1>3. /\ Reported(row, u) /\ row.status \notin {"none", "queued"} /\ upload' = [upload EXCEPT ![u] = row]
    BY <1>1, <1>2, AtWork DEF ImportInv
<1>4. Reported(row, u)' /\ mute \subseteq mute'
    BY <1>1, <1>3, ReportedOnward
<1>5. PICK rows \in Seq(RawRow) : rows = row.rows
    BY DEF UploadRow
<1>6. /\ s.next \in 1..Len(rows) /\ s.inserted + s.updated + s.skipped = s.next - 1
      /\ deleted = {} => s.inserted + (IF s.known THEN 0 ELSE 1) + Left(rows, s.next + 1) <= row.expected
      /\ u \in broken \/ (~s.aborted /\ Stored(rows, s.next, s.own))
      /\ Row(t, u) = rows[s.next]
    BY <1>1, <1>2, <1>5, AtWrite
<1>7. PICK v \in Values : v = rows[s.next].value
  <2>1. rows[s.next] \in RawRow
      BY <1>6
  <2> QED
      BY <2>1 DEF RawRow
<1>8. PICK k \in ThreadRow : k = Written(s, v)
    BY WriteIs
<1>9. /\ k.next = s.next + 1 /\ k.at \in {"batch", "next"} /\ k.of = {u} /\ k.own = s.own \cup {v}
      /\ k.aborted = s.aborted /\ k.inserted = s.inserted + (IF s.known THEN 0 ELSE 1)
      /\ k.updated = s.updated + (IF s.known THEN 1 ELSE 0) /\ k.skipped = s.skipped
    BY <1>1, <1>2, <1>8, WriteIs
<1>10. importer' = [importer EXCEPT ![t] = k]
    BY <1>2, <1>6, <1>7, <1>8 DEF WriteRow, Becomes, Written
<1>11. k.inserted + k.updated + k.skipped = s.inserted + s.updated + s.skipped + 1
  <2>1. s.inserted \in Nat /\ s.updated \in Nat /\ s.skipped \in Nat
      BY DEF ThreadRow
  <2> QED
      BY <1>9, <2>1
<1>12. deleted' = {} => k.inserted + Left(rows, s.next + 1)' <= row.expected
  <2>1. Left(rows, s.next + 1)' = Left(rows, s.next + 1)
      BY <1>1 DEF Left, LeftOf
  <2> QED
      BY <1>1, <1>6, <1>9, <2>1
<1>13. Stored(rows, s.next, s.own) => Stored(rows, s.next, k.own)'
    BY <1>1, <1>9 DEF Stored
<1>14. \/ u \in broken'
       \/ /\ ~k.aborted /\ Stored(rows, s.next, k.own)'
          /\ rows[s.next].fault = "blank" \/ rows[s.next].value \in k.own
    BY <1>1, <1>6, <1>7, <1>9, <1>13
<1>15. WorksAt(k, row, u)'
    BY <1>5, <1>6, <1>9, <1>11, <1>12, <1>14, RowBehind
<1> QED
    BY <1>1, <1>3, <1>4, <1>9, <1>10, <1>15, GoesOn

LEMMA FailKeepsImports ==
    ASSUME ImportInv, NEW t \in Importers, NEW u \in Uploads, WriteFails(t, u), Onward
    PROVE  ImportInv'
<1>1. /\ importer[t].of = {u} /\ At(t, u, "write")
      /\ UNCHANGED <<stored, deleted, mute, upload, importMessages>> /\ u \in broken'
    BY DEF WriteFails, At
<1>2. PICK s \in ThreadRow, row \in UploadRow : s = importer[t] /\ row = upload[u]
    BY <1>1, AtWork
<1>3. /\ Reported(row, u) /\ row.status \notin {"none", "queued"} /\ upload' = [upload EXCEPT ![u] = row]
    BY <1>1, <1>2, AtWork DEF ImportInv
<1>4. Reported(row, u)' /\ mute \subseteq mute'
    BY <1>1, <1>3, ReportedOnward
<1>5. PICK rows \in Seq(RawRow) : rows = row.rows
    BY DEF UploadRow
<1>6. /\ s.next \in 1..Len(rows) /\ s.inserted + s.updated + s.skipped = s.next - 1
      /\ deleted = {} => s.inserted + (IF s.known THEN 0 ELSE 1) + Left(rows, s.next + 1) <= row.expected
    BY <1>1, <1>2, <1>5, AtWrite
<1>7. PICK none \in SUBSET Values : none = {}
    OBVIOUS
<1> DEFINE failing == [s EXCEPT !.aborted = TRUE, !.own = none]
<1>8. PICK f \in ThreadRow : f = failing
    BY DEF ThreadRow
<1>9. /\ f.next = s.next /\ f.of = {u} /\ f.inserted = s.inserted /\ f.updated = s.updated /\ f.skipped = s.skipped
    BY <1>1, <1>2, <1>8 DEF ThreadRow
<1>10. PICK k \in ThreadRow : k = SkipRow(f)
    BY SkipIs
<1>11. /\ k.next = s.next + 1 /\ k.at \in {"batch", "next"} /\ k.of = {u}
       /\ k.inserted = s.inserted /\ k.updated = s.updated /\ k.skipped = s.skipped + 1
    BY <1>9, <1>10, SkipIs
<1>12. importer' = [importer EXCEPT ![t] = k]
    BY <1>2, <1>7, <1>8, <1>10 DEF WriteFails, Becomes
<1>13. k.inserted + k.updated + k.skipped = s.inserted + s.updated + s.skipped + 1
  <2>1. s.inserted \in Nat /\ s.updated \in Nat /\ s.skipped \in Nat
      BY DEF ThreadRow
  <2>2. PICK a \in Nat, b \in Nat, c \in Nat : a = s.inserted /\ b = s.updated /\ c = s.skipped
      BY <2>1
  <2>3. a + b + (c + 1) = a + b + c + 1
      OBVIOUS
  <2> QED
      BY <1>11, <2>2, <2>3
<1>14. deleted' = {} => k.inserted + Left(rows, s.next + 1)' <= row.expected
  <2>1. Left(rows, s.next + 1)' = Left(rows, s.next + 1)
      BY <1>1 DEF Left, LeftOf
  <2>2. PICK l \in Nat : l = Left(rows, s.next + 1)
    <3>1. s.next + 1 \in Int
        BY <1>6
    <3> QED
        BY <3>1, LeftCounts
  <2>3. s.inserted \in Nat /\ row.expected \in Nat
      BY DEF ThreadRow, UploadRow
  <2>4. deleted = {} => s.inserted + l <= row.expected
      BY <1>6, <2>2, <2>3
  <2> QED
      BY <1>1, <1>11, <2>1, <2>2, <2>4
<1>15. WorksAt(k, row, u)'
    BY <1>1, <1>5, <1>6, <1>11, <1>13, <1>14, RowBehind
<1> QED
    BY <1>1, <1>3, <1>4, <1>11, <1>12, <1>15, GoesOn

\* A commit stores what the thread has kept, so that it may let go of it.
LEMMA CommitsKept ==
    ASSUME Onward, NEW s \in ThreadRow, NEW k \in ThreadRow, NEW row \in UploadRow, NEW u, WorksAt(s, row, u),
           stored' = stored \cup s.own, UNCHANGED <<deleted, broken>>, s.at \in {"next", "batch"},
           k.next = s.next, k.inserted = s.inserted, k.updated = s.updated, k.skipped = s.skipped,
           k.own = {}, ~k.aborted, k.at \in {"next", "report"}, k.at = "report" => k.next = Len(row.rows) + 1
    PROVE  WorksAt(k, row, u)'
<1>1. PICK rows \in Seq(RawRow), n \in Int : rows = row.rows /\ n = s.next
    BY DEF UploadRow, ThreadRow
<1>2. Fresh(s) = 0 /\ Here(s) = n /\ Fresh(k) = 0 /\ Here(k) = n
    BY <1>1 DEF Fresh, Here
<1>3. deleted' = {} => k.inserted + Fresh(k) + Left(row.rows, Here(k))' <= row.expected
  <2> SUFFICES ASSUME deleted' = {} PROVE k.inserted + Fresh(k) + Left(row.rows, Here(k))' <= row.expected
      OBVIOUS
  <2>1. Left(rows, n)' <= Left(rows, n) /\ Left(rows, n) \in Nat /\ Left(rows, n)' \in Nat /\ deleted = {}
      BY LeftOnward
  <2>2. s.inserted + Left(rows, n) <= row.expected
      BY <1>1, <1>2, <2>1 DEF WorksAt, ThreadRow
  <2>3. PICK a \in Nat, b \in Nat, i \in Nat, e \in Nat :
            a = Left(rows, n)' /\ b = Left(rows, n) /\ i = s.inserted /\ e = row.expected
      BY <2>1 DEF ThreadRow, UploadRow
  <2>4. i + a <= e
      BY <2>1, <2>2, <2>3
  <2>5. Left(row.rows, Here(k))' = Left(rows, n)'
      BY <1>1, <1>2
  <2>6. k.inserted + Fresh(k) = i
      BY <1>2, <2>3
  <2> QED
      BY <2>3, <2>4, <2>5, <2>6
<1>4. u \in broken' \/ (~k.aborted /\ Stored(row.rows, k.next, k.own)')
    BY DEF WorksAt, Stored
<1> QED
    BY <1>3, <1>4 DEF WorksAt

\* The thread that has committed.
Rid(s, at) == [s EXCEPT !.at = at, !.own = {}, !.aborted = FALSE]

LEMMA RidIs ==
    ASSUME NEW s \in ThreadRow, NEW at \in {"next", "report"}
    PROVE  /\ Rid(s, at) \in ThreadRow /\ Rid(s, at).at = at /\ Rid(s, at).own = {} /\ ~Rid(s, at).aborted
           /\ Rid(s, at).of = s.of /\ Rid(s, at).next = s.next
           /\ Rid(s, at).inserted = s.inserted /\ Rid(s, at).updated = s.updated /\ Rid(s, at).skipped = s.skipped
<1>1. PICK none \in SUBSET Values, no \in BOOLEAN : none = {} /\ no = FALSE
    OBVIOUS
<1> DEFINE k == [s EXCEPT !.at = at, !.own = none, !.aborted = no]
<1>2. /\ k \in ThreadRow /\ k.at = at /\ k.own = none /\ k.aborted = no /\ k.of = s.of /\ k.next = s.next
      /\ k.inserted = s.inserted /\ k.updated = s.updated /\ k.skipped = s.skipped
    BY DEF ThreadRow
<1> QED
    BY <1>1, <1>2 DEF Rid

LEMMA BatchKeepsImports ==
    ASSUME ImportInv, NEW t \in Importers, NEW u \in Uploads, CommitBatch(t, u), Onward
    PROVE  ImportInv'
<1>1. /\ importer[t].of = {u} /\ importer[t].at = "batch" /\ stored' = stored \cup importer[t].own
      /\ UNCHANGED <<deleted, broken, mute, importMessages>>
    BY DEF CommitBatch, At, Committed, historyVars
<1>2. PICK s \in ThreadRow, was \in UploadRow : s = importer[t] /\ was = upload[u]
    BY <1>1, AtWork
<1>3. WorksAt(s, was, u) /\ Reported(was, u) /\ was.status \notin {"none", "queued"}
    BY <1>1, <1>2, AtWork
<1>4. PICK status \in JobStatus, n \in Int : status = "running" /\ n = s.next - 1
    BY DEF JobStatus, ThreadRow
<1>5. PICK row \in UploadRow : row = StatusOf(was, status, n)
    BY StatusBecomes
<1>6. row.status = "running" /\ row.rows = was.rows /\ row.expected = was.expected
    BY <1>4, <1>5, StatusBecomes
<1>7. upload' = [upload EXCEPT ![u] = row]
    BY <1>2, <1>4, <1>5 DEF CommitBatch, StatusOf
<1>8. PICK at \in {"next", "report"} : at = "next"
    OBVIOUS
<1>9. PICK k \in ThreadRow : k = Rid(s, at)
    BY RidIs
<1>10. /\ k.at = "next" /\ k.own = {} /\ ~k.aborted /\ k.of = {u} /\ k.next = s.next
       /\ k.inserted = s.inserted /\ k.updated = s.updated /\ k.skipped = s.skipped
    BY <1>1, <1>2, <1>8, <1>9, RidIs
<1>11. importer' = [importer EXCEPT ![t] = k]
    BY <1>2, <1>8, <1>9 DEF CommitBatch, Becomes, Rid
<1>12. WorksAt(s, row, u)
    BY <1>1, <1>2, <1>3, <1>6 DEF WorksAt
<1>13. WorksAt(k, row, u)'
    BY <1>1, <1>2, <1>10, <1>12, CommitsKept
<1>14. Reported(row, u)'
  <2>1. Reported(was, u)'
      BY <1>3, ReportedOnward
  <2> QED
      BY <1>3, <1>6, <2>1 DEF Reported
<1> QED
    BY <1>1, <1>6, <1>7, <1>10, <1>11, <1>13, <1>14, GoesOn

LEMMA LastKeepsImports ==
    ASSUME ImportInv, NEW t \in Importers, NEW u \in Uploads, CommitLast(t, u), Onward
    PROVE  ImportInv'
<1>1. /\ importer[t].of = {u} /\ importer[t].at = "next" /\ ~HasRow(t, u) /\ stored' = stored \cup importer[t].own
      /\ UNCHANGED <<deleted, broken, mute, upload, importMessages>>
    BY DEF CommitLast, At, Committed, historyVars
<1>2. PICK s \in ThreadRow, row \in UploadRow : s = importer[t] /\ row = upload[u]
    BY <1>1, AtWork
<1>3. /\ WorksAt(s, row, u) /\ Reported(row, u) /\ row.status \notin {"none", "queued"}
      /\ upload' = [upload EXCEPT ![u] = row]
    BY <1>1, <1>2, AtWork DEF ImportInv
<1>4. s.next = Len(row.rows) + 1
  <2>1. Len(row.rows) \in Nat /\ s.next \in Nat
      BY DEF UploadRow, ThreadRow
  <2> QED
      BY <1>1, <1>2, <1>3, <2>1 DEF HasRow, WorksAt
<1>5. PICK at \in {"next", "report"} : at = "report"
    OBVIOUS
<1>6. PICK k \in ThreadRow : k = Rid(s, at)
    BY RidIs
<1>7. /\ k.at = "report" /\ k.own = {} /\ ~k.aborted /\ k.of = {u} /\ k.next = s.next
      /\ k.inserted = s.inserted /\ k.updated = s.updated /\ k.skipped = s.skipped
    BY <1>1, <1>2, <1>5, <1>6, RidIs
<1>8. importer' = [importer EXCEPT ![t] = k]
    BY <1>2, <1>5, <1>6 DEF CommitLast, Becomes, Rid
<1>9. WorksAt(k, row, u)'
    BY <1>1, <1>2, <1>3, <1>4, <1>7, CommitsKept
<1>10. Reported(row, u)'
    BY <1>3, ReportedOnward
<1> QED
    BY <1>1, <1>3, <1>7, <1>8, <1>9, <1>10, GoesOn

LEMMA ReportKeepsImports ==
    ASSUME ImportInv, NEW t \in Importers, NEW u \in Uploads, ReportComplete(t, u), Onward
    PROVE  ImportInv'
<1>1. /\ importer[t].of = {u} /\ importer[t].at = "report"
      /\ UNCHANGED <<stored, deleted, broken, mute, importMessages>>
    BY DEF ReportComplete, At, historyVars
<1>2. PICK s \in ThreadRow, was \in UploadRow : s = importer[t] /\ was = upload[u]
    BY <1>1, AtWork
<1>3. WorksAt(s, was, u) /\ Reported(was, u) /\ was.status \notin {"none", "queued"} /\ s.at = "report"
    BY <1>1, <1>2, AtWork
<1>4. PICK status \in JobStatus, n \in Int : status = "complete" /\ n = s.next - 1
    BY DEF JobStatus, ThreadRow
<1>5. PICK i \in Nat, m \in Nat, k \in Nat : i = s.inserted /\ m = s.updated /\ k = s.skipped
    BY DEF ThreadRow
<1> DEFINE done == [was EXCEPT !.status = status, !.processed = n, !.inserted = i, !.updated = m, !.skipped = k]
<1>6. PICK row \in UploadRow : row = done
    BY DEF UploadRow
<1>7. /\ row.status = "complete" /\ row.processed = n /\ row.inserted = i /\ row.updated = m /\ row.skipped = k
      /\ row.rows = was.rows /\ row.expected = was.expected
    BY <1>4, <1>6 DEF UploadRow
<1>8. upload' = [upload EXCEPT ![u] = row]
    BY <1>2, <1>4, <1>5, <1>6 DEF ReportComplete
<1>9. PICK at \in {"idle", "next", "write", "batch", "report", "clean"} : at = "clean"
    OBVIOUS
<1> DEFINE cleaning == [s EXCEPT !.at = at]
<1>10. PICK c \in ThreadRow : c = cleaning
    BY DEF ThreadRow
<1>11. /\ c.at = "clean" /\ c.of = {u} /\ c.next = s.next /\ c.own = s.own /\ c.aborted = s.aborted
       /\ c.inserted = i /\ c.updated = m /\ c.skipped = k
    BY <1>1, <1>2, <1>5, <1>9, <1>10 DEF ThreadRow
<1>12. importer' = [importer EXCEPT ![t] = c]
    BY <1>2, <1>9, <1>10 DEF ReportComplete, Becomes
<1>13. /\ n = Len(row.rows) /\ n = i + m + k /\ s.own = {} /\ s.next = Len(row.rows) + 1
  <2>1. Len(was.rows) \in Nat /\ s.next \in Nat
      BY DEF UploadRow, ThreadRow
  <2>2. s.next = Len(was.rows) + 1 /\ s.own = {} /\ s.inserted + s.updated + s.skipped = s.next - 1
      BY <1>3 DEF WorksAt
  <2>3. n = Len(was.rows) /\ n = i + m + k
      BY <1>4, <1>5, <2>1, <2>2
  <2> QED
      BY <1>7, <2>2, <2>3
<1>14. PICK rows \in Seq(RawRow) : rows = row.rows
    BY DEF UploadRow
<1>15. u \in broken \/ (~s.aborted /\ Stored(rows, s.next, {}))
    BY <1>3, <1>7, <1>13, <1>14 DEF WorksAt
<1>16. deleted = {} => i <= row.expected /\ i + Left(rows, s.next) <= row.expected
  <2>1. Fresh(s) = 0 /\ Here(s) = s.next
      BY <1>3 DEF Fresh, Here
  <2>2. deleted = {} => i + Left(rows, s.next) <= row.expected
      BY <1>3, <1>5, <1>7, <1>14, <2>1 DEF WorksAt
  <2>3. Left(rows, s.next) \in Nat /\ row.expected \in Nat
    <3>1. s.next \in Int
        BY DEF ThreadRow
    <3>2. row.expected \in Nat
        BY DEF UploadRow
    <3>3. \A q \in Int : Left(rows, q) \in Nat
        BY LeftCounts
    <3> QED
        BY <3>1, <3>2, <3>3
  <2>4. \A l, e \in Nat : i + l <= e => i <= e
      OBVIOUS
  <2> QED
      BY <2>2, <2>3, <2>4
<1>17. Complete(row, u)
  <2>1. u \notin broken => Wanted(row.rows) \subseteq stored \cup deleted
    <3>1. \A j \in DOMAIN rows : j < s.next
        BY <1>13, <1>14
    <3> QED
        BY <1>14, <1>15, <3>1 DEF Stored, Wanted
  <2> QED
      BY <1>7, <1>13, <1>16, <2>1 DEF Complete
<1>18. Reported(row, u)
  <2>1. deleted = {} => Left(row.rows, 1) <= row.expected
      BY <1>3, <1>7 DEF Reported
  <2> QED
      BY <1>17, <2>1 DEF Reported
<1>19. WorksAt(c, row, u)
  <2>1. Fresh(c) = 0 /\ Here(c) = s.next
      BY <1>11 DEF Fresh, Here
  <2>2. deleted = {} => c.inserted + Fresh(c) + Left(row.rows, Here(c)) <= row.expected
      BY <1>11, <1>14, <1>16, <2>1
  <2>3. u \in broken \/ (~c.aborted /\ Stored(row.rows, c.next, c.own))
      BY <1>11, <1>13, <1>14, <1>15
  <2>4. c.inserted + c.updated + c.skipped = c.next - 1
      BY <1>4, <1>11, <1>13
  <2> QED
      BY <1>7, <1>11, <1>13, <2>2, <2>3, <2>4 DEF WorksAt
<1>20. WorksAt(c, row, u)' /\ Reported(row, u)'
    BY <1>18, <1>19, WorksOnward, ReportedOnward
<1> QED
    BY <1>1, <1>7, <1>8, <1>11, <1>12, <1>20, GoesOn

LEMMA CleanKeepsImports ==
    ASSUME ImportInv, NEW t \in Importers, NEW u \in Uploads, CleanPayload(t, u), Onward
    PROVE  ImportInv'
<1>1. /\ importer[t].of = {u} /\ importer[t].at = "clean" /\ importer' = [importer EXCEPT ![t] = Pausing]
      /\ UNCHANGED <<mute, upload, importMessages>>
    BY DEF CleanPayload, At, Becomes, historyVars
<1>2. PICK row \in UploadRow : row = upload[u]
    BY <1>1, AtWork
<1>3. /\ Reported(row, u) /\ row.status = "complete" /\ upload' = [upload EXCEPT ![u] = row]
      /\ importMessages' = [importMessages EXCEPT ![u] = {}]
    BY <1>1, <1>2, AtWork DEF ImportInv, WorksAt
<1>4. Reported(row, u)' /\ mute \subseteq mute'
    BY <1>1, <1>3, ReportedOnward
<1>5. {} \in SUBSET Nat /\ \A m, n \in {} : m = n
    OBVIOUS
<1> QED
    BY <1>1, <1>3, <1>4, <1>5, Leaves

LEMMA RaiseKeepsImports ==
    ASSUME ImportInv, NEW t \in Importers, NEW u \in Uploads, ImportRaises(t, u), Onward
    PROVE  ImportInv'
<1>1. /\ importer[t].of = {u} /\ importer' = [importer EXCEPT ![t] = Pausing]
      /\ \/ upload' = [upload EXCEPT ![u].status = "failed"] /\ UNCHANGED mute
         \/ UNCHANGED upload /\ mute' = mute \cup {u}
    BY DEF ImportRaises, Becomes
<1>2. PICK s \in ThreadRow, was \in UploadRow : s = importer[t] /\ was = upload[u]
    BY <1>1, AtWork
<1>3. /\ Reported(was, u) /\ was.status \notin {"none", "queued"} /\ importMessages[u] = {}
    BY <1>1, <1>2, AtWork
<1>4. Reported(was, u)' /\ mute \subseteq mute'
    BY <1>1, <1>3, ReportedOnward
<1>5. PICK ms \in SUBSET Nat : ms = {s.failed + 1} \cap 0..ImportRetries
  <2>1. s.failed + 1 \in Nat
      BY DEF ThreadRow
  <2>2. {s.failed + 1} \cap 0..ImportRetries \subseteq Nat
      BY <2>1
  <2> QED
      BY <2>2
<1>6. /\ \A m, n \in ms : m = n
      /\ importMessages' = [importMessages EXCEPT ![u] = ms]
    BY <1>2, <1>3, <1>5 DEF ImportRaises
<1>7. CASE upload' = [upload EXCEPT ![u].status = "failed"] /\ UNCHANGED mute
  <2>1. PICK status \in JobStatus, n \in Int : status = "failed" /\ n = was.processed
      BY DEF JobStatus, UploadRow
  <2>2. PICK row \in UploadRow : row = StatusOf(was, status, n)
      BY StatusBecomes
  <2>3. row.status = "failed" /\ row.rows = was.rows /\ row.expected = was.expected
      BY <2>1, <2>2, StatusBecomes
  <2>4. upload' = [upload EXCEPT ![u] = row]
      BY <1>2, <1>7, <2>1, <2>2, EndsAs
  <2>5. Reported(row, u)'
      BY <1>3, <1>4, <2>3 DEF Reported
  <2> QED
      BY <1>1, <1>4, <1>6, <2>3, <2>4, <2>5, Leaves
<1>8. CASE UNCHANGED upload /\ mute' = mute \cup {u}
  <2>1. upload' = [upload EXCEPT ![u] = was] /\ u \in mute'
      BY <1>2, <1>8 DEF ImportInv
  <2> QED
      BY <1>1, <1>3, <1>4, <1>6, <2>1, Leaves
<1> QED
    BY <1>1, <1>7, <1>8

LEMMA DeathKeepsImports ==
    ASSUME ImportInv, NEW t \in Importers, NEW u \in Uploads, ImporterDies(t, u), Onward
    PROVE  ImportInv'
<1>1. /\ importer[t].of = {u} /\ importer' = [importer EXCEPT ![t] = Pausing]
      /\ UNCHANGED <<upload, mute>>
    BY DEF ImporterDies, Becomes
<1>2. PICK s \in ThreadRow, row \in UploadRow : s = importer[t] /\ row = upload[u]
    BY <1>1, AtWork
<1>3. /\ Reported(row, u) /\ row.status \notin {"none", "queued"} /\ importMessages[u] = {}
      /\ upload' = [upload EXCEPT ![u] = row]
    BY <1>1, <1>2, AtWork DEF ImportInv
<1>4. Reported(row, u)' /\ mute \subseteq mute'
    BY <1>1, <1>3, ReportedOnward
<1>5. PICK ms \in SUBSET Nat : ms = {s.failed}
    BY DEF ThreadRow
<1>6. /\ (\A m, n \in ms : m = n) /\ ms # {}
      /\ importMessages' = [importMessages EXCEPT ![u] = ms]
    BY <1>2, <1>3, <1>5 DEF ImporterDies
<1> QED
    BY <1>1, <1>3, <1>4, <1>6, Leaves

LEMMA OthersKeepImports ==
    ASSUME ImportInv, Onward, UNCHANGED <<upload, importer, importMessages, mute>>
    PROVE  ImportInv'
<1>1. \A u \in Uploads : Attended(u)'
    BY DEF ImportInv, Attended, OneThread, Seen
<1>2. \A u \in Uploads : Reported(upload[u], u)'
  <2> SUFFICES ASSUME NEW u \in Uploads PROVE Reported(upload[u], u)'
      OBVIOUS
  <2>1. PICK row \in UploadRow : row = upload[u]
      BY DEF ImportInv
  <2>2. Reported(row, u)'
      BY <2>1, ReportedOnward DEF ImportInv
  <2> QED
      BY <2>1, <2>2
<1>3. \A t \in Importers : Single(importer[t])'
    BY DEF ImportInv, Single
<1>4. \A t \in Importers : \A u \in Uploads : u \in importer'[t].of => WorksAt(importer[t], upload[u], u)'
  <2> SUFFICES ASSUME NEW t \in Importers, NEW u \in Uploads, u \in importer[t].of
               PROVE  WorksAt(importer[t], upload[u], u)'
      OBVIOUS
  <2>1. PICK s \in ThreadRow, row \in UploadRow : s = importer[t] /\ row = upload[u]
      BY DEF ImportInv
  <2>2. WorksAt(s, row, u)'
      BY <2>1, WorksOnward DEF ImportInv
  <2> QED
      BY <2>1, <2>2
<1> QED
    BY <1>1, <1>2, <1>3, <1>4 DEF ImportInv

LEMMA ImportStep ==
    ASSUME ImportInv, [ImportNext]_importVars
    PROVE  ImportInv'
<1>1. Onward
    BY StepOnward
<1>2. CASE \E u \in Uploads : BulkUpload(u)
    BY <1>1, <1>2, UploadKeepsImports
<1>3. CASE \E t \in Importers, u \in Uploads : TakeImport(t, u)
    BY <1>1, <1>3, TakeKeepsImports
<1>4. CASE \E t \in Importers, u \in Uploads : LookUp(t, u) \/ WriteRow(t, u) \/ WriteFails(t, u)
    BY <1>1, <1>4, LookKeepsImports, WriteKeepsImports, FailKeepsImports
<1>5. CASE \E t \in Importers, u \in Uploads : CommitBatch(t, u) \/ CommitLast(t, u)
    BY <1>1, <1>5, BatchKeepsImports, LastKeepsImports
<1>6. CASE \E t \in Importers, u \in Uploads : ReportComplete(t, u) \/ CleanPayload(t, u)
    BY <1>1, <1>6, ReportKeepsImports, CleanKeepsImports
<1>7. CASE \E t \in Importers, u \in Uploads : ImportRaises(t, u) \/ ImporterDies(t, u)
    BY <1>1, <1>7, RaiseKeepsImports, DeathKeepsImports
<1>8. CASE \E v \in Values : SightValue(v) \/ DeleteValue(v)
    BY <1>1, <1>8, OthersKeepImports DEF SightValue, DeleteValue
<1>9. CASE UNCHANGED importVars
    BY <1>1, <1>9, OthersKeepImports DEF importVars
<1> QED
    BY <1>2, <1>3, <1>4, <1>5, <1>6, <1>7, <1>8, <1>9 DEF ImportNext

LEMMA ImportStart == ImportInit => ImportInv
<1> SUFFICES ASSUME ImportInit PROVE ImportInv
    OBVIOUS
<1>1. upload \in [Uploads -> UploadRow] /\ \A u \in Uploads : upload[u].status = "none"
  <2>1. NoUpload \in UploadRow /\ NoUpload.status = "none"
      BY DEF NoUpload, UploadRow, JobStatus
  <2> QED
      BY <2>1 DEF ImportInit
<1>2. importer \in [Importers -> ThreadRow] /\ \A t \in Importers : importer[t].of = {} /\ importer[t].at = "idle"
    BY PausingIs DEF ImportInit
<1>3. importMessages \in [Uploads -> SUBSET Nat] /\ \A u \in Uploads : importMessages[u] = {}
    BY DEF ImportInit
<1>4. \A u \in Uploads : Attended(u) /\ Reported(upload[u], u)
    BY <1>1, <1>2, <1>3 DEF Attended, OneThread, Seen, Reported
<1>5. \A t \in Importers : Single(importer[t])
    BY <1>2 DEF Single
<1> QED
    BY <1>1, <1>2, <1>3, <1>4, <1>5 DEF ImportInv

LEMMA ImportHolds == ImportInv => ImportsReported
<1> SUFFICES ASSUME ImportInv, NEW u \in Uploads
             PROVE  /\ upload[u].status = "complete" => Complete(upload[u], u)
                    /\ Settled(u) => upload[u].status \in {"none", "complete", "failed"} \/ u \in mute
    BY DEF ImportsReported, Complete
<1>1. upload[u].status \in {"none", "queued", "running", "complete", "failed"} /\ Attended(u) /\ Reported(upload[u], u)
    BY DEF ImportInv, UploadRow, JobStatus
<1> QED
    BY <1>1 DEF Attended, Seen, Settled, Reported

\* An import that says it is complete has stored the rows it accepted and counted each once, for
\* any files, threads and retries, and none that nobody works on is left undecided, but for what
\* ImportsReported excepts.
THEOREM ImportsCorrect == ImportSpec => []ImportsReported
<1>1. ImportInit => ImportInv
    BY ImportStart
<1>2. ImportInv /\ [ImportNext]_importVars => ImportInv'
    BY ImportStep
<1>3. ImportInv => ImportsReported
    BY ImportHolds
<1> QED
    BY <1>1, <1>2, <1>3, PTL DEF ImportSpec

Payloads == {Rows(f, k) : f \in Files, k \in {"csv", "stix"}} \cup {<<>>}
Bounded(row) ==
    /\ row.rows \in Payloads /\ Len(row.rows) <= RowCap
    /\ row.processed \in Counts /\ row.inserted \in Counts /\ row.updated \in Counts /\ row.skipped \in Counts
    /\ row.expected \in Counts

\* What ImportInv does not say of the state: no file is longer than the cap, so that no count is
\* greater, and no message has failed more often than it is sent again.
ImportBounds ==
    /\ stored \subseteq Values /\ deleted \subseteq Values /\ broken \subseteq Uploads /\ mute \subseteq Uploads
    /\ \A u \in Uploads : Bounded(upload[u])
    /\ \A u \in Uploads : importMessages[u] \subseteq 0..ImportRetries
    /\ \A t \in Importers : /\ importer[t].failed \in 0..ImportRetries
                            /\ importer[t].at = "idle" => importer[t] = Pausing
    /\ disturbed \in 0..MaxDisturbed

LEMMA Limits == RowCap \in Nat /\ ImportRetries \in Nat /\ MaxDisturbed \in Nat /\ 0 \in Counts
BY ImportLimits DEF Counts

LEMMA NothingBounded == Bounded(NoUpload)
BY Limits DEF Bounded, NoUpload, Payloads

LEMMA PausingRests == Pausing.failed \in 0..ImportRetries /\ Pausing.at = "idle"
BY Limits DEF Pausing

LEMMA ImportBoundsInit == ImportInit => ImportBounds
<1> SUFFICES ASSUME ImportInit PROVE ImportBounds
    OBVIOUS
<1>1. \A u \in Uploads : upload[u] = NoUpload /\ importMessages[u] = {}
    BY DEF ImportInit
<1>2. \A t \in Importers : importer[t] = Pausing
    BY DEF ImportInit
<1>3. disturbed \in 0..MaxDisturbed
    BY Limits DEF ImportInit
<1>4. stored = {} /\ deleted = {} /\ broken = {} /\ mute = {}
    BY DEF ImportInit
<1> QED
    BY <1>1, <1>2, <1>3, <1>4, NothingBounded, PausingRests DEF ImportBounds

\* What a file that is let in has: rows within the cap.
LEMMA PayloadBounded ==
    ASSUME NEW file \in Files, NEW format \in {"csv", "json", "stix"}, ~TooLarge(file, format)
    PROVE  Rows(file, format) \in Payloads /\ Len(Rows(file, format)) <= RowCap
<1>1. Rows(file, format) \in Payloads
    BY DEF Payloads, Rows
<1>2. CASE format = "stix"
  <2>1. Rows(file, format) \in Seq(RawRow) /\ Rows(file, format) = StixRows(file)
      BY <1>2, RowsParsed DEF Rows
  <2>2. Len(StixRows(file)) \in Nat /\ ~(Len(StixRows(file)) > RowCap)
      BY <1>2, <2>1 DEF TooLarge
  <2>3. Len(StixRows(file)) <= RowCap
      BY <2>2, Limits
  <2> QED
      BY <1>1, <2>1, <2>3
<1>3. CASE format # "stix"
  <2>1. /\ Len(file) \in Nat /\ Len(ParsedRows(file)) \in Nat /\ Len(ParsedRows(file)) <= Len(file)
      BY ImportAssumption
  <2>2. ~(Len(file) > RowCap)
      BY <1>3 DEF TooLarge
  <2>3. Len(ParsedRows(file)) <= RowCap
      BY <2>1, <2>2, Limits
  <2> QED
      BY <1>1, <1>3, <2>3 DEF Rows
<1> QED
    BY <1>1, <1>2, <1>3

LEMMA LeftWithin ==
    ASSUME NEW rows \in Seq(RawRow)
    PROVE  Left(rows, 1) \in Nat /\ Left(rows, 1) <= Len(rows)
<1>1. IsFiniteSet(1..Len(rows)) /\ Cardinality(1..Len(rows)) = Len(rows)
  <2>1. Len(rows) \in Nat /\ 1 \in Int /\ Len(rows) \in Int
      OBVIOUS
  <2>2. /\ IsFiniteSet(1..Len(rows))
        /\ Cardinality(1..Len(rows)) = IF 1 > Len(rows) THEN 0 ELSE Len(rows) - 1 + 1
      BY <2>1, FS_Interval
  <2> QED
      BY <2>1, <2>2
<1>2. LeftOf(rows, 1) \subseteq 1..Len(rows)
    BY DEF LeftOf
<1> QED
    BY <1>1, <1>2, FS_Subset, LeftCounts, 1 \in Int DEF Left

LEMMA StatusBounded ==
    ASSUME NEW was \in UploadRow, Bounded(was), NEW status, NEW n \in Counts
    PROVE  Bounded(StatusOf(was, status, n))
<1>1. PICK row : row = StatusOf(was, status, n)
    OBVIOUS
<1>2. /\ row.rows = was.rows /\ row.processed = n /\ row.inserted = was.inserted
      /\ row.updated = was.updated /\ row.skipped = was.skipped /\ row.expected = was.expected
    BY <1>1 DEF StatusOf, UploadRow
<1> QED
    BY <1>1, <1>2 DEF Bounded

\* What a step does at an upload and in a thread keeps to the bounds if what it writes does.
LEMMA BoundsKept ==
    ASSUME ImportInv, ImportBounds, NEW t \in Importers, NEW u \in Uploads,
           NEW s, s.failed \in 0..ImportRetries, s.at = "idle" => s = Pausing,
           importer' = [importer EXCEPT ![t] = s],
           NEW row, Bounded(row), upload' = [upload EXCEPT ![u] = row],
           NEW ms \in SUBSET (0..ImportRetries), importMessages' = [importMessages EXCEPT ![u] = ms],
           stored' \subseteq Values, deleted' \subseteq Values, broken' \subseteq Uploads, mute' \subseteq Uploads,
           disturbed' \in 0..MaxDisturbed
    PROVE  ImportBounds'
<1>1. \A w \in Importers : importer'[w] = IF w = t THEN s ELSE importer[w]
    BY DEF ImportInv
<1>2. \A v \in Uploads : /\ upload'[v] = IF v = u THEN row ELSE upload[v]
                         /\ importMessages'[v] = IF v = u THEN ms ELSE importMessages[v]
    BY DEF ImportInv
<1>3. \A v \in Uploads : Bounded(upload'[v])
    BY <1>2 DEF ImportBounds
<1>4. \A v \in Uploads : importMessages'[v] \subseteq 0..ImportRetries
    BY <1>2 DEF ImportBounds
<1>5. \A w \in Importers : importer'[w].failed \in 0..ImportRetries /\ (importer'[w].at = "idle" => importer'[w] = Pausing)
    BY <1>1 DEF ImportBounds
<1>6. \A v \in Uploads : Bounded(upload[v])'
    BY <1>3 DEF Bounded
<1> QED
    BY <1>4, <1>5, <1>6 DEF ImportBounds

\* A thread that is at an upload has its row within the cap, ...
LEMMA ThreadWithin ==
    ASSUME ImportInv, ImportBounds, NEW t \in Importers, NEW u \in Uploads, importer[t].of = {u}
    PROVE  /\ importer[t] \in ThreadRow /\ upload[u] \in UploadRow /\ Bounded(upload[u])
           /\ importer[t].failed \in 0..ImportRetries
           /\ importer[t].next \in 1..(RowCap + 1) /\ importer[t].next - 1 \in Counts
           /\ importer[t].inserted \in Counts /\ importer[t].updated \in Counts /\ importer[t].skipped \in Counts
<1>1. /\ importer[t] \in ThreadRow /\ upload[u] \in UploadRow /\ Bounded(upload[u])
      /\ importer[t].failed \in 0..ImportRetries /\ WorksAt(importer[t], upload[u], u)
    BY AtWork DEF ImportBounds
<1>2. PICK rows \in Seq(RawRow) : rows = upload[u].rows
    BY <1>1 DEF UploadRow
<1>3. /\ importer[t].next \in Nat \ {0} /\ importer[t].inserted \in Nat
      /\ importer[t].updated \in Nat /\ importer[t].skipped \in Nat
    BY <1>1 DEF ThreadRow
<1>4. /\ Len(rows) \in Nat /\ Len(rows) <= RowCap /\ importer[t].next <= Len(rows) + 1
      /\ importer[t].inserted + importer[t].updated + importer[t].skipped = importer[t].next - 1
    BY <1>1, <1>2 DEF WorksAt, Bounded
<1> DEFINE s == importer[t]
<1>5. PICK n, i, m, k : n = s.next /\ i = s.inserted /\ m = s.updated /\ k = s.skipped
    OBVIOUS
<1>6. /\ n \in Nat \ {0} /\ i \in Nat /\ m \in Nat /\ k \in Nat /\ n <= RowCap + 1 /\ i + m + k = n - 1
    BY <1>3, <1>4, <1>5, Limits
<1>7. n \in 1..(RowCap + 1) /\ n - 1 \in Counts /\ i \in Counts /\ m \in Counts /\ k \in Counts
    BY <1>6, Limits DEF Counts
<1> QED
    BY <1>1, <1>5, <1>7

\* ... and goes on with as many failures as before, or leaves it.
AtUpload(t, u) ==
    \/ LookUp(t, u) \/ WriteRow(t, u) \/ WriteFails(t, u) \/ CommitBatch(t, u) \/ CommitLast(t, u)
    \/ ReportComplete(t, u) \/ CleanPayload(t, u) \/ ImportRaises(t, u) \/ ImporterDies(t, u)

LEMMA ThreadAfter ==
    ASSUME ImportInv, ImportBounds, NEW t \in Importers, NEW u \in Uploads, AtUpload(t, u)
    PROVE  \E s : /\ s.failed \in 0..ImportRetries /\ (s.at = "idle" => s = Pausing)
                  /\ importer' = [importer EXCEPT ![t] = s]
<1>1. PICK was \in ThreadRow : was = importer[t] /\ was.failed \in 0..ImportRetries
    BY DEF ImportInv, ImportBounds
<1>2. Pausing.failed \in 0..ImportRetries
    BY PausingRests
<1>3. CASE LookUp(t, u)
  <2>1. \E s : /\ s.failed = was.failed /\ s.at # "idle" /\ importer' = [importer EXCEPT ![t] = s]
    <3>1. CASE Becomes(t, SkipRow(was))
      <4>1. SkipRow(was).failed = was.failed /\ SkipRow(was).at # "idle"
          BY DEF SkipRow, Behind, ThreadRow
      <4> QED
          BY <3>1, <4>1 DEF Becomes
    <3>2. ASSUME NEW known, Becomes(t, [was EXCEPT !.at = "write", !.known = known])
          PROVE  \E s : /\ s.failed = was.failed /\ s.at # "idle" /\ importer' = [importer EXCEPT ![t] = s]
      <4>1. PICK s : s = [was EXCEPT !.at = "write", !.known = known]
          OBVIOUS
      <4>2. s.failed = was.failed /\ s.at = "write"
          BY <4>1 DEF ThreadRow
      <4> QED
          BY <3>2, <4>1, <4>2 DEF Becomes
    <3> QED
        BY <1>1, <1>3, <3>1, <3>2 DEF LookUp
  <2> QED
      BY <1>1, <2>1
<1>4. CASE WriteRow(t, u)
  <2>1. importer[t].of = {u} /\ At(t, u, "write")
      BY <1>4 DEF WriteRow, At
  <2>2. PICK row \in UploadRow, rows \in Seq(RawRow) : row = upload[u] /\ rows = row.rows
      BY <2>1, AtWork DEF UploadRow
  <2>3. was.next \in 1..Len(rows) /\ Row(t, u) = rows[was.next]
      BY <1>1, <2>1, <2>2, AtWrite
  <2>4. PICK v \in Values : v = Row(t, u).value
    <3>1. rows[was.next] \in RawRow
        BY <2>3
    <3> QED
        BY <2>3, <3>1 DEF RawRow
  <2>5. PICK s \in ThreadRow : s = Written(was, v) /\ s.failed = was.failed /\ s.at \in {"batch", "next"}
      BY WriteIs
  <2>6. importer' = [importer EXCEPT ![t] = s]
      BY <1>1, <1>4, <2>4, <2>5 DEF WriteRow, Becomes, Written
  <2> QED
      BY <1>1, <2>5, <2>6
<1>5. CASE WriteFails(t, u)
  <2>1. PICK s : s = SkipRow([was EXCEPT !.aborted = TRUE, !.own = {}])
      OBVIOUS
  <2>2. s.failed = was.failed /\ s.at # "idle"
      BY <2>1 DEF SkipRow, Behind, ThreadRow
  <2> QED
      BY <1>1, <1>5, <2>1, <2>2 DEF WriteFails, Becomes
<1>6. ASSUME NEW at \in {"next", "report"}, Becomes(t, [was EXCEPT !.at = at, !.own = {}, !.aborted = FALSE])
      PROVE  \E s : s.failed = was.failed /\ s.at # "idle" /\ importer' = [importer EXCEPT ![t] = s]
  <2>1. PICK s : s = [was EXCEPT !.at = at, !.own = {}, !.aborted = FALSE]
      OBVIOUS
  <2>2. s.failed = was.failed /\ s.at # "idle"
      BY <2>1 DEF ThreadRow
  <2> QED
      BY <1>6, <2>1, <2>2 DEF Becomes
<1>7. CASE CommitBatch(t, u) \/ CommitLast(t, u)
    BY <1>1, <1>6, <1>7 DEF CommitBatch, CommitLast
<1>8. CASE ReportComplete(t, u)
  <2>1. PICK s : s = [was EXCEPT !.at = "clean"]
      OBVIOUS
  <2>2. s.failed = was.failed /\ s.at # "idle"
      BY <2>1 DEF ThreadRow
  <2> QED
      BY <1>1, <1>8, <2>1, <2>2 DEF ReportComplete, Becomes
<1>9. CASE CleanPayload(t, u) \/ ImportRaises(t, u) \/ ImporterDies(t, u)
    BY <1>2, <1>9 DEF CleanPayload, ImportRaises, ImporterDies, Becomes
<1> QED
    BY <1>3, <1>4, <1>5, <1>7, <1>8, <1>9 DEF AtUpload

LEMMA UploadAfter ==
    ASSUME ImportInv, ImportBounds, NEW t \in Importers, NEW u \in Uploads, AtUpload(t, u)
    PROVE  \E row : Bounded(row) /\ upload' = [upload EXCEPT ![u] = row]
<1>1. importer[t].of = {u}
    BY DEF AtUpload, LookUp, WriteRow, WriteFails, CommitBatch, CommitLast, ReportComplete, CleanPayload,
           ImportRaises, ImporterDies, At
<1>2. PICK was \in UploadRow : was = upload[u] /\ Bounded(was)
    BY <1>1, ThreadWithin
<1>3. importer[t].next - 1 \in Counts /\ was.processed \in Counts
    BY <1>1, <1>2, ThreadWithin DEF Bounded
<1>4. CASE UNCHANGED upload
    BY <1>2, <1>4 DEF ImportInv
<1>5. CASE CommitBatch(t, u)
  <2>1. upload' = [upload EXCEPT ![u] = StatusOf(was, "running", importer[t].next - 1)]
      BY <1>2, <1>5 DEF CommitBatch, StatusOf, ImportInv
  <2> QED
      BY <1>2, <1>3, <2>1, StatusBounded
<1>6. CASE ReportComplete(t, u)
  <2>1. PICK n, i, m, k : n = importer[t].next - 1 /\ i = importer[t].inserted /\ m = importer[t].updated /\ k = importer[t].skipped
      OBVIOUS
  <2>2. n \in Counts /\ i \in Counts /\ m \in Counts /\ k \in Counts
      BY <1>1, <2>1, ThreadWithin
  <2>3. PICK row : row = [was EXCEPT !.status = "complete", !.processed = n, !.inserted = i, !.updated = m, !.skipped = k]
      OBVIOUS
  <2>4. /\ row.rows = was.rows /\ row.processed = n /\ row.inserted = i /\ row.updated = m /\ row.skipped = k
        /\ row.expected = was.expected
      BY <2>3 DEF UploadRow
  <2>5. upload' = [upload EXCEPT ![u] = row]
      BY <1>2, <1>6, <2>1, <2>3 DEF ReportComplete
  <2> QED
      BY <1>2, <2>2, <2>4, <2>5 DEF Bounded
<1>7. CASE ImportRaises(t, u)
  <2>1. upload' = [upload EXCEPT ![u].status = "failed"] \/ UNCHANGED upload
      BY <1>7 DEF ImportRaises
  <2>2. CASE upload' = [upload EXCEPT ![u].status = "failed"]
    <3>1. upload' = [upload EXCEPT ![u] = StatusOf(was, "failed", was.processed)]
        BY <1>2, <2>2, EndsAs
    <3> QED
        BY <1>2, <1>3, <3>1, StatusBounded
  <2> QED
      BY <1>4, <2>1, <2>2
<1> QED
    BY <1>4, <1>5, <1>6, <1>7
       DEF AtUpload, LookUp, WriteRow, WriteFails, CommitLast, CleanPayload, ImporterDies

LEMMA MessagesAfter ==
    ASSUME ImportInv, ImportBounds, NEW t \in Importers, NEW u \in Uploads, AtUpload(t, u)
    PROVE  \E ms \in SUBSET (0..ImportRetries) : importMessages' = [importMessages EXCEPT ![u] = ms]
<1>1. PICK was \in SUBSET (0..ImportRetries) : was = importMessages[u]
    BY DEF ImportBounds
<1>2. importer[t].failed \in 0..ImportRetries
    BY DEF ImportBounds
<1>3. CASE UNCHANGED importMessages
    BY <1>1, <1>3 DEF ImportInv
<1>4. CASE ImportRaises(t, u)
    BY <1>1, <1>4 DEF ImportRaises
<1>5. CASE ImporterDies(t, u)
    BY <1>1, <1>2, <1>5 DEF ImporterDies
<1> QED
    BY <1>3, <1>4, <1>5
       DEF AtUpload, LookUp, WriteRow, WriteFails, CommitBatch, CommitLast, ReportComplete, CleanPayload

LEMMA AtUploadBounds ==
    ASSUME ImportInv, ImportBounds, NEW t \in Importers, NEW u \in Uploads, AtUpload(t, u)
    PROVE  ImportBounds'
<1>1. PICK s : /\ s.failed \in 0..ImportRetries /\ (s.at = "idle" => s = Pausing)
               /\ importer' = [importer EXCEPT ![t] = s]
    BY ThreadAfter
<1>2. PICK row : Bounded(row) /\ upload' = [upload EXCEPT ![u] = row]
    BY UploadAfter
<1>3. PICK ms \in SUBSET (0..ImportRetries) : importMessages' = [importMessages EXCEPT ![u] = ms]
    BY MessagesAfter
<1>4. importer[t].own \subseteq Values
    BY DEF ImportInv, ThreadRow
<1>5. stored' \subseteq Values /\ deleted' \subseteq Values
    BY <1>4 DEF ImportBounds, AtUpload, LookUp, WriteRow, WriteFails, CommitBatch, CommitLast, Committed,
                ReportComplete, CleanPayload, ImportRaises, ImporterDies, historyVars
<1>6. broken' \subseteq Uploads /\ mute' \subseteq Uploads
    BY DEF ImportBounds, AtUpload, LookUp, WriteRow, WriteFails, CommitBatch, CommitLast,
           ReportComplete, CleanPayload, ImportRaises, ImporterDies, historyVars
<1>7. disturbed' \in 0..MaxDisturbed
    BY Limits DEF ImportBounds, AtUpload, LookUp, WriteRow, WriteFails, CommitBatch, CommitLast,
                  ReportComplete, CleanPayload, ImportRaises, ImporterDies, historyVars, Disturbs
<1> QED
    BY <1>1, <1>2, <1>3, <1>5, <1>6, <1>7, BoundsKept

LEMMA ImportBoundsNext == ImportInv /\ ImportBounds /\ [ImportNext]_importVars => ImportBounds'
<1> SUFFICES ASSUME ImportInv, ImportBounds, [ImportNext]_importVars PROVE ImportBounds'
    OBVIOUS
<1>0. /\ upload \in [Uploads -> UploadRow] /\ importer \in [Importers -> ThreadRow]
      /\ importMessages \in [Uploads -> SUBSET Nat]
      /\ \A u \in Uploads : Bounded(upload[u]) /\ importMessages[u] \in SUBSET (0..ImportRetries)
      /\ \A t \in Importers : importer[t].failed \in 0..ImportRetries
    BY DEF ImportInv, ImportBounds
<1>1. ASSUME NEW u \in Uploads, BulkUpload(u) PROVE ImportBounds'
  <2>1. PICK file \in Files, format \in {"csv", "json", "stix"}, admin \in BOOLEAN :
          /\ ~TooLarge(file, format)
          /\ upload' = [upload EXCEPT ![u] = [NoUpload EXCEPT !.rows = Rows(file, format), !.status = "queued",
                                                              !.expected = WouldInsert(Rows(file, format))]]
      BY <1>1 DEF BulkUpload
  <2>2. PICK rows \in Seq(RawRow) : rows = Rows(file, format)
      BY RowsParsed
  <2>3. rows \in Payloads /\ Len(rows) <= RowCap
      BY <2>1, <2>2, PayloadBounded
  <2>4. WouldInsert(rows) = Left(rows, 1)
    <3>1. {i \in DOMAIN rows : rows[i].fault = "blank" \/ rows[i].value \notin stored} = LeftOf(rows, 1)
        BY DEF LeftOf
    <3> QED
        BY <3>1 DEF WouldInsert, Left
  <2>5. Left(rows, 1) \in Counts
    <3>1. Left(rows, 1) \in Nat /\ Left(rows, 1) <= Len(rows) /\ Len(rows) \in Nat
        BY LeftWithin
    <3> QED
        BY <2>3, <3>1, Limits DEF Counts
  <2>6. PICK row : row = [NoUpload EXCEPT !.rows = rows, !.status = "queued", !.expected = Left(rows, 1)]
      OBVIOUS
  <2>7. Bounded(row)
      BY <2>3, <2>5, <2>6, Limits DEF Bounded, NoUpload
  <2>8. /\ \A v \in Uploads : upload'[v] \in {upload[v], row}
        /\ \A v \in Uploads : importMessages'[v] \in {importMessages[v], {0}}
        /\ UNCHANGED <<stored, importer, deleted, broken, mute, disturbed>>
      BY <1>0, <1>1, <2>1, <2>2, <2>4, <2>6 DEF BulkUpload, historyVars
  <2>9. \A v \in Uploads : Bounded(upload'[v])
      BY <1>0, <2>7, <2>8
  <2>10. \A v \in Uploads : Bounded(upload[v])'
      BY <2>9 DEF Bounded
  <2> QED
      BY <1>0, <2>8, <2>10, Limits DEF ImportBounds
<1>2. ASSUME NEW t \in Importers, NEW u \in Uploads, TakeImport(t, u) PROVE ImportBounds'
  <2>1. PICK n \in importMessages[u] :
         /\ importMessages' = [importMessages EXCEPT ![u] = @ \ {n}]
         /\ \/ /\ upload' = [upload EXCEPT ![u].status = "running", ![u].processed = 0]
               /\ Becomes(t, [Pausing EXCEPT !.at = "next", !.of = {u}, !.failed = n])
            \/ /\ upload' = [upload EXCEPT ![u].status = "failed"]
               /\ UNCHANGED importer
      BY <1>2 DEF TakeImport
  <2>2. PICK ms \in SUBSET (0..ImportRetries) : ms = importMessages[u] \ {n}
      BY <1>0
  <2>3. importMessages' = [importMessages EXCEPT ![u] = ms]
      BY <2>1, <2>2
  <2>4. UNCHANGED <<stored, deleted, broken, mute, disturbed>>
      BY <1>2 DEF TakeImport, historyVars
  <2>5. PICK s : /\ s.failed \in 0..ImportRetries /\ (s.at = "idle" => s = Pausing)
                 /\ importer' = [importer EXCEPT ![t] = s]
    <3>1. CASE UNCHANGED importer
        BY <1>0, <3>1 DEF ImportBounds
    <3>2. CASE Becomes(t, [Pausing EXCEPT !.at = "next", !.of = {u}, !.failed = n])
      <4>1. PICK s : s = [Pausing EXCEPT !.at = "next", !.of = {u}, !.failed = n]
          OBVIOUS
      <4>2. s.failed = n /\ s.at = "next"
          BY <4>1 DEF Pausing
      <4> QED
          BY <1>0, <3>2, <4>1, <4>2 DEF Becomes
    <3> QED
        BY <2>1, <3>1, <3>2
  <2>6. PICK row : Bounded(row) /\ upload' = [upload EXCEPT ![u] = row]
    <3>1. PICK was \in UploadRow : was = upload[u] /\ Bounded(was)
        BY <1>0
    <3>2. upload' = [upload EXCEPT ![u] = StatusOf(was, "running", 0)]
          \/ upload' = [upload EXCEPT ![u] = StatusOf(was, "failed", was.processed)]
        BY <1>0, <2>1, <3>1, EndsAs DEF StatusOf
    <3>3. was.processed \in Counts /\ 0 \in Counts
        BY <3>1, Limits DEF Bounded
    <3> QED
        BY <3>1, <3>2, <3>3, StatusBounded
  <2> QED
      BY <2>2, <2>3, <2>4, <2>5, <2>6, BoundsKept DEF ImportBounds
<1>3. ASSUME NEW t \in Importers, NEW u \in Uploads, AtUpload(t, u) PROVE ImportBounds'
    BY <1>3, AtUploadBounds
<1>4. CASE \E v \in Values : SightValue(v) \/ DeleteValue(v)
  <2>1. /\ stored' \subseteq Values /\ deleted' \subseteq Values /\ disturbed' \in 0..MaxDisturbed
        /\ UNCHANGED <<upload, importMessages, importer, broken, mute>>
      BY <1>4, Limits DEF SightValue, DeleteValue, Disturbs, ImportBounds
  <2> QED
      BY <2>1 DEF ImportBounds, Bounded
<1>5. CASE UNCHANGED importVars
    BY <1>5 DEF importVars, ImportBounds, Bounded
<1> QED
    BY <1>1, <1>2, <1>3, <1>4, <1>5 DEF ImportNext, AtUpload

LEMMA ImportTyped == ImportInv /\ ImportBounds => ImportTypeOK
<1> SUFFICES ASSUME ImportInv, ImportBounds PROVE ImportTypeOK
    OBVIOUS
<1>1. ASSUME NEW u \in Uploads
      PROVE  upload[u] \in [rows : Payloads, status : JobStatus, processed : Counts, inserted : Counts,
                            updated : Counts, skipped : Counts, expected : Counts]
  <2>1. upload[u] \in UploadRow /\ Bounded(upload[u])
      BY DEF ImportInv, ImportBounds
  <2> QED
      BY <2>1 DEF UploadRow, Bounded
<1>2. ASSUME NEW t \in Importers
      PROVE  /\ importer[t] \in [at : {"idle", "next", "write", "batch", "report", "clean"}, of : SUBSET Uploads,
                                  failed : 0..ImportRetries, next : 1..(RowCap + 1), known : BOOLEAN,
                                  own : SUBSET Values, aborted : BOOLEAN, inserted : Counts, updated : Counts,
                                  skipped : Counts]
             /\ importer[t].at # "idle" =>
                   /\ Cardinality(importer[t].of) = 1
                   /\ importer[t].inserted + importer[t].updated + importer[t].skipped = importer[t].next - 1
  <2>1. importer[t] \in ThreadRow /\ importer[t].failed \in 0..ImportRetries /\ Single(importer[t])
      BY DEF ImportInv, ImportBounds
  <2>2. CASE importer[t].at = "idle"
    <3>1. importer[t] = Pausing
        BY <2>2 DEF ImportBounds
    <3>2. /\ importer[t].next \in 1..(RowCap + 1) /\ importer[t].inserted \in Counts
          /\ importer[t].updated \in Counts /\ importer[t].skipped \in Counts
        BY <3>1, Limits DEF Pausing
    <3> QED
        BY <2>1, <2>2, <3>2 DEF ThreadRow
  <2>3. CASE importer[t].at # "idle"
    <3>1. PICK u \in Uploads : importer[t].of = {u}
        BY <2>1, <2>3 DEF Single, ThreadRow
    <3>2. /\ importer[t].next \in 1..(RowCap + 1) /\ importer[t].inserted \in Counts
          /\ importer[t].updated \in Counts /\ importer[t].skipped \in Counts
        BY <3>1, ThreadWithin
    <3>3. Cardinality(importer[t].of) = 1
        BY <3>1, FS_Singleton
    <3>4. importer[t].inserted + importer[t].updated + importer[t].skipped = importer[t].next - 1
        BY <3>1 DEF ImportInv, WorksAt
    <3> QED
        BY <2>1, <3>2, <3>3, <3>4 DEF ThreadRow
  <2> QED
      BY <2>2, <2>3
<1>3. upload \in [Uploads -> [rows : Payloads, status : JobStatus, processed : Counts, inserted : Counts,
                               updated : Counts, skipped : Counts, expected : Counts]]
    BY <1>1 DEF ImportInv
<1>4. importMessages \in [Uploads -> SUBSET (0..ImportRetries)]
    BY DEF ImportInv, ImportBounds
<1>5. importer \in [Importers -> [at : {"idle", "next", "write", "batch", "report", "clean"}, of : SUBSET Uploads,
                                   failed : 0..ImportRetries, next : 1..(RowCap + 1), known : BOOLEAN,
                                   own : SUBSET Values, aborted : BOOLEAN, inserted : Counts, updated : Counts,
                                   skipped : Counts]]
    BY <1>2 DEF ImportInv
<1> QED
    BY <1>2, <1>3, <1>4, <1>5 DEF ImportBounds, ImportTypeOK, Payloads

\* For any files, uploads, threads, retries and deaths: no count of an import is greater than the cap
\* of rows, a thread that has counted is at the row after, and no message has failed more often than
\* it is sent again (bulk_import, _async_bulk_import).
THEOREM ImportTypeCorrect == ImportSpec => []ImportTypeOK
BY ImportStart, ImportStep, ImportBoundsInit, ImportBoundsNext, ImportTyped, PTL DEF ImportSpec

\* The two jobs read what they say they read, an upload whatever its files and a backfill whatever
\* the events: both specifications together, which share no variable, keep JobsReadAll.
THEOREM ReadAllCorrect == ImportSpec /\ BackfillSpec => []JobsReadAll
<1>1. ImportsReported /\ BackfillReaches => JobsReadAll
    BY DEF JobsReadAll
<1> QED
    BY <1>1, ImportsCorrect, BackfillCorrect, PTL
=============================================================================
