-------------------------- MODULE WorkspaceProofs --------------------------
(***************************************************************************)
(* What modules Projects, Rescore, Reports, Review, Brand and Surface keep *)
(* for every set of names, rows, sources, suggestions, targets, scans,     *)
(* requests and threads: every scope row has a target, the bound sources   *)
(* are those of the last list, which a replacement under way has seen,     *)
(* rescores come to rest with the scores of the rules in force, exports    *)
(* are numbered without gaps, and what analysts decide stands.  And what   *)
(* MCWorkspace keeps, which takes the steps of one of these, or of the     *)
(* parts of AccountsProofs, at a time.                                     *)
(***************************************************************************)
EXTENDS MCWorkspace, AccountsProofs

(* Projects *)

\* Unless replacements have overlapped there is at most one, and it will delete all
\* that is bound.
SeesAll ==
    overlapped \/ /\ bound = asked
                  /\ \A q, r \in Replacing : q = r
                  /\ \A r \in Replacing : edit[r].seen = bound

ProjectsInv == ProjectsTypeOK /\ RowsTarget /\ SeesAll

-----------------------------------------------------------------------------
(* Rows *)

LEMMA SettingAFlag ==
    ASSUME NEW row \in Row, row.there, Targets(row), NEW f \in Flags
    PROVE  LET new == [row EXCEPT ![f] = TRUE] IN new \in Row /\ new.there /\ Targets(new)
<1>1. CASE f = "active"
    BY <1>1 DEF Row, Targets
<1>2. CASE f = "intel"
    BY <1>2 DEF Row, Targets
<1> QED
    BY <1>1, <1>2 DEF Flags

LEMMA ClearingAFlag ==
    ASSUME NEW row \in Row, row.there, NEW f \in Flags
    PROVE  LET new == [row EXCEPT ![f] = FALSE] IN new \in Row /\ new.there
<1>1. CASE f = "active"
    BY <1>1 DEF Row
<1>2. CASE f = "intel"
    BY <1>2 DEF Row
<1> QED
    BY <1>1, <1>2 DEF Flags

LEMMA NoEditIsIdle == NoEdit \in Edit /\ NoEdit.op = "idle"
BY DEF Edit, NoEdit

\* A step that writes one scope row and no request that is about to write it.
LEMMA WriteRow ==
    ASSUME ProjectsTypeOK, RowsTarget, NEW w \in Scopes, NEW row \in Row,
           row.there => Targets(row),
           \A r \in EditRequests : edit[r].op = "scope" /\ edit[r].row = w => row.there
    PROVE  LET new == [scope EXCEPT ![w] = row]
           IN  /\ new \in [Scopes -> Row]
               /\ \A v \in Scopes : new[v].there => Targets(new[v])
               /\ \A r \in EditRequests : edit[r].op = "scope" => new[edit[r].row].there
<1> DEFINE new == [scope EXCEPT ![w] = row]
<1>1. scope \in [Scopes -> Row]
    BY DEF ProjectsTypeOK
<1>2. new[w] = row /\ \A v \in Scopes \ {w} : new[v] = scope[v]
    BY <1>1
<1>3. new \in [Scopes -> Row]
    BY <1>1
<1>4. \A v \in Scopes : new[v].there => Targets(new[v])
    BY <1>2 DEF RowsTarget
<1>5. ASSUME NEW r \in EditRequests, edit[r].op = "scope" PROVE new[edit[r].row].there
  <2>1. edit[r] \in Edit /\ scope[edit[r].row].there
    BY <1>5 DEF ProjectsTypeOK
  <2>2. edit[r].row \in Scopes
    BY <1>5, <2>1 DEF Edit, NoEdit
  <2> QED
    BY <1>2, <1>5, <2>1, <2>2
<1> QED
    BY <1>3, <1>4, <1>5

-----------------------------------------------------------------------------
LEMMA ProjectsInitInv == ProjectsInit => ProjectsInv
<1> SUFFICES ASSUME ProjectsInit PROVE ProjectsInv
    OBVIOUS
<1>1. \A r \in EditRequests : edit[r] = NoEdit
    BY DEF ProjectsInit
<1>2. Replacing = {}
    BY <1>1, NoEditIsIdle DEF Replacing
<1>3. ProjectsTypeOK
  <2>1. project \in [name : Names, archived : BOOLEAN, gate : Names \cup {NoGate}]
    BY DEF ProjectsInit
  <2>2. scope \in [Scopes -> Row]
    BY DEF ProjectsInit, Row, NoRow
  <2>3. edit \in [EditRequests -> Edit]
    BY NoEditIsIdle DEF ProjectsInit
  <2>4. bound \subseteq Feeds /\ asked \subseteq Feeds /\ overlapped \in BOOLEAN
    BY DEF ProjectsInit
  <2>5. \A r \in EditRequests : edit[r].op # "scope"
    BY <1>1, NoEditIsIdle
  <2> QED
    BY <2>1, <2>2, <2>3, <2>4, <2>5 DEF ProjectsTypeOK
<1>4. RowsTarget
    BY DEF ProjectsInit, RowsTarget, NoRow
<1>5. SeesAll
    BY <1>2 DEF ProjectsInit, SeesAll
<1> QED
    BY <1>3, <1>4, <1>5 DEF ProjectsInv

-----------------------------------------------------------------------------
(* The row of projects *)

\* A step that touches neither scope rows, sources nor requests.
LEMMA ProjectStep ==
    ASSUME ProjectsInv, UNCHANGED <<scope, bound, edit, asked, overlapped>>,
           project' \in [name : Names, archived : BOOLEAN, gate : Names \cup {NoGate}]
    PROVE  ProjectsInv'
BY DEF ProjectsInv, ProjectsTypeOK, RowsTarget, SeesAll, Replacing

LEMMA ProjectRowKeeps ==
    ASSUME ProjectsInv, UpdateProject \/ ArchiveProject \/ RestoreProject \/ RevokeGate
    PROVE  ProjectsInv'
<1>1. project \in [name : Names, archived : BOOLEAN, gate : Names \cup {NoGate}]
    BY DEF ProjectsInv, ProjectsTypeOK
<1>2. CASE UpdateProject
    BY <1>1, <1>2, ProjectStep DEF UpdateProject
<1>3. CASE ArchiveProject
    BY <1>1, <1>3, ProjectStep DEF ArchiveProject
<1>4. CASE RestoreProject
    BY <1>1, <1>4, ProjectStep DEF RestoreProject
<1>5. CASE RevokeGate
    BY <1>1, <1>5, ProjectStep DEF RevokeGate
<1> QED
    BY <1>2, <1>3, <1>4, <1>5

\* A request that begins or ends, and replaces no sources: the replacements are the same.
LEMMA OtherRequest ==
    ASSUME ProjectsTypeOK, SeesAll, NEW r \in EditRequests, NEW e \in Edit,
           edit[r].op # "sources", e.op # "sources",
           edit' = [edit EXCEPT ![r] = e], UNCHANGED <<bound, asked, overlapped>>
    PROVE  SeesAll' /\ edit' \in [EditRequests -> Edit] /\ edit'[r] = e
           /\ \A q \in EditRequests \ {r} : edit'[q] = edit[q]
<1>1. edit \in [EditRequests -> Edit]
    BY DEF ProjectsTypeOK
<1>2. edit'[r] = e /\ \A q \in EditRequests \ {r} : edit'[q] = edit[q]
    BY <1>1
<1>3. Replacing' = Replacing /\ \A q \in Replacing : edit'[q] = edit[q]
    BY <1>2 DEF Replacing
<1> QED
    BY <1>1, <1>2, <1>3 DEF SeesAll

LEMMA FlipGateKeeps ==
    ASSUME ProjectsInv, NEW r \in EditRequests, FlipGate(r)
    PROVE  ProjectsInv'
<1> DEFINE e == [op |-> "gate", name |-> project.name]
<1>1. ProjectsTypeOK /\ RowsTarget /\ SeesAll
    BY DEF ProjectsInv
<1>2. e \in Edit /\ e.op = "gate"
    BY <1>1 DEF ProjectsTypeOK, Edit
<1>3. edit[r] = NoEdit /\ edit' = [edit EXCEPT ![r] = e] /\ UNCHANGED <<project, scope, bound, asked, overlapped>>
    BY DEF FlipGate, BeginEdit
<1> HIDE DEF e
<1>4. /\ SeesAll' /\ edit' \in [EditRequests -> Edit] /\ edit'[r] = e
      /\ \A q \in EditRequests \ {r} : edit'[q] = edit[q]
    BY <1>1, <1>2, <1>3, NoEditIsIdle, OtherRequest
<1>5. ProjectsTypeOK' /\ RowsTarget'
    BY <1>1, <1>2, <1>3, <1>4 DEF ProjectsTypeOK, RowsTarget
<1> QED
    BY <1>4, <1>5 DEF ProjectsInv

LEMMA WriteGateKeeps ==
    ASSUME ProjectsInv, NEW r \in EditRequests, WriteGate(r)
    PROVE  ProjectsInv'
<1>1. ProjectsTypeOK /\ RowsTarget /\ SeesAll
    BY DEF ProjectsInv
<1>2. /\ edit[r].op = "gate" /\ edit' = [edit EXCEPT ![r] = NoEdit]
      /\ project' = [project EXCEPT !.gate = edit[r].name] /\ UNCHANGED <<scope, bound, asked, overlapped>>
    BY DEF WriteGate, EndEdit
<1>3. /\ SeesAll' /\ edit' \in [EditRequests -> Edit] /\ edit'[r] = NoEdit
      /\ \A q \in EditRequests \ {r} : edit'[q] = edit[q]
    BY <1>1, <1>2, NoEditIsIdle, OtherRequest
<1>4. edit[r].name \in Names
    BY <1>1, <1>2 DEF ProjectsTypeOK, Edit, NoEdit
<1>5. ProjectsTypeOK' /\ RowsTarget'
    BY <1>1, <1>2, <1>3, <1>4, NoEditIsIdle DEF ProjectsTypeOK, RowsTarget
<1> QED
    BY <1>3, <1>5 DEF ProjectsInv

-----------------------------------------------------------------------------
(* Scope rows *)

LEMMA AddScopeKeeps ==
    ASSUME ProjectsInv, NEW w \in Scopes, AddScope(w)
    PROVE  ProjectsInv'
<1>1. ProjectsTypeOK /\ RowsTarget /\ SeesAll
    BY DEF ProjectsInv
<1>2. PICK row \in Row : row.there /\ Targets(row) /\ scope' = [scope EXCEPT ![w] = row]
    BY DEF AddScope
<1>3. UNCHANGED <<project, bound, edit, asked, overlapped>>
    BY DEF AddScope
<1>4. /\ scope' \in [Scopes -> Row]
      /\ \A v \in Scopes : scope'[v].there => Targets(scope'[v])
      /\ \A r \in EditRequests : edit[r].op = "scope" => scope'[edit[r].row].there
    BY <1>1, <1>2, WriteRow
<1>5. SeesAll'
    BY <1>1, <1>3 DEF SeesAll, Replacing
<1> QED
    BY <1>1, <1>3, <1>4, <1>5 DEF ProjectsInv, ProjectsTypeOK, RowsTarget

LEMMA SetScopeFlagKeeps ==
    ASSUME ProjectsInv, NEW w \in Scopes, NEW f \in Flags, SetScopeFlag(w, f)
    PROVE  ProjectsInv'
<1>1. ProjectsTypeOK /\ RowsTarget /\ SeesAll
    BY DEF ProjectsInv
<1> DEFINE row == [scope[w] EXCEPT ![f] = TRUE]
<1>2. scope[w].there /\ scope' = [scope EXCEPT ![w] = row] /\ UNCHANGED <<project, bound, edit, asked, overlapped>>
    BY DEF SetScopeFlag
<1>3. row \in Row /\ row.there /\ Targets(row)
    BY <1>1, <1>2, SettingAFlag DEF ProjectsTypeOK, RowsTarget
<1> HIDE DEF row
<1>4. /\ scope' \in [Scopes -> Row]
      /\ \A v \in Scopes : scope'[v].there => Targets(scope'[v])
      /\ \A r \in EditRequests : edit[r].op = "scope" => scope'[edit[r].row].there
    BY <1>1, <1>2, <1>3, WriteRow
<1>5. SeesAll'
    BY <1>1, <1>2 DEF SeesAll, Replacing
<1> QED
    BY <1>1, <1>2, <1>4, <1>5 DEF ProjectsInv, ProjectsTypeOK, RowsTarget

LEMMA ClearScopeFlagKeeps ==
    ASSUME ProjectsInv, NEW r \in EditRequests, NEW w \in Scopes, NEW f \in Flags, ClearScopeFlag(r, w, f)
    PROVE  ProjectsInv'
<1> DEFINE e == [op |-> "scope", row |-> w, flag |-> f]
<1>1. ProjectsTypeOK /\ RowsTarget /\ SeesAll
    BY DEF ProjectsInv
<1>2. e \in Edit /\ e.op = "scope" /\ e.row = w
    BY DEF Edit
<1>3. /\ edit[r] = NoEdit /\ edit' = [edit EXCEPT ![r] = e] /\ scope[w].there
      /\ UNCHANGED <<project, scope, bound, asked, overlapped>>
    BY DEF ClearScopeFlag, BeginEdit
<1> HIDE DEF e
<1>4. /\ SeesAll' /\ edit' \in [EditRequests -> Edit] /\ edit'[r] = e
      /\ \A q \in EditRequests \ {r} : edit'[q] = edit[q]
    BY <1>1, <1>2, <1>3, NoEditIsIdle, OtherRequest
<1>5. ProjectsTypeOK' /\ RowsTarget'
    BY <1>1, <1>2, <1>3, <1>4 DEF ProjectsTypeOK, RowsTarget
<1> QED
    BY <1>4, <1>5 DEF ProjectsInv

\* The CHECK of the table stands for the flag that another request has cleared.
LEMMA CommitScopeKeeps ==
    ASSUME ProjectsInv, NEW r \in EditRequests, CommitScope(r)
    PROVE  ProjectsInv'
<1> DEFINE w == edit[r].row
<1> DEFINE f == edit[r].flag
<1> DEFINE row == [scope[w] EXCEPT ![f] = FALSE]
<1>1. ProjectsTypeOK /\ RowsTarget /\ SeesAll
    BY DEF ProjectsInv
<1>2. /\ edit[r].op = "scope" /\ edit' = [edit EXCEPT ![r] = NoEdit]
      /\ scope' = IF Targets(row) THEN [scope EXCEPT ![w] = row] ELSE scope
      /\ UNCHANGED <<project, bound, asked, overlapped>>
    BY DEF CommitScope, EndEdit, Cleared
<1>3. w \in Scopes /\ f \in Flags /\ scope[w].there
    BY <1>1, <1>2 DEF ProjectsTypeOK, Edit, NoEdit
<1>4. row \in Row /\ row.there
    BY <1>1, <1>3, ClearingAFlag DEF ProjectsTypeOK
<1> HIDE DEF w, f, row
<1>5. /\ scope' \in [Scopes -> Row]
      /\ \A v \in Scopes : scope'[v].there => Targets(scope'[v])
      /\ \A q \in EditRequests : edit[q].op = "scope" => scope'[edit[q].row].there
  <2>1. CASE Targets(row)
    BY <1>1, <1>2, <1>3, <1>4, <2>1, WriteRow
  <2>2. CASE ~Targets(row)
    BY <1>1, <1>2, <2>2 DEF ProjectsTypeOK, RowsTarget
  <2> QED
    BY <2>1, <2>2
<1>6. /\ SeesAll' /\ edit' \in [EditRequests -> Edit] /\ edit'[r] = NoEdit
      /\ \A q \in EditRequests \ {r} : edit'[q] = edit[q]
    BY <1>1, <1>2, NoEditIsIdle, OtherRequest
<1>7. ProjectsTypeOK' /\ RowsTarget'
    BY <1>1, <1>2, <1>5, <1>6, NoEditIsIdle DEF ProjectsTypeOK, RowsTarget
<1> QED
    BY <1>6, <1>7 DEF ProjectsInv

LEMMA DeleteScopeKeeps ==
    ASSUME ProjectsInv, NEW w \in Scopes, DeleteScope(w)
    PROVE  ProjectsInv'
<1>1. ProjectsTypeOK /\ RowsTarget /\ SeesAll
    BY DEF ProjectsInv
<1>2. /\ scope' = [scope EXCEPT ![w] = NoRow] /\ UNCHANGED <<project, bound, asked, overlapped>>
      /\ edit' = [r \in EditRequests |-> IF edit[r].op = "scope" /\ edit[r].row = w THEN NoEdit ELSE edit[r]]
    BY DEF DeleteScope
<1>3. scope' \in [Scopes -> Row] /\ RowsTarget'
    BY <1>1, <1>2 DEF ProjectsTypeOK, RowsTarget, Row, NoRow
<1>4. edit' \in [EditRequests -> Edit]
    BY <1>1, <1>2, NoEditIsIdle DEF ProjectsTypeOK
<1>5. ASSUME NEW r \in EditRequests, edit'[r].op = "scope" PROVE scope'[edit'[r].row].there
  <2>1. edit'[r] = edit[r] /\ edit[r].op = "scope" /\ edit[r].row # w
    BY <1>2, <1>5, NoEditIsIdle
  <2>2. edit[r] \in Edit /\ scope[edit[r].row].there
    BY <1>1, <2>1 DEF ProjectsTypeOK
  <2>3. edit[r].row \in Scopes
    BY <2>1, <2>2 DEF Edit, NoEdit
  <2> QED
    BY <1>1, <1>2, <2>1, <2>2, <2>3 DEF ProjectsTypeOK
<1>6. Replacing' = Replacing /\ \A r \in Replacing : edit'[r] = edit[r]
    BY <1>2, NoEditIsIdle DEF Replacing
<1>7. SeesAll'
    BY <1>1, <1>2, <1>6 DEF SeesAll
<1> QED
    BY <1>1, <1>2, <1>3, <1>4, <1>5, <1>7 DEF ProjectsInv, ProjectsTypeOK

-----------------------------------------------------------------------------
(* Sources *)

LEMMA DeleteSourcesKeeps ==
    ASSUME ProjectsInv, NEW r \in EditRequests, NEW fs \in SUBSET Feeds, DeleteSources(r, fs)
    PROVE  ProjectsInv'
<1> DEFINE e == [op |-> "sources", feeds |-> fs, seen |-> bound]
<1>1. ProjectsTypeOK /\ RowsTarget /\ SeesAll
    BY DEF ProjectsInv
<1>2. e \in Edit /\ e.op = "sources" /\ e.seen = bound
    BY <1>1 DEF Edit, ProjectsTypeOK
<1>3. /\ edit[r] = NoEdit /\ edit' = [edit EXCEPT ![r] = e]
      /\ overlapped' = (overlapped \/ Replacing # {}) /\ UNCHANGED <<project, scope, bound, asked>>
    BY DEF DeleteSources, BeginEdit
<1> HIDE DEF e
<1>4. /\ edit' \in [EditRequests -> Edit] /\ edit'[r] = e
      /\ \A q \in EditRequests \ {r} : edit'[q] = edit[q]
    BY <1>1, <1>2, <1>3 DEF ProjectsTypeOK
<1>5. ProjectsTypeOK' /\ RowsTarget'
    BY <1>1, <1>2, <1>3, <1>4 DEF ProjectsTypeOK, RowsTarget
<1>6. SeesAll'
  <2>1. CASE overlapped'
    BY <2>1 DEF SeesAll
  <2>2. CASE ~overlapped'
    <3>1. Replacing = {} /\ bound = asked
        BY <1>1, <1>3, <2>2 DEF SeesAll
    <3>2. Replacing' \subseteq {r}
        BY <1>4, <3>1 DEF Replacing
    <3> QED
        BY <1>2, <1>3, <1>4, <3>1, <3>2 DEF SeesAll
  <2> QED
    BY <2>1, <2>2
<1> QED
    BY <1>5, <1>6 DEF ProjectsInv

\* A replacement that has not been overlapped has seen all that is bound: what it
\* leaves is its own list.
LEMMA InsertSourcesKeeps ==
    ASSUME ProjectsInv, NEW r \in EditRequests, InsertSources(r)
    PROVE  ProjectsInv'
<1> DEFINE left == bound \ edit[r].seen
<1> DEFINE done == left \cap edit[r].feeds = {}
<1>1. ProjectsTypeOK /\ RowsTarget /\ SeesAll
    BY DEF ProjectsInv
<1>2. /\ edit[r].op = "sources"
      /\ bound' = IF done THEN left \cup edit[r].feeds ELSE bound
      /\ asked' = IF done THEN edit[r].feeds ELSE asked
      /\ edit' = [q \in EditRequests |->
                     IF q = r THEN NoEdit
                     ELSE IF done /\ q \in Replacing THEN [edit[q] EXCEPT !.seen = {}]
                     ELSE edit[q]]
      /\ UNCHANGED <<project, scope, overlapped>>
    BY DEF InsertSources
<1>3. edit[r].feeds \in SUBSET Feeds /\ edit[r].seen \in SUBSET Feeds
    BY <1>1, <1>2 DEF ProjectsTypeOK, Edit, NoEdit
<1>4. ASSUME NEW q \in Replacing
      PROVE  [edit[q] EXCEPT !.seen = {}] \in Edit /\ [edit[q] EXCEPT !.seen = {}].op = "sources"
  <2>1. edit[q] \in [op : {"sources"}, feeds : SUBSET Feeds, seen : SUBSET Feeds]
    BY <1>1, <1>4 DEF ProjectsTypeOK, Replacing, Edit, NoEdit
  <2>2. [edit[q] EXCEPT !.seen = {}] \in [op : {"sources"}, feeds : SUBSET Feeds, seen : SUBSET Feeds]
    BY <2>1
  <2> QED
    BY <2>2 DEF Edit
<1>5. edit' \in [EditRequests -> Edit]
    BY <1>1, <1>2, <1>4, NoEditIsIdle DEF ProjectsTypeOK
<1>6. \A q \in EditRequests : edit'[q].op = "scope" => edit'[q] = edit[q]
    BY <1>2, <1>4, NoEditIsIdle
<1>7. ProjectsTypeOK' /\ RowsTarget'
    BY <1>1, <1>2, <1>3, <1>5, <1>6 DEF ProjectsTypeOK, RowsTarget
<1>8. SeesAll'
  <2>1. CASE overlapped
    BY <1>2, <2>1 DEF SeesAll
  <2>2. CASE ~overlapped
    <3>1. r \in Replacing
        BY <1>2 DEF Replacing
    <3>2. Replacing = {r} /\ edit[r].seen = bound
        BY <1>1, <2>2, <3>1 DEF SeesAll
    <3>3. left = {}
        BY <3>2
    <3>4. bound' = asked'
        BY <1>2, <3>3
    <3>5. Replacing' = {}
        BY <1>2, <3>2, NoEditIsIdle DEF Replacing
    <3> QED
        BY <3>4, <3>5 DEF SeesAll
  <2> QED
    BY <2>1, <2>2
<1> QED
    BY <1>7, <1>8 DEF ProjectsInv

-----------------------------------------------------------------------------
LEMMA ProjectsNextInv == ProjectsInv /\ [ProjectsNext]_projectsVars => ProjectsInv'
<1> SUFFICES ASSUME ProjectsInv, [ProjectsNext]_projectsVars PROVE ProjectsInv'
    OBVIOUS
<1>1. CASE UpdateProject \/ ArchiveProject \/ RestoreProject \/ RevokeGate
    BY <1>1, ProjectRowKeeps
<1>2. CASE \E w \in Scopes : AddScope(w) \/ DeleteScope(w) \/ \E f \in Flags : SetScopeFlag(w, f)
    BY <1>2, AddScopeKeeps, DeleteScopeKeeps, SetScopeFlagKeeps
<1>3. CASE \E r \in EditRequests : FlipGate(r) \/ WriteGate(r) \/ CommitScope(r) \/ InsertSources(r)
    BY <1>3, FlipGateKeeps, WriteGateKeeps, CommitScopeKeeps, InsertSourcesKeeps
<1>4. CASE \E r \in EditRequests, w \in Scopes, f \in Flags : ClearScopeFlag(r, w, f)
    BY <1>4, ClearScopeFlagKeeps
<1>5. CASE \E r \in EditRequests, fs \in SUBSET Feeds : DeleteSources(r, fs)
    BY <1>5, DeleteSourcesKeeps
<1>6. CASE UNCHANGED projectsVars
    BY <1>6 DEF projectsVars, ProjectsInv, ProjectsTypeOK, RowsTarget, SeesAll, Replacing
<1> QED
    BY <1>1, <1>2, <1>3, <1>4, <1>5, <1>6 DEF ProjectsNext

\* The rows and the requests are well formed, and a scope row that a request is about to
\* write is there.
THEOREM ProjectsTypeCorrect == ProjectsSpec => []ProjectsTypeOK
<1>1. ProjectsInv => ProjectsTypeOK
    BY DEF ProjectsInv
<1> QED
    BY ProjectsInitInv, ProjectsNextInv, <1>1, PTL DEF ProjectsSpec

\* No scope row is ever without a target, whatever requests set, clear and delete.
THEOREM TargetsCorrect == ProjectsSpec => []RowsTarget
<1>1. ProjectsInv => RowsTarget
    BY DEF ProjectsInv
<1> QED
    BY ProjectsInitInv, ProjectsNextInv, <1>1, PTL DEF ProjectsSpec

\* Unless two replacements overlap, the bound sources are those of the last list.
THEOREM BoundCorrect == ProjectsSpec => []BoundAsAsked
<1>1. ProjectsInv => BoundAsAsked
    BY DEF ProjectsInv, SeesAll, BoundAsAsked
<1> QED
    BY ProjectsInitInv, ProjectsNextInv, <1>1, PTL DEF ProjectsSpec

\* What requests write of a project side by side holds together.
THEOREM SettingsCorrect == ProjectsSpec => []SettingsHold
<1>1. RowsTarget /\ BoundAsAsked => SettingsHold
    BY DEF SettingsHold
<1> QED
    BY TargetsCorrect, BoundCorrect, <1>1, PTL

-----------------------------------------------------------------------------
(* Rescore *)

\* The messages that wait.
Waiting == queue[0] + queue[1] + queue[2]

\* A flag that is set belongs to a rescore that waits or runs.
RescoreInv ==
    /\ rules \in [version : Nat, content : 0..MaxPuts]
    /\ put \in Nat \cup {NoPut} /\ puts \in 0..MaxPuts
    /\ queue \in [Tries -> Nat]
    /\ thread \in [Threads -> RescoreRun]
    /\ \A t \in Threads : thread[t].at # "done" => thread[t].page \in Pages
    /\ flag => Waiting > 0 \/ \E t \in Threads : thread[t].at # "idle"

LEMMA UnionCount ==
    ASSUME NEW S, NEW T, IsFiniteSet(S), IsFiniteSet(T)
    PROVE  /\ IsFiniteSet(S \cup T) /\ Cardinality(S \cup T) \in Nat
           /\ Cardinality(S \cup T) <= Cardinality(S) + Cardinality(T)
<1>1. /\ IsFiniteSet(S \cup T)
      /\ Cardinality(S \cup T) = Cardinality(S) + Cardinality(T) - Cardinality(S \cap T)
    BY FS_Union
<1>2. IsFiniteSet(S \cap T)
    BY FS_Intersection
<1>3. /\ Cardinality(S \cup T) \in Nat /\ Cardinality(S) \in Nat
      /\ Cardinality(T) \in Nat /\ Cardinality(S \cap T) \in Nat
    BY <1>1, <1>2, FS_CardinalityType
<1> QED
    BY <1>1, <1>3

LEMMA TriesAre == Tries = {0, 1, 2} /\ Retries = 2
BY DEF Tries, Retries

LEMMA WaitingTyped ==
    ASSUME queue \in [Tries -> Nat]
    PROVE  Waiting \in Nat /\ (Waiting = 0 <=> NoneWaits)
BY TriesAre DEF Waiting, NoneWaits

LEMMA WaitingStands ==
    ASSUME UNCHANGED queue
    PROVE  Waiting' = Waiting
BY DEF Waiting

\* A message more, ...
LEMMA OneMoreWaits ==
    ASSUME queue \in [Tries -> Nat], NEW n \in Tries, queue' = [queue EXCEPT ![n] = @ + 1]
    PROVE  queue' \in [Tries -> Nat] /\ Waiting' = Waiting + 1
<1>1. queue' \in [Tries -> Nat]
    OBVIOUS
<1>2. \A m \in {0, 1, 2} : queue'[m] = queue[m] + (IF m = n THEN 1 ELSE 0) /\ queue[m] \in Nat
    BY TriesAre
<1> QED
    BY <1>1, <1>2, TriesAre DEF Waiting

\* ... one less, ...
LEMMA OneLessWaits ==
    ASSUME queue \in [Tries -> Nat], NEW n \in Tries, queue[n] > 0, queue' = [queue EXCEPT ![n] = @ - 1]
    PROVE  queue' \in [Tries -> Nat] /\ Waiting' = Waiting - 1 /\ Waiting > 0
<1>1. queue' \in [Tries -> Nat]
    OBVIOUS
<1>2. \A m \in {0, 1, 2} : queue'[m] = queue[m] - (IF m = n THEN 1 ELSE 0) /\ queue[m] \in Nat
    BY TriesAre
<1> QED
    BY <1>1, <1>2, TriesAre DEF Waiting

\* ... or all of a worker that has died.
LEMMA BusyWaits ==
    ASSUME queue \in [Tries -> Nat], thread \in [Threads -> RescoreRun], CrashScoring
    PROVE  queue' \in [Tries -> Nat] /\ Waiting' >= Waiting + Cardinality({t \in Threads : thread[t].at # "idle"})
<1> DEFINE busy == {t \in Threads : thread[t].at # "idle"}
<1>1. busy = BusyWith(0) \cup BusyWith(1) \cup BusyWith(2)
  <2>1. \A t \in Threads : thread[t].tries \in {0, 1, 2}
      BY TriesAre DEF RescoreRun
  <2> QED
      BY <2>1 DEF BusyWith
<1>2. \A n \in Tries : IsFiniteSet(BusyWith(n)) /\ Cardinality(BusyWith(n)) \in Nat
  <2>1. ASSUME NEW n \in Tries PROVE BusyWith(n) \subseteq Threads
      BY DEF BusyWith
  <2> QED
      BY <2>1, ThreadsFinite, FS_Subset, FS_CardinalityType
<1>3. PICK a, b, c : a = BusyWith(0) /\ b = BusyWith(1) /\ c = BusyWith(2)
    OBVIOUS
<1>4. /\ IsFiniteSet(a) /\ IsFiniteSet(b) /\ IsFiniteSet(c)
      /\ Cardinality(a) \in Nat /\ Cardinality(b) \in Nat /\ Cardinality(c) \in Nat
    BY <1>2, <1>3, TriesAre
<1>5. IsFiniteSet(a \cup b) /\ Cardinality(a \cup b) <= Cardinality(a) + Cardinality(b) /\ Cardinality(a \cup b) \in Nat
    BY <1>4, UnionCount
<1>6. Cardinality((a \cup b) \cup c) <= Cardinality(a \cup b) + Cardinality(c) /\ Cardinality((a \cup b) \cup c) \in Nat
    BY <1>4, <1>5, UnionCount
<1>7. queue' = [n \in Tries |-> queue[n] + Cardinality(BusyWith(n))]
    BY DEF CrashScoring
<1>8. queue' \in [Tries -> Nat]
    BY <1>2, <1>7
<1>9. \A n \in {0, 1, 2} : queue'[n] = queue[n] + Cardinality(BusyWith(n)) /\ queue[n] \in Nat
    BY <1>7, TriesAre
<1>10. busy = (a \cup b) \cup c
    BY <1>1, <1>3
<1> HIDE DEF busy
<1>11. Waiting' = Waiting + Cardinality(a) + Cardinality(b) + Cardinality(c) /\ Waiting \in Nat
    BY <1>3, <1>4, <1>9 DEF Waiting
<1>12. Waiting' >= Waiting + Cardinality(busy)
    BY <1>4, <1>5, <1>6, <1>10, <1>11
<1> QED
    BY <1>8, <1>12 DEF busy

LEMMA RunShapes == NoRescore \in RescoreRun /\ NoRescore.at = "idle" /\ NoRescore.page \in Pages
BY BoundsNatural, SomeBatches DEF NoRescore, RescoreRun, Defaults, Pages, Tries, Retries

LEMMA RescoreInitInv == RescoreInit => RescoreInv
<1> SUFFICES ASSUME RescoreInit PROVE RescoreInv
    OBVIOUS
<1>1. rules \in [version : Nat, content : 0..MaxPuts]
    BY BoundsNatural DEF RescoreInit, Defaults
<1>2. put \in Nat \cup {NoPut} /\ puts \in 0..MaxPuts /\ queue \in [Tries -> Nat] /\ ~flag
    BY BoundsNatural DEF RescoreInit
<1>3. thread \in [Threads -> RescoreRun] /\ \A t \in Threads : thread[t].at = "idle" /\ thread[t].page \in Pages
    BY RunShapes DEF RescoreInit
<1> QED
    BY <1>1, <1>2, <1>3 DEF RescoreInv

\* One run goes on, and is not at rest.
LEMMA RunGoesOn ==
    ASSUME RescoreInv, NEW t \in Threads, NEW h \in RescoreRun, thread' = [thread EXCEPT ![t] = h],
           h.at # "idle", h.at # "done" => h.page \in Pages,
           rules' \in [version : Nat, content : 0..MaxPuts], put' = put, puts' = puts, queue' \in [Tries -> Nat]
    PROVE  RescoreInv'
<1>1. thread' \in [Threads -> RescoreRun] /\ thread'[t] = h /\ \A u \in Threads \ {t} : thread'[u] = thread[u]
    BY DEF RescoreInv
<1> QED
    BY <1>1 DEF RescoreInv, Pages

LEMMA RescoreStep == RescoreInv /\ RescoreNext => RescoreInv'
<1> SUFFICES ASSUME RescoreInv, RescoreNext PROVE RescoreInv'
    OBVIOUS
<1> USE BoundsNatural, SomeBatches
<1>1. \A t \in Threads : thread[t] \in RescoreRun
    BY DEF RescoreInv
<1>2. rules.version \in Nat /\ rules.content \in 0..MaxPuts /\ queue \in [Tries -> Nat] /\ 0 \in Tries /\ Waiting \in Nat
    BY TriesAre, WaitingTyped DEF RescoreInv
<1>3. CASE ReadRules
    BY <1>2, <1>3 DEF ReadRules, RescoreInv, Pages, Waiting
<1>4. CASE CommitRules
  <2>1. /\ put # NoPut /\ rules' = [version |-> put + 1, content |-> puts]
        /\ put' = NoPut /\ queue' = [queue EXCEPT ![0] = @ + 1] /\ UNCHANGED <<thread, flag, puts>>
    BY <1>4 DEF CommitRules, Send, rescoreCounters
  <2>2. rules' \in [version : Nat, content : 0..MaxPuts]
    BY <2>1 DEF RescoreInv
  <2>3. queue' \in [Tries -> Nat] /\ Waiting' = Waiting + 1
    BY <1>2, <2>1, OneMoreWaits
  <2> QED
    BY <1>2, <2>1, <2>2, <2>3 DEF RescoreInv, Pages
<1>5. CASE LosesInsert
    BY <1>5 DEF LosesInsert, RescoreInv, Pages, rescoreCounters, Waiting
<1>6. CASE TriggerRescore
  <2>1. queue' = [queue EXCEPT ![0] = @ + 1] /\ UNCHANGED <<rules, put, thread, flag, puts>>
    BY <1>6 DEF TriggerRescore, Send
  <2>2. queue' \in [Tries -> Nat] /\ Waiting' = Waiting + 1
    BY <1>2, <2>1, OneMoreWaits
  <2> QED
    BY <1>2, <2>1, <2>2 DEF RescoreInv, Pages
<1>7. ASSUME NEW t \in Threads, TakeMessage(t) PROVE RescoreInv'
  <2>1. PICK n \in Tries : /\ queue[n] > 0 /\ queue' = [queue EXCEPT ![n] = @ - 1]
                           /\ thread' = [thread EXCEPT ![t].at = "flagged", ![t].tries = n]
    BY <1>7 DEF TakeMessage
  <2> DEFINE h == [thread[t] EXCEPT !.at = "flagged", !.tries = n]
  <2>2. h \in RescoreRun /\ h.at = "flagged" /\ h.page = thread[t].page
    BY <1>1 DEF RescoreRun
  <2>3. /\ thread' = [thread EXCEPT ![t] = h]
        /\ rules' = rules /\ put' = put /\ puts' = puts /\ thread[t].at = "idle"
    BY <1>7, <2>1 DEF TakeMessage, rescoreCounters
  <2>4. rules' \in [version : Nat, content : 0..MaxPuts] /\ thread[t].page \in Pages
    BY <1>2, <2>3 DEF RescoreInv
  <2>5. queue' \in [Tries -> Nat]
    BY <1>2, <2>1, OneLessWaits
  <2> HIDE DEF h
  <2> QED
    BY <2>2, <2>3, <2>4, <2>5, RunGoesOn
<1>8. ASSUME NEW t \in Threads, ReadForRescore(t) PROVE RescoreInv'
  <2> DEFINE h == [thread[t] EXCEPT !.at = "read", !.rules = rules.content, !.version = rules.version]
  <2>1. h \in RescoreRun /\ h.at = "read" /\ h.page = thread[t].page
    BY <1>1, <1>2 DEF RescoreRun
  <2>2. /\ thread' = [thread EXCEPT ![t] = h] /\ UNCHANGED <<rules, queue, put, puts>>
        /\ thread[t].at = "flagged"
    BY <1>8 DEF ReadForRescore, rescoreCounters
  <2>3. rules' \in [version : Nat, content : 0..MaxPuts] /\ queue' \in [Tries -> Nat] /\ thread[t].page \in Pages
    BY <1>2, <2>2 DEF RescoreInv
  <2> HIDE DEF h
  <2> QED
    BY <2>1, <2>2, <2>3, RunGoesOn
<1>9. ASSUME NEW t \in Threads, WriteBatch(t) PROVE RescoreInv'
  <2> DEFINE at == IF thread[t].page = Batches THEN "done" ELSE thread[t].at
             h == [thread[t] EXCEPT !.page = @ + 1, !.at = at]
  <2>1. /\ thread[t].at = "writing" /\ thread' = [thread EXCEPT ![t] = h]
        /\ rules' = IF thread[t].page = 1 THEN [rules EXCEPT !.version = thread[t].version] ELSE rules
        /\ UNCHANGED <<queue, put, puts>>
    BY <1>9 DEF WriteBatch, rescoreCounters
  <2>2. thread[t].page \in 1..Batches /\ thread[t].version \in Nat
    BY <1>1, <2>1 DEF RescoreInv, RescoreRun, Pages
  <2>3. at \in {"done", "writing"} /\ (at # "done" => thread[t].page + 1 \in 1..Batches)
    BY <2>1, <2>2
  <2>4. thread[t].page + 1 \in 1..(Batches + 1)
    BY <2>2
  <2>5. h \in RescoreRun /\ h.at = at /\ h.page = thread[t].page + 1
    <3> HIDE DEF at
    <3> QED
      BY <1>1, <2>3, <2>4 DEF RescoreRun
  <2>6. rules' \in [version : Nat, content : 0..MaxPuts]
    BY <2>1, <2>2 DEF RescoreInv
  <2> HIDE DEF h, at
  <2> QED
    BY <1>2, <2>1, <2>3, <2>5, <2>6, RunGoesOn DEF Pages
<1>10. ASSUME NEW t \in Threads, TakeVersion(t) PROVE RescoreInv'
  <2> DEFINE h == [thread[t] EXCEPT !.at = "writing", !.version = NextVersion(@)]
  <2>1. thread[t].at = "read" /\ thread' = [thread EXCEPT ![t] = h] /\ UNCHANGED <<rules, queue, put, puts>>
    BY <1>10 DEF TakeVersion, rescoreCounters
  <2>2. NextVersion(thread[t].version) \in Nat
    BY <1>1 DEF NextVersion, RescoreRun
  <2>3. h \in RescoreRun /\ h.at = "writing" /\ h.page = thread[t].page
    BY <1>1, <2>2 DEF RescoreRun
  <2>4. rules' \in [version : Nat, content : 0..MaxPuts] /\ queue' \in [Tries -> Nat] /\ thread[t].page \in Pages
    BY <1>2, <2>1 DEF RescoreInv
  <2> HIDE DEF h
  <2> QED
    BY <2>1, <2>3, <2>4, RunGoesOn
<1>11. ASSUME NEW t \in Threads, FailRescore(t) PROVE RescoreInv'
  <2> DEFINE h == [thread[t] EXCEPT !.at = "failed"]
  <2>1. h \in RescoreRun /\ h.at = "failed" /\ h.page = thread[t].page
    BY <1>1 DEF RescoreRun
  <2>2. thread' = [thread EXCEPT ![t] = h] /\ UNCHANGED <<rules, queue, put, puts>> /\ thread[t].at # "done"
    BY <1>11 DEF FailRescore
  <2>3. rules' \in [version : Nat, content : 0..MaxPuts] /\ queue' \in [Tries -> Nat] /\ thread[t].page \in Pages
    BY <1>2, <2>2 DEF RescoreInv
  <2> HIDE DEF h
  <2> QED
    BY <2>1, <2>2, <2>3, RunGoesOn
<1>12. ASSUME NEW t \in Threads, thread' = [thread EXCEPT ![t] = NoRescore], ~flag', queue' \in [Tries -> Nat],
              UNCHANGED <<rules, put, puts>>
       PROVE  RescoreInv'
  <2>1. /\ thread' \in [Threads -> RescoreRun]
        /\ \A u \in Threads : (thread'[u].at = "idle" /\ thread'[u].page \in Pages) \/ thread'[u] = thread[u]
    BY <1>12, RunShapes DEF RescoreInv
  <2> QED
    BY <1>12, <2>1 DEF RescoreInv, Pages
<1>13. ASSUME NEW t \in Threads, FinishRescore(t) PROVE RescoreInv'
    BY <1>2, <1>12, <1>13 DEF FinishRescore, rescoreCounters
<1>14. ASSUME NEW t \in Threads, RetryRescore(t) PROVE RescoreInv'
  <2>1. thread' = [thread EXCEPT ![t] = NoRescore] /\ ~flag' /\ UNCHANGED <<rules, put, puts>>
    BY <1>14 DEF RetryRescore, rescoreCounters
  <2>2. \/ thread[t].tries < Retries /\ queue' = [queue EXCEPT ![thread[t].tries + 1] = @ + 1]
        \/ queue' = queue
    BY <1>14 DEF RetryRescore
  <2>3. thread[t].tries < Retries => thread[t].tries + 1 \in Tries
    BY <1>1, TriesAre DEF RescoreRun
  <2>4. queue' \in [Tries -> Nat]
    BY <1>2, <2>2, <2>3, OneMoreWaits
  <2> QED
    BY <1>12, <2>1, <2>4
<1>15. CASE CrashScoring
  <2> DEFINE busy == {t \in Threads : thread[t].at # "idle"}
  <2>1. /\ thread' = [t \in Threads |-> NoRescore]
        /\ UNCHANGED <<rules, put, flag, puts>>
    BY <1>15 DEF CrashScoring
  <2>2. busy \subseteq Threads /\ IsFiniteSet(busy) /\ Cardinality(busy) \in Nat
    BY ThreadsFinite, FS_Subset, FS_CardinalityType
  <2>3. busy # {} => Cardinality(busy) > 0
    BY <2>2, FS_EmptySet
  <2>4. (\E t \in Threads : thread[t].at # "idle") => busy # {}
    OBVIOUS
  <2>5. queue' \in [Tries -> Nat] /\ Waiting' >= Waiting + Cardinality(busy)
    BY <1>15, BusyWaits DEF RescoreInv
  <2>6. Waiting' \in Nat
    <3>1. queue'[0] \in Nat /\ queue'[1] \in Nat /\ queue'[2] \in Nat
        BY <2>5, TriesAre
    <3> QED
        BY <3>1 DEF Waiting
  <2> HIDE DEF busy
  <2>7. flag' => Waiting' > 0
    BY <1>2, <2>1, <2>2, <2>3, <2>4, <2>5, <2>6 DEF RescoreInv
  <2>8. thread' \in [Threads -> RescoreRun] /\ \A t \in Threads : thread'[t].at = "idle" /\ thread'[t].page \in Pages
    BY <2>1, RunShapes DEF Pages
  <2> QED
    BY <2>1, <2>5, <2>7, <2>8 DEF RescoreInv, Pages
<1> QED
    BY <1>3, <1>4, <1>5, <1>6, <1>7, <1>8, <1>9, <1>10, <1>11, <1>13, <1>14, <1>15 DEF RescoreNext

\* For any number of worker threads, pages and crashes: when no rescore waits or runs, the
\* status says so (_async_rescore, get_rescore_status).
THEOREM IdleCorrect == RescoreSpec => []IdleWhenDone
<1>1. RescoreInv /\ [RescoreNext]_rescoreVars => RescoreInv'
  <2>1. RescoreInv /\ UNCHANGED rescoreVars => RescoreInv'
    BY DEF rescoreVars, rescoreCounters, RescoreInv, Waiting
  <2> QED
    BY <2>1, RescoreStep
<1>2. RescoreInv => IdleWhenDone
    BY WaitingTyped DEF RescoreInv, IdleWhenDone
<1> QED
    BY <1>1, <1>2, RescoreInitInv, PTL DEF RescoreSpec

-----------------------------------------------------------------------------
(* The scores that are shown *)

\* The rescores that have not committed their version, and with the messages all that
\* are still to do so.
Takers == {t \in Threads : thread[t].at \in {"flagged", "read", "failed"} \/ HoldsRow(t)}
ToTake == Waiting + Cardinality(Takers)

\* A version that is read and not yet gone past: a rescore that holds the row has added
\* to the one it read.
Readers == {t \in Threads : thread[t].at = "read" \/ HoldsRow(t)}
From(t) == IF ~HoldsRow(t) THEN thread[t].version
           ELSE IF rules.version = 0 THEN 0 ELSE thread[t].version - 1
Bases == {rules.version} \cup ({put} \ {NoPut}) \cup {From(t) : t \in Readers}
StaleBases == {From(t) : t \in {u \in Readers : thread[u].rules # rules.content}}

\* With n rescores to go, and w the highest version of an override: no base is more than
\* n above it; and when one is, or a rescore with old rules could be the last to take
\* a version, every base is above it, so that none of the n can be lost below w.
Room(w, n, all, stale) ==
    /\ \A v \in all : v <= w + n
    /\ n >= 1 /\ w + n \in all => \A v \in all : v > w
    /\ \A s \in stale : s + 1 <= w + n /\ (s + 1 = w + n => \A v \in all : v > w)

Highest(w) == (\A o \in overrides : o.version <= w) /\ (w = 0 \/ \E o \in overrides : o.version = w)

Writing(t) == thread[t].at = "writing"

\* The versions of the rescores that write are their own, and taken in order.
OwnVersions(w) ==
    /\ \A t \in Threads : Writing(t) =>
          /\ IF thread[t].page = 1 THEN thread[t].version > w ELSE thread[t].version <= w
          /\ \A o \in overrides : o.version = thread[t].version => o.page < thread[t].page
    /\ \A t, u \in Threads : Writing(t) /\ Writing(u) /\ thread[t].version = thread[u].version => t = u
    /\ \A t, u \in Threads : HoldsRow(t) /\ HoldsRow(u) => t = u

\* When no rescore is left to take a version, the highest one has the rules in force, or
\* is being written by them.
Scored(b, w) == [page |-> b, version |-> w, rules |-> rules.content] \in overrides
ScoredBy(t, w) ==
    /\ Writing(t) /\ thread[t].page > 1
    /\ thread[t].version = w /\ thread[t].rules = rules.content
    /\ \A b \in Pages : b < thread[t].page => Scored(b, w)
LastIsCurrent(w) ==
    ToTake = 0 /\ rules.content # Defaults => (\A b \in Pages : Scored(b, w)) \/ \E t \in Threads : ScoredBy(t, w)

AtTop(w) == Highest(w) /\ OwnVersions(w) /\ Room(w, ToTake, Bases, StaleBases) /\ LastIsCurrent(w)

\* What holds even after a version has fallen behind.
NoRowYet ==
    /\ rules.content = Defaults /\ overrides = {} /\ put \in {NoPut, 0}
    /\ \A t \in Readers : thread[t].version = (IF HoldsRow(t) THEN 2 ELSE 0)
    /\ \A t \in Threads : Writing(t) => thread[t].page = 1
ScoreShapes ==
    /\ overrides \subseteq Override
    /\ \A t \in Threads : thread[t].at \in {"idle", "flagged", "read"} => thread[t].page = 1
    /\ \A t \in Threads : Writing(t) => thread[t].version >= 2
    /\ rules.content <= puts /\ (put # NoPut => rules.content < puts)
    /\ rules.version = 0 => NoRowYet

ScoreInv == RescoreInv /\ ScoreShapes /\ (behind \/ givenUp \/ \E w \in Nat : AtTop(w))

-----------------------------------------------------------------------------
LEMMA RoomLoosens ==
    ASSUME NEW w \in Nat, NEW n \in Nat, NEW m \in Nat, m >= n, NEW all \in SUBSET Int, NEW stale \in SUBSET all,
           Room(w, n, all, stale), NEW all2 \in SUBSET all, NEW stale2 \in SUBSET stale
    PROVE  Room(w, m, all2, stale2)
<1>1. \A v \in all2 : v <= w + n
    BY DEF Room
<1>2. CASE m = n
    BY <1>2 DEF Room
<1>3. CASE m > n
    BY <1>1, <1>3 DEF Room
<1> QED
    BY <1>2, <1>3

\* Saved rules: one rescore more, and all that have read are stale.
LEMMA RoomRises ==
    ASSUME NEW w \in Nat, NEW n \in Nat, NEW all \in SUBSET Int, NEW stale \in SUBSET all, Room(w, n, all, stale),
           NEW p \in all, w <= p + 1, NEW read \in SUBSET all, n = 0 => read = {},
           NEW all2 \in SUBSET (read \cup {p + 1}), NEW stale2 \in SUBSET read
    PROVE  Room(w, n + 1, all2, stale2)
<1>1. \A v \in all : v <= w + n
    BY DEF Room
<1>2. \A v \in all2 : v <= w + (n + 1)
    BY <1>1
<1>3. ASSUME w + n \in all, p = w + n \/ n >= 1 PROVE n >= 1 => \A v \in all2 : v > w
    BY <1>3 DEF Room
<1>4. ASSUME w + (n + 1) \in all2 PROVE \A v \in all2 : v > w
  <2>1. p = w + n
      BY <1>1, <1>4
  <2>2. CASE n = 0
      BY <2>1, <2>2
  <2>3. CASE n # 0
      BY <1>3, <2>1, <2>3
  <2> QED
      BY <2>2, <2>3
<1>5. ASSUME NEW s \in stale2 PROVE s + 1 <= w + (n + 1) /\ (s + 1 = w + (n + 1) => \A v \in all2 : v > w)
  <2>1. s \in all /\ n >= 1 /\ s <= w + n
      BY <1>1
  <2>2. s + 1 = w + (n + 1) => s = w + n
      BY <2>1
  <2> QED
      BY <1>3, <2>1, <2>2
<1> QED
    BY <1>2, <1>4, <1>5 DEF Room

\* A rescore commits a version of its own, above all others.
LEMMA RoomServes ==
    ASSUME NEW w \in Nat, NEW n \in Nat, n >= 1, NEW all \in SUBSET Int, NEW stale \in SUBSET all,
           Room(w, n, all, stale), NEW v \in Nat, v > w, v - 1 \in all \/ v >= w + 2,
           NEW all2 \in SUBSET (all \cup {v}), NEW stale2 \in SUBSET stale
    PROVE  Room(v, n - 1, all2, stale2)
<1>1. \A x \in all : x <= w + n
    BY DEF Room
<1>2. ~(v = w + 1 /\ \A x \in all : x > w)
    OBVIOUS
<1>3. \A x \in all2 : x <= v + (n - 1)
    BY <1>1
<1>4. ~(n - 1 >= 1 /\ v + (n - 1) \in all2)
  <2> SUFFICES ASSUME n - 1 >= 1, v + (n - 1) \in all PROVE FALSE
      OBVIOUS
  <2>1. v = w + 1 /\ v + (n - 1) = w + n
      BY <1>1
  <2> QED
      BY <1>2, <2>1 DEF Room
<1>5. ASSUME NEW s \in stale2 PROVE s + 1 < v + (n - 1)
  <2>1. s \in Int /\ s + 1 <= w + n /\ (s + 1 = w + n => \A x \in all : x > w)
      BY DEF Room
  <2>2. v = w + 1 => s + 1 # w + n
      BY <1>2, <2>1
  <2> QED
      BY <2>1, <2>2
<1>6. n - 1 \in Nat /\ v + (n - 1) \in Int /\ \A s \in stale2 : s \in Int
    OBVIOUS
<1> QED
    BY <1>3, <1>4, <1>5, <1>6 DEF Room

\* The last of them has read the rules in force.
LEMMA RoomForNoStale ==
    ASSUME NEW w \in Nat, NEW all \in SUBSET Int, NEW stale \in SUBSET all, Room(w, 1, all, stale),
           NEW v \in Nat, v > w, v - 1 \in stale
    PROVE  FALSE
<1>1. v - 1 \in all /\ (v - 1) + 1 <= w + 1
    BY DEF Room
<1>2. (v - 1) + 1 = w + 1 /\ v - 1 = w
    BY <1>1
<1> QED
    BY <1>1, <1>2 DEF Room

-----------------------------------------------------------------------------
LEMMA SomeThreads == ASSUME NEW T \in SUBSET Threads PROVE IsFiniteSet(T) /\ Cardinality(T) \in Nat
BY ThreadsFinite, FS_Subset, FS_CardinalityType

LEMMA WithoutOne ==
    ASSUME NEW T \in SUBSET Threads, NEW U \in SUBSET Threads, NEW t, T \ {t} = U \ {t}
    PROVE  Cardinality(U) = Cardinality(T) - (IF t \in T THEN 1 ELSE 0) + (IF t \in U THEN 1 ELSE 0)
<1>1. /\ Cardinality(T \ {t}) = IF t \in T THEN Cardinality(T) - 1 ELSE Cardinality(T)
      /\ Cardinality(U \ {t}) = IF t \in U THEN Cardinality(U) - 1 ELSE Cardinality(U)
    BY SomeThreads, FS_RemoveElement
<1>2. Cardinality(T) \in Nat /\ Cardinality(U) \in Nat
    BY SomeThreads
<1>3. Cardinality(T \ {t}) = Cardinality(U \ {t})
    OBVIOUS
<1> QED
    BY <1>1, <1>2, <1>3

LEMMA OneMoves ==
    ASSUME RescoreInv, NEW t \in Threads, NEW h, thread' = [thread EXCEPT ![t] = h]
    PROVE  /\ thread'[t] = h /\ \A u \in Threads \ {t} : thread'[u] = thread[u]
           /\ Cardinality(Takers') = Cardinality(Takers) - (IF t \in Takers THEN 1 ELSE 0) + (IF t \in Takers' THEN 1 ELSE 0)
<1>1. thread'[t] = h /\ \A u \in Threads \ {t} : thread'[u] = thread[u]
    BY DEF RescoreInv
<1>2. Takers \in SUBSET Threads /\ Takers' \in SUBSET Threads
    BY DEF Takers
<1>3. Takers \ {t} = Takers' \ {t}
    BY <1>1 DEF Takers, HoldsRow
<1> HIDE DEF Takers
<1> QED
    BY <1>1, <1>2, <1>3, WithoutOne

LEMMA ToTakeTyped == ASSUME RescoreInv PROVE ToTake \in Nat /\ Cardinality(Takers) \in Nat /\ Waiting \in Nat
<1>1. Takers \in SUBSET Threads
    BY DEF Takers
<1>2. Waiting \in Nat
    BY WaitingTyped DEF RescoreInv
<1> QED
    BY <1>1, <1>2, SomeThreads DEF ToTake

LEMMA BasesTyped == ASSUME RescoreInv PROVE Bases \in SUBSET Int /\ StaleBases \in SUBSET Bases
<1>1. ASSUME NEW t \in Readers PROVE From(t) \in Int
    BY DEF Readers, From, RescoreInv, RescoreRun
<1>2. rules.version \in Int /\ put \in Int
    BY DEF RescoreInv, NoPut
<1>3. Bases \in SUBSET Int
    BY <1>1, <1>2 DEF Bases
<1>4. StaleBases \in SUBSET Bases
    BY DEF StaleBases, Bases
<1> QED
    BY <1>3, <1>4

\* A step that takes no version, and writes and saves nothing.
LEMMA Stands ==
    ASSUME RescoreInv, NEW w \in Nat, AtTop(w), UNCHANGED <<rules, overrides>>, put' \in {put, NoPut, rules.version},
           \A t \in Threads : Writing(t)' => thread'[t] = thread[t],
           \A t \in Threads : thread'[t].at = "read" =>
              thread'[t] = thread[t] \/ (thread'[t].version = rules.version /\ thread'[t].rules = rules.content),
           ToTake' \in Nat, ToTake' >= ToTake,
           ToTake' = 0 => \A t \in Threads : Writing(t) => thread'[t] = thread[t]
    PROVE  AtTop(w)'
<1>1. \A t \in Readers' : \/ t \in Readers /\ From(t)' = From(t) /\ thread'[t].rules = thread[t].rules
                          \/ From(t)' = rules.version /\ thread'[t].rules = rules.content
  <2> SUFFICES ASSUME NEW t \in Readers'
               PROVE  \/ t \in Readers /\ From(t)' = From(t) /\ thread'[t].rules = thread[t].rules
                      \/ From(t)' = rules.version /\ thread'[t].rules = rules.content
      OBVIOUS
  <2>1. t \in Threads /\ (thread'[t].at = "read" \/ HoldsRow(t)')
      BY DEF Readers
  <2>2. CASE thread'[t] = thread[t]
      BY <2>1, <2>2 DEF HoldsRow, From, Readers
  <2>3. CASE thread'[t] # thread[t]
    <3>1. HoldsRow(t)' => thread'[t].at = "writing"
        BY DEF HoldsRow
    <3>2. thread'[t].at = "read"
        BY <2>1, <2>3, <3>1 DEF Writing
    <3>3. thread'[t].version = rules.version /\ thread'[t].rules = rules.content
        BY <2>1, <2>3, <3>2
    <3>4. ~HoldsRow(t)'
        BY <3>1, <3>2
    <3>5. From(t)' = thread'[t].version
        BY <3>4 DEF From
    <3> QED
        BY <3>3, <3>5
  <2> QED
      BY <2>2, <2>3
<1>2. Bases' \in SUBSET Bases
    BY <1>1 DEF Bases
<1>3. StaleBases' \in SUBSET StaleBases
    BY <1>1 DEF StaleBases
<1>4. Room(w, ToTake', Bases', StaleBases')
    BY <1>2, <1>3, RoomLoosens, BasesTyped, ToTakeTyped DEF AtTop
<1>5. Highest(w)'
    BY DEF AtTop, Highest
<1>6. OwnVersions(w)'
  <2>1. \A t \in Threads : Writing(t)' => Writing(t) /\ thread'[t] = thread[t]
      BY DEF Writing
  <2>2. \A t \in Threads : HoldsRow(t)' => HoldsRow(t)
      BY <2>1 DEF HoldsRow, Writing
  <2> QED
      BY <2>1, <2>2 DEF AtTop, OwnVersions
<1>7. LastIsCurrent(w)'
  <2> SUFFICES ASSUME ToTake' = 0, rules.content # Defaults
               PROVE  (\A b \in Pages : Scored(b, w)') \/ \E t \in Threads : ScoredBy(t, w)'
      BY DEF LastIsCurrent
  <2>1. ToTake = 0
      BY ToTakeTyped
  <2>2. \A b \in Pages : Scored(b, w)' <=> Scored(b, w)
      BY DEF Scored
  <2>3. \A t \in Threads : ScoredBy(t, w) => ScoredBy(t, w)'
      BY <2>2 DEF ScoredBy, Writing
  <2> QED
      BY <2>1, <2>2, <2>3 DEF AtTop, LastIsCurrent
<1>8. Room(w, ToTake, Bases, StaleBases)'
    BY <1>4
<1> QED
    BY <1>5, <1>6, <1>7, <1>8 DEF AtTop

LEMMA VersionTaken ==
    ASSUME RescoreInv, ScoreShapes, NEW w \in Nat, AtTop(w), NEW t \in Threads, TakeVersion(t), ~behind'
    PROVE  AtTop(w)'
<1> DEFINE v == NextVersion(thread[t].version)
           h == [thread[t] EXCEPT !.at = "writing", !.version = v]
<1>1. /\ thread[t].at = "read" /\ ~RowLocked /\ (thread[t].version = 0 => rules.version = 0)
      /\ thread' = [thread EXCEPT ![t] = h] /\ UNCHANGED <<rules, overrides, queue, put>>
      /\ \A c \in ClaimedVersions : ~(v <= c)
    BY DEF TakeVersion, rescoreCounters
<1>2. thread[t] \in RescoreRun /\ thread[t].page = 1 /\ rules.version \in Nat /\ overrides \subseteq Override
    BY <1>1 DEF RescoreInv, ScoreShapes
<1>3. v \in Nat /\ v >= 2 /\ v = (IF thread[t].version = 0 THEN 2 ELSE thread[t].version + 1)
    BY <1>2 DEF NextVersion, RescoreRun
<1>4. h.at = "writing" /\ h.version = v /\ h.page = 1 /\ h.rules = thread[t].rules
    BY <1>2 DEF RescoreRun
<1>5. /\ \A o \in overrides : o.version < v
      /\ \A u \in Threads : Writing(u) => thread[u].version < v
  <2>1. ASSUME NEW o \in overrides PROVE o.version < v
    <3>1. o.version \in ClaimedVersions /\ o.version \in Nat
        BY <1>2 DEF ClaimedVersions, Override
    <3> QED
        BY <1>1, <1>3, <3>1
  <2>2. ASSUME NEW u \in Threads, Writing(u) PROVE thread[u].version < v
    <3>1. thread[u].version \in ClaimedVersions /\ thread[u].version \in Nat
        BY <2>2 DEF ClaimedVersions, Writing, RescoreInv, RescoreRun
    <3> QED
        BY <1>1, <1>3, <3>1
  <2> QED
      BY <2>1, <2>2
<1>6. rules.version = 0 => thread[t].version = 0
    BY <1>1 DEF ScoreShapes, NoRowYet, Readers, HoldsRow
<1> HIDE DEF v, h
<1>7. /\ thread'[t] = h /\ \A u \in Threads \ {t} : thread'[u] = thread[u]
      /\ Cardinality(Takers') = Cardinality(Takers) - (IF t \in Takers THEN 1 ELSE 0) + (IF t \in Takers' THEN 1 ELSE 0)
    BY <1>1, OneMoves
<1>8. HoldsRow(t)' /\ ~HoldsRow(t) /\ \A u \in Threads \ {t} : ~HoldsRow(u)' /\ ~HoldsRow(u)
    BY <1>1, <1>4, <1>7 DEF HoldsRow, RowLocked
<1>9. t \in Takers /\ t \in Takers' /\ ToTake' = ToTake /\ ToTake >= 1
  <2>1. t \in Takers /\ t \in Takers'
      BY <1>1, <1>8 DEF Takers
  <2>2. Cardinality(Takers) >= 1
    <3>1. Takers \in SUBSET Threads
        BY DEF Takers
    <3>2. IsFiniteSet(Takers) /\ Cardinality(Takers) \in Nat
        BY <3>1, SomeThreads
    <3> QED
        BY <2>1, <3>2, FS_EmptySet
  <2> QED
      BY <1>1, <1>7, <2>1, <2>2, ToTakeTyped, WaitingStands DEF ToTake
<1>10. From(t) = thread[t].version /\ From(t)' = From(t)
  <2>1. From(t) = thread[t].version
      BY <1>8 DEF From
  <2>2. From(t)' = IF rules.version = 0 THEN 0 ELSE v - 1
      BY <1>1, <1>4, <1>7, <1>8 DEF From
  <2> QED
      BY <1>1, <1>2, <1>3, <1>6, <2>1, <2>2 DEF RescoreRun
<1>11. /\ Readers' = Readers /\ \A u \in Readers : From(u)' = From(u) /\ thread'[u].rules = thread[u].rules
  <2>1. Readers' = Readers
      BY <1>1, <1>4, <1>7, <1>8 DEF Readers
  <2>2. ASSUME NEW u \in Threads \ {t} PROVE From(u)' = From(u)
      BY <1>7, <1>8, <2>2 DEF From
  <2> QED
      BY <1>4, <1>7, <1>10, <2>1, <2>2 DEF Readers
<1>12. Bases' = Bases /\ StaleBases' = StaleBases
    BY <1>1, <1>11 DEF Bases, StaleBases
<1>13. Room(w, ToTake, Bases, StaleBases)'
    BY <1>9, <1>12 DEF AtTop
<1>14. Highest(w)' /\ v > w
    BY <1>1, <1>3, <1>5 DEF AtTop, Highest
<1>15. OwnVersions(w)'
  <2>1. ASSUME NEW u \in Threads, Writing(u)'
        PROVE  /\ IF thread'[u].page = 1 THEN thread'[u].version > w ELSE thread'[u].version <= w
               /\ \A o \in overrides : o.version = thread'[u].version => o.page < thread'[u].page
    <3>1. CASE u = t
        BY <1>4, <1>5, <1>7, <1>14, <3>1, <1>3, <1>2 DEF Override
    <3>2. CASE u # t
        BY <1>7, <2>1, <3>2 DEF AtTop, OwnVersions, Writing
    <3> QED
        BY <3>1, <3>2
  <2>2. ASSUME NEW a \in Threads, NEW b \in Threads, Writing(a)', Writing(b)', thread'[a].version = thread'[b].version
        PROVE  a = b
    <3>1. ASSUME NEW u \in Threads, u # t, Writing(u)' PROVE thread'[u].version # v
      <4>1. Writing(u) /\ thread'[u] = thread[u]
          BY <1>7, <3>1 DEF Writing
      <4>2. thread[u].version \in Nat
          BY DEF RescoreInv, RescoreRun
      <4> QED
          BY <1>3, <1>5, <4>1, <4>2
    <3>2. CASE a # t /\ b # t
        BY <1>7, <2>2, <3>2 DEF AtTop, OwnVersions, Writing
    <3> QED
        BY <1>4, <1>7, <2>2, <3>1, <3>2
  <2> QED
      BY <1>1, <1>8, <2>1, <2>2 DEF OwnVersions
<1>16. LastIsCurrent(w)'
    BY <1>9, ToTakeTyped DEF LastIsCurrent
<1> QED
    BY <1>13, <1>14, <1>15, <1>16 DEF AtTop

\* What a batch adds is new, and where the run is after it.
LEMMA BatchAdds ==
    ASSUME RescoreInv, ScoreShapes, NEW w \in Nat, AtTop(w), NEW t \in Threads, WriteBatch(t)
    PROVE  LET p == thread[t].page
               v == thread[t].version
               o == [page |-> p, version |-> v, rules |-> thread[t].rules]
           IN
           /\ Writing(t) /\ p \in Pages /\ v \in Nat /\ v >= 2
           /\ overrides \subseteq Override /\ overrides' = overrides \cup {o}
           /\ rules' = (IF p = 1 THEN [rules EXCEPT !.version = v] ELSE rules)
           /\ UNCHANGED <<queue, put>>
           /\ thread'[t].page = p + 1 /\ thread'[t].version = v /\ thread'[t].rules = thread[t].rules
           /\ thread'[t].at = (IF p = Batches THEN "done" ELSE "writing")
           /\ \A u \in Threads \ {t} : thread'[u] = thread[u] /\ (Writing(u) => thread[u].version # v)
           /\ Cardinality(Takers') = Cardinality(Takers) - (IF t \in Takers THEN 1 ELSE 0) + (IF t \in Takers' THEN 1 ELSE 0)
<1> DEFINE p == thread[t].page
           v == thread[t].version
           o == [page |-> p, version |-> v, rules |-> thread[t].rules]
           at == IF p = Batches THEN "done" ELSE "writing"
           h == [thread[t] EXCEPT !.page = p + 1, !.at = at]
<1>1. /\ Writing(t) /\ thread' = [thread EXCEPT ![t] = h]
      /\ rules' = (IF p = 1 THEN [rules EXCEPT !.version = v] ELSE rules)
      /\ UNCHANGED <<queue, put>> /\ AddOverride(p, v, thread[t].rules)
    BY DEF WriteBatch, Writing, rescoreCounters
<1>2. thread[t] \in RescoreRun /\ p \in Pages /\ v \in Nat /\ v >= 2 /\ overrides \subseteq Override
    BY <1>1 DEF RescoreInv, ScoreShapes, Writing, RescoreRun
<1>3. h.at = at /\ h.page = p + 1 /\ h.version = v /\ h.rules = thread[t].rules
  <2> HIDE DEF at
  <2> QED
      BY <1>2 DEF RescoreRun
<1> HIDE DEF h
<1>4. ~ \E e \in overrides : e.page = p /\ e.version = v
  <2>1. \A e \in overrides : e.version = v => e.page < p
      BY <1>1 DEF AtTop, OwnVersions
  <2>2. \A e \in overrides : e.page \in Nat
      BY <1>2 DEF Override, Pages
  <2> QED
      BY <1>2, <2>1, <2>2 DEF Pages
<1>5. overrides' = overrides \cup {o}
    BY <1>1, <1>4 DEF AddOverride
<1>6. \A u \in Threads \ {t} : Writing(u) => thread[u].version # v
    BY <1>1 DEF AtTop, OwnVersions
<1> QED
    BY <1>1, <1>2, <1>3, <1>5, <1>6, OneMoves

\* The first batch commits the version.
LEMMA FirstWritten ==
    ASSUME RescoreInv, ScoreShapes, NEW w \in Nat, AtTop(w), NEW t \in Threads, WriteBatch(t), thread[t].page = 1
    PROVE  \E n \in Nat : AtTop(n)'
<1> DEFINE v == thread[t].version
           o == [page |-> 1, version |-> v, rules |-> thread[t].rules]
<1>1. /\ Writing(t) /\ 1 \in Pages /\ v \in Nat /\ v >= 2
      /\ overrides \subseteq Override /\ overrides' = overrides \cup {o}
      /\ rules' = [rules EXCEPT !.version = v] /\ UNCHANGED <<queue, put>>
      /\ thread'[t].page = 2 /\ thread'[t].version = v /\ thread'[t].rules = thread[t].rules
      /\ thread'[t].at = (IF 1 = Batches THEN "done" ELSE "writing")
      /\ \A u \in Threads \ {t} : thread'[u] = thread[u] /\ (Writing(u) => thread[u].version # v)
      /\ Cardinality(Takers') = Cardinality(Takers) - (IF t \in Takers THEN 1 ELSE 0) + (IF t \in Takers' THEN 1 ELSE 0)
    BY BatchAdds
<1>2. rules'.version = v /\ rules'.content = rules.content
    BY <1>1 DEF RescoreInv
<1>3. PICK x \in Nat : x = v
    BY <1>1
<1>4. PICK r : r = thread[t].rules
    OBVIOUS
<1>5. o = [page |-> 1, version |-> x, rules |-> r] /\ o.version = x /\ o.page = 1
    BY <1>3, <1>4
<1> HIDE DEF o
<1>6. x > w /\ (\A e \in overrides : e.version <= w /\ e.version \in Nat)
    BY <1>1, <1>3 DEF AtTop, OwnVersions, Highest, Override
<1>7. HoldsRow(t) /\ ~HoldsRow(t)' /\ \A u \in Threads \ {t} : ~HoldsRow(u) /\ ~HoldsRow(u)'
  <2>1. HoldsRow(t)
      BY <1>1 DEF HoldsRow, Writing
  <2>2. ~HoldsRow(t)'
      BY <1>1 DEF HoldsRow
  <2>3. \A u \in Threads \ {t} : ~HoldsRow(u)
      BY <2>1 DEF AtTop, OwnVersions
  <2>4. ASSUME NEW u \in Threads \ {t} PROVE ~HoldsRow(u)'
      BY <1>1, <2>3, <2>4 DEF HoldsRow
  <2> QED
      BY <2>1, <2>2, <2>3, <2>4
<1>8. ToTake \in Nat /\ ToTake >= 1 /\ ToTake' = ToTake - 1
  <2>1. t \in Takers /\ t \notin Takers'
      BY <1>1, <1>7 DEF Takers
  <2>2. Cardinality(Takers) >= 1
    <3>1. Takers \in SUBSET Threads
        BY DEF Takers
    <3>2. IsFiniteSet(Takers) /\ Cardinality(Takers) \in Nat
        BY <3>1, SomeThreads
    <3> QED
        BY <2>1, <3>2, FS_EmptySet
  <2> QED
      BY <1>1, <2>1, <2>2, ToTakeTyped, WaitingStands DEF ToTake
<1>9. PICK n \in Nat : n = ToTake
    BY <1>8
<1>10. Readers' = Readers \ {t} /\ \A u \in Readers' : From(u)' = From(u) /\ thread'[u] = thread[u]
  <2>1. Readers' = Readers \ {t}
      BY <1>1, <1>7 DEF Readers
  <2>2. ASSUME NEW u \in Threads \ {t} PROVE From(u)' = From(u)
      BY <1>1, <1>7, <2>2 DEF From
  <2> QED
      BY <1>1, <2>1, <2>2 DEF Readers
<1>11. Bases' \in SUBSET (Bases \cup {x}) /\ StaleBases' \in SUBSET StaleBases
  <2>1. Bases' \in SUBSET (Bases \cup {x})
      BY <1>1, <1>2, <1>3, <1>10 DEF Bases
  <2>2. StaleBases' \in SUBSET StaleBases
      BY <1>2, <1>10 DEF StaleBases
  <2> QED
      BY <2>1, <2>2
<1>12. t \in Readers /\ From(t) = IF rules.version = 0 THEN 0 ELSE x - 1
    BY <1>3, <1>7 DEF Readers, From
<1>13. x - 1 \in Bases \/ x >= w + 2
  <2>1. CASE rules.version # 0
      BY <1>12, <2>1 DEF Bases
  <2>2. CASE rules.version = 0
    <3>1. overrides = {} /\ thread[t].version = 2
        BY <1>7, <1>12, <2>2 DEF ScoreShapes, NoRowYet
    <3>2. w = 0
        BY <3>1 DEF AtTop, Highest
    <3> QED
        BY <1>3, <3>1, <3>2
  <2> QED
      BY <2>1, <2>2
<1>14. Room(w, n, Bases, StaleBases)
    BY <1>9 DEF AtTop
<1>15. Room(x, n - 1, Bases', StaleBases')
    BY <1>6, <1>8, <1>9, <1>11, <1>13, <1>14, BasesTyped, RoomServes
<1>16. Room(x, ToTake, Bases, StaleBases)'
    BY <1>8, <1>9, <1>15
<1>17. Highest(x)'
    BY <1>1, <1>5, <1>6 DEF Highest
<1>18. OwnVersions(x)'
  <2>1. ASSUME NEW u \in Threads, Writing(u)'
        PROVE  /\ IF thread'[u].page = 1 THEN thread'[u].version > x ELSE thread'[u].version <= x
               /\ \A e \in overrides' : e.version = thread'[u].version => e.page < thread'[u].page
    <3>1. CASE u = t
        BY <1>1, <1>3, <1>5, <1>6, <3>1
    <3>2. CASE u # t
      <4>1. Writing(u) /\ thread'[u] = thread[u] /\ ~HoldsRow(u) /\ thread[u].version # x
          BY <1>1, <1>3, <1>7, <2>1, <3>2 DEF Writing
      <4>2. thread[u].page # 1 /\ thread[u].version <= w /\ thread[u].version \in Nat
          BY <4>1 DEF HoldsRow, Writing, AtTop, OwnVersions, RescoreInv, RescoreRun
      <4>3. \A e \in overrides : e.version = thread[u].version => e.page < thread[u].page
          BY <4>1 DEF AtTop, OwnVersions
      <4> QED
          BY <1>1, <1>5, <1>6, <4>1, <4>2, <4>3
    <3> QED
        BY <3>1, <3>2
  <2>2. ASSUME NEW a \in Threads, NEW b \in Threads, Writing(a)', Writing(b)', thread'[a].version = thread'[b].version
        PROVE  a = b
    <3>1. \A u \in Threads : Writing(u)' => Writing(u) /\ thread'[u].version = thread[u].version
        BY <1>1 DEF Writing
    <3> QED
        BY <2>2, <3>1 DEF AtTop, OwnVersions
  <2> QED
      BY <1>7, <2>1, <2>2 DEF OwnVersions
<1>19. LastIsCurrent(x)'
  <2> SUFFICES ASSUME ToTake' = 0, rules'.content # Defaults
               PROVE  (\A b \in Pages : Scored(b, x)') \/ \E u \in Threads : ScoredBy(u, x)'
      BY DEF LastIsCurrent
  <2>1. n = 1 /\ rules.version # 0
      BY <1>2, <1>8, <1>9 DEF ScoreShapes, NoRowYet
  <2>2. thread[t].rules = rules.content
    <3> SUFFICES ASSUME thread[t].rules # rules.content PROVE FALSE
        OBVIOUS
    <3>1. x - 1 \in StaleBases
        BY <1>12, <2>1 DEF StaleBases
    <3> QED
        BY <1>6, <1>14, <2>1, <3>1, BasesTyped, RoomForNoStale
  <2>3. Scored(1, x)'
      BY <1>1, <1>2, <1>4, <1>5, <2>2 DEF Scored
  <2>4. CASE Batches = 1
      BY <2>3, <2>4 DEF Pages
  <2>5. CASE Batches # 1
    <3>1. \A b \in Pages : b < 2 => b = 1
        BY SomeBatches DEF Pages
    <3>2. ScoredBy(t, x)'
        BY <1>1, <1>2, <1>3, <2>2, <2>3, <2>5, <3>1 DEF ScoredBy, Writing
    <3> QED
        BY <3>2
  <2> QED
      BY <2>4, <2>5
<1>20. AtTop(x)'
    BY <1>16, <1>17, <1>18, <1>19 DEF AtTop
<1> QED
    BY <1>20

\* The other batches have the version already.
LEMMA LaterWritten ==
    ASSUME RescoreInv, ScoreShapes, NEW w \in Nat, AtTop(w), NEW t \in Threads, WriteBatch(t), thread[t].page # 1
    PROVE  AtTop(w)'
<1> DEFINE p == thread[t].page
           v == thread[t].version
           o == [page |-> p, version |-> v, rules |-> thread[t].rules]
<1>1. /\ Writing(t) /\ p \in Pages /\ v \in Nat /\ v >= 2
      /\ overrides \subseteq Override /\ overrides' = overrides \cup {o}
      /\ UNCHANGED <<rules, queue, put>>
      /\ thread'[t].page = p + 1 /\ thread'[t].version = v /\ thread'[t].rules = thread[t].rules
      /\ thread'[t].at = (IF p = Batches THEN "done" ELSE "writing")
      /\ \A u \in Threads \ {t} : thread'[u] = thread[u] /\ (Writing(u) => thread[u].version # v)
      /\ Cardinality(Takers') = Cardinality(Takers) - (IF t \in Takers THEN 1 ELSE 0) + (IF t \in Takers' THEN 1 ELSE 0)
    BY BatchAdds
<1>2. v <= w /\ \A e \in overrides : e.version = v => e.page < p
    BY <1>1 DEF AtTop, OwnVersions
<1>3. PICK pg : pg = p
    OBVIOUS
<1>4. PICK x : x = v
    OBVIOUS
<1>5. PICK r : r = thread[t].rules
    OBVIOUS
<1>6. o = [page |-> pg, version |-> x, rules |-> r] /\ o.version = x /\ o.page = pg
    BY <1>3, <1>4, <1>5
<1> HIDE DEF o
<1>7. \A u \in Threads : HoldsRow(u)' <=> HoldsRow(u)
  <2> SUFFICES ASSUME NEW u \in Threads PROVE HoldsRow(u)' <=> HoldsRow(u)
      OBVIOUS
  <2>1. CASE u = t
      BY <1>1, <2>1 DEF HoldsRow, Pages
  <2>2. CASE u # t
      BY <1>1, <2>2 DEF HoldsRow
  <2> QED
      BY <2>1, <2>2
<1>8. ~HoldsRow(t)
    BY DEF HoldsRow
<1>9. ToTake' = ToTake
  <2>1. t \notin Takers /\ t \notin Takers'
    <3>1. thread'[t].at \in {"writing", "done"} /\ ~HoldsRow(t)'
        BY <1>1, <1>7, <1>8
    <3> QED
        BY <1>1, <1>8, <3>1 DEF Takers, Writing
  <2> QED
      BY <1>1, <2>1, ToTakeTyped, WaitingStands DEF ToTake
<1>10. t \notin Readers /\ Readers' = Readers
  <2>1. t \notin Readers /\ thread'[t].at \in {"writing", "done"}
      BY <1>1, <1>8 DEF Readers, Writing
  <2>2. ASSUME NEW u \in Threads PROVE (thread'[u].at = "read" \/ HoldsRow(u)') <=> (thread[u].at = "read" \/ HoldsRow(u))
    <3>1. CASE u = t
        BY <1>7, <1>8, <2>1, <3>1 DEF Readers
    <3>2. CASE u # t
        BY <1>1, <1>7, <3>2
    <3> QED
        BY <3>1, <3>2
  <2>3. Readers' = {u \in Threads : thread'[u].at = "read" \/ HoldsRow(u)'}
      BY DEF Readers
  <2> QED
      BY <2>1, <2>2, <2>3 DEF Readers
<1>11. \A u \in Readers : From(u)' = From(u) /\ thread'[u] = thread[u]
  <2> SUFFICES ASSUME NEW u \in Readers PROVE From(u)' = From(u) /\ thread'[u] = thread[u]
      OBVIOUS
  <2>1. u \in Threads /\ u # t
      BY <1>10 DEF Readers
  <2>2. thread'[u] = thread[u] /\ (HoldsRow(u)' <=> HoldsRow(u))
      BY <1>1, <1>7, <2>1
  <2> QED
      BY <1>1, <2>2 DEF From
<1>12. Bases' = Bases /\ StaleBases' = StaleBases
    BY <1>1, <1>10, <1>11 DEF Bases, StaleBases
<1>13. Room(w, ToTake, Bases, StaleBases)'
    BY <1>9, <1>12 DEF AtTop
<1>14. Highest(w)'
    BY <1>1, <1>2, <1>4, <1>6 DEF AtTop, Highest
<1>15. OwnVersions(w)'
  <2>1. ASSUME NEW u \in Threads, Writing(u)'
        PROVE  /\ IF thread'[u].page = 1 THEN thread'[u].version > w ELSE thread'[u].version <= w
               /\ \A e \in overrides' : e.version = thread'[u].version => e.page < thread'[u].page
    <3>1. CASE u = t
      <4>1. p + 1 # 1 /\ thread'[u].page = p + 1 /\ thread'[u].version = v
          BY <1>1, <3>1 DEF Pages
      <4>2. ASSUME NEW e \in overrides', e.version = v PROVE e.page < p + 1
        <5>1. CASE e = o
            BY <1>1, <1>3, <1>6, <5>1 DEF Pages
        <5>2. CASE e # o
          <6>1. e \in overrides
              BY <1>1, <5>2
          <6>2. e.page \in Nat /\ e.page < p
              BY <1>1, <1>2, <4>2, <6>1 DEF Override, Pages
          <6> QED
              BY <1>1, <6>2 DEF Pages
        <5> QED
            BY <5>1, <5>2
      <4> QED
          BY <1>2, <4>1, <4>2
    <3>2. CASE u # t
      <4>1. Writing(u) /\ thread'[u] = thread[u] /\ thread[u].version # v
          BY <1>1, <2>1, <3>2 DEF Writing
      <4>2. /\ IF thread[u].page = 1 THEN thread[u].version > w ELSE thread[u].version <= w
            /\ \A e \in overrides : e.version = thread[u].version => e.page < thread[u].page
          BY <4>1 DEF AtTop, OwnVersions
      <4> QED
          BY <1>1, <1>4, <1>6, <4>1, <4>2
    <3> QED
        BY <3>1, <3>2
  <2>2. ASSUME NEW a \in Threads, NEW b \in Threads, Writing(a)', Writing(b)', thread'[a].version = thread'[b].version
        PROVE  a = b
    <3>1. \A u \in Threads : Writing(u)' => Writing(u) /\ thread'[u].version = thread[u].version
        BY <1>1 DEF Writing
    <3> QED
        BY <2>2, <3>1 DEF AtTop, OwnVersions
  <2>3. ASSUME NEW a \in Threads, NEW b \in Threads, HoldsRow(a)', HoldsRow(b)' PROVE a = b
      BY <1>7, <2>3 DEF AtTop, OwnVersions
  <2> QED
      BY <2>1, <2>2, <2>3 DEF OwnVersions
<1>16. LastIsCurrent(w)'
  <2> SUFFICES ASSUME ToTake' = 0, rules'.content # Defaults
               PROVE  (\A b \in Pages : Scored(b, w)') \/ \E u \in Threads : ScoredBy(u, w)'
      BY DEF LastIsCurrent
  <2>1. \A b \in Pages : Scored(b, w) => Scored(b, w)'
      BY <1>1 DEF Scored
  <2>2. CASE \A b \in Pages : Scored(b, w)
      BY <2>1, <2>2
  <2>3. CASE ~ \A b \in Pages : Scored(b, w)
    <3>1. PICK u \in Threads : ScoredBy(u, w)
        BY <1>1, <1>9, <2>3 DEF AtTop, LastIsCurrent
    <3>2. CASE u # t
      <4>1. thread'[u] = thread[u]
          BY <1>1, <3>2
      <4> QED
          BY <1>1, <2>1, <3>1, <4>1 DEF ScoredBy, Writing
    <3>3. CASE u = t
      <4>1. v = w /\ thread[t].rules = rules.content /\ \A b \in Pages : b < p => Scored(b, w)
          BY <3>1, <3>3 DEF ScoredBy
      <4>3. \A b \in Pages : b < p + 1 => Scored(b, w)'
        <5> SUFFICES ASSUME NEW b \in Pages, b < p + 1 PROVE Scored(b, w)'
            OBVIOUS
        <5>1. b < p \/ b = p
            BY <1>1, SomeBatches DEF Pages
        <5>2. CASE b < p
            BY <2>1, <4>1, <5>2
        <5>3. CASE b = p
          <6>1. Scored(b, w)' <=> [page |-> b, version |-> w, rules |-> rules'.content] \in overrides'
              BY DEF Scored
          <6> QED
              BY <1>1, <1>3, <1>4, <1>5, <1>6, <4>1, <5>3, <6>1
        <5> QED
            BY <5>1, <5>2, <5>3
      <4>4. CASE p = Batches
        <5>1. \A b \in Pages : b < p + 1
            BY <4>4, SomeBatches DEF Pages
        <5> QED
            BY <4>3, <5>1
      <4>5. CASE p # Batches
        <5>1. Writing(t)' /\ thread'[t].page = p + 1 /\ p + 1 > 1 /\ thread'[t].version = w /\ thread'[t].rules = rules'.content
            BY <1>1, <4>1, <4>5 DEF Writing, Pages
        <5>2. ScoredBy(t, w)'
            BY <4>3, <5>1 DEF ScoredBy
        <5> QED
            BY <5>2
      <4> QED
          BY <4>4, <4>5
    <3> QED
        BY <3>2, <3>3
  <2> QED
      BY <2>2, <2>3
<1> QED
    BY <1>13, <1>14, <1>15, <1>16 DEF AtTop

\* Saved rules: a version one above the one that was read, and a rescore more.
LEMMA RulesSaved ==
    ASSUME RescoreInv, ScoreShapes, NEW w \in Nat, AtTop(w), CommitRules, ~behind'
    PROVE  AtTop(w)'
<1>1. /\ put # NoPut /\ ~RowLocked /\ (put = 0 => rules.version = 0)
      /\ rules' = [version |-> put + 1, content |-> puts] /\ put' = NoPut
      /\ \A c \in ClaimedVersions : ~(put + 1 < c)
      /\ Waiting' = Waiting + 1 /\ UNCHANGED <<overrides, thread>>
    BY TriesAre, OneMoreWaits DEF CommitRules, Send, RescoreInv
<1>2. put \in Nat /\ puts \in Nat /\ overrides \subseteq Override
    BY <1>1, BoundsNatural DEF RescoreInv, ScoreShapes
<1>3. rules'.version = put + 1 /\ rules'.content = puts
    BY <1>1
<1>4. \A t \in Threads : ~HoldsRow(t) /\ ~HoldsRow(t)'
    BY <1>1 DEF RowLocked, HoldsRow
<1>5. w <= put + 1
  <2>1. ASSUME NEW o \in overrides PROVE o.version <= put + 1
    <3>1. o.version \in ClaimedVersions /\ o.version \in Nat
        BY <1>2 DEF ClaimedVersions, Override
    <3> QED
        BY <1>1, <1>2, <3>1
  <2> QED
      BY <1>2, <2>1 DEF AtTop, Highest
<1>6. Takers' = Takers /\ Readers' = Readers
    BY <1>1 DEF Takers, Readers, HoldsRow
<1>7. ToTake \in Nat /\ ToTake' = ToTake + 1
    BY <1>1, <1>6, ToTakeTyped DEF ToTake
<1>8. PICK n \in Nat : n = ToTake
    BY <1>7
<1>9. \A t \in Readers : From(t) = thread[t].version /\ From(t)' = From(t)
    BY <1>1, <1>4 DEF From, Readers
<1>10. PICK read : read = {From(t) : t \in Readers}
    OBVIOUS
<1>11. read \in SUBSET Bases /\ put \in Bases
    BY <1>1, <1>10 DEF Bases
<1>12. n = 0 => read = {}
  <2> SUFFICES ASSUME NEW t \in Readers PROVE n # 0
      BY <1>10
  <2>1. t \in Takers /\ Takers \in SUBSET Threads
      BY DEF Takers, Readers
  <2>2. Cardinality(Takers) # 0
      BY <2>1, SomeThreads, FS_EmptySet
  <2> QED
      BY <1>8, <2>2, ToTakeTyped, WaitingStands DEF ToTake
<1>13. Bases' \in SUBSET (read \cup {put + 1})
    BY <1>1, <1>3, <1>6, <1>9, <1>10 DEF Bases
<1>14. StaleBases' \in SUBSET read
    BY <1>6, <1>9, <1>10 DEF StaleBases
<1>15. Room(w, n, Bases, StaleBases)
    BY <1>8 DEF AtTop
<1>16. Room(w, n + 1, Bases', StaleBases')
    BY <1>5, <1>11, <1>12, <1>13, <1>14, <1>15, BasesTyped, RoomRises
<1>17. Room(w, ToTake, Bases, StaleBases)'
    BY <1>7, <1>8, <1>16
<1>18. Highest(w)'
    BY <1>1 DEF AtTop, Highest
<1>19. OwnVersions(w)'
    BY <1>1, <1>4 DEF AtTop, OwnVersions, Writing
<1>20. LastIsCurrent(w)'
    BY <1>7 DEF LastIsCurrent
<1> QED
    BY <1>17, <1>18, <1>19, <1>20 DEF AtTop

\* Every other step takes no version, and leaves the rules and the overrides alone.
LEMMA OthersStand ==
    ASSUME RescoreInv, ScoreShapes, NEW w \in Nat, AtTop(w), RescoreNext, ~CommitRules,
           \A t \in Threads : ~TakeVersion(t) /\ ~WriteBatch(t), ~givenUp'
    PROVE  AtTop(w)'
<1>1. Waiting \in Nat /\ Cardinality(Takers) \in Nat /\ ToTake = Waiting + Cardinality(Takers)
    BY ToTakeTyped DEF ToTake
<1>2. ASSUME UNCHANGED <<rules, overrides, thread>>, Waiting' \in Nat, Waiting' >= Waiting, put' \in {put, NoPut, rules.version}
      PROVE  AtTop(w)'
  <2>1. Takers' = Takers
      BY <1>2 DEF Takers, HoldsRow
  <2>2. ToTake' = Waiting' + Cardinality(Takers)
      BY <2>1 DEF ToTake
  <2>3. ToTake' \in Nat /\ ToTake' >= ToTake
      BY <1>1, <1>2, <2>2
  <2> QED
      BY <1>2, <2>3, Stands
<1>3. ASSUME NEW t \in Threads, NEW h, thread' = [thread EXCEPT ![t] = h], UNCHANGED <<rules, overrides, put>>,
             Waiting' \in Nat, h.at # "writing",
             h.at = "read" => h.version = rules.version /\ h.rules = rules.content,
             Waiting' + (IF h.at \in {"flagged", "read", "failed"} THEN 1 ELSE 0) >= Waiting + (IF t \in Takers THEN 1 ELSE 0),
             Writing(t) => Waiting' > 0 \/ h.at = "failed"
      PROVE  AtTop(w)'
  <2>1. /\ thread'[t] = h /\ \A u \in Threads \ {t} : thread'[u] = thread[u]
        /\ Cardinality(Takers') = Cardinality(Takers) - (IF t \in Takers THEN 1 ELSE 0) + (IF t \in Takers' THEN 1 ELSE 0)
      BY <1>3, OneMoves
  <2>2. t \in Takers' <=> h.at \in {"flagged", "read", "failed"}
      BY <1>3, <2>1 DEF Takers, HoldsRow
  <2>3. ToTake' = Waiting' + Cardinality(Takers')
      BY DEF ToTake
  <2>4. Cardinality(Takers') \in Nat
    <3>1. Takers' \in SUBSET Threads
        BY DEF Takers
    <3> QED
        BY <3>1, SomeThreads
  <2>8. h.at = "failed" => Cardinality(Takers') # 0
    <3> SUFFICES ASSUME h.at = "failed" PROVE Cardinality(Takers') # 0
        OBVIOUS
    <3>1. t \in Takers' /\ Takers' \in SUBSET Threads
        BY <2>2 DEF Takers
    <3>2. PICK T : T = Takers'
        OBVIOUS
    <3>3. IsFiniteSet(T) /\ T # {}
        BY <3>1, <3>2, SomeThreads
    <3> QED
        BY <3>2, <3>3, FS_EmptySet
  <2>9. PICK c \in Nat, d \in Nat : c = Cardinality(Takers) /\ d = Cardinality(Takers')
      BY <1>1, <2>4
  <2>10. ToTake' = Waiting' + d /\ ToTake = Waiting + c
      BY <1>1, <2>3, <2>9
  <2>11. ToTake' \in Nat
      BY <1>3, <2>9, <2>10
  <2>12. Waiting' + d >= Waiting + c
    <3>1. PICK v \in Nat, n \in Nat : v = Waiting /\ n = Waiting'
        BY <1>1, <1>3
    <3>2. d = c - (IF t \in Takers THEN 1 ELSE 0) + (IF t \in Takers' THEN 1 ELSE 0)
        BY <2>1, <2>9
    <3>3. n + (IF t \in Takers' THEN 1 ELSE 0) >= v + (IF t \in Takers THEN 1 ELSE 0)
        BY <1>3, <2>2, <3>1
    <3>4. n + d >= v + c
        BY <3>2, <3>3
    <3> QED
        BY <3>1, <3>4
  <2>13. ToTake' >= ToTake
      BY <2>10, <2>12
  <2>14. Waiting' > 0 \/ h.at = "failed" => Waiting' + d > 0
      BY <1>3, <2>8, <2>9
  <2>5. ToTake' \in Nat /\ ToTake' >= ToTake /\ (Waiting' > 0 \/ h.at = "failed" => ToTake' > 0)
      BY <2>10, <2>11, <2>13, <2>14
  <2>6. \A u \in Threads : Writing(u)' => thread'[u] = thread[u]
      BY <1>3, <2>1 DEF Writing
  <2>7. ToTake' = 0 => \A u \in Threads : Writing(u) => thread'[u] = thread[u]
      BY <1>3, <2>1, <2>5
  <2> QED
      BY <1>3, <2>1, <2>5, <2>6, <2>7, Stands
<1>4. CASE ReadRules
    BY <1>1, <1>2, <1>4, WaitingStands DEF ReadRules
<1>5. CASE LosesInsert
    BY <1>1, <1>2, <1>5, WaitingStands DEF LosesInsert
<1>6. CASE TriggerRescore
  <2>1. Waiting' = Waiting + 1 /\ UNCHANGED <<rules, overrides, thread, put>>
      BY <1>6, TriesAre, OneMoreWaits DEF TriggerRescore, Send, RescoreInv
  <2> QED
      BY <1>1, <1>2, <2>1
<1>7. \A t \in Threads : thread[t] \in RescoreRun
    BY DEF RescoreInv
<1>8. ASSUME NEW t \in Threads, TakeMessage(t) PROVE AtTop(w)'
  <2>0. PICK n \in Tries : /\ queue[n] > 0 /\ queue' = [queue EXCEPT ![n] = @ - 1]
                           /\ thread' = [thread EXCEPT ![t].at = "flagged", ![t].tries = n]
      BY <1>8 DEF TakeMessage
  <2> DEFINE h == [thread[t] EXCEPT !.at = "flagged", !.tries = n]
  <2>1. h.at = "flagged"
      BY <1>7 DEF RescoreRun
  <2>2. /\ thread' = [thread EXCEPT ![t] = h] /\ Waiting' = Waiting - 1 /\ Waiting > 0
        /\ UNCHANGED <<rules, overrides, put>> /\ thread[t].at = "idle"
    <3>1. Waiting' = Waiting - 1 /\ Waiting > 0
        BY <2>0, OneLessWaits DEF RescoreInv
    <3> QED
        BY <1>8, <2>0, <3>1 DEF TakeMessage
  <2>3. t \notin Takers /\ ~Writing(t)
      BY <2>2 DEF Takers, HoldsRow, Writing
  <2> HIDE DEF h
  <2>4. /\ Waiting' \in Nat /\ (Writing(t) => Waiting' > 0 \/ h.at = "failed")
        /\ Waiting' + (IF h.at \in {"flagged", "read", "failed"} THEN 1 ELSE 0) >= Waiting + (IF t \in Takers THEN 1 ELSE 0)
      BY <1>1, <2>1, <2>2, <2>3
  <2>5. h.at # "writing" /\ (h.at = "read" => h.version = rules.version /\ h.rules = rules.content)
      BY <2>1
  <2> QED
      BY <1>3, <2>2, <2>3, <2>4, <2>5
<1>9. ASSUME NEW t \in Threads, ReadForRescore(t) PROVE AtTop(w)'
  <2> DEFINE h == [thread[t] EXCEPT !.at = "read", !.rules = rules.content, !.version = rules.version]
  <2>1. h.at = "read" /\ h.version = rules.version /\ h.rules = rules.content
      BY <1>7 DEF RescoreRun
  <2>2. thread' = [thread EXCEPT ![t] = h] /\ UNCHANGED <<rules, overrides, queue, put>> /\ thread[t].at = "flagged"
      BY <1>9 DEF ReadForRescore
  <2>3. ~Writing(t)
      BY <2>2 DEF Writing
  <2> HIDE DEF h
  <2>4. /\ Waiting' \in Nat /\ (Writing(t) => Waiting' > 0 \/ h.at = "failed")
        /\ Waiting' + (IF h.at \in {"flagged", "read", "failed"} THEN 1 ELSE 0) >= Waiting + (IF t \in Takers THEN 1 ELSE 0)
      BY <1>1, <2>1, <2>2, <2>3, WaitingStands
  <2>5. h.at # "writing" /\ (h.at = "read" => h.version = rules.version /\ h.rules = rules.content)
      BY <2>1
  <2> QED
      BY <1>3, <2>2, <2>3, <2>4, <2>5
<1>10. ASSUME NEW t \in Threads, FailRescore(t) PROVE AtTop(w)'
  <2> DEFINE h == [thread[t] EXCEPT !.at = "failed"]
  <2>1. h.at = "failed"
      BY <1>7 DEF RescoreRun
  <2>2. thread' = [thread EXCEPT ![t] = h] /\ UNCHANGED <<rules, overrides, queue, put>>
      BY <1>10 DEF FailRescore
  <2> HIDE DEF h
  <2>3. /\ Waiting' \in Nat /\ (Writing(t) => Waiting' > 0 \/ h.at = "failed")
        /\ Waiting' + (IF h.at \in {"flagged", "read", "failed"} THEN 1 ELSE 0) >= Waiting + (IF t \in Takers THEN 1 ELSE 0)
      BY <1>1, <2>1, <2>2, WaitingStands
  <2>4. h.at # "writing" /\ (h.at = "read" => h.version = rules.version /\ h.rules = rules.content)
      BY <2>1
  <2> QED
      BY <1>3, <2>2, <2>3, <2>4
\* A run that ends: with its message sent again, if it has failed.
<1>11. ASSUME NEW t \in Threads, thread' = [thread EXCEPT ![t] = NoRescore], UNCHANGED <<rules, overrides, put>>,
              ~Writing(t), Waiting' = Waiting + (IF t \in Takers THEN 1 ELSE 0)
       PROVE  AtTop(w)'
  <2>1. PICK h : h = NoRescore
      OBVIOUS
  <2>2. h.at = "idle"
      BY <2>1, RunShapes
  <2>3. /\ Waiting' \in Nat
        /\ Waiting' + (IF h.at \in {"flagged", "read", "failed"} THEN 1 ELSE 0) >= Waiting + (IF t \in Takers THEN 1 ELSE 0)
      BY <1>1, <1>11, <2>2
  <2> QED
      BY <1>3, <1>11, <2>1, <2>2, <2>3
<1>12. ASSUME NEW t \in Threads, FinishRescore(t) PROVE AtTop(w)'
  <2>1. thread' = [thread EXCEPT ![t] = NoRescore] /\ UNCHANGED <<rules, overrides, queue, put>> /\ thread[t].at = "done"
      BY <1>12 DEF FinishRescore
  <2>2. t \notin Takers /\ ~Writing(t)
      BY <2>1 DEF Takers, HoldsRow, Writing
  <2>3. Waiting' = Waiting + (IF t \in Takers THEN 1 ELSE 0)
      BY <1>1, <2>1, <2>2, WaitingStands
  <2> QED
      BY <1>11, <2>1, <2>2, <2>3
<1>13. ASSUME NEW t \in Threads, RetryRescore(t) PROVE AtTop(w)'
  <2>1. /\ thread' = [thread EXCEPT ![t] = NoRescore] /\ UNCHANGED <<rules, overrides, put>> /\ thread[t].at = "failed"
        /\ thread[t].tries < Retries /\ queue' = [queue EXCEPT ![thread[t].tries + 1] = @ + 1]
      BY <1>13 DEF RetryRescore
  <2>2. t \in Takers /\ ~Writing(t)
      BY <2>1 DEF Takers, Writing
  <2>3. thread[t].tries + 1 \in Tries
      BY <1>7, <2>1, TriesAre DEF RescoreRun
  <2>4. Waiting' = Waiting + (IF t \in Takers THEN 1 ELSE 0)
      BY <2>1, <2>2, <2>3, OneMoreWaits DEF RescoreInv
  <2> QED
      BY <1>11, <2>1, <2>2, <2>4
<1>14. CASE CrashScoring
  <2> DEFINE busy == {t \in Threads : thread[t].at # "idle"}
  <2>1. thread' = [t \in Threads |-> NoRescore] /\ UNCHANGED <<rules, overrides, put>>
      BY <1>14 DEF CrashScoring
  <2>2. busy \in SUBSET Threads /\ IsFiniteSet(busy) /\ Cardinality(busy) \in Nat
      BY SomeThreads
  <2>3. Takers \in SUBSET busy
      BY DEF Takers, HoldsRow
  <2>4. Cardinality(Takers) <= Cardinality(busy)
    <3> HIDE DEF busy
    <3> QED
        BY <2>2, <2>3, FS_Subset
  <2>5. \A t \in Threads : thread'[t].at = "idle"
      BY <2>1, RunShapes
  <2>6. Takers' = {}
      BY <2>5 DEF Takers, HoldsRow
  <2>7. ToTake' = Waiting' + 0
      BY <2>6, FS_EmptySet DEF ToTake
  <2>8. Cardinality(busy) = 0 => \A t \in Threads : thread[t].at = "idle"
      BY <2>2, FS_EmptySet
  <2>12. queue' \in [Tries -> Nat] /\ Waiting' >= Waiting + Cardinality(busy)
      BY <1>14, BusyWaits DEF RescoreInv
  <2>13. Waiting' \in Nat
    <3>1. queue'[0] \in Nat /\ queue'[1] \in Nat /\ queue'[2] \in Nat
        BY <2>12, TriesAre
    <3> QED
        BY <3>1 DEF Waiting
  <2> HIDE DEF busy
  <2>9. ToTake' \in Nat /\ ToTake' >= ToTake /\ (ToTake' = 0 => Cardinality(busy) = 0)
    <3>1. PICK c \in Nat, d \in Nat : c = Cardinality(busy) /\ d = Cardinality(Takers)
        BY <1>1, <2>2
    <3>2. d <= c /\ Waiting' >= Waiting + c /\ ToTake = Waiting + d
        BY <1>1, <2>4, <2>12, <3>1
    <3>3. Waiting \in Nat
        BY <1>1
    <3>4. ToTake' = Waiting'
      <4>1. \A n \in Nat : n + 0 = n
          OBVIOUS
      <4> QED
          BY <2>7, <2>13, <4>1
    <3>5. ToTake' \in Nat
        BY <2>13, <3>4
    <3>6. Waiting' >= Waiting + c
        BY <3>2
    <3>7. Waiting' >= Waiting + d
        BY <2>13, <3>1, <3>2, <3>3
    <3>8. ToTake' >= ToTake
        BY <3>4, <3>2, <3>7
    <3>9. ToTake' = 0 => c = 0
        BY <3>1, <3>3, <3>4, <3>6
    <3> QED
        BY <3>1, <3>5, <3>8, <3>9
  <2>10. ToTake' = 0 => \A t \in Threads : ~Writing(t)
      BY <2>8, <2>9 DEF Writing
  <2>11. \A t \in Threads : ~Writing(t)'
      BY <2>5 DEF Writing
  <2> QED
      BY <2>1, <2>5, <2>9, <2>10, <2>11, Stands
<1> QED
    BY <1>4, <1>5, <1>6, <1>8, <1>9, <1>10, <1>12, <1>13, <1>14 DEF RescoreNext

LEMMA ShapesStep == RescoreInv /\ RescoreNext /\ ScoreShapes => ScoreShapes'
<1> SUFFICES ASSUME RescoreInv, RescoreNext, ScoreShapes PROVE ScoreShapes'
    OBVIOUS
<1> USE BoundsNatural, SomeBatches
<1>1. \A t \in Threads : thread[t] \in RescoreRun
    BY DEF RescoreInv
<1>2. /\ rules.version \in Nat /\ rules.content \in Nat /\ puts \in Nat /\ put \in Nat \cup {NoPut}
      /\ overrides \subseteq Override
    BY DEF RescoreInv, ScoreShapes
\* A step of one run that leaves the rest alone.
<1>3. ASSUME NEW t \in Threads, NEW h, thread' = [thread EXCEPT ![t] = h], UNCHANGED <<rules, overrides, put, puts>>,
             h.at \in {"idle", "flagged", "read"} => h.page = 1,
             h.at = "writing" => h.version >= 2 /\ h.page = 1 /\ (rules.version = 0 => h.version = 2),
             h.at = "read" /\ rules.version = 0 => h.version = 0
      PROVE  ScoreShapes'
  <2>1. thread'[t] = h /\ \A u \in Threads \ {t} : thread'[u] = thread[u]
      BY <1>3, OneMoves
  <2>2. ASSUME rules.version = 0 PROVE NoRowYet'
    <3>1. NoRowYet
        BY <2>2 DEF ScoreShapes
    <3>2. ASSUME NEW u \in Readers' PROVE thread'[u].version = (IF HoldsRow(u)' THEN 2 ELSE 0)
      <4>1. CASE u = t
          BY <1>3, <2>1, <2>2, <3>2, <4>1 DEF Readers, HoldsRow
      <4>2. CASE u # t
        <5>1. thread'[u] = thread[u] /\ u \in Readers /\ (HoldsRow(u)' <=> HoldsRow(u))
            BY <2>1, <3>2, <4>2 DEF Readers, HoldsRow
        <5> QED
            BY <3>1, <5>1 DEF NoRowYet
      <4> QED
          BY <4>1, <4>2
    <3>3. ASSUME NEW u \in Threads, Writing(u)' PROVE thread'[u].page = 1
        BY <1>3, <2>1, <3>1, <3>3 DEF NoRowYet, Writing
    <3> QED
        BY <1>3, <3>1, <3>2, <3>3 DEF NoRowYet
  <2>3. ASSUME NEW u \in Threads
        PROVE  /\ thread'[u].at \in {"idle", "flagged", "read"} => thread'[u].page = 1
               /\ Writing(u)' => thread'[u].version >= 2
      BY <1>3, <2>1 DEF ScoreShapes, Writing
  <2> QED
      BY <1>3, <2>2, <2>3 DEF ScoreShapes
<1>4. ASSUME UNCHANGED <<overrides, thread>>, rules'.content <= puts', put' # NoPut => rules'.content < puts',
             rules'.version = 0 => rules' = rules /\ put' \in {NoPut, 0}
      PROVE  ScoreShapes'
  <2>1. ASSUME rules'.version = 0 PROVE NoRowYet'
      BY <1>4, <2>1 DEF ScoreShapes, NoRowYet, Readers, HoldsRow, Writing
  <2> QED
      BY <1>4, <2>1 DEF ScoreShapes, Writing
<1>5. CASE ReadRules
    BY <1>2, <1>4, <1>5 DEF ReadRules, ScoreShapes
<1>6. CASE CommitRules
  <2>1. /\ put # NoPut /\ rules' = [version |-> put + 1, content |-> puts] /\ put' = NoPut
        /\ puts' = puts /\ UNCHANGED <<overrides, thread>>
      BY <1>6 DEF CommitRules, rescoreCounters
  <2>2. rules'.version # 0 /\ rules'.content = puts
      BY <1>2, <2>1
  <2> QED
      BY <1>2, <1>4, <2>1, <2>2
<1>7. CASE LosesInsert
    BY <1>2, <1>4, <1>7 DEF LosesInsert, ScoreShapes, rescoreCounters
<1>8. CASE TriggerRescore
    BY <1>2, <1>4, <1>8 DEF TriggerRescore, ScoreShapes, NoRowYet
<1>9. ASSUME NEW t \in Threads, TakeMessage(t) PROVE ScoreShapes'
  <2>0. PICK n \in Tries : thread' = [thread EXCEPT ![t].at = "flagged", ![t].tries = n]
      BY <1>9 DEF TakeMessage
  <2> DEFINE h == [thread[t] EXCEPT !.at = "flagged", !.tries = n]
  <2>1. h.at = "flagged" /\ h.page = thread[t].page
      BY <1>1 DEF RescoreRun
  <2>2. thread' = [thread EXCEPT ![t] = h] /\ UNCHANGED <<rules, overrides, put, puts>> /\ thread[t].page = 1
      BY <1>9, <2>0 DEF TakeMessage, rescoreCounters, ScoreShapes
  <2> HIDE DEF h
  <2> QED
      BY <1>3, <2>1, <2>2
<1>10. ASSUME NEW t \in Threads, ReadForRescore(t) PROVE ScoreShapes'
  <2> DEFINE h == [thread[t] EXCEPT !.at = "read", !.rules = rules.content, !.version = rules.version]
  <2>1. h.at = "read" /\ h.version = rules.version /\ h.page = thread[t].page
      BY <1>1 DEF RescoreRun
  <2>2. thread' = [thread EXCEPT ![t] = h] /\ UNCHANGED <<rules, overrides, put, puts>> /\ thread[t].page = 1
      BY <1>10 DEF ReadForRescore, rescoreCounters, ScoreShapes
  <2> HIDE DEF h
  <2> QED
      BY <1>3, <2>1, <2>2
<1>11. ASSUME NEW t \in Threads, TakeVersion(t) PROVE ScoreShapes'
  <2> DEFINE h == [thread[t] EXCEPT !.at = "writing", !.version = NextVersion(@)]
  <2>1. h.at = "writing" /\ h.version = NextVersion(thread[t].version) /\ h.page = thread[t].page
      BY <1>1 DEF RescoreRun
  <2>2. /\ thread' = [thread EXCEPT ![t] = h] /\ UNCHANGED <<rules, overrides, put, puts>>
        /\ thread[t].page = 1 /\ thread[t].at = "read"
      BY <1>11 DEF TakeVersion, rescoreCounters, ScoreShapes
  <2>3. rules.version = 0 => thread[t].version = 0
      BY <2>2 DEF ScoreShapes, NoRowYet, Readers, HoldsRow
  <2>4. NextVersion(thread[t].version) >= 2 /\ (rules.version = 0 => NextVersion(thread[t].version) = 2)
      BY <1>1, <2>3 DEF NextVersion, RescoreRun
  <2> HIDE DEF h
  <2> QED
      BY <1>3, <2>1, <2>2, <2>4
<1>12. ASSUME NEW t \in Threads, FailRescore(t) PROVE ScoreShapes'
  <2> DEFINE h == [thread[t] EXCEPT !.at = "failed"]
  <2>1. h.at = "failed"
      BY <1>1 DEF RescoreRun
  <2>2. thread' = [thread EXCEPT ![t] = h] /\ UNCHANGED <<rules, overrides, put, puts>>
      BY <1>12 DEF FailRescore
  <2> HIDE DEF h
  <2> QED
      BY <1>3, <2>1, <2>2
<1>13. NoRescore.at = "idle" /\ NoRescore.page = 1
    BY DEF NoRescore
<1>14. ASSUME NEW t \in Threads, FinishRescore(t) PROVE ScoreShapes'
    BY <1>3, <1>13, <1>14 DEF FinishRescore, rescoreCounters
<1>17. ASSUME NEW t \in Threads, RetryRescore(t) PROVE ScoreShapes'
    BY <1>3, <1>13, <1>17 DEF RetryRescore, rescoreCounters
<1>15. ASSUME NEW t \in Threads, WriteBatch(t) PROVE ScoreShapes'
  <2> DEFINE at == IF thread[t].page = Batches THEN "done" ELSE thread[t].at
             h == [thread[t] EXCEPT !.page = @ + 1, !.at = at]
             o == [page |-> thread[t].page, version |-> thread[t].version, rules |-> thread[t].rules]
  <2>1. /\ Writing(t) /\ thread' = [thread EXCEPT ![t] = h]
        /\ rules' = IF thread[t].page = 1 THEN [rules EXCEPT !.version = thread[t].version] ELSE rules
        /\ UNCHANGED <<put, puts>> /\ AddOverride(thread[t].page, thread[t].version, thread[t].rules)
      BY <1>15 DEF WriteBatch, rescoreCounters, Writing
  <2>2. thread[t].page \in Pages /\ thread[t].version \in Nat /\ thread[t].version >= 2 /\ thread[t].rules \in 0..MaxPuts
      BY <1>1, <2>1 DEF RescoreInv, ScoreShapes, Writing, RescoreRun
  <2>3. o \in Override
      BY <2>2 DEF Override
  <2> HIDE DEF o
  <2>4. overrides' \subseteq Override
    <3>1. overrides' = overrides \/ overrides' = overrides \cup {o}
        BY <2>1 DEF AddOverride, o
    <3> QED
        BY <1>2, <2>3, <3>1
  <2>5. at \in {"writing", "done"}
      BY <2>1 DEF Writing
  <2> HIDE DEF at
  <2>6. h.at = at /\ h.version = thread[t].version
      BY <1>1 DEF RescoreRun
  <2> HIDE DEF h
  <2>7. thread'[t] = h /\ \A u \in Threads \ {t} : thread'[u] = thread[u]
      BY <2>1, OneMoves
  <2>8. rules'.content = rules.content /\ rules'.version # 0
    <3>1. CASE thread[t].page = 1
        BY <2>1, <2>2, <3>1 DEF RescoreInv
    <3>2. CASE thread[t].page # 1
        BY <2>1, <3>2 DEF ScoreShapes, NoRowYet
    <3> QED
        BY <3>1, <3>2
  <2>9. ASSUME NEW u \in Threads
        PROVE  /\ thread'[u].at \in {"idle", "flagged", "read"} => thread'[u].page = 1
               /\ Writing(u)' => thread'[u].version >= 2
      BY <2>2, <2>5, <2>6, <2>7 DEF ScoreShapes, Writing
  <2> QED
      BY <2>1, <2>4, <2>8, <2>9 DEF ScoreShapes
<1>16. CASE CrashScoring
  <2>1. thread' = [t \in Threads |-> NoRescore] /\ UNCHANGED <<rules, overrides, put, puts>>
      BY <1>16 DEF CrashScoring
  <2>2. \A t \in Threads : thread'[t].at = "idle" /\ thread'[t].page = 1
      BY <1>13, <2>1
  <2>3. Readers' = {} /\ \A t \in Threads : ~Writing(t)'
      BY <2>2 DEF Readers, HoldsRow, Writing
  <2> QED
      BY <2>1, <2>2, <2>3 DEF ScoreShapes, NoRowYet
<1> QED
    BY <1>5, <1>6, <1>7, <1>8, <1>9, <1>10, <1>11, <1>12, <1>14, <1>15, <1>16, <1>17 DEF RescoreNext

LEMMA ScoresInitInv == RescoreInit => ScoreInv
<1> SUFFICES ASSUME RescoreInit PROVE ScoreInv
    OBVIOUS
<1>1. /\ rules.version = 0 /\ rules.content = Defaults /\ overrides = {} /\ queue = [n \in Tries |-> 0] /\ put = NoPut /\ puts = 0
      /\ \A t \in Threads : thread[t].at = "idle" /\ thread[t].page = 1
    BY RunShapes DEF RescoreInit, NoRescore
<1>2. Takers = {} /\ Readers = {} /\ \A t \in Threads : ~Writing(t) /\ ~HoldsRow(t)
    BY <1>1 DEF Takers, Readers, Writing, HoldsRow
<1>3. ScoreShapes
    BY <1>1, <1>2 DEF ScoreShapes, NoRowYet, NoPut, Defaults
<1>4. Bases = {0} /\ StaleBases = {} /\ ToTake = 0
  <2>1. Waiting = 0
      BY <1>1, TriesAre DEF Waiting
  <2> QED
      BY <1>1, <1>2, <2>1, FS_EmptySet DEF Bases, StaleBases, ToTake
<1>5. Room(0, ToTake, Bases, StaleBases)
    BY <1>4 DEF Room
<1>6. AtTop(0)
    BY <1>1, <1>2, <1>5 DEF AtTop, Highest, OwnVersions, LastIsCurrent
<1> QED
    BY <1>3, <1>6, RescoreInitInv DEF ScoreInv

LEMMA ScoresStep == ScoreInv /\ [RescoreNext]_rescoreVars => ScoreInv'
<1> SUFFICES ASSUME ScoreInv, [RescoreNext]_rescoreVars PROVE ScoreInv'
    OBVIOUS
<1>1. CASE RescoreNext
  <2>1. RescoreInv' /\ ScoreShapes'
      BY <1>1, RescoreStep, ShapesStep DEF ScoreInv
  <2>2. ASSUME ~behind', ~givenUp' PROVE \E w \in Nat : AtTop(w)'
    <3>7. ~givenUp
        BY <1>1, <2>2 DEF RescoreNext, ReadRules, CommitRules, LosesInsert, TriggerRescore, CrashScoring,
                          TakeMessage, ReadForRescore, TakeVersion, WriteBatch, FinishRescore, FailRescore, RetryRescore
    <3>1. ~behind
        BY <1>1, <2>2 DEF RescoreNext, ReadRules, CommitRules, LosesInsert, TriggerRescore, CrashScoring,
                          TakeMessage, ReadForRescore, TakeVersion, WriteBatch, FinishRescore, FailRescore, RetryRescore
    <3>2. PICK w \in Nat : AtTop(w)
        BY <3>1, <3>7 DEF ScoreInv
    <3>3. CASE CommitRules
        BY <2>2, <3>2, <3>3, RulesSaved DEF ScoreInv
    <3>4. ASSUME NEW t \in Threads, TakeVersion(t) PROVE AtTop(w)'
        BY <2>2, <3>2, <3>4, VersionTaken DEF ScoreInv
    <3>5. ASSUME NEW t \in Threads, WriteBatch(t) PROVE \E n \in Nat : AtTop(n)'
        BY <3>2, <3>5, FirstWritten, LaterWritten DEF ScoreInv
    <3>6. CASE ~CommitRules /\ \A t \in Threads : ~TakeVersion(t) /\ ~WriteBatch(t)
        BY <1>1, <2>2, <3>2, <3>6, OthersStand DEF ScoreInv
    <3> QED
        BY <3>2, <3>3, <3>4, <3>5, <3>6
  <2> QED
      BY <2>1, <2>2 DEF ScoreInv
<1>2. CASE UNCHANGED rescoreVars
  <2>1. UNCHANGED <<rules, overrides, queue, thread, put, puts, flag, behind, givenUp>>
      BY <1>2 DEF rescoreVars, rescoreCounters
  <2>2. Takers' = Takers /\ Readers' = Readers
      BY <2>1 DEF Takers, Readers, HoldsRow
  <2>3. Bases' = Bases /\ StaleBases' = StaleBases /\ ToTake' = ToTake
      BY <2>1, <2>2 DEF Bases, StaleBases, ToTake, Waiting, From, HoldsRow
  <2>4. RescoreInv' /\ ScoreShapes'
      BY <2>1, <2>2 DEF ScoreInv, RescoreInv, Waiting, ScoreShapes, NoRowYet, Writing, HoldsRow
  <2>5. ASSUME NEW w \in Nat, AtTop(w) PROVE AtTop(w)'
      BY <2>1, <2>3, <2>5 DEF AtTop, Highest, OwnVersions, LastIsCurrent, Scored, ScoredBy, Writing, HoldsRow
  <2> QED
      BY <2>1, <2>4, <2>5 DEF ScoreInv
<1> QED
    BY <1>1, <1>2

LEMMA TopIsShown == ScoreInv => ShownIsCurrent
<1> SUFFICES ASSUME ScoreInv, RescoreQuiet, rules.content # Defaults, ~behind, ~givenUp
             PROVE  \A b \in Pages : \E o \in overrides : o.page = b /\ o.rules = rules.content /\ Shown(o)
    BY DEF ShownIsCurrent
<1>1. PICK w \in Nat : AtTop(w)
    BY DEF ScoreInv
<1>2. Takers = {} /\ \A t \in Threads : ~Writing(t)
    BY DEF RescoreQuiet, Takers, HoldsRow, Writing
<1>3. ToTake = 0
    BY <1>2, FS_EmptySet, WaitingTyped DEF RescoreQuiet, ScoreInv, RescoreInv, ToTake
<1>4. \A b \in Pages : Scored(b, w)
    BY <1>1, <1>2, <1>3 DEF AtTop, LastIsCurrent, ScoredBy
<1>5. \A o \in overrides : o.version <= w
    BY <1>1 DEF AtTop, Highest
<1> TAKE b \in Pages
<1>6. PICK o \in overrides : o = [page |-> b, version |-> w, rules |-> rules.content]
    BY <1>4 DEF Scored
<1>7. o.page = b /\ o.version = w /\ o.rules = rules.content
    BY <1>6
<1>8. Shown(o)
    BY <1>5, <1>7 DEF Shown
<1> WITNESS o \in overrides
<1> QED
    BY <1>7, <1>8

\* For any number of worker threads, pages, saved rules, requests and crashes: once no
\* rescore waits or runs, the status says so, and unless a rescore has been given up after
\* its last attempt or a version has fallen behind the overrides, every page shows the
\* scores of the rules in force (put_scoring_rules, rescore_project_events).
THEOREM ScoresCorrect == RescoreSpec => []ScoresSettle
<1>1. ScoreInv /\ IdleWhenDone => ScoresSettle
    BY TopIsShown DEF ScoresSettle
<1> QED
    BY <1>1, ScoresInitInv, ScoresStep, IdleCorrect, PTL DEF RescoreSpec

-----------------------------------------------------------------------------
(* Rescore: the rows and the counters *)

\* What RescoreInv does not say of the state: the overrides, the threads at rest and the counters.
RescoreRest ==
    /\ overrides \subseteq Override
    /\ \A t \in Threads : thread[t].at = "idle" => thread[t] = NoRescore
    /\ flag \in BOOLEAN /\ behind \in BOOLEAN /\ givenUp \in BOOLEAN
    /\ asks \in 0..MaxAsks /\ crashes \in 0..MaxCrashes

LEMMA RescoreRestInit == RescoreInit => RescoreRest
<1> SUFFICES ASSUME RescoreInit PROVE RescoreRest
    OBVIOUS
<1>1. \A t \in Threads : thread[t] = NoRescore
    BY DEF RescoreInit
<1>2. overrides \subseteq Override /\ asks \in 0..MaxAsks /\ crashes \in 0..MaxCrashes
    BY BoundsNatural DEF RescoreInit
<1>3. flag \in BOOLEAN /\ behind \in BOOLEAN /\ givenUp \in BOOLEAN
    BY DEF RescoreInit
<1> QED
    BY <1>1, <1>2, <1>3 DEF RescoreRest

LEMMA RescoreRestNext == RescoreInv /\ RescoreRest /\ RescoreNext => RescoreRest'
<1> SUFFICES ASSUME RescoreInv, RescoreRest, RescoreNext PROVE RescoreRest'
    OBVIOUS
<1> USE BoundsNatural, SomeBatches
<1>1. asks' \in 0..MaxAsks /\ crashes' \in 0..MaxCrashes
  <2>1. \/ asks' = asks /\ crashes' = crashes
        \/ asks < MaxAsks /\ asks' = asks + 1 /\ crashes' = crashes
        \/ crashes < MaxCrashes /\ crashes' = crashes + 1 /\ asks' = asks
      BY Zenon DEF RescoreNext, ReadRules, CommitRules, LosesInsert, TriggerRescore, CrashScoring, TakeMessage,
           ReadForRescore, TakeVersion, WriteBatch, FinishRescore, FailRescore, RetryRescore, rescoreCounters
  <2> QED
      BY <2>1 DEF RescoreRest
<1>2. flag' \in BOOLEAN /\ behind' \in BOOLEAN /\ givenUp' \in BOOLEAN
    BY Zenon DEF RescoreRest, RescoreNext, ReadRules, CommitRules, LosesInsert, TriggerRescore, CrashScoring,
           TakeMessage, ReadForRescore, TakeVersion, WriteBatch, FinishRescore, FailRescore, RetryRescore
<1>3. overrides' \subseteq Override
  <2>1. ASSUME NEW t \in Threads, WriteBatch(t) PROVE overrides' \subseteq Override
    <3>1. /\ thread[t].at = "writing" /\ thread[t] \in RescoreRun
          /\ AddOverride(thread[t].page, thread[t].version, thread[t].rules)
        BY <2>1 DEF WriteBatch, RescoreInv
    <3>2. thread[t].page \in Pages
        BY <3>1 DEF RescoreInv
    <3>3. [page |-> thread[t].page, version |-> thread[t].version, rules |-> thread[t].rules] \in Override
        BY <3>1, <3>2 DEF Override, RescoreRun
    <3> QED
        BY <3>1, <3>3 DEF AddOverride, RescoreRest
  <2> QED
      BY <2>1 DEF RescoreRest, RescoreNext, ReadRules, CommitRules, LosesInsert, TriggerRescore, CrashScoring,
                  TakeMessage, ReadForRescore, TakeVersion, FinishRescore, FailRescore, RetryRescore
<1>4. ASSUME NEW u \in Threads PROVE thread'[u].at = "idle" => thread'[u] = NoRescore
  <2>0. thread \in [Threads -> RescoreRun] /\ thread[u] \in RescoreRun /\ (thread[u].at = "idle" => thread[u] = NoRescore)
      BY DEF RescoreInv, RescoreRest
  <2>1. CASE UNCHANGED thread
      BY <2>0, <2>1
  <2>2. CASE CrashScoring
      BY <2>2 DEF CrashScoring
  <2>3. ASSUME NEW t \in Threads, TakeMessage(t) PROVE thread'[u] = thread[u] \/ thread'[u].at = "flagged"
      BY <2>0, <2>3 DEF TakeMessage, RescoreRun
  <2>4. ASSUME NEW t \in Threads, ReadForRescore(t) PROVE thread'[u] = thread[u] \/ thread'[u].at = "read"
      BY <2>0, <2>4 DEF ReadForRescore, RescoreRun
  <2>5. ASSUME NEW t \in Threads, TakeVersion(t) PROVE thread'[u] = thread[u] \/ thread'[u].at = "writing"
      BY <2>0, <2>5 DEF TakeVersion, RescoreRun
  <2>6. ASSUME NEW t \in Threads, WriteBatch(t) PROVE thread'[u] = thread[u] \/ thread'[u].at \in {"done", "writing"}
      BY <2>0, <2>6 DEF WriteBatch, RescoreRun
  <2>7. ASSUME NEW t \in Threads, FinishRescore(t) PROVE thread'[u] = thread[u] \/ thread'[u] = NoRescore
      BY <2>0, <2>7 DEF FinishRescore
  <2>10. ASSUME NEW t \in Threads, RetryRescore(t) PROVE thread'[u] = thread[u] \/ thread'[u] = NoRescore
      BY <2>0, <2>10 DEF RetryRescore
  <2>8. ASSUME NEW t \in Threads, FailRescore(t) PROVE thread'[u] = thread[u] \/ thread'[u].at = "failed"
      BY <2>0, <2>8 DEF FailRescore, RescoreRun
  <2>9. CASE ReadRules \/ CommitRules \/ LosesInsert \/ TriggerRescore
      BY <2>1, <2>9 DEF ReadRules, CommitRules, LosesInsert, TriggerRescore
  <2> QED
      BY <2>0, <2>2, <2>3, <2>4, <2>5, <2>6, <2>7, <2>8, <2>9, <2>10 DEF RescoreNext
<1> QED
    BY <1>1, <1>2, <1>3, <1>4 DEF RescoreRest

LEMMA RescoreTyped == RescoreInv /\ RescoreRest => RescoreTypeOK
BY DEF RescoreInv, RescoreRest, RescoreTypeOK

LEMMA RescoreRests == RescoreInv /\ RescoreRest /\ [RescoreNext]_rescoreVars => RescoreInv' /\ RescoreRest'
<1>1. RescoreInv /\ RescoreRest /\ UNCHANGED rescoreVars => RescoreInv' /\ RescoreRest'
    BY DEF rescoreVars, rescoreCounters, RescoreInv, RescoreRest, Waiting
<1> QED
    BY <1>1, RescoreStep, RescoreRestNext

\* For any number of threads, pages, saved rules and crashes: the rows, the messages and the
\* rescores are well formed, and a thread that is done keeps nothing of its rescore
\* (put_scoring_rules, rescore_project_events).
THEOREM RescoreTypeCorrect == RescoreSpec => []RescoreTypeOK
BY RescoreRests, RescoreTyped, RescoreInitInv, RescoreRestInit, PTL DEF RescoreSpec

-----------------------------------------------------------------------------
(* Reports *)

Busy == {x \in Exporters : exporter[x] # Resting}
Computed == {x \in Exporters : exporter[x] \in ExportVersions}

ExportTypes ==
    /\ jobs \in Nat
    /\ exporter \in [Exporters -> {Resting, Loaded} \cup ExportVersions]
    /\ exports \in [ExportVersions -> Nat]
    /\ requested \in 0..MaxExports /\ retried \in 0..MaxRetries
    /\ abreast \in BOOLEAN

\* Every version stored, every message and every attempt goes back to a request or a retry.
Accounted == Newest + jobs + Cardinality(Busy) <= requested + retried

\* A thread holds the next version or an older one; unless two were computed side by side,
\* one thread at most holds one, it is the next, and no version is stored twice.
NextHeld ==
    /\ \A x \in Computed : exporter[x] <= Newest + 1
    /\ \/ abreast
       \/ /\ \A v \in ExportVersions : exports[v] <= 1
          /\ \A x, y \in Computed : exporter[x] = Newest + 1 /\ x = y

ExportInv ==
    /\ ExportTypes
    /\ Newest \in Nat /\ Stored = 1..Newest
    /\ Accounted
    /\ NextHeld

LEMMA Greatest ==
    ASSUME NEW n \in Nat, NEW S, S = 1..n
    PROVE  (IF S = {} THEN 0 ELSE CHOOSE v \in S : \A w \in S : w <= v) = n
<1>1. CASE n = 0
    BY <1>1
<1>2. CASE n # 0
  <2>1. n \in S /\ \A w \in S : w <= n
    BY <1>2
  <2>2. PICK m \in S : m = CHOOSE v \in S : \A w \in S : w <= v
    BY <2>1
  <2>3. \A w \in S : w <= m
    BY <2>1, <2>2
  <2>4. m = n
    BY <2>1, <2>3
  <2> QED
    BY <2>1, <2>2, <2>4
<1> QED
    BY <1>1, <1>2

LEMMA ConstantsApart == Resting = -1 /\ Loaded = 0 /\ Resting \notin ExportVersions /\ Loaded \notin ExportVersions
BY ExportBounds DEF Resting, Loaded, ExportVersions

LEMMA ExportInitInv == ReportsInit => ExportInv
<1> SUFFICES ASSUME ReportsInit PROVE ExportInv
    OBVIOUS
<1>1. /\ jobs = 0 /\ requested = 0 /\ retried = 0 /\ abreast = FALSE
      /\ exporter = [x \in Exporters |-> Resting] /\ exports = [v \in ExportVersions |-> 0]
    BY DEF ReportsInit
<1>2. Stored = {} /\ Busy = {} /\ Computed = {}
    BY <1>1, ConstantsApart DEF Stored, Busy, Computed
<1>3. Newest = 0 /\ Cardinality(Busy) = 0
    BY <1>2, FS_EmptySet DEF Newest
<1>4. ExportTypes
  <2>1. exporter \in [Exporters -> {Resting, Loaded} \cup ExportVersions] /\ exports \in [ExportVersions -> Nat]
    BY <1>1
  <2>2. jobs \in Nat /\ requested \in 0..MaxExports /\ retried \in 0..MaxRetries
    BY <1>1, ExportBounds
  <2>3. abreast \in BOOLEAN
    BY <1>1
  <2> QED
    BY <2>1, <2>2, <2>3 DEF ExportTypes
<1>5. Accounted
    BY <1>1, <1>3 DEF Accounted
<1>6. NextHeld
    BY <1>1, <1>2 DEF NextHeld
<1> QED
    BY <1>2, <1>3, <1>4, <1>5, <1>6 DEF ExportInv

\* The threads with a message are finitely many, and one more or less is counted so.
LEMMA BusyCounted ==
    /\ IsFiniteSet(Busy) /\ Cardinality(Busy) \in Nat
    /\ \A x \in Exporters : Cardinality(Busy \cup {x}) = IF x \in Busy THEN Cardinality(Busy) ELSE Cardinality(Busy) + 1
    /\ \A x \in Busy : Cardinality(Busy \ {x}) = Cardinality(Busy) - 1 /\ Cardinality(Busy) > 0
<1>1. IsFiniteSet(Busy) /\ Cardinality(Busy) \in Nat
  <2>1. Busy \subseteq Exporters
    BY DEF Busy
  <2> QED
    BY <2>1, ExportersFinite, FS_Subset, FS_CardinalityType
<1>2. \A x : Cardinality(Busy \cup {x}) = IF x \in Busy THEN Cardinality(Busy) ELSE Cardinality(Busy) + 1
    BY <1>1, FS_AddElement
<1>3. \A x : Cardinality(Busy \ {x}) = IF x \in Busy THEN Cardinality(Busy) - 1 ELSE Cardinality(Busy)
    BY <1>1, FS_RemoveElement
<1>4. \A x \in Busy : Cardinality(Busy) > 0
    BY <1>1, FS_EmptySet
<1> QED
    BY <1>1, <1>2, <1>3, <1>4

\* A row is added: the versions stored stay without gaps.
LEMMA RowAdded ==
    ASSUME ExportInv, NEW x \in Computed, exports' = [exports EXCEPT ![exporter[x]] = @ + 1],
           exporter' = [exporter EXCEPT ![x] = Resting], abreast' = abreast
    PROVE  /\ exports' \in [ExportVersions -> Nat]
           /\ Newest' \in Nat /\ Stored' = 1..Newest' /\ Newest <= Newest' /\ Newest' <= Newest + 1
           /\ NextHeld'
<1> DEFINE v == exporter[x]
<1>1. v \in ExportVersions /\ x \in Exporters /\ v <= Newest + 1 /\ v \in Nat /\ v >= 1
    BY ExportBounds DEF Computed, ExportInv, NextHeld, ExportVersions
<1>2. /\ exports \in [ExportVersions -> Nat]
      /\ exporter \in [Exporters -> {Resting, Loaded} \cup ExportVersions] /\ Newest \in Nat /\ Stored = 1..Newest
    BY DEF ExportInv, ExportTypes
<1> HIDE DEF v
<1>3. /\ exports' \in [ExportVersions -> Nat] /\ exports'[v] = exports[v] + 1
      /\ \A w \in ExportVersions \ {v} : exports'[w] = exports[w]
    BY <1>1, <1>2 DEF v
<1>4. Stored' = Stored \cup {v}
    BY <1>1, <1>2, <1>3 DEF Stored
<1>5. PICK n \in Nat : Stored' = 1..n /\ Newest <= n /\ n <= Newest + 1 /\ (v = Newest + 1 => n = Newest + 1)
  <2>1. CASE v = Newest + 1
    BY <1>2, <1>4, <2>1
  <2>2. CASE v # Newest + 1
    BY <1>1, <1>2, <1>4, <2>2
  <2> QED
    BY <2>1, <2>2
<1>6. Newest' = n
  <2>1. \A S : S = 1..n => (IF S = {} THEN 0 ELSE CHOOSE w \in S : \A u \in S : u <= w) = n
    BY Greatest
  <2> QED
    BY <1>5, <2>1 DEF Newest
<1>7. Computed' = Computed \ {x} /\ \A y \in Computed' : exporter'[y] = exporter[y]
    BY <1>1, <1>2, ConstantsApart DEF Computed
<1>8. \A y \in Computed' : exporter'[y] <= Newest' + 1
  <2> TAKE y \in Computed'
  <2>1. exporter[y] <= Newest + 1 /\ exporter[y] \in ExportVersions
    BY <1>7 DEF ExportInv, NextHeld, Computed
  <2>2. exporter[y] \in Int
    BY <2>1 DEF ExportVersions
  <2> QED
    BY <1>2, <1>5, <1>6, <1>7, <2>1, <2>2
<1>9. ASSUME ~abreast PROVE (\A w \in ExportVersions : exports'[w] <= 1) /\ Computed' = {}
  <2>1. v = Newest + 1 /\ \A y \in Computed : y = x
    BY <1>9 DEF ExportInv, NextHeld, v
  <2>2. exports[v] = 0
    BY <1>1, <1>2, <2>1 DEF Stored
  <2>3. \A w \in ExportVersions : exports[w] <= 1
    BY <1>9 DEF ExportInv, NextHeld
  <2> QED
    BY <1>3, <1>7, <2>1, <2>2, <2>3
<1> QED
    BY <1>3, <1>5, <1>6, <1>8, <1>9 DEF NextHeld

LEMMA ExportStep == ExportInv /\ [ReportsNext]_reportsVars => ExportInv'
<1> SUFFICES ASSUME ExportInv, [ReportsNext]_reportsVars PROVE ExportInv'
    OBVIOUS
<1>1. /\ jobs \in Nat /\ requested \in 0..MaxExports /\ retried \in 0..MaxRetries
      /\ exporter \in [Exporters -> {Resting, Loaded} \cup ExportVersions]
      /\ exports \in [ExportVersions -> Nat] /\ Newest \in Nat
    BY DEF ExportInv, ExportTypes
<1>2. ASSUME UNCHANGED exporting PROVE ExportInv'
    BY <1>2 DEF exporting, ExportInv, ExportTypes, Accounted, NextHeld, Newest, Stored, Busy, Computed
<1>3. CASE \/ ApplySection \/ CloneProfiles \/ CloneScenarios
           \/ \E e \in Editors : \/ PatchReport(e) \/ CommitPatch(e)
                                 \/ PublishReport(e) \/ ArchiveReport(e) \/ RestoreReport(e) \/ CommitState(e)
           \/ \E p \in Profiles : WriteProfile(p) \/ DeleteProfile(p)
           \/ \E s \in Scenarios : WriteScenario(s) \/ DeleteScenario(s)
           \/ UNCHANGED reportsVars
  <2>1. UNCHANGED exporting
    BY <1>3 DEF ApplySection, CloneProfiles, CloneScenarios, PatchReport, CommitPatch, PublishReport, ArchiveReport,
                RestoreReport, CommitState, WriteProfile, DeleteProfile, WriteScenario, DeleteScenario, reportsVars
  <2> QED
    BY <1>2, <2>1
<1>4. CASE CreateExport
  <2>1. /\ requested' = requested + 1 /\ requested < MaxExports /\ jobs' = jobs + 1
        /\ UNCHANGED <<exporter, exports, retried, abreast>>
    BY <1>4 DEF CreateExport
  <2>2. Newest' = Newest /\ Stored' = Stored /\ Busy' = Busy /\ Computed' = Computed
    BY <2>1 DEF Newest, Stored, Busy, Computed
  <2>3. Accounted'
    BY <1>1, <2>1, <2>2, BusyCounted, ExportBounds DEF ExportInv, Accounted
  <2>4. ExportTypes'
    BY <1>1, <2>1, ExportBounds DEF ExportInv, ExportTypes
  <2> QED
    BY <2>1, <2>2, <2>3, <2>4 DEF ExportInv, NextHeld
<1>5. ASSUME NEW x \in Exporters, LoadReport(x) PROVE ExportInv'
  <2>1. /\ exporter[x] = Resting /\ jobs > 0 /\ jobs' = jobs - 1 /\ exporter' = [exporter EXCEPT ![x] = Loaded]
        /\ UNCHANGED <<exports, requested, retried, abreast>>
    BY <1>5 DEF LoadReport
  <2>2. Newest' = Newest /\ Stored' = Stored
    BY <2>1 DEF Newest, Stored
  <2>3. Busy' = Busy \cup {x} /\ x \notin Busy /\ Computed' = Computed
    BY <1>1, <2>1, ConstantsApart DEF Busy, Computed
  <2>4. \A y \in Computed : exporter'[y] = exporter[y]
    BY <1>1, <2>1, ConstantsApart DEF Computed
  <2>5. Accounted'
    BY <1>1, <2>1, <2>2, <2>3, BusyCounted, ExportBounds DEF ExportInv, Accounted
  <2>6. ExportTypes'
    BY <1>1, <2>1 DEF ExportInv, ExportTypes
  <2> QED
    BY <2>1, <2>2, <2>3, <2>4, <2>5, <2>6 DEF ExportInv, NextHeld
<1>6. ASSUME NEW x \in Exporters, ComputeVersion(x) PROVE ExportInv'
  <2>1. /\ exporter[x] = Loaded /\ exporter' = [exporter EXCEPT ![x] = Newest + 1]
        /\ abreast' = (abreast \/ \E y \in Exporters : exporter[y] \in ExportVersions)
        /\ UNCHANGED <<jobs, exports, requested, retried>>
    BY <1>6 DEF ComputeVersion
  <2>2. Newest' = Newest /\ Stored' = Stored
    BY <2>1 DEF Newest, Stored
  <2>3. x \in Busy
    BY <2>1, ConstantsApart DEF Busy
  <2>4. Newest + 1 \in ExportVersions
    <3>1. Cardinality(Busy) \in Nat /\ Cardinality(Busy) > 0
      BY <2>3, BusyCounted
    <3>2. Newest + jobs + Cardinality(Busy) <= requested + retried
      BY DEF ExportInv, Accounted
    <3>3. Newest + 1 <= MaxExports + MaxRetries
      BY <1>1, <3>1, <3>2, ExportBounds
    <3> QED
      BY <1>1, <3>3, ExportBounds DEF ExportVersions
  <2>5. Busy' = Busy /\ Computed' = Computed \cup {x} /\ x \notin Computed
    BY <1>1, <2>1, <2>4, ConstantsApart DEF Busy, Computed
  <2>6. exporter'[x] = Newest + 1 /\ \A y \in Computed : exporter'[y] = exporter[y]
    BY <1>1, <2>1, <2>5 DEF Computed
  <2>7. ExportTypes'
    BY <1>1, <2>1, <2>4 DEF ExportInv, ExportTypes
  <2>8. NextHeld'
    <3>1. \A y \in Computed' : exporter'[y] <= Newest' + 1
      BY <1>1, <2>2, <2>5, <2>6 DEF ExportInv, NextHeld
    <3>2. ASSUME ~abreast' PROVE Computed = {} /\ ~abreast
      BY <2>1, <3>2 DEF Computed
    <3>3. ~abreast' => Computed' = {x} /\ \A v \in ExportVersions : exports'[v] <= 1
      BY <2>1, <2>5, <3>2 DEF ExportInv, NextHeld
    <3> QED
      BY <2>2, <2>6, <3>1, <3>3 DEF NextHeld
  <2> QED
    BY <2>1, <2>2, <2>5, <2>7, <2>8 DEF ExportInv, Accounted
<1>7. ASSUME NEW x \in Exporters, CommitExport(x) PROVE ExportInv'
  <2>1. /\ x \in Computed /\ exports' = [exports EXCEPT ![exporter[x]] = @ + 1]
        /\ exporter' = [exporter EXCEPT ![x] = Resting] /\ UNCHANGED <<jobs, requested, retried, abreast>>
    BY <1>7 DEF CommitExport, Computed
  <2>2. /\ exports' \in [ExportVersions -> Nat] /\ Newest' \in Nat /\ Stored' = 1..Newest'
        /\ Newest' <= Newest + 1 /\ NextHeld'
    BY <2>1, RowAdded
  <2>3. Busy' = Busy \ {x} /\ x \in Busy
    <3>1. exporter[x] # Resting
      BY <2>1, ConstantsApart DEF Computed
    <3>2. exporter'[x] = Resting /\ \A y \in Exporters \ {x} : exporter'[y] = exporter[y]
      BY <1>1, <2>1
    <3> QED
      BY <3>1, <3>2 DEF Busy
  <2>4. Accounted'
    BY <1>1, <2>1, <2>2, <2>3, BusyCounted, ExportBounds DEF ExportInv, Accounted
  <2>5. ExportTypes'
    BY <1>1, <2>1, <2>2 DEF ExportInv, ExportTypes
  <2> QED
    BY <2>2, <2>4, <2>5 DEF ExportInv
<1>8. ASSUME NEW x \in Exporters, RetryExport(x) PROVE ExportInv'
  <2>1. /\ exporter[x] # Resting /\ retried < MaxRetries /\ retried' = retried + 1 /\ jobs' = jobs + 1
        /\ exporter' = [exporter EXCEPT ![x] = Resting] /\ UNCHANGED <<exports, requested, abreast>>
    BY <1>8 DEF RetryExport
  <2>2. Newest' = Newest /\ Stored' = Stored
    BY <2>1 DEF Newest, Stored
  <2>3. Busy' = Busy \ {x} /\ x \in Busy /\ Computed' = Computed \ {x}
    BY <1>1, <2>1, ConstantsApart DEF Busy, Computed
  <2>4. \A y \in Computed' : exporter'[y] = exporter[y]
    BY <1>1, <2>1, <2>3 DEF Computed
  <2>5. Accounted'
    BY <1>1, <2>1, <2>2, <2>3, BusyCounted, ExportBounds DEF ExportInv, Accounted
  <2>6. ExportTypes'
    BY <1>1, <2>1, ExportBounds DEF ExportInv, ExportTypes
  <2> QED
    BY <2>1, <2>2, <2>3, <2>4, <2>5, <2>6 DEF ExportInv, NextHeld
<1>9. ASSUME NEW x \in Exporters, RepeatExport(x) PROVE ExportInv'
  <2>1. /\ x \in Computed /\ exports' = [exports EXCEPT ![exporter[x]] = @ + 1] /\ retried < MaxRetries
        /\ retried' = retried + 1 /\ jobs' = jobs + 1
        /\ exporter' = [exporter EXCEPT ![x] = Resting] /\ UNCHANGED <<requested, abreast>>
    BY <1>9 DEF RepeatExport, Computed
  <2>2. /\ exports' \in [ExportVersions -> Nat] /\ Newest' \in Nat /\ Stored' = 1..Newest'
        /\ Newest' <= Newest + 1 /\ NextHeld'
    BY <2>1, RowAdded
  <2>3. Busy' = Busy \ {x} /\ x \in Busy
    BY <1>1, <2>1, ConstantsApart DEF Busy, Computed
  <2>4. Accounted'
    <3>1. Cardinality(Busy) \in Nat /\ Cardinality(Busy') = Cardinality(Busy) - 1
      BY <2>3, BusyCounted
    <3>2. jobs \in Nat /\ requested \in Nat /\ retried \in Nat /\ Newest \in Nat
      BY <1>1, ExportBounds DEF ExportInv, ExportTypes
    <3>3. Newest + jobs + Cardinality(Busy) <= requested + retried
      BY <1>1 DEF ExportInv, Accounted
    <3>4. Newest' \in Nat /\ Newest' <= Newest + 1 /\ jobs' = jobs + 1 /\ requested' = requested /\ retried' = retried + 1
      BY <2>1, <2>2
    <3> QED
      BY <3>1, <3>2, <3>3, <3>4 DEF Accounted
  <2>5. ExportTypes'
    BY <1>1, <2>1, <2>2, ExportBounds DEF ExportInv, ExportTypes
  <2> QED
    BY <2>2, <2>4, <2>5 DEF ExportInv
<1> QED
    BY <1>3, <1>4, <1>5, <1>6, <1>7, <1>8, <1>9 DEF ReportsNext

\* For any number of worker threads, requests and retries, the versions of a report's
\* exports have no gaps, and only exports computed side by side share one.
THEOREM VersionsCorrect == ReportsSpec => []VersionsCount
<1>1. ExportInv => VersionsCount
  <2> SUFFICES ASSUME ExportInv, ~abreast, NEW v \in ExportVersions PROVE ~(exports[v] > 1)
    BY DEF ExportInv, VersionsCount
  <2> QED
    BY DEF ExportInv, ExportTypes, NextHeld
<1> QED
    BY ExportInitInv, ExportStep, <1>1, PTL DEF ReportsSpec

\* However profiles and scenarios change while a report is cloned, the scenarios of the
\* clone name profiles of the clone (clone_report).
THEOREM CloneCorrect == ReportsSpec => []CloneIsItsOwn
<1> DEFINE Copies == [made : {"no", "profiles", "yes"}, profiles : SUBSET Profiles,
                      named : SUBSET (Profiles \cup {OtherProfile})]
           CopyInv == copy \in Copies /\ CloneIsItsOwn
<1>1. ReportsInit => CopyInv
    BY DEF ReportsInit, NoCopy, CloneIsItsOwn
<1>2. CopyInv /\ [ReportsNext]_reportsVars => CopyInv'
  <2> SUFFICES ASSUME CopyInv, [ReportsNext]_reportsVars PROVE CopyInv'
    OBVIOUS
  <2>1. CASE CloneProfiles
    BY <2>1 DEF CloneProfiles, There, CloneIsItsOwn
  <2>2. CASE CloneScenarios
    <3> DEFINE named == {scenario[s].actor : s \in Longlist} \cap copy.profiles
    <3>1. named \subseteq copy.profiles /\ copy.profiles \subseteq Profiles
      OBVIOUS
    <3>2. copy' = [copy EXCEPT !.made = "yes", !.named = named]
      BY <2>2 DEF CloneScenarios
    <3> HIDE DEF named
    <3> QED
      BY <3>1, <3>2 DEF CloneIsItsOwn
  <2>3. CASE UNCHANGED copy
    BY <2>3 DEF CloneIsItsOwn
  <2>4. CloneProfiles \/ CloneScenarios \/ UNCHANGED copy
    BY DEF ReportsNext, reportsVars, exporting, ApplySection, CreateExport, PatchReport, CommitPatch, PublishReport,
           ArchiveReport, RestoreReport, CommitState, WriteProfile, DeleteProfile, WriteScenario, DeleteScenario,
           LoadReport, ComputeVersion, CommitExport, RetryExport, RepeatExport
  <2> QED
    BY <2>1, <2>2, <2>3, <2>4
<1>3. CopyInv => CloneIsItsOwn
    OBVIOUS
<1> QED
    BY <1>1, <1>2, <1>3, PTL DEF ReportsSpec

\* The exports and the clone of a report hold together.
THEOREM DocumentsCorrect == ReportsSpec => []DocumentsHold
<1>1. VersionsCount /\ CloneIsItsOwn => DocumentsHold
    BY DEF DocumentsHold
<1> QED
    BY VersionsCorrect, CloneCorrect, <1>1, PTL

-----------------------------------------------------------------------------
(* Reports: the rows *)

\* What ExportInv does not say of the state: the report, its profiles, scenarios and clone.
ReportRows ==
    /\ report \in [state : States, full : BOOLEAN, events : BOOLEAN, summary : BOOLEAN]
    /\ profile \in [Profiles -> {"none", "partial", "full"}]
    /\ scenario \in [Scenarios -> Scenario]
    /\ \A s \in Scenarios : scenario[s].actor \in Actors
    /\ pending \in [Editors -> {"idle", "patch", "publish", "archive", "restore"}]
    /\ copy \in [made : {"no", "profiles", "yes"}, profiles : SUBSET Profiles,
                 named : SUBSET (Profiles \cup {OtherProfile})]

LEMMA ReportRowsInit == ReportsInit => ReportRows
<1> SUFFICES ASSUME ReportsInit PROVE ReportRows
    OBVIOUS
<1>1. ASSUME NEW s \in Scenarios PROVE scenario[s] \in Scenario /\ scenario[s].actor = NoProfile
  <2>1. PICK ss \in SUBSET Scenarios : scenario = [r \in Scenarios |-> [NoScenario EXCEPT !.there = r \in ss]]
      BY DEF ReportsInit, FilledScenarios
  <2> DEFINE there == s \in ss
  <2>2. scenario[s] = [NoScenario EXCEPT !.there = there] /\ there \in BOOLEAN
      BY <2>1
  <2> HIDE DEF there
  <2> QED
      BY <2>2 DEF NoScenario, Scenario
<1>2. scenario \in [Scenarios -> Scenario]
  <2>1. PICK ss \in SUBSET Scenarios : scenario = [s \in Scenarios |-> [NoScenario EXCEPT !.there = s \in ss]]
      BY DEF ReportsInit, FilledScenarios
  <2> QED
      BY <1>1, <2>1
<1>3. /\ profile \in [Profiles -> {"none", "partial", "full"}]
      /\ report \in [state : States, full : BOOLEAN, events : BOOLEAN, summary : BOOLEAN]
    BY DEF ReportsInit, FilledProfiles, States
<1>4. /\ pending \in [Editors -> {"idle", "patch", "publish", "archive", "restore"}]
      /\ copy \in [made : {"no", "profiles", "yes"}, profiles : SUBSET Profiles,
                   named : SUBSET (Profiles \cup {OtherProfile})]
    BY DEF ReportsInit, NoCopy
<1> QED
    BY <1>1, <1>2, <1>3, <1>4 DEF ReportRows, Actors

LEMMA ReportRowsNext == ReportRows /\ [ReportsNext]_reportsVars => ReportRows'
<1> SUFFICES ASSUME ReportRows, [ReportsNext]_reportsVars PROVE ReportRows'
    OBVIOUS
<1> USE DEF ReportRows
<1>1. ASSUME NEW e \in Editors, PatchReport(e) \/ PublishReport(e) \/ ArchiveReport(e) \/ RestoreReport(e) PROVE ReportRows'
    BY <1>1 DEF PatchReport, PublishReport, ArchiveReport, RestoreReport, Check, parts, Actors, There
<1>2. ASSUME NEW e \in Editors, CommitPatch(e) PROVE ReportRows'
    BY <1>2 DEF CommitPatch, Done, Actors, There
<1>3. ASSUME NEW e \in Editors, CommitState(e) PROVE ReportRows'
    BY <1>3 DEF CommitState, Done, Actors, There, States
<1>4. CASE ApplySection
  <2>1. UNCHANGED <<profile, scenario, pending, copy>> /\ report' \in Refreshed
      BY <1>4 DEF ApplySection
  <2>2. ASSUME NEW enough \in BOOLEAN, report' = [report EXCEPT !.events = enough]
        PROVE  report' \in [state : States, full : BOOLEAN, events : BOOLEAN, summary : BOOLEAN]
      BY <2>2
  <2>3. ASSUME report' = [report EXCEPT !.summary = TRUE]
        PROVE  report' \in [state : States, full : BOOLEAN, events : BOOLEAN, summary : BOOLEAN]
      BY <2>3
  <2>4. report' \in [state : States, full : BOOLEAN, events : BOOLEAN, summary : BOOLEAN]
      BY <2>1, <2>2, <2>3 DEF Refreshed
  <2> QED
      BY <2>1, <2>4 DEF Actors, There
<1>5. ASSUME NEW p \in Profiles, WriteProfile(p) PROVE ReportRows'
  <2>1. There \subseteq There' /\ profile' \in [Profiles -> {"none", "partial", "full"}] /\ UNCHANGED <<report, scenario, pending, copy>>
      BY <1>5 DEF WriteProfile, There
  <2> QED
      BY <2>1 DEF Actors
<1>6. ASSUME NEW p \in Profiles, DeleteProfile(p) PROVE ReportRows'
  <2>1. /\ There' = There \ {p} /\ profile' \in [Profiles -> {"none", "partial", "full"}] /\ UNCHANGED <<report, pending, copy>>
        /\ scenario' = [s \in Scenarios |-> IF scenario[s].actor = p
                                            THEN [scenario[s] EXCEPT !.actor = NoProfile] ELSE scenario[s]]
      BY <1>6 DEF DeleteProfile, There
  <2>2. ASSUME NEW s \in Scenarios
        PROVE  scenario'[s] \in Scenario /\ scenario'[s].actor \in Actors \ {p}
    <3>1. scenario[s] \in Scenario /\ scenario[s].actor \in Actors /\ NoProfile # p
        BY ProfilesDiffer
    <3>2. CASE scenario[s].actor = p
        BY <2>1, <3>1, <3>2 DEF Scenario, Actors
    <3>3. CASE scenario[s].actor # p
        BY <2>1, <3>1, <3>3
    <3> QED
        BY <3>2, <3>3
  <2>3. Actors \ {p} \subseteq Actors'
      BY <2>1 DEF Actors
  <2>4. scenario' \in [Scenarios -> Scenario]
    <3> HIDE DEF ReportRows
    <3> QED
        BY <2>1, <2>2
  <2> QED
      BY <2>1, <2>2, <2>3, <2>4
<1>7. ASSUME NEW s \in Scenarios, WriteScenario(s) PROVE ReportRows'
    BY <1>7 DEF WriteScenario, Actors, There
<1>8. ASSUME NEW s \in Scenarios, DeleteScenario(s) PROVE ReportRows'
  <2>1. NoScenario \in Scenario /\ NoScenario.actor \in Actors
      BY DEF NoScenario, Scenario, Actors
  <2> QED
      BY <1>8, <2>1 DEF DeleteScenario, Actors, There
<1>9. CASE CloneProfiles
  <2>1. There \subseteq Profiles
      BY DEF There
  <2> QED
      BY <1>9, <2>1 DEF CloneProfiles, parts, Actors, There
<1>10. CASE CloneScenarios
  <2> DEFINE named == {scenario[s].actor : s \in Longlist} \cap copy.profiles
  <2>1. named \in SUBSET Profiles
      OBVIOUS
  <2>2. copy' = [copy EXCEPT !.made = "yes", !.named = named] /\ UNCHANGED parts /\ UNCHANGED pending
      BY <1>10 DEF CloneScenarios
  <2> HIDE DEF named
  <2> QED
      BY <2>1, <2>2 DEF parts, Actors, There
<1>11. CASE UNCHANGED <<parts, pending, copy>>
    BY <1>11 DEF parts, Actors, There
<1>12. ASSUME NEW x \in Exporters, LoadReport(x) \/ ComputeVersion(x) \/ CommitExport(x) \/ RetryExport(x) \/ RepeatExport(x)
       PROVE  UNCHANGED <<parts, pending, copy>>
    BY <1>12 DEF LoadReport, ComputeVersion, CommitExport, RetryExport, RepeatExport
<1>13. CreateExport \/ UNCHANGED reportsVars => UNCHANGED <<parts, pending, copy>>
    BY DEF CreateExport, reportsVars
<1> QED
    BY <1>1, <1>2, <1>3, <1>4, <1>5, <1>6, <1>7, <1>8, <1>9, <1>10, <1>11, <1>12, <1>13 DEF ReportsNext

LEMMA ReportsTyped == ExportInv /\ ReportRows => ReportsTypeOK
BY DEF ExportInv, ExportTypes, ReportRows, ReportsTypeOK, Resting, Loaded

\* For any number of profiles, scenarios, editors and exports: the rows are well formed, and a
\* scenario never names a profile that is gone (delete_actor, ON DELETE SET NULL).
THEOREM ReportsTypeCorrect == ReportsSpec => []ReportsTypeOK
BY ReportRowsInit, ReportRowsNext, ExportInitInv, ExportStep, ReportsTyped, PTL DEF ReportsSpec

-----------------------------------------------------------------------------
(* Messages and those who work at one *)

\* Messages and the workers that have taken one go back to what was sent: total messages have
\* been sent, each waits among those that failed n times, or is held by a worker, or is gone.
PlacedAt(place, total, n) == {i \in 1..total : place[i] = n}
Placed(place, mine, total, line, most, busy) ==
    /\ place \in [1..total -> -1..most] /\ mine \in [busy -> 1..total]
    /\ \A n \in 0..most : line[n] = Cardinality(PlacedAt(place, total, n))
    /\ \A w \in busy : place[mine[w]] = -1
    /\ \A w, v \in busy : mine[w] = mine[v] => w = v
SentBack(total, line, most, busy) == \E place, mine : Placed(place, mine, total, line, most, busy)

LEMMA PlacedFinite ==
    ASSUME NEW total \in Nat, NEW place, NEW n
    PROVE  IsFiniteSet(PlacedAt(place, total, n)) /\ PlacedAt(place, total, n) \subseteq 1..total
<1>1. IsFiniteSet(1..total)
    BY FS_Interval
<1>2. PlacedAt(place, total, n) \subseteq 1..total
    BY DEF PlacedAt
<1> QED
    BY <1>1, <1>2, FS_Subset

LEMMA SentBackBounds ==
    ASSUME NEW total \in Nat, NEW most \in Nat, NEW line, NEW busy, SentBack(total, line, most, busy),
           NEW n \in 0..most
    PROVE  line[n] \in 0..total
<1>1. PICK place : line[n] = Cardinality(PlacedAt(place, total, n))
    BY DEF SentBack, Placed
<1>2. IsFiniteSet(1..total) /\ Cardinality(1..total) = total
    BY FS_Interval
<1>3. PlacedAt(place, total, n) \subseteq 1..total
    BY PlacedFinite
<1> QED
    BY <1>1, <1>2, <1>3, FS_Subset, FS_CardinalityType

LEMMA SentBackNone ==
    ASSUME NEW most \in Nat, NEW line, \A n \in 0..most : line[n] = 0, NEW busy, busy = {}
    PROVE  SentBack(0, line, most, busy)
<1> DEFINE place == [i \in 1..0 |-> -1]
           mine == [w \in busy |-> 1]
<1>1. 1..0 = {}
    OBVIOUS
<1>2. place \in [1..0 -> -1..most] /\ mine \in [busy -> 1..0]
    BY <1>1
<1>3. \A n \in 0..most : line[n] = Cardinality(PlacedAt(place, 0, n))
    BY <1>1, FS_EmptySet DEF PlacedAt
<1> HIDE DEF place, mine
<1>p. Placed(place, mine, 0, line, most, busy)
    BY <1>2, <1>3 DEF Placed
<1> QED
    BY <1>p DEF SentBack

\* One more is sent, and waits at the end of those that have not failed.
LEMMA SentBackSent ==
    ASSUME NEW total \in Nat, NEW most \in Nat, NEW line, NEW busy, SentBack(total, line, most, busy),
           NEW later, later[0] = line[0] + 1, \A n \in 1..most : later[n] = line[n]
    PROVE  SentBack(total + 1, later, most, busy)
<1>1. PICK place, mine : Placed(place, mine, total, line, most, busy)
    BY DEF SentBack
<1>t. /\ place \in [1..total -> -1..most] /\ mine \in [busy -> 1..total]
      /\ \A m \in 0..most : line[m] = Cardinality(PlacedAt(place, total, m))
      /\ \A w \in busy : place[mine[w]] = -1
      /\ \A w, v \in busy : mine[w] = mine[v] => w = v
    BY <1>1 DEF Placed
<1> DEFINE new == [i \in 1..(total + 1) |-> IF i = total + 1 THEN 0 ELSE place[i]]
<1>2. new \in [1..(total + 1) -> -1..most] /\ mine \in [busy -> 1..(total + 1)]
    BY <1>t
<1>3. \A i \in 1..total : new[i] = place[i]
    BY <1>t
<1>4. new[total + 1] = 0
    BY <1>t
<1> HIDE DEF new
<1>5. PlacedAt(new, total + 1, 0) = PlacedAt(place, total, 0) \cup {total + 1}
    BY <1>3, <1>4 DEF PlacedAt
<1>6. later[0] = Cardinality(PlacedAt(new, total + 1, 0))
  <2>1. IsFiniteSet(PlacedAt(place, total, 0)) /\ PlacedAt(place, total, 0) \subseteq 1..total
      BY PlacedFinite
  <2>2. Cardinality(PlacedAt(place, total, 0) \cup {total + 1}) = Cardinality(PlacedAt(place, total, 0)) + 1
    <3>1. total + 1 \notin 1..total
        OBVIOUS
    <3> QED
        BY <2>1, <3>1, FS_AddElement
  <2>3. line[0] = Cardinality(PlacedAt(place, total, 0))
      BY <1>t
  <2> QED
      BY <1>5, <2>2, <2>3
<1>7. ASSUME NEW n \in 1..most PROVE later[n] = Cardinality(PlacedAt(new, total + 1, n))
  <2>1. PlacedAt(new, total + 1, n) = PlacedAt(place, total, n)
      BY <1>3, <1>4 DEF PlacedAt
  <2> QED
      BY <1>t, <2>1
<1>8. \A w \in busy : new[mine[w]] = -1
    BY <1>t, <1>3
<1>p. Placed(new, mine, total + 1, later, most, busy)
    BY <1>t, <1>2, <1>6, <1>7, <1>8 DEF Placed
<1> QED
    BY <1>p DEF SentBack

\* A worker takes a new one, ...
LEMMA SentBackBegun ==
    ASSUME NEW total \in Nat, NEW most \in Nat, NEW line, NEW busy, SentBack(total, line, most, busy), NEW h, h \notin busy
    PROVE  SentBack(total + 1, line, most, busy \cup {h})
<1>1. PICK place, mine : Placed(place, mine, total, line, most, busy)
    BY DEF SentBack
<1>t. /\ place \in [1..total -> -1..most] /\ mine \in [busy -> 1..total]
      /\ \A m \in 0..most : line[m] = Cardinality(PlacedAt(place, total, m))
      /\ \A w \in busy : place[mine[w]] = -1
      /\ \A w, v \in busy : mine[w] = mine[v] => w = v
    BY <1>1 DEF Placed
<1> DEFINE new == [i \in 1..(total + 1) |-> IF i = total + 1 THEN -1 ELSE place[i]]
           own == [w \in busy \cup {h} |-> IF w = h THEN total + 1 ELSE mine[w]]
<1>2. new \in [1..(total + 1) -> -1..most] /\ own \in [busy \cup {h} -> 1..(total + 1)]
    BY <1>t
<1>3. (\A i \in 1..total : new[i] = place[i]) /\ new[total + 1] = -1
    BY <1>t
<1>4. (\A w \in busy : own[w] = mine[w] /\ own[w] # total + 1) /\ own[h] = total + 1
    BY <1>t
<1> HIDE DEF new, own
<1>5. ASSUME NEW n \in 0..most PROVE line[n] = Cardinality(PlacedAt(new, total + 1, n))
  <2>1. PlacedAt(new, total + 1, n) = PlacedAt(place, total, n)
      BY <1>3 DEF PlacedAt
  <2> QED
      BY <1>t, <2>1
<1>6. \A w \in busy \cup {h} : new[own[w]] = -1
    BY <1>t, <1>3, <1>4
<1>7. \A w, v \in busy \cup {h} : own[w] = own[v] => w = v
    BY <1>t, <1>4
<1>p. Placed(new, own, total + 1, line, most, busy \cup {h})
    BY <1>2, <1>5, <1>6, <1>7 DEF Placed
<1> QED
    BY <1>p DEF SentBack

\* ... or one that waits, ...
LEMMA SentBackTaken ==
    ASSUME NEW total \in Nat, NEW most \in Nat, NEW line, NEW busy, SentBack(total, line, most, busy), NEW h, h \notin busy,
           NEW n \in 0..most, line[n] > 0,
           NEW later, later[n] = line[n] - 1, \A m \in 0..most \ {n} : later[m] = line[m]
    PROVE  SentBack(total, later, most, busy \cup {h})
<1>1. PICK place, mine : Placed(place, mine, total, line, most, busy)
    BY DEF SentBack
<1>t. /\ place \in [1..total -> -1..most] /\ mine \in [busy -> 1..total]
      /\ \A m \in 0..most : line[m] = Cardinality(PlacedAt(place, total, m))
      /\ \A w \in busy : place[mine[w]] = -1
      /\ \A w, v \in busy : mine[w] = mine[v] => w = v
    BY <1>1 DEF Placed
<1>2. PlacedAt(place, total, n) # {}
  <2>1. line[n] = Cardinality(PlacedAt(place, total, n))
      BY <1>t
  <2> QED
      BY <2>1, FS_EmptySet
<1>3. PICK j \in 1..total : place[j] = n
    BY <1>2 DEF PlacedAt
<1> DEFINE new == [place EXCEPT ![j] = -1]
           own == [w \in busy \cup {h} |-> IF w = h THEN j ELSE mine[w]]
<1>4. new \in [1..total -> -1..most] /\ own \in [busy \cup {h} -> 1..total]
    BY <1>t
<1>5. (\A i \in 1..total : i # j => new[i] = place[i]) /\ new[j] = -1
    BY <1>t
<1>6. (\A w \in busy : own[w] = mine[w] /\ own[w] # j) /\ own[h] = j
    BY <1>t, <1>3
<1> HIDE DEF new, own
<1>7. later[n] = Cardinality(PlacedAt(new, total, n))
  <2>1. PlacedAt(new, total, n) = PlacedAt(place, total, n) \ {j}
      BY <1>3, <1>5 DEF PlacedAt
  <2>2. IsFiniteSet(PlacedAt(place, total, n))
      BY PlacedFinite
  <2>3. j \in PlacedAt(place, total, n) /\ Cardinality(PlacedAt(place, total, n)) = line[n]
      BY <1>t, <1>3 DEF PlacedAt
  <2> QED
      BY <2>1, <2>2, <2>3, FS_RemoveElement
<1>8. ASSUME NEW m \in 0..most, m # n PROVE later[m] = Cardinality(PlacedAt(new, total, m))
  <2>1. PlacedAt(new, total, m) = PlacedAt(place, total, m)
      BY <1>3, <1>5, <1>8 DEF PlacedAt
  <2> QED
      BY <1>t, <1>8, <2>1
<1>9. \A w \in busy \cup {h} : new[own[w]] = -1
    BY <1>t, <1>5, <1>6
<1>10. \A w, v \in busy \cup {h} : own[w] = own[v] => w = v
    BY <1>t, <1>6
<1>p. Placed(new, own, total, later, most, busy \cup {h})
    BY <1>4, <1>7, <1>8, <1>9, <1>10 DEF Placed
<1> QED
    BY <1>p DEF SentBack

\* ... and gives it back, having failed once more, ...
LEMMA SentBackAgain ==
    ASSUME NEW total \in Nat, NEW most \in Nat, NEW line, NEW busy, SentBack(total, line, most, busy), NEW h \in busy,
           NEW n \in 0..most, NEW later, later[n] = line[n] + 1, \A m \in 0..most \ {n} : later[m] = line[m]
    PROVE  SentBack(total, later, most, busy \ {h})
<1>1. PICK place, mine : Placed(place, mine, total, line, most, busy)
    BY DEF SentBack
<1>t. /\ place \in [1..total -> -1..most] /\ mine \in [busy -> 1..total]
      /\ \A m \in 0..most : line[m] = Cardinality(PlacedAt(place, total, m))
      /\ \A w \in busy : place[mine[w]] = -1
      /\ \A w, v \in busy : mine[w] = mine[v] => w = v
    BY <1>1 DEF Placed
<1> DEFINE j == mine[h]
           new == [place EXCEPT ![j] = n]
           own == [w \in busy \ {h} |-> mine[w]]
<1>2. j \in 1..total /\ place[j] = -1
    BY <1>t
<1>3. new \in [1..total -> -1..most] /\ own \in [busy \ {h} -> 1..total]
    BY <1>t, <1>2
<1>4. (\A i \in 1..total : i # j => new[i] = place[i]) /\ new[j] = n
    BY <1>t, <1>2
<1>5. \A w \in busy \ {h} : own[w] = mine[w] /\ own[w] # j
    BY <1>t
<1> HIDE DEF new, own, j
<1>6. later[n] = Cardinality(PlacedAt(new, total, n))
  <2>1. PlacedAt(new, total, n) = PlacedAt(place, total, n) \cup {j}
      BY <1>2, <1>4 DEF PlacedAt
  <2>2. IsFiniteSet(PlacedAt(place, total, n))
      BY PlacedFinite
  <2>3. j \notin PlacedAt(place, total, n) /\ Cardinality(PlacedAt(place, total, n)) = line[n]
      BY <1>t, <1>2 DEF PlacedAt
  <2> QED
      BY <2>1, <2>2, <2>3, FS_AddElement
<1>7. ASSUME NEW m \in 0..most, m # n PROVE later[m] = Cardinality(PlacedAt(new, total, m))
  <2>1. PlacedAt(new, total, m) = PlacedAt(place, total, m)
      BY <1>2, <1>4, <1>7 DEF PlacedAt
  <2> QED
      BY <1>t, <1>7, <2>1
<1>8. \A w \in busy \ {h} : new[own[w]] = -1
    BY <1>t, <1>4, <1>5
<1>9. \A w, v \in busy \ {h} : own[w] = own[v] => w = v
    BY <1>t, <1>5
<1>p. Placed(new, own, total, later, most, busy \ {h})
    BY <1>3, <1>6, <1>7, <1>8, <1>9 DEF Placed
<1> QED
    BY <1>p DEF SentBack

\* ... or is done with it.
LEMMA SentBackDone ==
    ASSUME NEW total \in Nat, NEW most \in Nat, NEW line, NEW busy, SentBack(total, line, most, busy), NEW h
    PROVE  SentBack(total, line, most, busy \ {h})
<1>1. PICK place, mine : Placed(place, mine, total, line, most, busy)
    BY DEF SentBack
<1>t. /\ place \in [1..total -> -1..most] /\ mine \in [busy -> 1..total]
      /\ \A m \in 0..most : line[m] = Cardinality(PlacedAt(place, total, m))
      /\ \A w \in busy : place[mine[w]] = -1
      /\ \A w, v \in busy : mine[w] = mine[v] => w = v
    BY <1>1 DEF Placed
<1> DEFINE own == [w \in busy \ {h} |-> mine[w]]
<1>2. own \in [busy \ {h} -> 1..total] /\ \A w \in busy \ {h} : own[w] = mine[w]
    BY <1>t
<1> HIDE DEF own
<1>p. Placed(place, own, total, line, most, busy \ {h})
    BY <1>t, <1>2 DEF Placed
<1> QED
    BY <1>p DEF SentBack
\* Only what the messages are, and who is at work, matters.
LEMMA SentBackSame ==
    ASSUME NEW total, NEW most, NEW line, NEW busy, SentBack(total, line, most, busy),
           NEW later, \A n \in 0..most : later[n] = line[n]
    PROVE  SentBack(total, later, most, busy)
<1>1. PICK place, mine : Placed(place, mine, total, line, most, busy)
    BY DEF SentBack
<1>2. Placed(place, mine, total, later, most, busy)
    BY <1>1 DEF Placed
<1> QED
    BY <1>2 DEF SentBack
\* One that waits is tried at once: it waits again, having failed m times, or is gone.
LEMMA SentBackTried ==
    ASSUME NEW total \in Nat, NEW most \in Nat, NEW line, NEW busy, SentBack(total, line, most, busy),
           NEW n \in 0..most, line[n] > 0, NEW later, NEW m \in 0..(most + 1),
           \A k \in 0..most : later[k] = line[k] - (IF k = n THEN 1 ELSE 0) + (IF k = m THEN 1 ELSE 0)
    PROVE  SentBack(total, later, most, busy)
<1> DEFINE h == {y \in busy : y \notin y}
           taken == [k \in 0..most |-> IF k = n THEN line[k] - 1 ELSE line[k]]
<1>1. h \notin busy
    OBVIOUS
<1>2. \A k \in 0..most : line[k] \in Nat
    BY SentBackBounds
<1>3. taken[n] = line[n] - 1 /\ \A k \in 0..most \ {n} : taken[k] = line[k]
    OBVIOUS
<1> HIDE DEF h, taken
<1>4. SentBack(total, taken, most, busy \cup {h})
    BY <1>1, <1>3, SentBackTaken
<1>5. (busy \cup {h}) \ {h} = busy
    BY <1>1
<1>6. CASE m = most + 1
  <2>1. \A k \in 0..most : later[k] = taken[k]
      BY <1>2, <1>3, <1>6
  <2>2. SentBack(total, later, most, busy \cup {h})
      BY <1>4, <2>1, SentBackSame
  <2>3. SentBack(total, later, most, (busy \cup {h}) \ {h})
      BY <2>2, SentBackDone
  <2> QED
      BY <1>5, <2>3
<1>7. CASE m # most + 1
  <2>1. m \in 0..most /\ later[m] = taken[m] + 1 /\ \A k \in 0..most \ {m} : later[k] = taken[k]
      BY <1>2, <1>3, <1>7
  <2>2. h \in busy \cup {h}
      OBVIOUS
  <2>3. SentBack(total, later, most, (busy \cup {h}) \ {h})
      BY <1>4, <2>1, <2>2, SentBackAgain
  <2> QED
      BY <1>5, <2>3
<1> QED
    BY <1>6, <1>7

-----------------------------------------------------------------------------
(* Suggestions *)

\* The part of ReviewTypeOK that the rest relies on.
ReviewRows ==
    /\ suggestion \in [Suggestions -> [status : {"none", "pending"} \cup Decisions,
                                       asked : {"none"} \cup Decisions]]
    /\ reviewer \in [Reviewers -> Reviewer]
    /\ \A h \in Reviewers : \A s \in reviewer[h].ids : reviewer[h].seen[s] # "none" /\ suggestion[s].status # "none"

\* What a request has loaded is what the row says, unless the row has expired since;
\* but for rows that requests decide side by side, the request is alone with it.
LoadedHolds ==
    \A h \in Reviewers : reviewer[h].at = "loaded" =>
        \A s \in reviewer[h].ids \ sideBySide :
            /\ \/ reviewer[h].seen[s] = suggestion[s].status
               \/ reviewer[h].seen[s] = "pending" /\ suggestion[s].status = "discarded"
            /\ \A q \in Reviewers : reviewer[q].at = "loaded" /\ s \in reviewer[q].ids => q = h

ReviewInv == ReviewRows /\ LoadedHolds /\ DecidedAsAsked

LEMMA NoReviewerIdle ==
    /\ NoReviewer \in Reviewer /\ NoReviewer.at = "idle" /\ NoReviewer.ids = {}
    /\ \A q \in Reviewer : q.at \in {"idle", "loaded", "decided"} /\ q.ids \subseteq Suggestions /\ q.wants \in Decisions
BY DEF NoReviewer, Reviewer, Decisions

LEMMA ReviewInitInv == ReviewInit => ReviewInv
<1> SUFFICES ASSUME ReviewInit PROVE ReviewInv
  OBVIOUS
<1>1. ReviewRows
  BY NoReviewerIdle DEF ReviewInit, ReviewRows
<1>2. LoadedHolds /\ DecidedAsAsked
  BY NoReviewerIdle DEF ReviewInit, LoadedHolds, DecidedAsAsked
<1>. QED
  BY <1>1, <1>2 DEF ReviewInv

\* Rows are staged where there are none, and expire while pending; no decided one changes.
LEMMA RowsStep ==
    ASSUME ReviewInv, UNCHANGED <<reviewer, sideBySide>>,
           suggestion' \in [Suggestions -> [status : {"none", "pending"} \cup Decisions, asked : {"none"} \cup Decisions]],
           \A s \in Suggestions :
               \/ suggestion'[s] = suggestion[s]
               \/ suggestion[s].status = "none" /\ suggestion'[s] = [status |-> "pending", asked |-> "none"]
               \/ suggestion[s].status = "pending" /\ suggestion'[s] = [suggestion[s] EXCEPT !.status = "discarded"]
    PROVE  ReviewInv'
<1> USE DEF ReviewInv, ReviewRows, Decisions
<1>1. ReviewRows'
  BY NoReviewerIdle
<1>2. LoadedHolds'
  <2> SUFFICES ASSUME NEW h \in Reviewers, reviewer[h].at = "loaded", NEW s \in reviewer[h].ids \ sideBySide
               PROVE  /\ \/ reviewer[h].seen[s] = suggestion'[s].status
                         \/ reviewer[h].seen[s] = "pending" /\ suggestion'[s].status = "discarded"
                      /\ \A q \in Reviewers : reviewer[q].at = "loaded" /\ s \in reviewer[q].ids => q = h
    BY DEF LoadedHolds
  <2>1. s \in Suggestions
    BY NoReviewerIdle
  <2>2. suggestion[s] \in [status : {"none", "pending"} \cup Decisions, asked : {"none"} \cup Decisions]
    BY <2>1
  <2>. QED
    BY <2>1, <2>2 DEF LoadedHolds
<1>3. DecidedAsAsked'
  <2> SUFFICES ASSUME NEW s \in Suggestions \ sideBySide
               PROVE  IF suggestion'[s].asked = "none" THEN suggestion'[s].status # "confirmed"
                      ELSE suggestion'[s].status = suggestion'[s].asked
    BY DEF DecidedAsAsked
  <2>1. suggestion[s] \in [status : {"none", "pending"} \cup Decisions, asked : {"none"} \cup Decisions]
    OBVIOUS
  <2>. QED
    BY <2>1 DEF DecidedAsAsked
<1>. QED
  BY <1>1, <1>2, <1>3

LEMMA LoadKeeps ==
    ASSUME ReviewInv, NEW h \in Reviewers, LoadSuggestions(h)
    PROVE  ReviewInv'
<1> USE DEF ReviewInv, ReviewRows
<1>1. PICK ids \in SUBSET Staged, d \in Decisions :
          /\ reviewer' = [reviewer EXCEPT ![h] =
                [at |-> "loaded", wants |-> d, ids |-> ids,
                 seen |-> [s \in Suggestions |-> IF s \in ids THEN suggestion[s].status ELSE "none"]]]
          /\ sideBySide' = sideBySide \cup (ids \cap Handled)
  BY DEF LoadSuggestions
<1>2. suggestion' = suggestion /\ ids \subseteq Suggestions /\ \A s \in ids : suggestion[s].status # "none"
  BY DEF LoadSuggestions, Staged
<1>3. /\ reviewer'[h].at = "loaded" /\ reviewer'[h].ids = ids
      /\ \A s \in ids : reviewer'[h].seen[s] = suggestion[s].status
      /\ \A q \in Reviewers \ {h} : reviewer'[q] = reviewer[q]
  BY <1>1, <1>2
<1>4. ReviewRows'
  <2>1. [at |-> "loaded", wants |-> d, ids |-> ids,
         seen |-> [s \in Suggestions |-> IF s \in ids THEN suggestion[s].status ELSE "none"]] \in Reviewer
    BY <1>2 DEF Reviewer
  <2>. QED
    BY <1>1, <1>2, <1>3, <2>1
<1>5. LoadedHolds'
  <2>1. \A q \in Reviewers \ {h} : reviewer[q].at = "loaded" => reviewer[q].ids \cap ids \subseteq sideBySide'
    BY <1>1 DEF Handled
  <2>. QED
    BY <1>1, <1>2, <1>3, <2>1 DEF LoadedHolds
<1>6. DecidedAsAsked'
  BY <1>1, <1>2 DEF DecidedAsAsked
<1>. QED
  BY <1>4, <1>5, <1>6

LEMMA CommitKeeps ==
    ASSUME ReviewInv, NEW h \in Reviewers, CommitDecision(h)
    PROVE  ReviewInv'
<1> USE DEF ReviewInv, ReviewRows
<1> DEFINE d == reviewer[h].wants
<1>1. /\ reviewer[h].at = "loaded" /\ d \in Decisions /\ reviewer[h].ids \subseteq Suggestions
      /\ sideBySide' = sideBySide
  BY NoReviewerIdle DEF CommitDecision
<1>2. /\ \A s \in Suggestions \ reviewer[h].ids : suggestion'[s] = suggestion[s]
      /\ \A s \in reviewer[h].ids :
            /\ reviewer[h].seen[s] = d => suggestion'[s].status = suggestion[s].status
            /\ reviewer[h].seen[s] # d => suggestion'[s].status = d
            /\ suggestion'[s].asked = d
  BY <1>1 DEF CommitDecision
<1>3. /\ reviewer' \in [Reviewers -> Reviewer] /\ reviewer'[h].at = "decided" /\ reviewer'[h].ids = reviewer[h].ids
      /\ reviewer'[h].seen = reviewer[h].seen /\ \A q \in Reviewers \ {h} : reviewer'[q] = reviewer[q]
  BY DEF CommitDecision, Reviewer
<1>4. \A s \in reviewer[h].ids \ sideBySide : suggestion'[s].status = d
  <2> SUFFICES ASSUME NEW s \in reviewer[h].ids \ sideBySide, reviewer[h].seen[s] = d PROVE suggestion[s].status = d
    BY <1>2
  <2>. QED
    BY <1>1 DEF LoadedHolds, Decisions
<1>5. ReviewRows'
  <2>1. \A s \in Suggestions :
            suggestion[s] \in [status : {"none", "pending"} \cup Decisions, asked : {"none"} \cup Decisions]
    OBVIOUS
  <2>2. \A s \in Suggestions :
            suggestion'[s] \in [status : {"none", "pending"} \cup Decisions, asked : {"none"} \cup Decisions]
    <3>1. ASSUME NEW s \in reviewer[h].ids
          PROVE  suggestion'[s] \in [status : {"none", "pending"} \cup Decisions, asked : {"none"} \cup Decisions]
      <4> DEFINE new == IF reviewer[h].seen[s] = d THEN suggestion[s].status ELSE d
      <4>1. suggestion'[s] = [status |-> new, asked |-> d]
        BY <1>1 DEF CommitDecision
      <4>2. new \in {"none", "pending"} \cup Decisions /\ d \in {"none"} \cup Decisions
        BY <1>1, <2>1
      <4> HIDE DEF new, d
      <4>. QED
        BY <4>1, <4>2
    <3>. QED
      BY <1>2, <2>1, <3>1
  <2>3. suggestion' = [s \in Suggestions |-> suggestion'[s]]
    BY DEF CommitDecision
  <2>4. \A s \in Suggestions : suggestion[s].status # "none" => suggestion'[s].status # "none"
    BY <1>1, <1>2 DEF Decisions
  <2>. QED
    BY <1>3, <2>2, <2>3, <2>4, NoReviewerIdle
<1>6. LoadedHolds'
  <2> SUFFICES ASSUME NEW q \in Reviewers, reviewer'[q].at = "loaded", NEW s \in reviewer'[q].ids \ sideBySide
               PROVE  /\ \/ reviewer'[q].seen[s] = suggestion'[s].status
                         \/ reviewer'[q].seen[s] = "pending" /\ suggestion'[s].status = "discarded"
                      /\ \A p \in Reviewers : reviewer'[p].at = "loaded" /\ s \in reviewer'[p].ids => p = q
    BY <1>1 DEF LoadedHolds
  <2>1. q # h /\ reviewer'[q] = reviewer[q]
    BY <1>3
  <2>2. s \notin reviewer[h].ids
    BY <1>1, <2>1 DEF LoadedHolds
  <2>3. s \in Suggestions
    BY <2>1, NoReviewerIdle
  <2>. QED
    BY <1>2, <1>3, <2>1, <2>2, <2>3 DEF LoadedHolds
<1>7. DecidedAsAsked'
  BY <1>1, <1>2, <1>4 DEF DecidedAsAsked, Decisions
<1>. QED
  BY <1>5, <1>6, <1>7

LEMMA AnswerKeeps ==
    ASSUME ReviewInv, NEW h \in Reviewers, AnswerReviewer(h)
    PROVE  ReviewInv'
<1> USE DEF ReviewInv, ReviewRows
<1>1. reviewer' = [reviewer EXCEPT ![h] = NoReviewer] /\ UNCHANGED <<suggestion, sideBySide>>
  BY DEF AnswerReviewer
<1>2. ReviewRows'
  BY <1>1, NoReviewerIdle
<1>3. LoadedHolds' /\ DecidedAsAsked'
  BY <1>1, NoReviewerIdle DEF LoadedHolds, DecidedAsAsked
<1>. QED
  BY <1>2, <1>3

LEMMA ReviewInvNext == ReviewInv /\ [ReviewNext]_reviewVars => ReviewInv'
<1> SUFFICES ASSUME ReviewInv, [ReviewNext]_reviewVars PROVE ReviewInv'
  OBVIOUS
<1>1. CASE StageSuggestions
  <2>1. \A s \in Suggestions :
            \/ suggestion'[s] = suggestion[s]
            \/ suggestion[s].status = "none" /\ suggestion'[s] = [status |-> "pending", asked |-> "none"]
    BY <1>1 DEF StageSuggestions
  <2>2. suggestion' \in [Suggestions -> [status : {"none", "pending"} \cup Decisions, asked : {"none"} \cup Decisions]]
    BY <1>1 DEF StageSuggestions, ReviewInv, ReviewRows
  <2>. QED
    BY <1>1, <2>1, <2>2, RowsStep DEF StageSuggestions
<1>2. CASE ExpireSuggestions
  <2>1. \A s \in Suggestions :
            \/ suggestion'[s] = suggestion[s]
            \/ suggestion[s].status = "pending" /\ suggestion'[s] = [suggestion[s] EXCEPT !.status = "discarded"]
    BY <1>2 DEF ExpireSuggestions
  <2>2. suggestion' \in [Suggestions -> [status : {"none", "pending"} \cup Decisions, asked : {"none"} \cup Decisions]]
    BY <1>2 DEF ExpireSuggestions, ReviewInv, ReviewRows, Decisions
  <2>. QED
    BY <1>2, <2>1, <2>2, RowsStep DEF ExpireSuggestions
<1>3. CASE UNCHANGED <<suggestion, reviewer, sideBySide>>
  BY <1>3, RowsStep DEF ReviewInv, ReviewRows
<1>4. WriteMisp \/ DeleteMisp \/ RestartPulls \/ UNCHANGED reviewVars => UNCHANGED <<suggestion, reviewer, sideBySide>>
  BY DEF WriteMisp, DeleteMisp, RestartPulls, reviewVars
<1>5. ASSUME NEW n \in 0..PushRetries, PushSuggestion(n) PROVE UNCHANGED <<suggestion, reviewer, sideBySide>>
  BY <1>5 DEF PushSuggestion
<1>. QED
  BY <1>1, <1>2, <1>3, <1>4, <1>5, LoadKeeps, CommitKeeps, AnswerKeeps DEF ReviewNext

\* For any rows and any requests, a suggestion has the status that its decider asked for,
\* whatever expires meanwhile, unless requests that decide it overlap.
THEOREM DecidedCorrect == ReviewSpec => []DecidedAsAsked
<1>1. ReviewInv => DecidedAsAsked
  BY DEF ReviewInv
<1>. QED
  BY <1>1, ReviewInitInv, ReviewInvNext, PTL DEF ReviewSpec

-----------------------------------------------------------------------------
(* Suggestions: the rows and the pushes *)

Deciding == {h \in Reviewers : reviewer[h].at # "idle"}

\* What ReviewInv does not say of the state; a message of a push goes back to a request.
ReviewRest ==
    /\ decisions \in 0..MaxDecisions
    /\ misp \in [there : BOOLEAN, enabled : BOOLEAN, pushes : BOOLEAN]
    /\ ~misp.there => misp = NoMisp
    /\ pullJob \in BOOLEAN
    /\ sideBySide \subseteq Suggestions
    /\ DOMAIN pushes = 0..PushRetries /\ pushes = [n \in 0..PushRetries |-> pushes[n]]
    /\ SentBack(decisions, pushes, PushRetries, Deciding)

LEMMA ReviewRestInit == ReviewInit => ReviewRest
<1> SUFFICES ASSUME ReviewInit PROVE ReviewRest
    OBVIOUS
<1>1. Deciding = {}
    BY NoReviewerIdle DEF ReviewInit, Deciding
<1>2. /\ decisions = 0 /\ PushRetries \in Nat /\ MaxDecisions \in Nat
      /\ pushes = [n \in 0..PushRetries |-> 0] /\ misp = NoMisp /\ pullJob = FALSE /\ sideBySide = {}
    BY ReviewBounds DEF ReviewInit
<1>3. SentBack(decisions, pushes, PushRetries, Deciding)
    BY <1>1, <1>2, SentBackNone
<1>4. pullJob \in BOOLEAN
    BY <1>2
<1>5. misp \in [there : BOOLEAN, enabled : BOOLEAN, pushes : BOOLEAN]
    BY <1>2 DEF NoMisp
<1> QED
    BY <1>2, <1>3, <1>4, <1>5 DEF ReviewRest

LEMMA ReviewRestNext == ReviewInv /\ ReviewRest /\ [ReviewNext]_reviewVars => ReviewRest'
<1> SUFFICES ASSUME ReviewInv, ReviewRest, [ReviewNext]_reviewVars PROVE ReviewRest'
    OBVIOUS
<1>1. PushRetries \in Nat /\ MaxDecisions \in Nat /\ decisions \in Nat
    BY ReviewBounds DEF ReviewRest
<1>2. reviewer \in [Reviewers -> Reviewer]
    BY DEF ReviewInv, ReviewRows
<1>3. ASSUME UNCHANGED <<decisions, misp, pullJob, sideBySide, pushes>>, Deciding' = Deciding PROVE ReviewRest'
    BY <1>3 DEF ReviewRest
<1>4. UNCHANGED reviewer => Deciding' = Deciding
    BY DEF Deciding
<1>5. CASE StageSuggestions \/ ExpireSuggestions \/ UNCHANGED reviewVars
    BY <1>3, <1>4, <1>5 DEF StageSuggestions, ExpireSuggestions, reviewVars
<1>6. ASSUME WriteMisp \/ DeleteMisp \/ RestartPulls PROVE ReviewRest'
  <2>1. UNCHANGED <<decisions, reviewer, sideBySide, pushes>>
      BY <1>6 DEF WriteMisp, DeleteMisp, RestartPulls
  <2>2. misp' \in [there : BOOLEAN, enabled : BOOLEAN, pushes : BOOLEAN] /\ (~misp'.there => misp' = NoMisp)
    <3>1. CASE WriteMisp
        BY <3>1 DEF WriteMisp
    <3>2. CASE DeleteMisp
        BY <3>2 DEF DeleteMisp, NoMisp
    <3>3. CASE RestartPulls
        BY <3>3 DEF RestartPulls, ReviewRest
    <3> QED
        BY <1>6, <3>1, <3>2, <3>3
  <2>3. pullJob' \in BOOLEAN
      BY <1>6 DEF WriteMisp, DeleteMisp, RestartPulls, ReviewRest
  <2> QED
      BY <1>4, <2>1, <2>2, <2>3 DEF ReviewRest
<1>7. ASSUME NEW h \in Reviewers, LoadSuggestions(h) PROVE ReviewRest'
  <2>1. /\ h \notin Deciding /\ decisions < MaxDecisions /\ decisions' = decisions + 1
        /\ UNCHANGED <<misp, pullJob, pushes>>
      BY <1>7 DEF LoadSuggestions, Deciding
  <2>2. PICK ids \in SUBSET Staged, d \in Decisions :
          /\ reviewer' = [reviewer EXCEPT ![h] =
                [at |-> "loaded", wants |-> d, ids |-> ids,
                 seen |-> [s \in Suggestions |-> IF s \in ids THEN suggestion[s].status ELSE "none"]]]
          /\ sideBySide' = sideBySide \cup (ids \cap Handled)
      BY <1>7 DEF LoadSuggestions
  <2>3. Deciding' = Deciding \cup {h}
      BY <1>2, <2>2 DEF Deciding
  <2>4. sideBySide' \subseteq Suggestions
      BY <2>2 DEF ReviewRest, Staged
  <2>5. SentBack(decisions + 1, pushes, PushRetries, Deciding \cup {h})
      BY <1>1, <2>1, SentBackBegun DEF ReviewRest
  <2>6. decisions' \in 0..MaxDecisions
      BY <1>1, <2>1
  <2> QED
      BY <2>1, <2>3, <2>4, <2>5, <2>6 DEF ReviewRest
<1>8. ASSUME NEW h \in Reviewers, CommitDecision(h) PROVE ReviewRest'
  <2>1. reviewer[h].at = "loaded" /\ reviewer' = [reviewer EXCEPT ![h].at = "decided"] /\ reviewer[h] \in Reviewer
      BY <1>2, <1>8 DEF CommitDecision
  <2>2. Deciding' = Deciding
      BY <1>2, <2>1 DEF Deciding, Reviewer
  <2> QED
      BY <1>3, <1>8, <2>2 DEF CommitDecision
<1>9. ASSUME NEW h \in Reviewers, AnswerReviewer(h) PROVE ReviewRest'
  <2>1. /\ h \in Deciding /\ reviewer' = [reviewer EXCEPT ![h] = NoReviewer]
        /\ UNCHANGED <<decisions, misp, pullJob, sideBySide>>
      BY <1>9 DEF AnswerReviewer, Deciding
  <2>2. Deciding' = Deciding \ {h}
      BY <1>2, <2>1, NoReviewerIdle DEF Deciding
  <2>3. pushes' = pushes \/ pushes' = [pushes EXCEPT ![0] = @ + 1]
      BY <1>9 DEF AnswerReviewer
  <2>4. CASE pushes' = pushes
    <3>1. SentBack(decisions, pushes, PushRetries, Deciding \ {h})
        BY <1>1, SentBackDone DEF ReviewRest
    <3> QED
        BY <2>1, <2>2, <2>4, <3>1 DEF ReviewRest
  <2>5. CASE pushes' = [pushes EXCEPT ![0] = @ + 1]
    <3>1. 0 \in 0..PushRetries
        BY <1>1
    <3>2. pushes'[0] = pushes[0] + 1 /\ \A n \in 0..PushRetries \ {0} : pushes'[n] = pushes[n]
        BY <2>5, <3>1 DEF ReviewRest
    <3>3. SentBack(decisions, pushes', PushRetries, Deciding \ {h})
        BY <1>1, <2>1, <3>1, <3>2, SentBackAgain DEF ReviewRest
    <3>4. DOMAIN pushes' = 0..PushRetries /\ pushes' = [n \in 0..PushRetries |-> pushes'[n]]
        BY <2>5, <3>1 DEF ReviewRest
    <3> QED
        BY <2>1, <2>2, <3>3, <3>4 DEF ReviewRest
  <2> QED
      BY <2>3, <2>4, <2>5
<1>10. ASSUME NEW n \in 0..PushRetries, PushSuggestion(n) PROVE ReviewRest'
  <2> DEFINE raises == misp.enabled /\ ~(PushSelects \subseteq SuggestionColumns)
             m == IF raises THEN n + 1 ELSE PushRetries + 1
  <2>1. /\ pushes[n] > 0 /\ UNCHANGED <<reviewer, decisions, misp, pullJob, sideBySide>>
        /\ pushes' = [k \in 0..PushRetries |->
               pushes[k] - (IF k = n THEN 1 ELSE 0) + (IF k = n + 1 /\ raises THEN 1 ELSE 0)]
      BY <1>10 DEF PushSuggestion
  <2> HIDE DEF raises
  <2>2. m \in 0..(PushRetries + 1)
      BY <1>1
  <2>3. \A k \in 0..PushRetries : pushes'[k] = pushes[k] - (IF k = n THEN 1 ELSE 0) + (IF k = m THEN 1 ELSE 0)
      BY <1>1, <2>1
  <2> HIDE DEF m
  <2>4. SentBack(decisions, pushes', PushRetries, Deciding)
      BY <1>1, <2>1, <2>2, <2>3, SentBackTried DEF ReviewRest
  <2>5. DOMAIN pushes' = 0..PushRetries /\ pushes' = [k \in 0..PushRetries |-> pushes'[k]]
      BY <2>1
  <2> QED
      BY <1>4, <2>1, <2>4, <2>5 DEF ReviewRest
<1> QED
    BY <1>5, <1>6, <1>7, <1>8, <1>9, <1>10 DEF ReviewNext

LEMMA ReviewTyped == ReviewInv /\ ReviewRest => ReviewTypeOK
<1> SUFFICES ASSUME ReviewInv, ReviewRest PROVE ReviewTypeOK
    OBVIOUS
<1>1. PushRetries \in Nat /\ MaxDecisions \in Nat /\ decisions \in Nat /\ decisions <= MaxDecisions
    BY ReviewBounds DEF ReviewRest
<1>2. \A n \in 0..PushRetries : pushes[n] \in 0..MaxDecisions
  <2>1. \A n \in 0..PushRetries : pushes[n] \in 0..decisions
      BY <1>1, SentBackBounds DEF ReviewRest
  <2> QED
      BY <1>1, <2>1
<1>3. pushes \in [0..PushRetries -> 0..MaxDecisions]
    BY <1>2 DEF ReviewRest
<1> QED
    BY <1>3 DEF ReviewTypeOK, ReviewRest, ReviewInv, ReviewRows

\* For any suggestions, requests and retries: the rows are well formed, a request has loaded rows
\* that stay there, and no more pushes to MISP wait than decisions were made
\* (_transition_suggestion, _enqueue_misp_push_if_configured, misp_push_suggestion).
THEOREM ReviewTypeCorrect == ReviewSpec => []ReviewTypeOK
BY ReviewInitInv, ReviewRestInit, ReviewInvNext, ReviewRestNext, ReviewTyped, PTL DEF ReviewSpec

-----------------------------------------------------------------------------
(* Matches *)

\* A match that is not there has no end, and the rows have their fields.
MatchRows ==
    /\ matches \in [Hits -> Match]
    /\ decision \in [Hits -> Decision]
    /\ \A r \in Hits : matches[r].status = "none" => ~matches[r].until

BrandInv == MatchRows /\ DecisionsStand

LEMMA BrandRows ==
    /\ NoMatch \in Match /\ NoMatch.status = "none" /\ NoMatch.until = FALSE
    /\ NoDecision \in Decision /\ NoDecision.status = "none" /\ NoDecision.until = FALSE
    /\ \A m \in Match : m.until \in BOOLEAN /\ m.fired \in BOOLEAN /\ m.status \in Statuses \cup {"none"}
    /\ \A d \in Decision : d = [status |-> d.status, until |-> d.until]
BY DEF NoMatch, Match, NoDecision, Decision, Statuses

\* What a scan or the certificate worker makes of a row: a new one where there was none, and
\* otherwise nothing but that it has fired.
Refound(r) ==
    /\ matches'[r].status = IF matches[r].status = "none" THEN "new" ELSE matches[r].status
    /\ matches'[r].until = matches[r].until

LEMMA FoundKeeps ==
    ASSUME BrandInv, decision' = decision, matches' \in [Hits -> Match],
           \A r \in Hits : matches'[r] = matches[r] \/ Refound(r)
    PROVE  BrandInv'
<1> USE DEF BrandInv, MatchRows
<1>1. MatchRows'
  BY DEF Refound
<1>2. DecisionsStand'
  <2> SUFFICES ASSUME NEW r \in Hits, Refound(r)
               PROVE  \/ matches'[r].status = decision[r].status /\ matches'[r].until = decision[r].until
                      \/ /\ matches'[r].status = "new" /\ ~matches'[r].until
                         /\ decision[r] = NoDecision \/ (decision[r].status = "dismissed" /\ decision[r].until)
    BY DEF DecisionsStand
  <2>1. matches[r].until \in BOOLEAN /\ decision[r].until \in BOOLEAN
    BY BrandRows DEF Decision
  <2>2. CASE matches[r].status = "none"
    <3>1. ~matches[r].until /\ decision[r].status = "none" /\ decision[r].until = matches[r].until
      BY <2>2 DEF DecisionsStand
    <3>2. decision[r] = NoDecision
      BY <2>1, <3>1, BrandRows DEF NoDecision
    <3>. QED
      BY <2>2, <3>1, <3>2 DEF Refound
  <2>3. CASE matches[r].status # "none"
    BY <2>3 DEF Refound, DecisionsStand
  <2>. QED
    BY <2>2, <2>3
<1>. QED
  BY <1>1, <1>2

LEMMA UpsertedRow ==
    ASSUME BrandInv, NEW r \in Hits
    PROVE  /\ Upserted(r) \in Match
           /\ Upserted(r).status = IF matches[r].status = "none" THEN "new" ELSE matches[r].status
           /\ Upserted(r).until = matches[r].until
<1>1. matches[r] \in Match /\ (matches[r].status = "none" => matches[r].until = FALSE)
  BY BrandRows DEF BrandInv, MatchRows
<1>. QED
  BY <1>1 DEF Upserted, NoMatch, Match, Statuses

LEMMA CommitScanKeeps ==
    ASSUME BrandInv, NEW w \in Monitors, CommitScan(w)
    PROVE  BrandInv'
<1>1. PICK found \in SUBSET Findable(w) : \E high \in SUBSET MayBeHigh(found) :
          matches' = [r \in Hits |-> IF r \in found THEN [Upserted(r) EXCEPT !.fired = @ \/ r \in high] ELSE matches[r]]
  BY DEF CommitScan
<1>2. PICK high \in SUBSET MayBeHigh(found) :
          matches' = [r \in Hits |-> IF r \in found THEN [Upserted(r) EXCEPT !.fired = @ \/ r \in high] ELSE matches[r]]
  BY <1>1
<1>3. ASSUME NEW r \in Hits, r \in found PROVE Refound(r) /\ matches'[r] \in Match
  <2>1. matches'[r] = [Upserted(r) EXCEPT !.fired = @ \/ r \in high]
    BY <1>2, <1>3
  <2>2. Upserted(r) \in Match
    BY UpsertedRow
  <2>. QED
    BY <2>1, <2>2, UpsertedRow DEF Refound, Match
<1>4. \A r \in Hits : r \notin found => matches'[r] = matches[r] /\ matches[r] \in Match
  BY <1>2 DEF BrandInv, MatchRows
<1>5. matches' = [r \in Hits |-> matches'[r]]
  BY <1>2
<1>6. matches' \in [Hits -> Match]
  BY <1>3, <1>4, <1>5
<1>7. decision' = decision
  BY DEF CommitScan, analysts
<1>. QED
  BY <1>3, <1>4, <1>6, <1>7, FoundKeeps

LEMMA CertificateKeeps ==
    ASSUME BrandInv, NEW r \in Hits, CertificateMatch(r)
    PROVE  BrandInv'
<1>1. decision' = decision
  BY DEF CertificateMatch, analysts
<1>2. \A q \in Hits : matches'[q] = matches[q] \/ (q = r /\ matches'[q] = Upserted(r))
  BY DEF CertificateMatch, BrandInv, MatchRows
<1>3. matches' \in [Hits -> Match]
  BY UpsertedRow DEF CertificateMatch, BrandInv, MatchRows
<1>4. \A q \in Hits : matches'[q] = matches[q] \/ Refound(q)
  BY <1>2, UpsertedRow DEF Refound
<1>. QED
  BY <1>1, <1>3, <1>4, FoundKeeps

LEMMA DecideKeeps ==
    ASSUME BrandInv, NEW r \in Hits, NEW s \in Statuses \cup {"none"}, NEW until \in BOOLEAN, Decide(r, s, until),
           s = "none" => ~until
    PROVE  BrandInv'
<1>1. /\ matches \in [Hits -> Match] /\ decision \in [Hits -> Decision]
      /\ \A q \in Hits : matches[q].status = "none" => ~matches[q].until
  BY DEF BrandInv, MatchRows
<1>2. PICK m : m = [matches[r] EXCEPT !.status = s, !.until = until]
  OBVIOUS
<1>3. m \in Match /\ m.status = s /\ m.until = until
  BY <1>1, <1>2 DEF Match
<1>4. PICK d \in Decision : d = [status |-> s, until |-> until]
  BY DEF Decision
<1>5. matches' = [matches EXCEPT ![r] = m] /\ decision' = [decision EXCEPT ![r] = d]
  BY <1>2, <1>4 DEF Decide
<1>6. \A q \in Hits : matches'[q] = (IF q = r THEN m ELSE matches[q]) /\ decision'[q] = (IF q = r THEN d ELSE decision[q])
  BY <1>1, <1>5
<1>7. matches' \in [Hits -> Match] /\ decision' \in [Hits -> Decision]
  BY <1>1, <1>3, <1>5
<1>8. MatchRows'
  BY <1>1, <1>3, <1>6, <1>7 DEF MatchRows
<1>9. DecisionsStand'
  BY <1>3, <1>4, <1>6 DEF BrandInv, DecisionsStand
<1>. QED
  BY <1>8, <1>9 DEF BrandInv

LEMMA SweepKeeps == BrandInv /\ ExpirySweep => BrandInv'
<1> SUFFICES ASSUME BrandInv, ExpirySweep PROVE BrandInv'
  OBVIOUS
<1> USE DEF BrandInv, MatchRows
<1>1. decision' = decision
  BY DEF ExpirySweep, analysts
<1>2. PICK over \in SUBSET {r \in Hits : matches[r].status = "dismissed" /\ matches[r].until} :
          matches' = [r \in Hits |->
              IF r \in over THEN [matches[r] EXCEPT !.status = "new", !.until = FALSE] ELSE matches[r]]
  BY DEF ExpirySweep
<1>3. MatchRows'
  BY <1>1, <1>2 DEF Match, Statuses
<1>4. \A r \in Hits : \/ matches'[r] = matches[r]
                      \/ /\ matches[r].status = "dismissed" /\ matches[r].until
                         /\ matches'[r].status = "new" /\ matches'[r].until = FALSE
  BY <1>2 DEF Match
<1>5. DecisionsStand'
  BY <1>1, <1>4, BrandRows DEF DecisionsStand
<1>. QED
  BY <1>3, <1>5

LEMMA PurgeKeeps == BrandInv /\ GdprPurge => BrandInv'
<1> SUFFICES ASSUME BrandInv, GdprPurge PROVE BrandInv'
  OBVIOUS
<1> USE DEF BrandInv, MatchRows
<1>1. PICK old \in SUBSET Hits :
          /\ matches' = [r \in Hits |-> IF r \in old THEN NoMatch ELSE matches[r]]
          /\ decision' = [r \in Hits |-> IF r \in old THEN NoDecision ELSE decision[r]]
  BY DEF GdprPurge
<1>2. MatchRows' /\ DecisionsStand'
  BY <1>1, BrandRows DEF DecisionsStand
<1>. QED
  BY <1>2

LEMMA BrandInvNext == BrandInv /\ [BrandNext]_brandVars => BrandInv'
<1> SUFFICES ASSUME BrandInv, [BrandNext]_brandVars PROVE BrandInv'
  OBVIOUS
<1>1. CASE UNCHANGED <<matches, decision>>
  BY <1>1 DEF BrandInv, MatchRows, DecisionsStand
<1>2. ASSUME NEW t \in Terms, NEW rank, NEW consent, CreateTerm(t, rank, consent) \/ PatchTerm(t) \/ EditStoplist(t)
      PROVE  UNCHANGED <<matches, decision>>
  BY <1>2 DEF CreateTerm, PatchTerm, EditStoplist
<1>3. BrandTick \/ RefreshPatterns \/ NoiseSweep \/ UNCHANGED brandVars => UNCHANGED <<matches, decision>>
  BY DEF BrandTick, RefreshPatterns, NoiseSweep, brandVars, analysts
<1>4. ASSUME NEW w \in Monitors, LoadTerms(w) \/ AbortScan(w) \/ FailScan(w) PROVE UNCHANGED <<matches, decision>>
  BY <1>4 DEF LoadTerms, AbortScan, FailScan, analysts
<1>5. ASSUME NEW r \in Hits, NEW s \in Statuses, PatchMatch(r, s) PROVE BrandInv'
  <2>1. (CASE s = "dismissed" -> TRUE [] s = "new" -> FALSE [] OTHER -> matches[r].until) \in BOOLEAN
    BY BrandRows DEF BrandInv, MatchRows
  <2>2. s # "none"
    BY DEF Statuses
  <2>. QED
    BY <1>5, <2>1, <2>2, DecideKeeps DEF PatchMatch
<1>6. ASSUME NEW r \in Hits, ExtendDismissal(r) PROVE BrandInv'
  <2>1. CASE Decide(r, "new", FALSE)
    BY <2>1, DecideKeeps DEF Statuses
  <2>2. ASSUME NEW until \in BOOLEAN, Decide(r, matches[r].status, until) PROVE BrandInv'
    <3>1. matches[r].status \in Statuses \cup {"none"} /\ matches[r].status # "none"
      BY <2>2, BrandRows DEF Decide, BrandInv, MatchRows
    <3>. QED
      BY <2>2, <3>1, DecideKeeps
  <2>. QED
    BY <1>6, <2>1, <2>2 DEF ExtendDismissal
<1>. QED
  BY <1>1, <1>2, <1>3, <1>4, <1>5, <1>6, CommitScanKeeps, CertificateKeeps, SweepKeeps, PurgeKeeps DEF BrandNext

LEMMA BrandInitInv == BrandInit => BrandInv
<1> SUFFICES ASSUME BrandInit PROVE MatchRows /\ DecisionsStand
  BY DEF BrandInv
<1>1. matches = [r \in Hits |-> NoMatch] /\ decision = [r \in Hits |-> NoDecision]
  BY DEF BrandInit
<1>2. MatchRows
  BY <1>1, BrandRows DEF MatchRows
<1>3. \A r \in Hits : /\ matches[r].status = "none" /\ matches[r].until = FALSE
                     /\ decision[r].status = "none" /\ decision[r].until = FALSE
  BY <1>1, BrandRows
<1>4. DecisionsStand
  BY <1>3 DEF DecisionsStand
<1>. QED
  BY <1>2, <1>4

\* For any terms, matches, worker threads and requests, scans, the certificate worker and
\* the sweeps leave a match as an analyst left it, until a dismissal with an end is over.
THEOREM DecisionsStandCorrect == BrandSpec => []DecisionsStand
<1>1. BrandInv => DecisionsStand
  BY DEF BrandInv
<1>. QED
  BY <1>1, BrandInitInv, BrandInvNext, PTL DEF BrandSpec

-----------------------------------------------------------------------------
(* Matches: the rows and the scans *)

Scanning == {w \in Monitors : monitor[w].at # "idle"}
Known == {t \in Terms : terms[t].mode # "none"}

\* What BrandInv does not say of the state: a term that a match, a scan or the certificate worker
\* has is there, and a message of the scan goes back to a tick.
BrandRest ==
    /\ terms \in [Terms -> [mode : {"none", "active", "watch_only"}, archived : BOOLEAN]]
    /\ stoplist \subseteq Terms
    /\ \A r \in Hits : matches[r].status # "none" => r[1] \in Known
    /\ followed \in [enabled : BOOLEAN, terms : SUBSET Terms] /\ followed.terms \subseteq Known
    /\ monitor \in [Monitors -> BrandScan] /\ \A w \in Monitors : monitor[w].terms \subseteq Known
    /\ ticks \in 0..MaxTicks /\ edits \in 0..MaxEdits
    /\ reported \subseteq Hits
    /\ scanJobs = [n \in 0..ScanRetries |-> scanJobs[n]]
    /\ SentBack(ticks, scanJobs, ScanRetries, Scanning)

LEMMA ScansShape ==
    /\ {NoiseThreshold, ScanRetries, MaxTicks, MaxEdits} \subseteq Nat
    /\ NoScan \in BrandScan /\ NoScan.at = "idle" /\ NoScan.terms = {}
    /\ \A r \in Hits : r[1] \in Terms
BY BrandBounds, HitsKnown DEF NoScan, BrandScan

LEMMA BrandRestInit == BrandInit => BrandRest
<1> SUFFICES ASSUME BrandInit PROVE BrandRest
    OBVIOUS
<1>1. /\ ticks = 0 /\ edits = 0 /\ reported = {} /\ stoplist = {} /\ scanJobs = [n \in 0..ScanRetries |-> 0]
      /\ monitor = [w \in Monitors |-> NoScan] /\ matches = [r \in Hits |-> NoMatch]
    BY DEF BrandInit
<1>2. Scanning = {}
  <2>1. \A w \in Monitors : monitor[w].at = "idle"
      BY <1>1 DEF NoScan
  <2> QED
      BY <2>1 DEF Scanning
<1>3. terms \in [Terms -> [mode : {"none", "active", "watch_only"}, archived : BOOLEAN]]
  <2> DEFINE Fresh == {[mode |-> m, archived |-> FALSE] : m \in {"none", "active"}}
  <2>1. terms \in [Terms -> Fresh]
      BY DEF BrandInit
  <2>2. Fresh \subseteq [mode : {"none", "active", "watch_only"}, archived : BOOLEAN]
    <3> SUFFICES ASSUME NEW m \in {"none", "active"}
                 PROVE  [mode |-> m, archived |-> FALSE] \in [mode : {"none", "active", "watch_only"}, archived : BOOLEAN]
        OBVIOUS
    <3>1. m \in {"none", "active", "watch_only"} /\ FALSE \in BOOLEAN
        OBVIOUS
    <3> QED
        BY <3>1
  <2> HIDE DEF Fresh
  <2> QED
      BY <2>1, <2>2
<1>4. followed \in [enabled : BOOLEAN, terms : SUBSET Terms] /\ followed.terms = {}
    BY DEF BrandInit
<1>5. SentBack(ticks, scanJobs, ScanRetries, Scanning)
    BY <1>1, <1>2, ScansShape, SentBackNone
<1>6. ticks \in 0..MaxTicks /\ edits \in 0..MaxEdits /\ scanJobs = [n \in 0..ScanRetries |-> scanJobs[n]]
    BY <1>1, ScansShape
<1>7. monitor \in [Monitors -> BrandScan] /\ \A w \in Monitors : monitor[w].terms = {}
    BY <1>1, ScansShape
<1>8. \A r \in Hits : matches[r].status = "none"
    BY <1>1, BrandRows
<1> QED
    BY <1>1, <1>3, <1>4, <1>5, <1>6, <1>7, <1>8 DEF BrandRest

\* A step of an analyst or a sweep takes no term away and no message.
LEMMA BrandTermsKept ==
    ASSUME BrandRest, UNCHANGED scans, followed' = followed,
           terms' \in [Terms -> [mode : {"none", "active", "watch_only"}, archived : BOOLEAN]],
           Known \subseteq Known', stoplist' \subseteq Terms, edits' \in 0..MaxEdits,
           \A r \in Hits : matches'[r].status # "none" => matches[r].status # "none"
    PROVE  BrandRest'
BY DEF BrandRest, scans, Scanning

\* A scan ends: its message is gone or waits again.
LEMMA ScanEnded ==
    ASSUME BrandRest, NEW w \in Monitors, monitor[w].at = "scanning", monitor' = [monitor EXCEPT ![w] = NoScan],
           UNCHANGED <<analysts, followed, ticks>>, reported' \subseteq Hits,
           \A r \in Hits : matches'[r].status # "none" => matches[r].status # "none" \/ r[1] \in Known,
           \/ scanJobs' = scanJobs
           \/ scanJobs' = [n \in 0..ScanRetries |->
                               IF n = monitor[w].failed + 1 THEN scanJobs[n] + 1 ELSE scanJobs[n]]
    PROVE  BrandRest'
<1>1. monitor[w] \in BrandScan /\ monitor \in [Monitors -> BrandScan] /\ w \in Scanning
    BY DEF BrandRest, Scanning
<1>2. Scanning' = Scanning \ {w}
    BY <1>1, ScansShape DEF Scanning
<1>3. ScanRetries \in Nat /\ ticks \in Nat /\ monitor[w].failed \in 0..ScanRetries
    BY <1>1, ScansShape DEF BrandRest, BrandScan
<1>4. Known' = Known
    BY DEF Known, analysts
<1>5. SentBack(ticks, scanJobs', ScanRetries, Scanning \ {w}) /\ scanJobs' = [n \in 0..ScanRetries |-> scanJobs'[n]]
  <2>1. CASE \A n \in 0..ScanRetries : scanJobs'[n] = scanJobs[n]
    <3>1. SentBack(ticks, scanJobs, ScanRetries, Scanning \ {w})
        BY <1>3, SentBackDone DEF BrandRest
    <3>2. SentBack(ticks, scanJobs', ScanRetries, Scanning \ {w})
        BY <2>1, <3>1, SentBackSame
    <3> QED
        BY <3>2 DEF BrandRest
  <2>2. CASE /\ monitor[w].failed + 1 \in 0..ScanRetries
             /\ scanJobs' = [n \in 0..ScanRetries |->
                               IF n = monitor[w].failed + 1 THEN scanJobs[n] + 1 ELSE scanJobs[n]]
    <3>1. PICK k \in 0..ScanRetries : k = monitor[w].failed + 1
        BY <2>2
    <3>2. scanJobs'[k] = scanJobs[k] + 1 /\ \A n \in 0..ScanRetries \ {k} : scanJobs'[n] = scanJobs[n]
        BY <2>2, <3>1
    <3>3. SentBack(ticks, scanJobs', ScanRetries, Scanning \ {w})
        BY <1>1, <1>3, <3>2, SentBackAgain DEF BrandRest
    <3> QED
        BY <2>2, <3>3
  <2> QED
      BY <2>1, <2>2
<1>6. monitor' \in [Monitors -> BrandScan] /\ \A v \in Monitors : monitor'[v].terms \subseteq Known
    BY <1>1, ScansShape DEF BrandRest
<1> QED
    BY <1>2, <1>4, <1>5, <1>6 DEF BrandRest, analysts

LEMMA BrandRestNext == BrandInv /\ BrandRest /\ [BrandNext]_brandVars => BrandRest'
<1> SUFFICES ASSUME BrandInv, BrandRest, [BrandNext]_brandVars PROVE BrandRest'
    OBVIOUS
<1>0. /\ ScanRetries \in Nat /\ MaxTicks \in Nat /\ MaxEdits \in Nat /\ ticks \in Nat /\ edits \in Nat
      /\ terms \in [Terms -> [mode : {"none", "active", "watch_only"}, archived : BOOLEAN]]
      /\ monitor \in [Monitors -> BrandScan] /\ matches \in [Hits -> Match]
    BY ScansShape DEF BrandRest, BrandInv, MatchRows
<1>1. BrandRequest => edits' \in 0..MaxEdits
    BY <1>0 DEF BrandRequest
<1>2. ASSUME NEW t \in Terms, NEW rank, NEW consent, CreateTerm(t, rank, consent) PROVE BrandRest'
  <2>1. terms' \in [Terms -> [mode : {"none", "active", "watch_only"}, archived : BOOLEAN]] /\ Known \subseteq Known'
      BY <1>0, <1>2 DEF CreateTerm, Known
  <2> QED
      BY <1>1, <1>2, <2>1, BrandTermsKept DEF CreateTerm, BrandRest
<1>3. ASSUME NEW t \in Terms, PatchTerm(t) PROVE BrandRest'
  <2>1. terms' \in [Terms -> [mode : {"none", "active", "watch_only"}, archived : BOOLEAN]] /\ Known \subseteq Known'
      BY <1>0, <1>3 DEF PatchTerm, Known
  <2> QED
      BY <1>1, <1>3, <2>1, BrandTermsKept DEF PatchTerm, BrandRest
<1>4. ASSUME NEW t \in Terms, EditStoplist(t) PROVE BrandRest'
  <2>1. Known \subseteq Known'
      BY <1>4 DEF EditStoplist, Known
  <2> QED
      BY <1>1, <1>4, <2>1, BrandTermsKept DEF EditStoplist, BrandRest
<1>5. ASSUME NEW r \in Hits, NEW s, NEW until, Decide(r, s, until) PROVE BrandRest'
  <2>1. \A q \in Hits : matches'[q].status # "none" => matches[q].status # "none"
      BY <1>0, <1>5 DEF Decide
  <2>2. Known \subseteq Known'
      BY <1>5 DEF Decide, Known
  <2> QED
      BY <1>1, <1>5, <2>1, <2>2, BrandTermsKept DEF Decide, BrandRest
<1>6. ASSUME NEW r \in Hits, NEW s \in Statuses, PatchMatch(r, s) PROVE BrandRest'
    BY <1>5, <1>6 DEF PatchMatch
<1>7. ASSUME NEW r \in Hits, ExtendDismissal(r) PROVE BrandRest'
    BY <1>5, <1>7 DEF ExtendDismissal
<1>8. ASSUME NEW r \in Hits, CertificateMatch(r) PROVE BrandRest'
  <2>1. UNCHANGED <<analysts, scans, followed>> /\ r[1] \in Known
      BY <1>8 DEF CertificateMatch, BrandRest
  <2>2. \A q \in Hits : q # r => matches'[q] = matches[q]
      BY <1>0, <1>8 DEF CertificateMatch
  <2>3. Known' = Known /\ Scanning' = Scanning
      BY <2>1 DEF analysts, scans, Known, Scanning
  <2>4. \A q \in Hits : matches'[q].status # "none" => q[1] \in Known
      BY <2>1, <2>2 DEF BrandRest
  <2> QED
      BY <2>1, <2>3, <2>4 DEF BrandRest, analysts, scans
<1>9. CASE BrandTick
  <2>1. /\ ticks < MaxTicks /\ ticks' = ticks + 1 /\ scanJobs' = [scanJobs EXCEPT ![0] = @ + 1]
        /\ UNCHANGED <<analysts, matches, followed, monitor, reported>>
      BY <1>9 DEF BrandTick
  <2>0. 0 \in 0..ScanRetries /\ scanJobs = [n \in 0..ScanRetries |-> scanJobs[n]]
      BY <1>0 DEF BrandRest
  <2>a. scanJobs' = [n \in 0..ScanRetries |-> scanJobs'[n]]
      BY <2>0, <2>1
  <2>2. scanJobs'[0] = scanJobs[0] + 1 /\ \A n \in 1..ScanRetries : scanJobs'[n] = scanJobs[n]
    <3>1. \A n \in 1..ScanRetries : n \in 0..ScanRetries /\ n # 0
        OBVIOUS
    <3> QED
        BY <2>0, <2>1, <3>1
  <2>3. SentBack(ticks + 1, scanJobs', ScanRetries, Scanning)
      BY <1>0, <2>2, SentBackSent DEF BrandRest
  <2>4. ticks' \in 0..MaxTicks /\ Scanning' = Scanning /\ Known' = Known
      BY <1>0, <2>1 DEF Scanning, Known, analysts
  <2> QED
      BY <2>1, <2>a, <2>3, <2>4 DEF BrandRest, analysts
<1>10. CASE RefreshPatterns
  <2>1. followed' \in [enabled : BOOLEAN, terms : SUBSET Terms] /\ followed'.terms \subseteq Known
      BY <1>10 DEF RefreshPatterns, BrandRest, Known
  <2> QED
      BY <1>10, <2>1 DEF RefreshPatterns, BrandRest, analysts, scans, Known, Scanning
<1>11. CASE ExpirySweep
  <2>1. UNCHANGED <<analysts, scans, followed>> /\ \A q \in Hits : matches'[q].status # "none" => matches[q].status # "none"
      BY <1>0, <1>11 DEF ExpirySweep
  <2> QED
      BY <2>1, BrandTermsKept DEF analysts, BrandRest, Known
<1>12. CASE GdprPurge
  <2>1. UNCHANGED <<terms, stoplist, edits, scans, followed>>
      BY <1>12 DEF GdprPurge
  <2>2. \A q \in Hits : matches'[q].status # "none" => matches[q].status # "none"
      BY <1>12, BrandRows DEF GdprPurge
  <2> QED
      BY <2>1, <2>2, BrandTermsKept DEF BrandRest, Known
<1>13. CASE NoiseSweep
  <2>1. PICK recent : terms' = [t \in Terms |->
              IF /\ terms[t].mode = "active" /\ ~terms[t].archived
                 /\ Cardinality({r \in recent : r[1] = t}) > NoiseThreshold
              THEN [terms[t] EXCEPT !.mode = "watch_only"] ELSE terms[t]]
      BY <1>13 DEF NoiseSweep
  <2>2. \A t \in Terms : terms'[t] = terms[t] \/ terms'[t] = [terms[t] EXCEPT !.mode = "watch_only"]
      BY <2>1
  <2>3. DOMAIN terms' = Terms /\ terms' = [t \in Terms |-> terms'[t]]
      BY <2>1
  <2>4. terms' \in [Terms -> [mode : {"none", "active", "watch_only"}, archived : BOOLEAN]] /\ Known \subseteq Known'
      BY <1>0, <2>2, <2>3 DEF Known
  <2> QED
      BY <1>13, <2>4, BrandTermsKept DEF NoiseSweep, BrandRest
<1>14. ASSUME NEW w \in Monitors, LoadTerms(w) PROVE BrandRest'
  <2>1. PICK n \in 0..ScanRetries :
          /\ scanJobs[n] > 0
          /\ scanJobs' = [scanJobs EXCEPT ![n] = @ - 1]
          /\ monitor' = [monitor EXCEPT ![w] =
                [at |-> "scanning", failed |-> n, stopped |-> stoplist,
                 terms |-> {t \in Terms : terms[t].mode = "active" /\ ~terms[t].archived}]]
      BY <1>14 DEF LoadTerms
  <2>2. w \notin Scanning /\ UNCHANGED <<analysts, matches, followed, ticks, reported>>
      BY <1>14 DEF LoadTerms, Scanning
  <2> DEFINE active == {t \in Terms : terms[t].mode = "active" /\ ~terms[t].archived}
  <2>3. active \subseteq Known /\ active \subseteq Terms
      BY DEF Known
  <2>4. monitor' = [monitor EXCEPT ![w] = [at |-> "scanning", failed |-> n, stopped |-> stoplist, terms |-> active]]
      BY <2>1
  <2> HIDE DEF active
  <2>5. monitor' \in [Monitors -> BrandScan] /\ \A v \in Monitors : monitor'[v].terms \subseteq Known
    <3>1. [at |-> "scanning", failed |-> n, stopped |-> stoplist, terms |-> active] \in BrandScan
        BY <2>3 DEF BrandScan, BrandRest
    <3> QED
        BY <1>0, <2>3, <2>4, <3>1 DEF BrandRest
  <2>6. Scanning' = Scanning \cup {w}
      BY <1>0, <2>4 DEF Scanning
  <2>7. /\ scanJobs' = [k \in 0..ScanRetries |-> scanJobs'[k]]
        /\ scanJobs'[n] = scanJobs[n] - 1 /\ \A k \in 0..ScanRetries \ {n} : scanJobs'[k] = scanJobs[k]
      BY <2>1 DEF BrandRest
  <2>8. SentBack(ticks, scanJobs', ScanRetries, Scanning \cup {w})
      BY <1>0, <2>1, <2>2, <2>7, SentBackTaken DEF BrandRest
  <2> QED
      BY <2>2, <2>5, <2>6, <2>7, <2>8 DEF BrandRest, analysts, Known
<1>15. ASSUME NEW w \in Monitors, CommitScan(w) PROVE BrandRest'
  <2>1. /\ monitor[w].at = "scanning" /\ monitor' = [monitor EXCEPT ![w] = NoScan]
        /\ UNCHANGED <<analysts, followed, scanJobs, ticks>>
      BY <1>15 DEF CommitScan
  <2>2. PICK found \in SUBSET Findable(w) : \E high \in SUBSET MayBeHigh(found) :
          /\ matches' = [r \in Hits |->
                IF r \in found THEN [Upserted(r) EXCEPT !.fired = @ \/ r \in high] ELSE matches[r]]
          /\ reported' = reported \cup high
      BY <1>15 DEF CommitScan
  <2>3. Findable(w) \subseteq {r \in Hits : r[1] \in Known}
      BY DEF Findable, BrandRest
  <2>4. reported' \subseteq Hits
      BY <2>2, <2>3 DEF MayBeHigh, BrandRest
  <2>5. \A r \in Hits : matches'[r].status # "none" => matches[r].status # "none" \/ r[1] \in Known
      BY <2>2, <2>3
  <2> QED
      BY <2>1, <2>4, <2>5, ScanEnded
<1>16. ASSUME NEW w \in Monitors, AbortScan(w) \/ FailScan(w) PROVE BrandRest'
  <2>1. monitor[w].at = "scanning" /\ ScanAgain(w) /\ UNCHANGED <<analysts, matches, followed, ticks>>
      BY <1>16 DEF AbortScan, FailScan
  <2>2. reported' \subseteq Hits
      BY <1>16 DEF AbortScan, FailScan, MayBeHigh, Findable, BrandRest
  <2> QED
      BY <2>1, <2>2, ScanEnded DEF ScanAgain
<1>17. CASE UNCHANGED brandVars
    BY <1>17 DEF brandVars, analysts, scans, BrandRest, Known, Scanning
<1> QED
    BY <1>2, <1>3, <1>4, <1>6, <1>7, <1>8, <1>9, <1>10, <1>11, <1>12, <1>13, <1>14, <1>15, <1>16, <1>17 DEF BrandNext

LEMMA BrandTyped == BrandInv /\ BrandRest => BrandTypeOK
<1> SUFFICES ASSUME BrandInv, BrandRest PROVE BrandTypeOK
    OBVIOUS
<1>1. ScanRetries \in Nat /\ MaxTicks \in Nat /\ ticks \in Nat /\ ticks <= MaxTicks
    BY ScansShape DEF BrandRest
<1>2. \A n \in 0..ScanRetries : scanJobs[n] \in 0..MaxTicks
  <2>1. \A n \in 0..ScanRetries : scanJobs[n] \in 0..ticks
      BY <1>1, SentBackBounds DEF BrandRest
  <2> QED
      BY <1>1, <2>1
<1>3. scanJobs \in [0..ScanRetries -> 0..MaxTicks]
    BY <1>2 DEF BrandRest
<1> QED
    BY <1>3 DEF BrandTypeOK, BrandRest, BrandInv, MatchRows, Known

\* For any terms, hits, scans and requests: the rows are well formed, a match has a term, and no
\* more scans wait than the scheduler has sent (scan_project, certstream_worker, brand_monitor_tick_job).
THEOREM BrandTypeCorrect == BrandSpec => []BrandTypeOK
BY BrandInitInv, BrandRestInit, BrandInvNext, BrandRestNext, BrandTyped, PTL DEF BrandSpec

-----------------------------------------------------------------------------
(* Findings *)

\* Scans are launched in the order of their numbers, ...
InOrder == Launched \in 0..MaxScans /\ {s \in ScanIds : scanRow[s] # "none"} = 1..Launched

\* ... only launched ones have an actor and report, ...
Reporting ==
    /\ acting \subseteq 1..Launched
    /\ seenBy \in [ScanIds -> SUBSET Assets]
    /\ \A s \in ScanIds : seenBy[s] # {} => s <= Launched

\* ... and what they have reported is seen no earlier and, as long as no two actors
\* overlap, is no earlier scan's.
SeenSince ==
    /\ finding \in [Assets -> Finding]
    /\ ~crossing => \A s \in acting : s = Launched
    /\ \A s \in ScanIds : \A t \in seenBy[s] \cap Found :
          s <= finding[t].seen /\ (~crossing => s <= finding[t].scan)

SurfaceInv == scanRow \in [ScanIds -> {"none", "active", "finished", "stopped", "deleted"}]
              /\ InOrder /\ Reporting /\ SeenSince

LEMMA Scanned ==
    /\ MaxScans \in Nat /\ ScanIds \subseteq Nat \ {0} /\ NoFinding \in Finding /\ NoFinding.scan = NoScanId
    /\ \A f \in Finding : f.scan \in Nat /\ f.seen \in Nat
<1>1. MaxScans \in Nat
  BY SurfaceBounds
<1>. QED
  BY <1>1 DEF ScanIds, NoFinding, Finding, NoScanId, Lifecycle

LEMMA SurfaceInitInv == SurfaceInit => SurfaceInv
<1> SUFFICES ASSUME SurfaceInit PROVE SurfaceInv
  OBVIOUS
<1>1. {s \in ScanIds : scanRow[s] # "none"} = {} /\ Launched = 0
  <2>1. {s \in ScanIds : scanRow[s] # "none"} = {}
    BY DEF SurfaceInit
  <2>. QED
    BY <2>1, FS_EmptySet DEF Launched
<1>2. InOrder
  BY <1>1, Scanned DEF InOrder
<1>3. Reporting /\ SeenSince
  BY Scanned DEF SurfaceInit, Reporting, SeenSince
<1>. QED
  BY <1>2, <1>3 DEF SurfaceInv, SurfaceInit

\* A step that launches no scan leaves the count as it is.
LEMMA SameLaunched ==
    ASSUME SurfaceInv, scanRow' \in [ScanIds -> {"none", "active", "finished", "stopped", "deleted"}],
           \A s \in ScanIds : scanRow'[s] = "none" <=> scanRow[s] = "none"
    PROVE  Launched' = Launched /\ InOrder'
<1>1. {s \in ScanIds : scanRow'[s] # "none"} = {s \in ScanIds : scanRow[s] # "none"}
  OBVIOUS
<1>2. Launched' = Launched
  BY <1>1 DEF Launched
<1>. QED
  BY <1>1, <1>2 DEF SurfaceInv, InOrder

LEMMA LaunchKeeps == SurfaceInv /\ LaunchScan => SurfaceInv'
<1> SUFFICES ASSUME SurfaceInv, LaunchScan PROVE SurfaceInv'
  OBVIOUS
<1> USE DEF SurfaceInv
<1>1. /\ Launched + 1 \in ScanIds /\ Launched \in 0..MaxScans
      /\ scanRow' = [scanRow EXCEPT ![Launched + 1] = "active"]
      /\ acting' = acting \cup {Launched + 1}
      /\ crossing' = (crossing \/ acting # {})
      /\ UNCHANGED <<finding, seenBy>>
  BY DEF LaunchScan, InOrder
<1>2. {s \in ScanIds : scanRow'[s] # "none"} = 1..(Launched + 1)
  BY <1>1, Scanned DEF InOrder, ScanIds
<1>3. Launched' = Launched + 1
  <2>1. Launched \in Nat
    BY <1>1, Scanned
  <2>2. Launched' = Cardinality(1..(Launched + 1))
    BY <1>2 DEF Launched
  <2>3. Launched + 1 \in Int /\ ~(1 > Launched + 1) /\ (Launched + 1) - 1 + 1 = Launched + 1
    BY <2>1
  <2> HIDE DEF Launched
  <2>. QED
    BY <2>2, <2>3, FS_Interval
<1>4. InOrder'
  BY <1>1, <1>2, <1>3, Scanned DEF InOrder, ScanIds
<1>5. Reporting'
  BY <1>1, <1>3, Scanned DEF Reporting
<1>6. SeenSince'
  BY <1>1, <1>3, Scanned DEF SeenSince, Found
<1>. QED
  BY <1>1, <1>4, <1>5, <1>6

LEMMA PersistKeeps ==
    ASSUME SurfaceInv, NEW s \in ScanIds, NEW t \in Assets, PersistFinding(s, t)
    PROVE  SurfaceInv'
<1> USE DEF SurfaceInv
<1>1. PICK raw \in Contents : finding' = [finding EXCEPT ![t] = UpsertFinding(s, t, raw)]
  BY DEF PersistFinding
<1>2. /\ s \in acting /\ seenBy' = [seenBy EXCEPT ![s] = @ \cup {t}]
      /\ UNCHANGED <<scanRow, acting, crossing>>
  BY DEF PersistFinding
<1>3. Launched' = Launched /\ InOrder'
  BY <1>2, SameLaunched
<1>4. s \in 1..Launched /\ Launched \in 0..MaxScans /\ s # 0
  BY <1>2, Scanned DEF Reporting, InOrder
<1>5. finding[t] \in Finding
  BY DEF SeenSince
<1>6. /\ UpsertFinding(s, t, raw) \in Finding
      /\ UpsertFinding(s, t, raw).scan = s /\ UpsertFinding(s, t, raw).seen = Launched
  <2>1. Launched \in 0..MaxScans /\ s \in 0..MaxScans /\ raw \in Contents \cup {"none"}
    BY <1>4, Scanned DEF ScanIds
  <2>2. CASE t \in Found
    BY <1>5, <2>1, <2>2 DEF UpsertFinding, Finding
  <2>3. CASE t \notin Found
    BY <2>1, <2>3 DEF UpsertFinding, Finding, Lifecycle
  <2>. QED
    BY <2>2, <2>3
<1>7. /\ finding' \in [Assets -> Finding] /\ finding'[t].scan = s /\ finding'[t].seen = Launched
      /\ \A u \in Assets \ {t} : finding'[u] = finding[u]
  BY <1>1, <1>6 DEF SeenSince
<1>8. Reporting'
  BY <1>2, <1>3, <1>4, Scanned DEF Reporting
<1>9. SeenSince'
  <2>1. ~crossing' => \A r \in acting' : r = Launched'
    BY <1>2, <1>3 DEF SeenSince
  <2>2. ASSUME NEW r \in ScanIds, NEW u \in (seenBy'[r] \cap Found')
        PROVE  r <= finding'[u].seen /\ (~crossing' => r <= finding'[u].scan)
    <3>1. CASE u = t
      <4>1. r <= Launched
        BY <1>3, <1>8, <2>2 DEF Reporting
      <4>2. ~crossing => s = Launched
        BY <1>2 DEF SeenSince
      <4>. QED
        BY <1>2, <1>7, <3>1, <4>1, <4>2
    <3>2. CASE u # t
      <4>1. u \in seenBy[r] \cap Found
        BY <1>2, <1>7, <2>2, <3>2 DEF Found, Reporting
      <4>2. u \in Assets
        BY <2>2 DEF Found
      <4>. QED
        BY <1>2, <1>7, <3>2, <4>1, <4>2 DEF SeenSince
    <3>. QED
      BY <3>1, <3>2
  <2>. QED
    BY <1>7, <2>1, <2>2 DEF SeenSince
<1>. QED
  BY <1>2, <1>3, <1>8, <1>9

\* The rows of scans change their status, findings what analysts say of them, or go.
LEMMA OthersKeep ==
    ASSUME SurfaceInv, UNCHANGED <<seenBy, crossing>>, acting' \subseteq acting,
           scanRow' \in [ScanIds -> {"none", "active", "finished", "stopped", "deleted"}],
           \A s \in ScanIds : scanRow'[s] = "none" <=> scanRow[s] = "none",
           finding' \in [Assets -> Finding],
           \A t \in Assets : \/ finding'[t].scan = NoScanId
                             \/ finding'[t].scan = finding[t].scan /\ finding'[t].seen = finding[t].seen
    PROVE  SurfaceInv'
<1> USE DEF SurfaceInv
<1>1. Launched' = Launched /\ InOrder'
  BY SameLaunched
<1>2. Reporting'
  BY <1>1 DEF Reporting
<1>3. SeenSince'
  BY <1>1 DEF SeenSince, Found
<1>. QED
  BY <1>1, <1>2, <1>3

LEMMA SurfaceInvNext == SurfaceInv /\ [SurfaceNext]_surfaceVars => SurfaceInv'
<1> SUFFICES ASSUME SurfaceInv, [SurfaceNext]_surfaceVars PROVE SurfaceInv'
  OBVIOUS
<1>t. /\ scanRow \in [ScanIds -> {"none", "active", "finished", "stopped", "deleted"}]
      /\ finding \in [Assets -> Finding]
  BY DEF SurfaceInv, SeenSince
<1>1. ASSUME NEW s \in ScanIds, StopScan(s) PROVE SurfaceInv'
  BY <1>t, <1>1, OthersKeep DEF StopScan
<1>2. ASSUME NEW s \in ScanIds, EndScan(s) PROVE SurfaceInv'
  <2>1. scanRow[s] = "none" => s \notin ScanRows
    BY DEF ScanRows
  <2>2. /\ scanRow' \in [ScanIds -> {"none", "active", "finished", "stopped", "deleted"}]
        /\ \A r \in ScanIds : scanRow'[r] = "none" <=> scanRow[r] = "none"
    BY <1>t, <1>2, <2>1 DEF EndScan, ScanRows
  <2>. QED
    BY <1>t, <1>2, <2>2, OthersKeep DEF EndScan
<1>3. ASSUME NEW t \in Assets, NEW s \in Lifecycle, PatchFinding(t, s) PROVE SurfaceInv'
  <2>1. PICK until \in BOOLEAN :
            until = CASE s = "dismissed" -> TRUE [] s = "new" -> FALSE [] OTHER -> finding[t].until
    BY <1>t DEF Finding
  <2>3. PICK f : f = [finding[t] EXCEPT !.status = s, !.until = until]
    OBVIOUS
  <2>4. f \in Finding /\ f.scan = finding[t].scan /\ f.seen = finding[t].seen
    BY <1>t, <2>3 DEF Finding
  <2>5. finding' = [finding EXCEPT ![t].status = s, ![t].until = until]
    BY <1>3, <2>1 DEF PatchFinding
  <2>6. finding' = [finding EXCEPT ![t] = f]
    BY <1>t, <2>3, <2>5
  <2>2. /\ finding' \in [Assets -> Finding]
        /\ \A u \in Assets : finding'[u].scan = finding[u].scan /\ finding'[u].seen = finding[u].seen
    BY <1>t, <2>4, <2>6
  <2>. QED
    BY <1>t, <1>3, <2>2, OthersKeep DEF PatchFinding, scanning
<1>4. CASE DismissExpiry
  <2>2. /\ finding' \in [Assets -> Finding]
        /\ \A u \in Assets : finding'[u].scan = finding[u].scan /\ finding'[u].seen = finding[u].seen
    <3>1. PICK over \in SUBSET Found :
              finding' = [t \in Assets |->
                  IF t \in over THEN [finding[t] EXCEPT !.status = "new", !.until = FALSE] ELSE finding[t]]
      BY <1>4 DEF DismissExpiry
    <3>2. ASSUME NEW u \in Assets
          PROVE  finding'[u] \in Finding /\ finding'[u].scan = finding[u].scan /\ finding'[u].seen = finding[u].seen
      <4>1. finding[u] \in Finding
        BY <1>t
      <4>2. finding'[u] \in {finding[u], [finding[u] EXCEPT !.status = "new", !.until = FALSE]}
        BY <3>1
      <4>. QED
        BY <4>1, <4>2 DEF Finding, Lifecycle
    <3>. QED
      BY <3>1, <3>2
  <2>. QED
    BY <1>t, <1>4, <2>2, OthersKeep DEF DismissExpiry, scanning
<1>5. CASE CleanUp
  <2>1. /\ scanRow' \in [ScanIds -> {"none", "active", "finished", "stopped", "deleted"}]
        /\ \A r \in ScanIds : scanRow'[r] = "none" <=> scanRow[r] = "none"
    BY <1>t, <1>5 DEF CleanUp, ScanRows
  <2>2. /\ finding' \in [Assets -> Finding]
        /\ \A t \in Assets : finding'[t] = finding[t] \/ finding'[t].scan = NoScanId
    BY <1>t, <1>5, Scanned DEF CleanUp
  <2>. QED
    BY <1>5, <2>1, <2>2, OthersKeep DEF CleanUp
<1>6. ASSUME NEW t \in Assets, PatchNote(t) PROVE SurfaceInv'
  BY <1>t, <1>6, OthersKeep DEF PatchNote, scanning
<1>7. CASE UNCHANGED surfaceVars
  BY <1>t, <1>7, OthersKeep DEF surfaceVars, scanning
<1>. QED
  BY <1>1, <1>2, <1>3, <1>4, <1>5, <1>6, <1>7, LaunchKeeps, PersistKeeps DEF SurfaceNext

\* For any scans and targets, a target that a scan has reported is neither stale nor
\* resolved by it, whatever is launched, stopped, dismissed and cleaned up meanwhile.
THEOREM SeenCorrect == SurfaceSpec => []SeenIsNotGone
<1>1. ASSUME SurfaceInv PROVE SeenIsNotGone
  <2> USE <1>1 DEF SurfaceInv
  <2>1. ASSUME NEW s \in Finished, NEW t \in seenBy[s] \cap Found, Stale(t) PROVE \E r \in Finished : s < r
    <3>1. PICK r \in Finished : finding[t].seen < r
      BY <2>1 DEF Stale
    <3>2. s \in ScanIds /\ r \in ScanIds /\ t \in Assets
      BY DEF Finished, Found
    <3>3. s <= finding[t].seen /\ finding[t].seen \in Nat
      BY <3>2, Scanned DEF SeenSince
    <3>. QED
      BY <3>1, <3>2, <3>3, Scanned
  <2>2. ASSUME NEW s \in ScanRows, ~crossing, NEW t \in seenBy[s] \cap DiffResolved(s) PROVE FALSE
    <3>1. PICK r \in Prior(s) : t \in FindingsOf(r)
      BY <2>2 DEF DiffResolved
    <3>2. r < s /\ r \in ScanIds /\ s \in ScanIds
      BY DEF Prior, Finished, ScanRows
    <3>3. t \in Found /\ finding[t].scan = r
      BY <3>1 DEF FindingsOf
    <3>4. s <= r
      BY <2>2, <3>2, <3>3 DEF SeenSince
    <3>. QED
      BY <3>2, <3>4, Scanned
  <2>. QED
    BY <2>1, <2>2 DEF SeenIsNotGone
<1>. QED
  BY <1>1, SurfaceInitInv, SurfaceInvNext, PTL DEF SurfaceSpec

-----------------------------------------------------------------------------
(* Findings: the rows *)

\* What SurfaceInv does not say of the state: findings and events refer to scans that are there.
SurfaceRest ==
    /\ \A t \in Assets : finding[t].scan \in ScanRows \cup {NoScanId}
    /\ promoted \in [1..MaxReports -> Promotion \cup {NoPromotion}]
    /\ \A n \in 1..MaxReports : promoted[n].scan \in ScanRows \cup {NoScanId}
    /\ noted \subseteq Assets
    /\ crossing \in BOOLEAN
    /\ reports \in 0..MaxReports /\ triage \in 0..MaxTriage

LEMMA SurfaceRestInit == SurfaceInit => SurfaceRest
<1> SUFFICES ASSUME SurfaceInit PROVE SurfaceRest
    OBVIOUS
<1>1. /\ finding = [t \in Assets |-> NoFinding] /\ promoted = [n \in 1..MaxReports |-> NoPromotion]
      /\ noted = {} /\ crossing = FALSE /\ reports = 0 /\ triage = 0
    BY DEF SurfaceInit
<1>2. NoFinding.scan = NoScanId /\ NoPromotion.scan = NoScanId
    BY DEF NoFinding, NoPromotion
<1>3. reports \in 0..MaxReports /\ triage \in 0..MaxTriage
    BY <1>1, SurfaceBounds
<1>4. crossing \in BOOLEAN
    BY <1>1
<1> QED
    BY <1>1, <1>2, <1>3, <1>4 DEF SurfaceRest

\* No row of a scan goes: what is not the finding, the event or the note that is written stays right.
LEMMA SurfaceRowsKept ==
    ASSUME SurfaceRest, ScanRows \subseteq ScanRows', crossing' \in BOOLEAN, noted' \subseteq Assets,
           reports' \in 0..MaxReports, triage' \in 0..MaxTriage,
           \A t \in Assets : finding'[t].scan \in {finding[t].scan} \cup ScanRows,
           promoted' \in [1..MaxReports -> Promotion \cup {NoPromotion}],
           \A n \in 1..MaxReports : promoted'[n].scan \in {promoted[n].scan} \cup ScanRows
    PROVE  SurfaceRest'
BY DEF SurfaceRest

LEMMA SurfaceRestNext == SurfaceInv /\ SurfaceRest /\ [SurfaceNext]_surfaceVars => SurfaceRest'
<1> SUFFICES ASSUME SurfaceInv, SurfaceRest, [SurfaceNext]_surfaceVars PROVE SurfaceRest'
    OBVIOUS
<1>1. /\ scanRow \in [ScanIds -> {"none", "active", "finished", "stopped", "deleted"}]
      /\ finding \in [Assets -> Finding]
      /\ promoted \in [1..MaxReports -> Promotion \cup {NoPromotion}]
      /\ reports \in Nat /\ triage \in Nat /\ MaxReports \in Nat /\ MaxTriage \in Nat
      /\ reports \in 0..MaxReports /\ triage \in 0..MaxTriage /\ noted \subseteq Assets /\ crossing \in BOOLEAN
    BY SurfaceBounds DEF SurfaceInv, SeenSince, SurfaceRest
<1>2. CASE LaunchScan
  <2>1. PICK s \in ScanIds : s = Launched + 1 /\ scanRow' = [scanRow EXCEPT ![s] = "active"]
      BY <1>2 DEF LaunchScan
  <2>2. ScanRows \subseteq ScanRows'
      BY <1>1, <2>1 DEF ScanRows
  <2>3. crossing' \in BOOLEAN /\ UNCHANGED <<finding, promoted, noted, triage, reports>>
      BY <1>2 DEF LaunchScan
  <2> QED
      BY <1>1, <2>2, <2>3, SurfaceRowsKept
<1>3. ASSUME NEW s \in ScanIds, StopScan(s) PROVE SurfaceRest'
  <2>1. ScanRows \subseteq ScanRows'
      BY <1>1, <1>3 DEF StopScan, ScanRows
  <2> QED
      BY <1>1, <1>3, <2>1, SurfaceRowsKept DEF StopScan
<1>4. ASSUME NEW s \in ScanIds, EndScan(s) PROVE SurfaceRest'
  <2>1. PICK how \in {"finished", "stopped"} : scanRow' = [scanRow EXCEPT ![s] = IF s \in ScanRows THEN how ELSE @]
      BY <1>4 DEF EndScan
  <2>2. ScanRows \subseteq ScanRows'
      BY <1>1, <2>1 DEF ScanRows
  <2> QED
      BY <1>1, <1>4, <2>2, SurfaceRowsKept DEF EndScan
<1>5. ASSUME NEW s \in ScanIds, NEW t \in Assets, PersistFinding(s, t) PROVE SurfaceRest'
  <2>1. /\ s \in ScanRows /\ reports < MaxReports /\ reports' = reports + 1
        /\ UNCHANGED <<scanRow, crossing, noted, triage>>
      BY <1>5 DEF PersistFinding
  <2>2. PICK raw \in Contents, severe \in BOOLEAN :
          /\ finding' = [finding EXCEPT ![t] = UpsertFinding(s, t, raw)]
          /\ promoted' = [promoted EXCEPT ![reports'] =
                              IF Promotes(t, severe) THEN [targets |-> {t}, scan |-> s] ELSE @]
      BY <1>5 DEF PersistFinding
  <2>3. UpsertFinding(s, t, raw).scan = s
      BY <1>1 DEF UpsertFinding, Finding
  <2>4. \A u \in Assets : finding'[u].scan \in {finding[u].scan} \cup ScanRows
      BY <1>1, <2>1, <2>2, <2>3
  <2>5. [targets |-> {t}, scan |-> s] \in Promotion
      BY SurfaceBounds DEF Promotion, ScanIds
  <2>6. /\ promoted' \in [1..MaxReports -> Promotion \cup {NoPromotion}]
        /\ \A n \in 1..MaxReports : promoted'[n].scan \in {promoted[n].scan} \cup ScanRows
      BY <1>1, <2>1, <2>2, <2>5
  <2>7. ScanRows' = ScanRows /\ reports' \in 0..MaxReports
      BY <1>1, <2>1 DEF ScanRows
  <2> QED
      BY <1>1, <2>1, <2>4, <2>6, <2>7, SurfaceRowsKept
<1>6. ASSUME NEW t \in Assets, NEW s \in Lifecycle, PatchFinding(t, s) PROVE SurfaceRest'
  <2>1. triage' \in 0..MaxTriage /\ UNCHANGED <<scanning, promoted, noted>>
      BY <1>1, <1>6 DEF PatchFinding
  <2>2. PICK until \in BOOLEAN :
            until = CASE s = "dismissed" -> TRUE [] s = "new" -> FALSE [] OTHER -> finding[t].until
      BY <1>1 DEF Finding
  <2>3. finding' = [finding EXCEPT ![t].status = s, ![t].until = until]
      BY <1>6, <2>2 DEF PatchFinding
  <2>4. \A u \in Assets : finding'[u].scan = finding[u].scan
      BY <1>1, <2>3 DEF Finding
  <2> QED
      BY <1>1, <2>1, <2>4, SurfaceRowsKept DEF scanning, ScanRows
<1>7. ASSUME NEW t \in Assets, PatchNote(t) PROVE SurfaceRest'
  <2>1. triage' \in 0..MaxTriage /\ noted' \subseteq Assets /\ UNCHANGED <<scanning, finding, promoted>>
      BY <1>1, <1>7 DEF PatchNote
  <2> QED
      BY <1>1, <2>1, SurfaceRowsKept DEF scanning, ScanRows
<1>8. CASE DismissExpiry
  <2>1. UNCHANGED <<scanning, promoted, noted, triage>>
      BY <1>8 DEF DismissExpiry
  <2>2. \A u \in Assets : finding'[u].scan = finding[u].scan
    <3>1. PICK over \in SUBSET Found :
              finding' = [t \in Assets |->
                  IF t \in over THEN [finding[t] EXCEPT !.status = "new", !.until = FALSE] ELSE finding[t]]
      BY <1>8 DEF DismissExpiry
    <3>2. ASSUME NEW u \in Assets PROVE finding'[u].scan = finding[u].scan
      <4>1. finding'[u] \in {finding[u], [finding[u] EXCEPT !.status = "new", !.until = FALSE]}
        BY <3>1
      <4> QED
        BY <1>1, <4>1 DEF Finding
    <3> QED
      BY <3>2
  <2> QED
      BY <1>1, <2>1, <2>2, SurfaceRowsKept DEF scanning, ScanRows
<1>9. CASE CleanUp
  <2> DEFINE gone == ScanRows \ KeptScans
  <2>1. /\ scanRow' = [s \in ScanIds |-> IF s \in gone THEN "deleted" ELSE scanRow[s]]
        /\ finding' = [t \in Assets |-> IF finding[t].scan \in gone THEN NoFinding ELSE finding[t]]
        /\ promoted' = [n \in 1..MaxReports |->
              IF promoted[n].scan \in gone THEN [promoted[n] EXCEPT !.scan = NoScanId] ELSE promoted[n]]
        /\ UNCHANGED <<crossing, reports, noted, triage>>
      BY <1>9 DEF CleanUp
  <2> HIDE DEF gone
  <2>2. ScanRows \ gone \subseteq ScanRows'
      BY <2>1 DEF ScanRows
  <2>3. \A t \in Assets : finding'[t].scan \in ScanRows' \cup {NoScanId}
      BY <2>1, <2>2 DEF SurfaceRest, NoFinding
  <2>4. ASSUME NEW n \in 1..MaxReports
        PROVE  promoted'[n] \in Promotion \cup {NoPromotion} /\ promoted'[n].scan \in ScanRows' \cup {NoScanId}
    <3>1. promoted[n] \in Promotion \cup {NoPromotion} /\ promoted[n].scan \in ScanRows \cup {NoScanId}
        BY DEF SurfaceRest
    <3>2. CASE promoted[n].scan \in gone
      <4>1. promoted'[n] = [promoted[n] EXCEPT !.scan = NoScanId]
          BY <2>1, <3>2
      <4>2. NoScanId \in 0..MaxScans
          BY SurfaceBounds DEF NoScanId
      <4> QED
          BY <3>1, <4>1, <4>2 DEF Promotion, NoPromotion
    <3>3. CASE promoted[n].scan \notin gone
        BY <2>1, <2>2, <3>1, <3>3
    <3> QED
        BY <3>2, <3>3
  <2>5. promoted' \in [1..MaxReports -> Promotion \cup {NoPromotion}]
      BY <2>1, <2>4
  <2> QED
      BY <1>1, <2>1, <2>3, <2>4, <2>5 DEF SurfaceRest
<1>10. CASE UNCHANGED surfaceVars
    BY <1>1, <1>10, SurfaceRowsKept DEF surfaceVars, scanning, ScanRows
<1> QED
    BY <1>2, <1>3, <1>4, <1>5, <1>6, <1>7, <1>8, <1>9, <1>10 DEF SurfaceNext

LEMMA SurfaceTyped == SurfaceInv /\ SurfaceRest => SurfaceTypeOK
<1> SUFFICES ASSUME SurfaceInv, SurfaceRest PROVE SurfaceTypeOK
    OBVIOUS
<1>1. acting \subseteq ScanIds
    BY SurfaceBounds DEF SurfaceInv, InOrder, Reporting, ScanIds
<1> QED
    BY <1>1 DEF SurfaceTypeOK, SurfaceInv, Reporting, SeenSince, SurfaceRest, Found

\* For any scans, targets and requests: the rows are well formed, and findings and events refer to
\* scans that are there, also after the history was cleaned up (scan_history_cleanup_job).
THEOREM SurfaceTypeCorrect == SurfaceSpec => []SurfaceTypeOK
BY SurfaceInitInv, SurfaceRestInit, SurfaceInvNext, SurfaceRestNext, SurfaceTyped, PTL DEF SurfaceSpec

-----------------------------------------------------------------------------
(* The parts side by side *)

AccountsPart ==
    /\ focus = "sessions" => SessionsInv
    /\ focus = "lockout" => LockoutInv
    /\ focus = "memberships" => MembershipsInv
ProjectsPart == focus = "projects" => ProjectsInv
RescorePart == focus = "rescore" => RescoreInv /\ RescoreRest
ReportsPart == focus = "reports" => ExportInv /\ ReportRows
BrandPart == focus = "brand" => BrandInv /\ BrandRest
SurfacePart == focus = "surface" => SurfaceInv /\ SurfaceRest
ReviewPart == focus = "review" => ReviewInv /\ ReviewRest

WorkspaceInv ==
    AccountsPart /\ ProjectsPart /\ RescorePart /\ ReportsPart /\ BrandPart /\ SurfacePart /\ ReviewPart

LEMMA WorkspaceInitInv == Init => WorkspaceInv
BY SessionsInitInv, LockoutInitInv, MembershipsInitInv, ProjectsInitInv, RescoreInitInv, RescoreRestInit,
   ExportInitInv, ReportRowsInit, BrandInitInv, BrandRestInit, SurfaceInitInv, SurfaceRestInit, ReviewInitInv,
   ReviewRestInit
   DEF Init, WorkspaceInv, AccountsPart, ProjectsPart, RescorePart, ReportsPart, BrandPart, SurfacePart,
       ReviewPart

\* Each part takes its steps, and rests while another does.
LEMMA WorkspaceNextInv == WorkspaceInv /\ [Next]_workspaceVars => WorkspaceInv'
<1> SUFFICES ASSUME WorkspaceInv, [Next]_workspaceVars PROVE WorkspaceInv'
    OBVIOUS
<1>1. focus' = focus
    BY DEF Next, workspaceVars
<1>2. AccountsPart'
  <2>1. CASE focus = "sessions"
    <3>1. [SessionsNext]_sessionsVars
        BY <2>1 DEF Next, workspaceVars, accountVars
    <3> QED
        BY <1>1, <2>1, <3>1, SessionsInvNext DEF WorkspaceInv, AccountsPart
  <2>2. CASE focus = "lockout"
    <3>1. [LockoutNext]_lockoutVars
        BY <2>2 DEF Next, workspaceVars, accountVars
    <3> QED
        BY <1>1, <2>2, <3>1, LockoutNextKeepsInv DEF WorkspaceInv, AccountsPart
  <2>3. CASE focus = "memberships"
    <3>1. [MembershipsNext]_membershipsVars
        BY <2>3 DEF Next, workspaceVars, accountVars
    <3> QED
        BY <1>1, <2>3, <3>1, MembershipsNextKeepsInv DEF WorkspaceInv, AccountsPart
  <2> QED
      BY <1>1, <2>1, <2>2, <2>3 DEF AccountsPart
<1>3. ProjectsPart'
  <2> SUFFICES ASSUME focus = "projects" PROVE ProjectsInv'
      BY <1>1 DEF ProjectsPart
  <2>1. [ProjectsNext]_projectsVars
      BY DEF Next, workspaceVars, accountVars
  <2> QED
      BY <2>1, ProjectsNextInv DEF WorkspaceInv, ProjectsPart
<1>4. RescorePart'
  <2> SUFFICES ASSUME focus = "rescore" PROVE RescoreInv' /\ RescoreRest'
      BY <1>1 DEF RescorePart
  <2>1. [RescoreNext]_rescoreVars
      BY DEF Next, workspaceVars, contentVars
  <2> QED
      BY <2>1, RescoreRests DEF WorkspaceInv, RescorePart
<1>5. ReportsPart'
  <2> SUFFICES ASSUME focus = "reports" PROVE ExportInv' /\ ReportRows'
      BY <1>1 DEF ReportsPart
  <2>1. [ReportsNext]_reportsVars
      BY DEF Next, workspaceVars, contentVars
  <2> QED
      BY <2>1, ExportStep, ReportRowsNext DEF WorkspaceInv, ReportsPart
<1>6. BrandPart'
  <2> SUFFICES ASSUME focus = "brand" PROVE BrandInv' /\ BrandRest'
      BY <1>1 DEF BrandPart
  <2>1. [BrandNext]_brandVars
      BY DEF Next, workspaceVars, contentVars
  <2> QED
      BY <2>1, BrandInvNext, BrandRestNext DEF WorkspaceInv, BrandPart
<1>7. SurfacePart'
  <2> SUFFICES ASSUME focus = "surface" PROVE SurfaceInv' /\ SurfaceRest'
      BY <1>1 DEF SurfacePart
  <2>1. [SurfaceNext]_surfaceVars
      BY DEF Next, workspaceVars, contentVars
  <2> QED
      BY <2>1, SurfaceInvNext, SurfaceRestNext DEF WorkspaceInv, SurfacePart
<1>8. ReviewPart'
  <2> SUFFICES ASSUME focus = "review" PROVE ReviewInv' /\ ReviewRest'
      BY <1>1 DEF ReviewPart
  <2>1. [ReviewNext]_reviewVars
      BY DEF Next, workspaceVars, contentVars
  <2> QED
      BY <2>1, ReviewInvNext, ReviewRestNext DEF WorkspaceInv, ReviewPart
<1> QED
    BY <1>2, <1>3, <1>4, <1>5, <1>6, <1>7, <1>8 DEF WorkspaceInv

\* For every value of the constants, the part that runs keeps its state well formed while the
\* others rest.
THEOREM WorkspaceTypeCorrect == Spec => []WorkspaceTypeOK
<1>1. WorkspaceInv => WorkspaceTypeOK
    BY RescoreTyped, ReportsTyped, BrandTyped, SurfaceTyped, ReviewTyped
       DEF WorkspaceInv, WorkspaceTypeOK, AccountsPart, ProjectsPart, RescorePart, ReportsPart, BrandPart,
           SurfacePart, ReviewPart, SessionsInv, LockoutInv, MembershipsInv, ProjectsInv
<1> QED
    BY <1>1, WorkspaceInitInv, WorkspaceNextInv, PTL DEF Spec
=============================================================================
