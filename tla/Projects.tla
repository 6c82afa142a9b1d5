------------------------------ MODULE Projects ------------------------------
(***************************************************************************)
(* One project: its row with the gate for active scans, its scope rows and *)
(* its sources, and the handlers of backend/app/routers/projects.py that   *)
(* change them.  Who may call them is in module Memberships.               *)
(*                                                                         *)
(* A handler that reads, decides and writes does so in two steps, with     *)
(* those of other requests in between.                                     *)
(***************************************************************************)

CONSTANTS
    Names,     \* names the project may have
    Scopes,    \* scope rows that may be added
    Feeds,     \* rows of sources
    EditRequests   \* handlers under way at once

ASSUME NoNameIsOff == Names # {} /\ "off" \notin Names

VARIABLES
    project,  \* the row of projects
    scope,    \* project_scope_rows: whether each row is there, and its flags
    bound,    \* project_sources
    edit,     \* handlers between their read and their write
    asked,    \* history: the list of the last PUT of sources
    overlapped  \* history: two replacements of the sources have overlapped

projectsVars == <<project, scope, bound, edit, asked, overlapped>>

Flags == {"active", "intel"}
Row == [there : BOOLEAN, active : BOOLEAN, intel : BOOLEAN]
NoRow == [there |-> FALSE, active |-> FALSE, intel |-> FALSE]
NoGate == "off"

NoEdit == [op |-> "idle"]
Edit ==
    {NoEdit}
    \cup [op : {"gate"}, name : Names]                                   \* past the name comparison
    \cup [op : {"scope"}, row : Scopes, flag : Flags]                   \* a flag about to be cleared
    \cup [op : {"sources"}, feeds : SUBSET Feeds, seen : SUBSET Feeds]   \* after the DELETE

\* The rows and the handlers; a scope row about to be written is there.
ProjectsTypeOK ==
    /\ project \in [name : Names, archived : BOOLEAN, gate : Names \cup {NoGate}]
    /\ scope \in [Scopes -> Row]
    /\ bound \subseteq Feeds
    /\ edit \in [EditRequests -> Edit]
    /\ \A r \in EditRequests : edit[r].op = "scope" => scope[edit[r].row].there
    /\ asked \subseteq Feeds
    /\ overlapped \in BOOLEAN

\* create_project.
ProjectsInit ==
    /\ \E n \in Names : project = [name |-> n, archived |-> FALSE, gate |-> NoGate]
    /\ scope = [w \in Scopes |-> NoRow]
    /\ bound = {} /\ asked = {} /\ overlapped = FALSE
    /\ edit = [r \in EditRequests |-> NoEdit]

-----------------------------------------------------------------------------
(* The row of projects *)

\* update_project: a new name, or archived set or cleared.
UpdateProject ==
    /\ \E n \in Names, a \in BOOLEAN : project' = [project EXCEPT !.name = n, !.archived = a]
    /\ UNCHANGED <<scope, bound, edit, asked, overlapped>>

\* archive_project and restore_project.
ArchiveProject ==
    /\ project' = [project EXCEPT !.archived = TRUE]
    /\ UNCHANGED <<scope, bound, edit, asked, overlapped>>

RestoreProject ==
    /\ project' = [project EXCEPT !.archived = FALSE]
    /\ UNCHANGED <<scope, bound, edit, asked, overlapped>>

BeginEdit(r, record) == edit[r] = NoEdit /\ edit' = [edit EXCEPT ![r] = record]
EndEdit(r, op) == edit[r].op = op /\ edit' = [edit EXCEPT ![r] = NoEdit]

\* flip_easm_gate: the project is not archived, and the text is its name; ...
FlipGate(r) ==
    /\ ~project.archived
    /\ BeginEdit(r, [op |-> "gate", name |-> project.name])
    /\ UNCHANGED <<project, scope, bound, asked, overlapped>>

\* ... the UPDATE looks at neither again.
WriteGate(r) ==
    /\ EndEdit(r, "gate")
    /\ project' = [project EXCEPT !.gate = edit[r].name]
    /\ UNCHANGED <<scope, bound, asked, overlapped>>

\* revoke_easm_gate.
RevokeGate ==
    /\ project' = [project EXCEPT !.gate = NoGate]
    /\ UNCHANGED <<scope, bound, edit, asked, overlapped>>

-----------------------------------------------------------------------------
(* Scope rows *)

Targets(row) == row.active \/ row.intel

\* add_scope_row, with at least one flag; a second row of the same value is a 409.
AddScope(w) ==
    /\ ~scope[w].there
    /\ \E row \in Row : row.there /\ Targets(row) /\ scope' = [scope EXCEPT ![w] = row]
    /\ UNCHANGED <<project, bound, edit, asked, overlapped>>

\* update_scope_row sets a flag, ...
SetScopeFlag(w, flag) ==
    /\ scope[w].there
    /\ scope' = [scope EXCEPT ![w][flag] = TRUE]
    /\ UNCHANGED <<project, bound, edit, asked, overlapped>>

Cleared(w, flag) == [scope[w] EXCEPT ![flag] = FALSE]

\* ... or clears one, when the other is set in the row it has read, ...
ClearScopeFlag(r, w, flag) ==
    /\ scope[w].there
    /\ Targets(Cleared(w, flag))
    /\ BeginEdit(r, [op |-> "scope", row |-> w, flag |-> flag])
    /\ UNCHANGED <<project, scope, bound, asked, overlapped>>

\* (mutant) The table has no CHECK.
CommitScopeUnchecked(r) ==
    /\ EndEdit(r, "scope")
    /\ scope' = [scope EXCEPT ![edit[r].row][edit[r].flag] = FALSE]
    /\ UNCHANGED <<project, bound, asked, overlapped>>

\* ... and writes that column only.  The CHECK of the table
\* (project_scope_rows_at_least_one_flag) makes the commit fail when another
\* request has cleared the other.
CommitScope(r) ==
    /\ EndEdit(r, "scope")
    /\ scope' = IF Targets(Cleared(edit[r].row, edit[r].flag))
                THEN [scope EXCEPT ![edit[r].row][edit[r].flag] = FALSE]
                ELSE scope
    /\ UNCHANGED <<project, bound, asked, overlapped>>

\* delete_scope_row; a request about to write the row will match nothing, and fail.
DeleteScope(w) ==
    /\ scope[w].there
    /\ scope' = [scope EXCEPT ![w] = NoRow]
    /\ edit' = [r \in EditRequests |->
                      IF edit[r].op = "scope" /\ edit[r].row = w THEN NoEdit ELSE edit[r]]
    /\ UNCHANGED <<project, bound, asked, overlapped>>

-----------------------------------------------------------------------------
(* Sources *)

Replacing == {r \in EditRequests : edit[r].op = "sources"}

\* replace_project_sources deletes the rows it sees, uncommitted; ...
DeleteSources(r, feeds) ==
    /\ BeginEdit(r, [op |-> "sources", feeds |-> feeds, seen |-> bound])
    /\ overlapped' = (overlapped \/ Replacing # {})
    /\ UNCHANGED <<project, scope, bound, asked>>

\* (mutant) The list is added to what is there.
InsertAppending(r) ==
    /\ EndEdit(r, "sources")
    /\ bound' = bound \cup edit[r].feeds
    /\ asked' = edit[r].feeds
    /\ UNCHANGED <<project, scope, overlapped>>

\* ... what it inserts and commits comes on top of what another request has
\* committed since, unless the two have a source in common: 422.  Rows that were
\* seen by others and are replaced here are no longer theirs to delete.
InsertSources(r) ==
    /\ edit[r].op = "sources"
    /\ LET left == bound \ edit[r].seen
           done == left \cap edit[r].feeds = {}
       IN  /\ bound' = IF done THEN left \cup edit[r].feeds ELSE bound
           /\ asked' = IF done THEN edit[r].feeds ELSE asked
           /\ edit' = [q \in EditRequests |->
                          IF q = r THEN NoEdit
                          ELSE IF done /\ q \in Replacing THEN [edit[q] EXCEPT !.seen = {}]
                          ELSE edit[q]]
    /\ UNCHANGED <<project, scope, overlapped>>

-----------------------------------------------------------------------------
ProjectsNext ==
    \/ UpdateProject \/ ArchiveProject \/ RestoreProject \/ RevokeGate
    \/ \E w \in Scopes : AddScope(w) \/ DeleteScope(w) \/ \E f \in Flags : SetScopeFlag(w, f)
    \/ \E r \in EditRequests :
          \/ FlipGate(r) \/ WriteGate(r) \/ CommitScope(r) \/ InsertSources(r)
          \/ \E w \in Scopes, f \in Flags : ClearScopeFlag(r, w, f)
          \/ \E fs \in SUBSET Feeds : DeleteSources(r, fs)

ProjectsSpec == ProjectsInit /\ [][ProjectsNext]_projectsVars

-----------------------------------------------------------------------------
(* Properties *)

\* No scope row is without a target, also when two requests each clear the flag
\* the other one relied on (update_scope_row and the CHECK of the table).
RowsTarget == \A w \in Scopes : scope[w].there => Targets(scope[w])

\* The sources bound to a project are those of the last list sent, unless two
\* requests overlap (replace_project_sources: "atomic replace - not append").
BoundAsAsked == bound = asked \/ overlapped

\* What requests write of a project side by side still holds together, its scope rows and
\* its sources.
SettingsHold == RowsTarget /\ BoundAsAsked
=============================================================================
