---------------------------- MODULE MCWorkspace ----------------------------
(***************************************************************************)
(* What users have to do with, for TLC.  Sessions, the lockout of logins,  *)
(* the members of a project, its settings, its scores, one of its TIBER    *)
(* reports, its brand terms, the surface its scans have found and the      *)
(* suggestions of the AI workers.  They share no state: the run explores   *)
(* each with the others at rest (focus), never their product; and a report *)
(* is cloned or exported, not both, for its clone and its exports share    *)
(* none either.                                                            *)
(***************************************************************************)
EXTENDS Sessions, Lockout, Memberships, Projects, Rescore, Reports, MCBrand, Surface, Review

VARIABLE focus

Init ==
    /\ focus \in {"sessions", "lockout", "memberships", "projects", "rescore", "reports", "brand", "surface",
                  "review"}
    /\ SessionsInit /\ LockoutInit /\ MembershipsInit /\ ProjectsInit
    /\ RescoreInit /\ ReportsInit /\ BrandInit /\ SurfaceInit /\ ReviewInit
    \* At rest, one initial state is enough.
    /\ focus # "memberships" => role[CHOOSE u \in Users : TRUE] = "Lead"
    /\ focus # "projects" => project.name = CHOOSE n \in Names : TRUE
    /\ focus # "reports" => There = {} /\ Longlist = {} /\ report.events /\ report.summary
    /\ focus # "brand" => ~followed.enabled /\ \A t \in Terms : terms[t].mode = "none"

accountVars == <<sessionsVars, lockoutVars, membershipsVars, projectsVars>>
contentVars == <<rescoreVars, reportsVars, brandVars, surfaceVars, reviewVars>>
workspaceVars == <<focus, accountVars, contentVars>>

Next ==
    \/ /\ UNCHANGED <<focus, contentVars>>
       /\ \/ /\ focus = "sessions" /\ SessionsNext
             /\ UNCHANGED <<lockoutVars, membershipsVars, projectsVars>>
          \/ /\ focus = "lockout" /\ LockoutNext
             /\ UNCHANGED <<sessionsVars, membershipsVars, projectsVars>>
          \/ /\ focus = "memberships" /\ MembershipsNext
             /\ UNCHANGED <<sessionsVars, lockoutVars, projectsVars>>
          \/ /\ focus = "projects" /\ ProjectsNext
             /\ UNCHANGED <<sessionsVars, lockoutVars, membershipsVars>>
    \/ /\ UNCHANGED <<focus, accountVars>>
       /\ \/ /\ focus = "rescore" /\ RescoreNext
             /\ UNCHANGED <<reportsVars, brandVars, surfaceVars, reviewVars>>
          \/ /\ focus = "reports" /\ ReportsNext
             /\ copy'.made = "no" \/ requested' = 0
             /\ UNCHANGED <<rescoreVars, brandVars, surfaceVars, reviewVars>>
          \/ /\ focus = "brand" /\ BrandNext
             /\ UNCHANGED <<rescoreVars, reportsVars, surfaceVars, reviewVars>>
          \/ /\ focus = "surface" /\ SurfaceNext
             /\ UNCHANGED <<rescoreVars, reportsVars, brandVars, reviewVars>>
          \/ /\ focus = "review" /\ ReviewNext
             /\ UNCHANGED <<rescoreVars, reportsVars, brandVars, surfaceVars>>

Spec == Init /\ [][Next]_workspaceVars

\* The state of each is well formed, down to what a handler between two of its steps
\* relies on; stated part by part in the modules.
WorkspaceTypeOK ==
    /\ focus = "sessions" => SessionsTypeOK
    /\ focus = "lockout" => LockoutTypeOK
    /\ focus = "memberships" => MembershipsTypeOK
    /\ focus = "projects" => ProjectsTypeOK
    /\ focus = "rescore" => RescoreTypeOK
    /\ focus = "reports" => ReportsTypeOK
    /\ focus = "brand" => BrandTypeOK
    /\ focus = "surface" => SurfaceTypeOK
    /\ focus = "review" => ReviewTypeOK
=============================================================================
