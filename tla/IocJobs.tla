------------------------------- MODULE IocJobs ------------------------------
(***************************************************************************)
(* The two jobs that read indicators for a project: of a file, and of the  *)
(* events that are stored.  They share no row; both report what they read. *)
(***************************************************************************)
EXTENDS BulkImport, Backfill

\* What the jobs say of the indicators they read, from a file or from the stored events, is so:
\* ImportsReported and BackfillReaches.
JobsReadAll == ImportsReported /\ BackfillReaches
=============================================================================
