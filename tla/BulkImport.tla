----------------------------- MODULE BulkImport -----------------------------
(***************************************************************************)
(* Files of indicators that users upload into one scope of the table iocs  *)
(* (routers/iocs.py, services/ioc_import, the actor bulk_import_iocs of    *)
(* workers/iocs.py).                                                       *)
(*                                                                         *)
(* An import is a run of transactions of Batch rows.  A row that was       *)
(* upserted stays locked until its transaction ends, and a statement that  *)
(* fails aborts all of it: what follows fails too, and the COMMIT is a     *)
(* ROLLBACK that raises nothing.                                           *)
(***************************************************************************)
EXTENDS Integers, Sequences, FiniteSets

CONSTANTS
    Values,          \* normalized values
    Files,           \* files: sequences of raw rows
    Uploads,         \* requests that upload one
    Importers,       \* worker threads on the queue ingest
    RowCap,          \* _BULK_IMPORT_ROW_CAP
    Batch,           \* rows between two commits
    ImportRetries,   \* max_retries of bulk_import_iocs
    MaxDisturbed     \* bound: statements that raise, workers that die, rows that others store or delete

VARIABLES
    stored,          \* the values that have a committed row
    deleted,         \* history: those that an analyst has deleted
    upload,          \* each upload: its rows, its status in Redis and would_insert (expected)
    importMessages,  \* messages of bulk_import_iocs by how often they have failed
    importer,        \* each thread
    broken,          \* history: uploads of which a transaction was aborted
    mute,            \* history: uploads of which a status could not be written
    disturbed

importVars == <<stored, deleted, upload, importMessages, importer, broken, mute, disturbed>>

-----------------------------------------------------------------------------
(* Rows and files *)

\* invalid: the schema or a parser refuses the row; foreign: it names another project; blank:
\* it normalises to nothing; overflow: the schema takes a confidence that NUMERIC(3, 2) does not.
RawRow == [value : Values, fault : {"none", "invalid", "foreign", "blank", "overflow"}]

\* parse_csv_rows and parse_json_rows: each row that is refused is an error of its own.
ParsedRows(file) == SelectSeq(file, LAMBDA row : row.fault # "invalid")

\* What SelectSeq keeps of rows is a sequence of rows, and of no more.
ASSUME ImportAssumption ==
    \A file \in Files : /\ file \in Seq(RawRow) /\ ParsedRows(file) \in Seq(RawRow)
                        /\ Len(ParsedRows(file)) <= Len(file)
ASSUME ImportLimits == {RowCap, ImportRetries, MaxDisturbed} \subseteq Nat

\* parse_stix_bundle: an object of another type or pattern yields nothing, and the others have
\* a type and a value only.
StixRows(file) ==
    LET atomic == ParsedRows(file)
    IN [i \in DOMAIN atomic |-> IF atomic[i].fault = "blank" THEN atomic[i] ELSE [atomic[i] EXCEPT !.fault = "none"]]

\* The cap counts rows with errors in a CSV or JSON file; in a bundle what it yields.
TooLarge(file, format) == Len(IF format = "stix" THEN StixRows(file) ELSE file) > RowCap
Rows(file, format) == IF format = "stix" THEN StixRows(file) ELSE ParsedRows(file)

\* Who is not an admin may not name other projects; the rows of an admin go to the project of
\* the request, whatever they name.
MayImport(rows, admin) == admin \/ \A i \in DOMAIN rows : rows[i].fault # "foreign"

\* The keys that are not there yet, as often as they occur; what does not normalise is one.
WouldInsert(rows) == Cardinality({i \in DOMAIN rows : rows[i].fault = "blank" \/ rows[i].value \notin stored})

-----------------------------------------------------------------------------
NoUpload == [rows |-> <<>>, status |-> "none", processed |-> 0, inserted |-> 0,
             updated |-> 0, skipped |-> 0, expected |-> 0]
Pausing == [at |-> "idle", of |-> {}, failed |-> 0, next |-> 1, known |-> FALSE, own |-> {}, aborted |-> FALSE,
            inserted |-> 0, updated |-> 0, skipped |-> 0]
Counts == 0..RowCap
JobStatus == {"none", "queued", "running", "complete", "failed"}

\* The rows, the uploads and the threads; a thread that has counted is at the row after.
ImportTypeOK ==
    /\ stored \subseteq Values /\ deleted \subseteq Values
    /\ broken \subseteq Uploads /\ mute \subseteq Uploads
    /\ upload \in [Uploads -> [rows : {Rows(f, k) : f \in Files, k \in {"csv", "stix"}} \cup {<<>>},
                               status : JobStatus, processed : Counts, inserted : Counts, updated : Counts,
                               skipped : Counts, expected : Counts]]
    /\ importMessages \in [Uploads -> SUBSET (0..ImportRetries)]
    /\ importer \in [Importers -> [at : {"idle", "next", "write", "batch", "report", "clean"}, of : SUBSET Uploads,
                                   failed : 0..ImportRetries, next : 1..(RowCap + 1), known : BOOLEAN,
                                   own : SUBSET Values, aborted : BOOLEAN, inserted : Counts, updated : Counts,
                                   skipped : Counts]]
    /\ \A t \in Importers : importer[t].at # "idle" =>
          /\ Cardinality(importer[t].of) = 1
          /\ importer[t].inserted + importer[t].updated + importer[t].skipped = importer[t].next - 1
    /\ disturbed \in 0..MaxDisturbed

ImportInit ==
    /\ stored = {} /\ deleted = {} /\ broken = {} /\ mute = {}
    /\ upload = [u \in Uploads |-> NoUpload]
    /\ importMessages = [u \in Uploads |-> {}]
    /\ importer = [t \in Importers |-> Pausing]
    /\ disturbed = 0

historyVars == <<deleted, broken, mute, disturbed>>

-----------------------------------------------------------------------------
(* bulk_import: it stages the payload, writes the status and sends the message. *)
BulkUpload(u) ==
    /\ upload[u] = NoUpload
    /\ \E file \in Files, format \in {"csv", "json", "stix"}, admin \in BOOLEAN :
          LET rows == Rows(file, format) IN
          /\ ~TooLarge(file, format) /\ MayImport(rows, admin)
          /\ upload' = [upload EXCEPT ![u] = [NoUpload EXCEPT !.rows = rows, !.status = "queued",
                                                              !.expected = WouldInsert(rows)]]
    /\ importMessages' = [importMessages EXCEPT ![u] = {0}]
    /\ UNCHANGED <<stored, importer, historyVars>>

-----------------------------------------------------------------------------
(* _async_bulk_import *)

At(t, u, label) == importer[t].at = label /\ importer[t].of = {u}
Becomes(t, state) == importer' = [importer EXCEPT ![t] = state]

\* The payload has gone when 600 s are over or an earlier attempt has deleted it.
TakeImport(t, u) ==
    /\ importer[t].at = "idle"
    /\ \E n \in importMessages[u] :
          /\ importMessages' = [importMessages EXCEPT ![u] = @ \ {n}]
          /\ \/ /\ upload' = [upload EXCEPT ![u].status = "running", ![u].processed = 0]
                /\ Becomes(t, [Pausing EXCEPT !.at = "next", !.of = {u}, !.failed = n])
             \/ /\ upload' = [upload EXCEPT ![u].status = "failed"]
                /\ UNCHANGED importer
    /\ UNCHANGED <<stored, historyVars>>

Disturbs == disturbed < MaxDisturbed /\ disturbed' = disturbed + 1

Row(t, u) == upload[u].rows[importer[t].next]
HasRow(t, u) == importer[t].next <= Len(upload[u].rows)

\* The thread goes on behind a row, to the commit when its number is a multiple of Batch.
Behind(state) == [state EXCEPT !.next = @ + 1, !.at = IF state.next % Batch = 0 THEN "batch" ELSE "next"]
SkipRow(state) == Behind([state EXCEPT !.skipped = @ + 1])

\* The first half of upsert_ioc_row: is the row there?  In an aborted transaction it raises.
LookUp(t, u) ==
    /\ At(t, u, "next") /\ HasRow(t, u)
    /\ IF Row(t, u).fault = "blank" \/ importer[t].aborted
       THEN Becomes(t, SkipRow(importer[t]))
       ELSE Becomes(t, [importer[t] EXCEPT !.at = "write",
                                           !.known = Row(t, u).value \in stored \cup importer[t].own])
    /\ UNCHANGED <<stored, upload, importMessages, historyVars>>

\* A row is locked by the transaction that upserted it, until that ends.
Blockers(t, u) == {w \in Importers \ {t} : Row(t, u).value \in importer[w].own}

\* The second half: INSERT ... ON CONFLICT DO UPDATE, counted by what the first half saw.
WriteRow(t, u) ==
    /\ At(t, u, "write") /\ Row(t, u).fault # "overflow" /\ Blockers(t, u) = {}
    /\ LET kept == [importer[t] EXCEPT !.own = @ \cup {Row(t, u).value}] IN
       Becomes(t, Behind(IF kept.known THEN [kept EXCEPT !.updated = @ + 1] ELSE [kept EXCEPT !.inserted = @ + 1]))
    /\ UNCHANGED <<stored, upload, importMessages, historyVars>>

\* PostgreSQL refuses the statement, for its value or as the victim of a deadlock; the actor
\* counts the row as skipped and goes on.
WriteFails(t, u) ==
    /\ At(t, u, "write")
    /\ \/ Row(t, u).fault = "overflow"
       \/ \E w \in Blockers(t, u), v \in Uploads : At(w, v, "write") /\ t \in Blockers(w, v)
    /\ Becomes(t, SkipRow([importer[t] EXCEPT !.aborted = TRUE, !.own = {}]))
    /\ broken' = broken \cup {u}
    /\ UNCHANGED <<stored, deleted, upload, importMessages, mute, disturbed>>

Committed(t) == stored' = stored \cup importer[t].own

CommitBatch(t, u) ==
    /\ At(t, u, "batch")
    /\ Committed(t)
    /\ Becomes(t, [importer[t] EXCEPT !.at = "next", !.own = {}, !.aborted = FALSE])
    /\ upload' = [upload EXCEPT ![u].status = "running", ![u].processed = importer[t].next - 1]
    /\ UNCHANGED <<importMessages, historyVars>>

\* (mutant) The session is closed without the last commit.
CloseUncommitted(t, u) ==
    /\ At(t, u, "next") /\ ~HasRow(t, u)
    /\ Becomes(t, [importer[t] EXCEPT !.at = "report", !.own = {}, !.aborted = FALSE])
    /\ UNCHANGED <<stored, upload, importMessages, historyVars>>

CommitLast(t, u) ==
    /\ At(t, u, "next") /\ ~HasRow(t, u)
    /\ Committed(t)
    /\ Becomes(t, [importer[t] EXCEPT !.at = "report", !.own = {}, !.aborted = FALSE])
    /\ UNCHANGED <<upload, importMessages, historyVars>>

ReportComplete(t, u) ==
    /\ At(t, u, "report")
    /\ upload' = [upload EXCEPT ![u] = [@ EXCEPT !.status = "complete", !.processed = importer[t].next - 1,
                                                 !.inserted = importer[t].inserted,
                                                 !.updated = importer[t].updated, !.skipped = importer[t].skipped]]
    /\ Becomes(t, [importer[t] EXCEPT !.at = "clean"])
    /\ UNCHANGED <<stored, importMessages, historyVars>>

\* The payload is deleted, or that fails, and the message is acknowledged.
CleanPayload(t, u) ==
    /\ At(t, u, "clean")
    /\ Becomes(t, Pausing)
    /\ UNCHANGED <<stored, upload, importMessages, historyVars>>

\* A commit or Redis raises: the status says so if it can be written, and Dramatiq sends the
\* message again.
ImportRaises(t, u) ==
    /\ Disturbs
    /\ importer[t].at \in {"next", "batch", "report"} /\ importer[t].of = {u}
    /\ \/ upload' = [upload EXCEPT ![u].status = "failed"] /\ UNCHANGED mute
       \/ UNCHANGED upload /\ mute' = mute \cup {u}
    /\ importMessages' = [importMessages EXCEPT ![u] = @ \cup ({importer[t].failed + 1} \cap 0..ImportRetries)]
    /\ Becomes(t, Pausing)
    /\ UNCHANGED <<stored, deleted, broken>>

\* The worker dies; the broker delivers the message again.
ImporterDies(t, u) ==
    /\ Disturbs
    /\ importer[t].of = {u}
    /\ importMessages' = [importMessages EXCEPT ![u] = @ \cup {importer[t].failed}]
    /\ Becomes(t, Pausing)
    /\ UNCHANGED <<stored, deleted, upload, broken, mute>>

-----------------------------------------------------------------------------
(* Others on the same rows: an event that mentions a value, an analyst who deletes it. *)
SightValue(v) ==
    /\ Disturbs
    /\ v \notin stored /\ \A t \in Importers : v \notin importer[t].own
    /\ stored' = stored \cup {v}
    /\ UNCHANGED <<deleted, upload, importMessages, importer, broken, mute>>

DeleteValue(v) ==
    /\ Disturbs
    /\ v \in stored /\ \A t \in Importers : v \notin importer[t].own
    /\ stored' = stored \ {v}
    /\ deleted' = deleted \cup {v}
    /\ UNCHANGED <<upload, importMessages, importer, broken, mute>>

-----------------------------------------------------------------------------
ImportNext ==
    \/ \E u \in Uploads : BulkUpload(u)
    \/ \E t \in Importers, u \in Uploads :
          \/ TakeImport(t, u) \/ LookUp(t, u) \/ WriteRow(t, u) \/ WriteFails(t, u) \/ CommitBatch(t, u)
          \/ CommitLast(t, u) \/ ReportComplete(t, u) \/ CleanPayload(t, u) \/ ImportRaises(t, u) \/ ImporterDies(t, u)
    \/ \E v \in Values : SightValue(v) \/ DeleteValue(v)

ImportSpec == ImportInit /\ [][ImportNext]_importVars

-----------------------------------------------------------------------------
(* Properties *)

Wanted(rows) == {rows[i].value : i \in {j \in DOMAIN rows : rows[j].fault # "blank"}}
Settled(u) == importMessages[u] = {} /\ \A t \in Importers : u \notin importer[t].of

\* An import that says it is complete has stored every row it accepted, unless an analyst has
\* deleted it or PostgreSQL aborted a batch; it has counted each row once, and inserted no more
\* than the dry run said, unless rows were deleted since.  One that nobody works on says how it
\* has ended ("UI polls Redis for job progress", schemas/iocs.py), unless that could not be written.
ImportsReported ==
    \A u \in Uploads :
        /\ upload[u].status = "complete" =>
              /\ u \notin broken => Wanted(upload[u].rows) \subseteq stored \cup deleted
              /\ upload[u].processed = Len(upload[u].rows)
              /\ upload[u].processed = upload[u].inserted + upload[u].updated + upload[u].skipped
              /\ upload[u].inserted <= upload[u].expected \/ deleted # {}
        /\ Settled(u) => upload[u].status \in {"none", "complete", "failed"} \/ u \in mute
=============================================================================
