----------------------------- MODULE Ingestion ------------------------------
(***************************************************************************)
(* The life of one document: backend/api/documents.py (upload, delete,     *)
(* reprocess, progress), the pipeline of backend/rag/pipeline.py that      *)
(* loads, splits, embeds and indexes it in a task of the process, the two  *)
(* indexes (backend/vectordb, backend/textdb), and what retrieval finds.   *)
(*                                                                         *)
(* Every await is a point where another job may run, and a crash loses all *)
(* jobs and progress streams.  Documents share nothing, so one is enough;  *)
(* its text and vectors are left out, and so is the ranking of hits.       *)
(***************************************************************************)
EXTENDS Naturals

CONSTANTS
  Chunks,     \* what split_text makes of the file
  Jobs,       \* requests and background tasks in flight
  Watchers,   \* progress streams
  Units,      \* organization units a caller may act for
  Owner,      \* the unit the document was uploaded for
  NoUnit,
  MaxCrashes, \* bound
  MaxJobs     \* bound: jobs of a behaviour

ASSUME IngestionAssumption ==
  /\ Owner \in Units
  /\ NoUnit \notin Units
  /\ Chunks # {}
  /\ MaxCrashes \in Nat
  /\ MaxJobs \in Nat

VARIABLES
  status,    \* of the row in documents
  file,      \* whether the upload directory has the file
  vectors,   \* chunk_vectors: the unit each chunk is stored for
  texts,     \* chunks_fts_tenant: pairs of a chunk and a unit
  job,
  watcher,   \* progress streams: waiting, told of the end, gone
  crashes,
  started,   \* jobs so far
  overlap,   \* history: a job began while another was in flight
  doomed,    \* history: a delete has begun
  foreign,   \* history: another unit than the owner deleted or reprocessed
  silenced   \* history: an ingestion could not even report its failure

ingestionVars ==
  <<status, file, vectors, texts, job, watcher, crashes, started, overlap, doomed, foreign,
    silenced>>
index == <<vectors, texts>>
history == <<crashes, started, overlap, doomed, foreign, silenced>>

-----------------------------------------------------------------------------
(* Data *)

Statuses == {"absent", "uploaded", "parsing", "chunking", "embedding", "indexing",
             "ready", "failed", "deleted"}
Points == {"idle", "save", "parsing", "chunking", "embedding", "indexing", "upsert",
           "insert", "finish", "failing", "purge vectors", "purge texts", "unlink", "erase"}

Job == [pc : Points, unit : Units \cup {NoUnit}, left : SUBSET Chunks,
        deletes : BOOLEAN]
IdleJob == [pc |-> "idle", unit |-> NoUnit, left |-> {}, deletes |-> FALSE]

HasRow == status \notin {"absent", "deleted"}
Active(j) == job[j].pc # "idle"
Ingesting(j) == Active(j) /\ ~job[j].deletes

\* UPDATE documents SET status ... WHERE id: nothing once the row is gone.
Mark(s) == status' = IF HasRow THEN s ELSE status

Goto(j, pc) == job' = [job EXCEPT ![j].pc = pc]

\* What a retrieval for these units returns: it reads the indexes only.
Hits(us) == {c \in Chunks : vectors[c] \in us \/ \E u \in us : <<c, u>> \in texts}

IngestionInit ==
  /\ status = "absent"
  /\ file = FALSE
  /\ vectors = [c \in Chunks |-> NoUnit]
  /\ texts = {}
  /\ job = [j \in Jobs |-> IdleJob]
  /\ watcher = [w \in Watchers |-> "none"]
  /\ crashes = 0 /\ started = 0
  /\ overlap = FALSE /\ doomed = FALSE /\ foreign = FALSE /\ silenced = FALSE

-----------------------------------------------------------------------------
(* Requests *)

\* The organization scope of a unit holds its own documents, and the owner's
\* documents are also in the scope of the units above it.
Begin(j, u, pc, deletes) ==
  /\ ~Active(j)
  /\ started < MaxJobs
  /\ started' = started + 1
  /\ job' = [job EXCEPT ![j] = [IdleJob EXCEPT !.pc = pc, !.unit = u, !.deletes = deletes]]
  /\ overlap' = (overlap \/ \E i \in Jobs : Active(i))
  /\ foreign' = (foreign \/ u # Owner)
  /\ doomed' = (doomed \/ deletes)
  /\ UNCHANGED silenced

\* upload_document: the row is committed before the file is saved.
Upload(j) ==
  /\ status = "absent"
  /\ Begin(j, Owner, "save", FALSE)
  /\ status' = "uploaded"
  /\ UNCHANGED <<file, index, watcher, crashes>>

SaveFile(j) ==
  /\ job[j].pc = "save"
  /\ file' = TRUE
  /\ Goto(j, "parsing")
  /\ UNCHANGED <<status, index, watcher, history>>

\* reprocess_document finds the file, resets the status and starts a task.
ReprocessKeepsStatus(j, u) ==  \* mutant
  /\ HasRow /\ file
  /\ Begin(j, u, "purge vectors", FALSE)
  /\ UNCHANGED <<status, file, index, watcher, crashes>>
Reprocess(j, u) ==
  /\ HasRow /\ file
  /\ Begin(j, u, "purge vectors", FALSE)
  /\ status' = "uploaded"
  /\ UNCHANGED <<file, index, watcher, crashes>>

Delete(j, u) ==
  /\ HasRow
  /\ Begin(j, u, "purge vectors", TRUE)
  /\ UNCHANGED <<status, file, index, watcher, crashes>>

-----------------------------------------------------------------------------
(* The indexes: each call writes under the unit of the job's context *)

PurgeVectors(j) ==
  /\ job[j].pc = "purge vectors"
  /\ vectors' = [c \in Chunks |-> IF vectors[c] = job[j].unit THEN NoUnit ELSE vectors[c]]
  /\ Goto(j, "purge texts")
  /\ UNCHANGED <<status, file, texts, watcher, history>>

PurgeNoTexts(j) ==  \* mutant: the keyword index is forgotten
  /\ job[j].pc = "purge texts"
  /\ Goto(j, IF job[j].deletes THEN "unlink" ELSE "parsing")
  /\ UNCHANGED <<status, file, index, watcher, history>>
PurgeTexts(j) ==
  /\ job[j].pc = "purge texts"
  /\ texts' = {t \in texts : t[2] # job[j].unit}
  /\ Goto(j, IF job[j].deletes THEN "unlink" ELSE "parsing")
  /\ UNCHANGED <<status, file, vectors, watcher, history>>

\* The rest of delete_document; a row that is gone already is an error.
Unlink(j) ==
  /\ job[j].pc = "unlink"
  /\ file' = FALSE
  /\ Goto(j, "erase")
  /\ UNCHANGED <<status, index, watcher, history>>

Erase(j) ==
  /\ job[j].pc = "erase"
  /\ Mark("deleted")
  /\ job' = [job EXCEPT ![j] = IdleJob]
  /\ UNCHANGED <<file, index, watcher, history>>

-----------------------------------------------------------------------------
(* The pipeline *)

NextStage == [parsing |-> "chunking", chunking |-> "embedding",
              embedding |-> "indexing", indexing |-> "upsert"]

\* A stage sets its status; the work of the stage ends with the next step.
Stage(j) ==
  /\ job[j].pc \in DOMAIN NextStage
  /\ Mark(job[j].pc)
  /\ Goto(j, NextStage[job[j].pc])
  /\ UNCHANGED <<file, index, watcher, history>>

\* The chunk id is the primary key: a row of another unit is replaced.
Upsert(j) ==
  /\ job[j].pc = "upsert"
  /\ vectors' = [c \in Chunks |-> job[j].unit]
  /\ job' = [job EXCEPT ![j].pc = "insert", ![j].left = Chunks]
  /\ UNCHANGED <<status, file, texts, watcher, history>>

\* One transaction per chunk.
Insert(j) ==
  /\ job[j].pc = "insert"
  /\ \E c \in job[j].left :
       /\ texts' = texts \cup {<<c, job[j].unit>>}
       /\ job' = [job EXCEPT ![j].left = @ \ {c},
                             ![j].pc = IF job[j].left = {c} THEN "finish" ELSE "insert"]
  /\ UNCHANGED <<status, file, vectors, watcher, history>>

\* progress_tracker.publish of the last event of a job.
Publish == watcher' = [w \in Watchers |-> IF watcher[w] = "waiting" THEN "told" ELSE watcher[w]]

Finish(j) ==
  /\ job[j].pc = "finish"
  /\ Mark("ready")
  /\ Publish
  /\ job' = [job EXCEPT ![j] = IdleJob]
  /\ UNCHANGED <<file, index, history>>

\* Whatever a stage does may raise: no file, no text, no embedding, no index,
\* no database for its status.
Fail(j) ==
  /\ job[j].pc \in {"parsing", "chunking", "embedding", "indexing", "upsert", "insert", "finish"}
  /\ Goto(j, "failing")
  /\ UNCHANGED <<status, file, index, watcher, history>>

ReportFailureSilently(j) ==  \* mutant: no event of the failure
  /\ job[j].pc = "failing"
  /\ Mark("failed")
  /\ job' = [job EXCEPT ![j] = IdleJob]
  /\ UNCHANGED <<file, index, watcher, history>>
\* The exception handler marks the document and publishes the last event.
ReportFailure(j) ==
  /\ job[j].pc = "failing"
  /\ Mark("failed")
  /\ Publish
  /\ job' = [job EXCEPT ![j] = IdleJob]
  /\ UNCHANGED <<file, index, history>>

\* A purge or a save that raises ends the task with no further trace, and so
\* does the exception handler when it cannot mark the document: no event then.
Abort(j) ==
  /\ job[j].pc \in {"save", "purge vectors", "purge texts", "unlink", "failing"}
  /\ job' = [job EXCEPT ![j] = IdleJob]
  /\ silenced' = (silenced \/ job[j].pc = "failing")
  /\ UNCHANGED <<status, file, index, watcher, crashes, started, overlap, doomed, foreign>>

-----------------------------------------------------------------------------
(* Progress streams and crashes *)

Subscribe(w) ==
  /\ watcher[w] = "none" /\ HasRow
  /\ watcher' = [watcher EXCEPT ![w] = "waiting"]
  /\ UNCHANGED <<status, file, index, job, history>>

Consume(w) ==
  /\ watcher[w] = "told"
  /\ watcher' = [watcher EXCEPT ![w] = "gone"]
  /\ UNCHANGED <<status, file, index, job, history>>

\* The next start marks a document as failed that was in the pipeline for more
\* than half an hour; one whose file was still to be saved is not looked at.
Crash ==
  /\ crashes < MaxCrashes
  /\ crashes' = crashes + 1
  /\ job' = [j \in Jobs |-> IdleJob]
  /\ watcher' = [w \in Watchers |-> IF watcher[w] = "none" THEN "none" ELSE "gone"]
  /\ status' \in {status} \cup (IF status \in DOMAIN NextStage THEN {"failed"} ELSE {})
  /\ UNCHANGED <<file, index, started, overlap, doomed, foreign, silenced>>

JobStep(j) ==
  \/ SaveFile(j) \/ PurgeVectors(j) \/ PurgeTexts(j) \/ Unlink(j) \/ Erase(j)
  \/ Stage(j) \/ Upsert(j) \/ Insert(j) \/ Finish(j) \/ Fail(j) \/ ReportFailure(j)

IngestionNext ==
  \/ \E j \in Jobs :
       \/ Upload(j)
       \/ \E u \in Units : Reprocess(j, u) \/ Delete(j, u)
       \/ JobStep(j)
       \/ Abort(j)
  \/ \E w \in Watchers : Subscribe(w) \/ Consume(w)
  \/ Crash

\* The event loop goes on with every job and every stream that can go on.
IngestionFairness ==
  /\ \A j \in Jobs : WF_ingestionVars(JobStep(j))
  /\ \A w \in Watchers : WF_ingestionVars(Consume(w))

IngestionSpec ==
  IngestionInit /\ [][IngestionNext]_ingestionVars /\ IngestionFairness

-----------------------------------------------------------------------------
(* Properties *)

\* Every variable has a value of its kind.
IngestionTypeOK ==
  /\ status \in Statuses
  /\ file \in BOOLEAN
  /\ vectors \in [Chunks -> Units \cup {NoUnit}]
  /\ texts \subseteq Chunks \X Units
  /\ job \in [Jobs -> Job]
  /\ watcher \in [Watchers -> {"none", "waiting", "told", "gone"}]
  /\ crashes \in 0..MaxCrashes
  /\ started \in 0..MaxJobs
  /\ {overlap, doomed, foreign, silenced} \subseteq BOOLEAN

\* A document that says "ready" is found through both indexes, for its owner
\* and for no other unit, after any failure or crash, as long as its jobs did
\* not overlap and nobody began to delete it.
ReadyIsSearchable ==
  status = "ready" /\ ~overlap /\ ~doomed /\ ~foreign =>
    /\ \A c \in Chunks : vectors[c] = Owner
    /\ texts = Chunks \X {Owner}

\* A deleted document is found no more and its file is gone, after any failure
\* or crash, unless its jobs overlapped or another unit acted on it.
DeletedIsForgotten ==
  status = "deleted" /\ ~overlap /\ ~foreign => Hits(Units) = {} /\ ~file

\* documents.py: delete_document cleans up the vector and the FTS5 index.
\* It does not hold and is in no run: see the README.
DeleteCleansUp ==
  status = "deleted" /\ ~overlap => Hits(Units) = {}

\* A progress stream that is open while a document is ingested ends: the job
\* ends, whatever it meets, and says so.  The one exception is a job that
\* fails and then cannot mark the document as failed: it publishes nothing,
\* and the stream waits for ever.
StreamsEnd ==
  \A w \in Watchers :
    (watcher[w] = "waiting" /\ \E j \in Jobs : job[j].pc \in
        {"parsing", "chunking", "embedding", "indexing", "upsert", "insert", "finish", "failing"})
      ~> (watcher[w] # "waiting" \/ silenced)
=============================================================================
