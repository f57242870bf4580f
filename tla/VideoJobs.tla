------------------------------ MODULE VideoJobs ------------------------------
(***************************************************************************)
(* A video job: the request that creates it, the thread that runs it       *)
(* (jobs.py), the files it leaves in the store (artifacts.py), and the     *)
(* callers that poll the job or follow its events (streaming.py).          *)
(*                                                                         *)
(* Path.write_text opens the file truncated and then fills it, so every    *)
(* write is two steps and a reader may come between them.  Percentages are *)
(* left out: they shape a progress bar and decide nothing.                 *)
(***************************************************************************)
EXTENDS Naturals

CONSTANTS
    Artifacts,      \* artifact ids
    Readers,        \* callers that hold the job's id
    MaxPolls,       \* bound: reads of the job within PROGRESS_MAX_SECONDS
    MaxFaults       \* bound: writes to the store that fail

ASSUME JobsAssumption == MaxPolls \in Nat /\ MaxFaults \in Nat

VARIABLES
    hpc,        \* create_video: its next step
    wpc,        \* run_video_job: its next step
    then,       \* run_video_job: where a write returns to
    record,     \* the JobRecord object, shared by create_video and the thread
    left,       \* downloaded artifacts not yet stored
    file,       \* job-<id>.json
    saved,      \* what it holds when whole: the record last written
    blob, meta, \* <id>.bin and <id>.json, per artifact
    answer,     \* status in create_video's response
    rpc,        \* per reader: its next step
    seen,       \* per reader: the last status it was told
    out,        \* per reader: how its last request ended
    polls,      \* per reader: reads made by the stream
    faults      \* history: writes that failed

jobVars   == <<hpc, wpc, then, record, left, answer>>
storeVars == <<file, saved, blob, meta>>
readVars  == <<rpc, seen, out, polls>>
vars      == <<jobVars, storeVars, readVars, faults>>

-----------------------------------------------------------------------------
(* The store *)

Statuses == {"queued", "generating", "ready", "failed"}
Terminal == {"ready", "failed"}

Records == [status: Statuses, ids: SUBSET Artifacts]

Absent  == "absent"
Torn    == "torn"       \* opened for writing, or a write that failed halfway
Whole   == "whole"
Deleted == "deleted"    \* by the bucket; to a reader no different from absent

FileStates == {Absent, Torn, Whole, Deleted}

\* read_job: what does not parse is reported as no such job.
Found == file = Whole

Finished(r) == r.status \in Terminal

\* read_record: metadata that parses, and a blob, whatever is in it.
Readable(a) == meta[a] = Whole /\ blob[a] \in {Torn, Whole}

Ended   == {"none", "end", "raised", "exited", "dead"}
Running == wpc \notin Ended

-----------------------------------------------------------------------------
(* create_video *)

Init == /\ hpc = "write" /\ wpc = "none" /\ then = "none"
        /\ record = [status |-> "queued", ids |-> {}]
        /\ left = {}
        /\ file = Absent
        /\ saved = record
        /\ blob = [a \in Artifacts |-> Absent]
        /\ meta = [a \in Artifacts |-> Absent]
        /\ answer = "none"
        /\ rpc   = [r \in Readers |-> "idle"]
        /\ seen  = [r \in Readers |-> "none"]
        /\ out   = [r \in Readers |-> "none"]
        /\ polls = [r \in Readers |-> 0]
        /\ faults = 0

Queue ==
    /\ \/ hpc = "write" /\ hpc' = "close" /\ file' = Torn /\ UNCHANGED saved
       \/ hpc = "close" /\ hpc' = "start" /\ file' = Whole /\ saved' = record
    /\ UNCHANGED <<wpc, then, record, left, blob, meta, answer, readVars, faults>>

QueueFails ==
    /\ hpc \in {"write", "close"} /\ faults < MaxFaults
    /\ hpc' = "refused"
    /\ faults' = faults + 1
    /\ UNCHANGED <<wpc, then, record, left, storeVars, answer, readVars>>

\* run_in_executor: the thread may start before the next line runs.
HandOver ==
    /\ hpc = "start"
    /\ hpc' = "answer"
    /\ wpc' = "queued"
    /\ UNCHANGED <<then, record, left, storeVars, answer, readVars, faults>>

\* _job_response reads the record the thread is writing to.
Answer ==
    /\ hpc = "answer"
    /\ hpc' = "done"
    /\ answer' = record.status
    /\ UNCHANGED <<wpc, then, record, left, storeVars, readVars, faults>>

Create == Queue \/ QueueFails \/ HandOver \/ Answer

-----------------------------------------------------------------------------
(* run_video_job *)

\* The record changes to r and is written; the thread goes on at next.
Write(r, next) ==
    /\ record' = r
    /\ then' = next
    /\ wpc' = "open"

GoTo(next) == wpc' = next /\ UNCHANGED <<record, then>>

Open  == /\ wpc = "open"
         /\ file' = Torn
         /\ GoTo("close")
         /\ UNCHANGED <<left, saved, blob, meta, faults>>

Close == /\ wpc = "close"
         /\ file' = Whole /\ saved' = record
         /\ GoTo(then)
         /\ UNCHANGED <<left, blob, meta, faults>>

\* The first write is outside the try, and so is the one in its handler.
WriteFails ==
    /\ wpc \in {"open", "close"} /\ faults < MaxFaults
    /\ faults' = faults + 1
    /\ GoTo(IF then \in {"submit", "raised"} THEN "exited" ELSE "except")
    /\ UNCHANGED <<left, storeVars>>

Begin ==
    /\ wpc = "queued"
    /\ Write([record EXCEPT !.status = "generating"], "submit")
    /\ UNCHANGED <<left, storeVars, faults>>

\* The provider accepts the job, or answers a poll; the loop writes the record.
Submit ==
    /\ wpc \in {"submit", "poll"}
    /\ Write(record, "check")
    /\ UNCHANGED <<left, storeVars, faults>>

\* Mutant of Check: the job is ready when the provider says so.
CheckIsReady ==
    /\ wpc = "check"
    /\ \/ GoTo("poll")
       \/ Write([record EXCEPT !.status = "failed"], "end")
       \/ Write([record EXCEPT !.status = "ready"], "download")
    /\ UNCHANGED <<left, storeVars, faults>>

\* The provider's status: one the loop does not know as final, a failure, or
\* a success.
Check ==
    /\ wpc = "check"
    /\ \/ GoTo("poll")
       \/ Write([record EXCEPT !.status = "failed"], "end")
       \/ GoTo("download")
    /\ UNCHANGED <<left, storeVars, faults>>

\* The artifacts that have data.
Download ==
    /\ wpc = "download"
    /\ \E some \in SUBSET Artifacts : left' = some
    /\ GoTo("store")
    /\ UNCHANGED <<storeVars, faults>>

\* write_bytes or write_text on one of an artifact's two files.
Filled(f, a) == /\ f[a] # Whole
                /\ f' = [f EXCEPT ![a] = IF @ = Absent THEN Torn ELSE Whole]

\* Mutant of Put: metadata first.
PutMetaFirst(a) == \/ Filled(meta, a) /\ UNCHANGED blob
                   \/ meta[a] = Whole /\ Filled(blob, a) /\ UNCHANGED meta

\* store_artifact: the blob, then its metadata.
Put(a) == \/ Filled(blob, a) /\ UNCHANGED meta
          \/ blob[a] = Whole /\ Filled(meta, a) /\ UNCHANGED blob

\* One artifact at a time; its id is appended once both files are written.
Store(a) ==
    /\ wpc = "store"
    /\ a \in left
    /\ \A b \in left \ {a} : blob[b] = Absent /\ meta[b] = Absent
    /\ Put(a)
    /\ IF blob'[a] = Whole /\ meta'[a] = Whole
       THEN /\ left' = left \ {a}
            /\ record' = [record EXCEPT !.ids = @ \cup {a}]
       ELSE UNCHANGED <<left, record>>
    /\ UNCHANGED <<wpc, then, file, saved, faults>>

\* Mutant of Finish: success is ready, with data or without.
FinishReady ==
    /\ wpc = "store" /\ left = {}
    /\ Write([record EXCEPT !.status = "ready"], "end")
    /\ UNCHANGED <<left, storeVars, faults>>

\* Mutant of Finish: without data there is nothing to record.
FinishQuietly ==
    /\ wpc = "store" /\ left = {}
    /\ IF record.ids = {} THEN GoTo("end")
                          ELSE Write([record EXCEPT !.status = "ready"], "end")
    /\ UNCHANGED <<left, storeVars, faults>>

Finish ==
    /\ wpc = "store" /\ left = {}
    /\ Write([record EXCEPT !.status = IF record.ids = {} THEN "failed" ELSE "ready"],
             "end")
    /\ UNCHANGED <<left, storeVars, faults>>

\* Mutant of ProviderRaises: outside the try.
ProviderEndsThread ==
    /\ wpc \in {"submit", "poll", "download"}
    /\ GoTo("exited")
    /\ UNCHANGED <<left, storeVars, faults>>

\* The provider raises.
ProviderRaises ==
    /\ wpc \in {"submit", "poll", "download"}
    /\ GoTo("except")
    /\ UNCHANGED <<left, storeVars, faults>>

\* The store does: what was written of the artifact stays.
StoreRaises ==
    /\ wpc = "store" /\ left # {} /\ faults < MaxFaults
    /\ faults' = faults + 1
    /\ GoTo("except")
    /\ UNCHANGED <<left, storeVars>>

Except ==
    /\ wpc = "except"
    /\ Write([record EXCEPT !.status = "failed"], "raised")
    /\ UNCHANGED <<left, storeVars, faults>>

Work == /\ \/ Begin \/ Open \/ Close \/ WriteFails \/ Submit \/ Check \/ Download
           \/ (\E a \in Artifacts : Store(a)) \/ Finish
           \/ ProviderRaises \/ StoreRaises \/ Except
        /\ UNCHANGED <<hpc, answer, readVars>>

\* The process dies: nothing resumes the job.
Die ==
    /\ Running \/ hpc \in {"write", "close", "start", "answer"}
    /\ wpc' = "dead"
    /\ hpc' = IF hpc = "done" THEN hpc ELSE "dead"
    /\ UNCHANGED <<then, record, left, answer, storeVars, readVars, faults>>

\* The bucket's lifecycle rule deletes one object, long after the job ended.
Lifecycle ==
    /\ wpc \in Ended \ {"none"}
    /\ \/ file # Absent /\ file' = Deleted /\ UNCHANGED <<blob, meta>>
       \/ \E a \in Artifacts :
            /\ blob[a] # Absent
            /\ blob' = [blob EXCEPT ![a] = Deleted]
            /\ UNCHANGED <<file, meta>>
       \/ \E a \in Artifacts :
            /\ meta[a] # Absent
            /\ meta' = [meta EXCEPT ![a] = Deleted]
            /\ UNCHANGED <<file, blob>>
    /\ UNCHANGED <<saved, jobVars, readVars, faults>>

-----------------------------------------------------------------------------
(* GET /v1/videos/{id} and /v1/videos/{id}/events *)

\* A reader has the id from create_video's response.
Ask(r, next) ==
    /\ hpc = "done" /\ rpc[r] = "idle"
    /\ rpc' = [rpc EXCEPT ![r] = next]
    /\ UNCHANGED <<jobVars, storeVars, seen, out, polls, faults>>

Leave(r, how) == /\ rpc'   = [rpc EXCEPT ![r] = "idle"]
                 /\ out'   = [out EXCEPT ![r] = how]
                 /\ polls' = [polls EXCEPT ![r] = 0]

\* video_job, and the read before a stream opens.
Poll(r) ==
    /\ rpc[r] \in {"poll", "follow"}
    /\ \/ ~Found /\ Leave(r, "not_found") /\ UNCHANGED seen
       \/ /\ Found
          /\ \/ /\ rpc[r] = "poll"
                /\ Leave(r, "answered")
                /\ seen' = [seen EXCEPT ![r] = saved.status]
             \/ /\ rpc[r] = "follow"
                /\ rpc' = [rpc EXCEPT ![r] = "stream"]
                /\ UNCHANGED <<seen, out, polls>>
    /\ UNCHANGED <<jobVars, storeVars, faults>>

\* Mutant of Stream: no ceiling.
StreamForever(r) ==
    /\ rpc[r] = "stream"
    /\ \/ ~Found /\ Leave(r, "not_found") /\ UNCHANGED seen
       \/ /\ Found
          /\ seen' = [seen EXCEPT ![r] = saved.status]
          /\ IF Finished(saved) THEN Leave(r, saved.status)
                                ELSE UNCHANGED <<rpc, out, polls>>
    /\ UNCHANGED <<jobVars, storeVars, faults>>

\* One turn of sse_job_progress's loop.
Stream(r) ==
    /\ rpc[r] = "stream"
    /\ \/ ~Found /\ Leave(r, "not_found") /\ UNCHANGED seen
       \/ /\ Found
          /\ seen' = [seen EXCEPT ![r] = saved.status]
          /\ \/ Finished(saved) /\ Leave(r, saved.status)
             \/ ~Finished(saved) /\ polls[r] = MaxPolls /\ Leave(r, "timed_out")
             \/ /\ ~Finished(saved) /\ polls[r] < MaxPolls
                /\ polls' = [polls EXCEPT ![r] = @ + 1]
                /\ UNCHANGED <<rpc, out>>
    /\ UNCHANGED <<jobVars, storeVars, faults>>

Read(r) == Poll(r) \/ Stream(r)

Next == \/ Create
        \/ Work \/ Die \/ Lifecycle
        \/ \E r \in Readers : \/ \E next \in {"poll", "follow"} : Ask(r, next)
                              \/ Read(r)

Spec == Init /\ [][Next]_vars

\* The event loop and the threads go on.  Nothing says the provider ever
\* reports an end, so nothing says the loop of polls ends.
FairSpec == /\ Spec
            /\ WF_vars(Create) /\ WF_vars(Work)
            /\ \A r \in Readers : WF_vars(Read(r))

-----------------------------------------------------------------------------
(* Properties *)

\* Every variable has its type.
TypeOK ==
    /\ hpc \in {"write", "close", "start", "answer", "done", "refused", "dead"}
    /\ wpc \in Ended \cup {"queued", "open", "close", "submit", "poll", "check",
                           "download", "store", "except"}
    /\ then \in {"none", "submit", "check", "end", "raised"}
    /\ record \in Records /\ saved \in Records
    /\ left \in SUBSET Artifacts
    /\ file \in FileStates
    /\ blob \in [Artifacts -> FileStates]
    /\ meta \in [Artifacts -> FileStates]
    /\ answer \in Statuses \cup {"none"}
    /\ rpc \in [Readers -> {"idle", "poll", "follow", "stream"}]
    /\ seen \in [Readers -> Statuses \cup {"none"}]
    /\ out \in [Readers -> Terminal \cup {"none", "answered", "not_found", "timed_out"}]
    /\ polls \in [Readers -> 0 .. MaxPolls]
    /\ faults \in 0 .. MaxFaults

\* A job that reads as ready names artifacts, and each of them can be read
\* until the bucket deletes it (jobs.py:148-157).
ReadyMeansReadable ==
    Found /\ saved.status = "ready" =>
        /\ saved.ids # {}
        /\ \A a \in saved.ids : Readable(a) \/ Deleted \in {blob[a], meta[a]}

\* What read_record lets a caller read has all its bytes, even in the middle
\* of store_artifact or after it failed (artifacts.py:191-192).
ReadableMeansWhole == \A a \in Artifacts : Readable(a) => blob[a] = Whole

\* What a caller reads of a job goes forward only, and a finished job stays
\* as it is ("whether a job has stopped changing", artifacts.py:315-317).
Rank(status) == CASE status = "none"       -> 0
                  [] status = "queued"     -> 1
                  [] status = "generating" -> 2
                  [] status \in Terminal   -> 3

AnswersAdvance ==
    [][\A r \in Readers : \/ Rank(seen'[r]) > Rank(seen[r])
                          \/ seen'[r] = seen[r]]_vars

\* As long as the store takes every write, a thread that is done has left a
\* finished record, or the bucket has deleted it.
OutcomeRecorded ==
    wpc \in {"end", "raised", "exited"} /\ faults = 0 =>
        (Found /\ Finished(saved)) \/ file = Deleted

\* jobs.py:89-91: "Every exit path writes a terminal record, so a caller
\* polling for progress always learns the outcome".
EveryExitRecorded ==
    wpc \in {"end", "raised", "exited"} =>
        (Found /\ Finished(saved)) \/ file = Deleted

\* artifacts.py:297-300: read_job raises "When no such job belongs to this
\* caller", and only then: a reader has the id of a job that was written.
FoundOnceWritten ==
    \A r \in Readers : out[r] = "not_found" => file = Deleted

shelf == {a \in Artifacts : Readable(a)}

gone == {a \in Artifacts : Deleted \in {blob[a], meta[a]}}

Promise == INSTANCE JobPromise WITH word <- saved, open <- Found, heard <- seen

\* Whoever holds the id of a job reads the record last written or nothing: it
\* goes forward to one outcome, and the artifacts it lists are there
\* (jobs.py:89-91, artifacts.py:191-192).
JobKept == Promise!Spec

\* Once the provider is done with the job, its outcome is recorded, or a
\* write has failed, or the process has died.
OutcomeFollows ==
    wpc = "download" ~> (Finished(saved) \/ faults # 0 \/ wpc = "dead")

\* Every request for a job's state ends, events included, whatever becomes
\* of the job (streaming.py:174-180).
ReadsEnd == \A r \in Readers : rpc[r] # "idle" ~> rpc[r] = "idle"
=============================================================================
