-------------------------- MODULE VideoJobsProofs --------------------------
(***************************************************************************)
(* What holds of a video job for any set of artifact ids, any number of    *)
(* readers and any number of failing writes.  The invariant follows the    *)
(* thread: at each of its steps, what the record says, what the store      *)
(* holds of the job and of its artifacts, and what readers may have seen.  *)
(***************************************************************************)
EXTENDS VideoJobs, TLAPS

\* Steps of the thread, by what the record says there.
Unstarted == {"none", "queued"}
Underway  == {"submit", "poll", "check", "download", "store"}
Over      == {"end", "raised", "exited", "dead"}

\* The record's status is decided by where the thread is.
RecordFollows ==
    /\ wpc \in Unstarted => record.status = "queued" /\ record.ids = {}
    /\ wpc \in Underway => record.status = "generating"
    /\ wpc \in {"open", "close"} =>
          CASE then \in {"submit", "check"} -> record.status = "generating"
            [] then = "end"    -> record.status \in Terminal
            [] then = "raised" -> record.status = "failed"
            [] OTHER -> FALSE
    /\ record.status = "ready" => record.ids # {}

\* Nothing finished is stored while the thread may still write, and what is
\* stored when it is over is what the record says.
SavedFollows ==
    /\ saved.status \in Terminal => /\ wpc \in {"end", "raised", "dead"}
                                    /\ saved = record
    /\ wpc \in {"end", "raised"} => /\ file \in {Whole, Deleted}
                                    /\ saved.status \in Terminal
    /\ wpc \in Unstarted => saved.status = "queued"
    /\ wpc = "exited" => faults # 0

\* create_video writes the first record before there is a thread.
CreateFirst == hpc \in {"write", "close", "start"} <=> wpc = "none" /\ hpc # "refused"

\* Nothing is deleted while the thread may still write.
DeletedLate == wpc \notin Over => \A a \in Artifacts : Deleted \notin {blob[a], meta[a]}

\* Metadata is begun when the blob is whole; listed artifacts have both.
BlobFirst == \A a \in Artifacts : meta[a] \in {Torn, Whole} => blob[a] \in {Whole, Deleted}
ListedStored ==
    \A a \in record.ids : /\ blob[a] \in {Whole, Deleted}
                          /\ meta[a] \in {Whole, Deleted}

\* A reader is never ahead of what was stored.
SeenFollows ==
    \A r \in Readers : \/ Rank(seen[r]) < Rank(saved.status)
                       \/ seen[r] = saved.status

IInv == /\ TypeOK /\ RecordFollows /\ SavedFollows /\ CreateFirst
        /\ DeletedLate /\ BlobFirst /\ ListedStored /\ SeenFollows

-----------------------------------------------------------------------------
(* Types *)

LEMMA RankOfStatus ==
    /\ Rank("none") = 0 /\ Rank("queued") = 1 /\ Rank("generating") = 2
    /\ Rank("ready") = 3 /\ Rank("failed") = 3
<1> QED
  BY DEF Rank, Terminal

LEMMA WriteTypes ==
    ASSUME TypeOK, NEW r \in Records, NEW next \in {"submit", "check", "end", "raised"},
           Write(r, next)
    PROVE  /\ record' \in Records
           /\ then' \in {"none", "submit", "check", "end", "raised"}
           /\ wpc' = "open"
<1> QED
  BY DEF Write

LEMMA StatusTyped ==
    ASSUME TypeOK, NEW status \in Statuses
    PROVE  [record EXCEPT !.status = status] \in Records
<1> QED
  BY DEF TypeOK, Records

LEMMA CreateTypes == TypeOK /\ Create => TypeOK'
<1> SUFFICES ASSUME TypeOK, Create PROVE TypeOK'
  OBVIOUS
<1> USE DEF TypeOK, storeVars, readVars
<1>1. CASE Queue
  BY <1>1 DEF Queue, FileStates
<1>2. CASE QueueFails
  BY <1>2, JobsAssumption DEF QueueFails
<1>3. CASE HandOver
  BY <1>3 DEF HandOver
<1>4. CASE Answer
  BY <1>4 DEF Answer, Records
<1> QED
  BY <1>1, <1>2, <1>3, <1>4 DEF Create

LEMMA WorkTypes == TypeOK /\ Work => TypeOK'
<1> SUFFICES ASSUME TypeOK, Work PROVE TypeOK'
  OBVIOUS
<1> DEFINE Steps == Ended \cup {"queued", "open", "close", "submit", "poll", "check",
                                "download", "store", "except"}
<1>0. UNCHANGED <<hpc, answer, rpc, seen, out, polls>>
  BY DEF Work, readVars
<1>1. CASE Begin
  BY <1>0, <1>1, StatusTyped DEF Begin, Write, TypeOK, storeVars, Statuses
<1>2. CASE Open
  BY <1>0, <1>2 DEF Open, GoTo, TypeOK, FileStates
<1>3. CASE Close
  BY <1>0, <1>3 DEF Close, GoTo, TypeOK, FileStates, Ended
<1>4. CASE WriteFails
  BY <1>0, <1>4, JobsAssumption DEF WriteFails, GoTo, TypeOK, storeVars, Ended
<1>5. CASE Submit
  BY <1>0, <1>5 DEF Submit, Write, TypeOK, storeVars
<1>6. CASE Check
  BY <1>0, <1>6, StatusTyped DEF Check, GoTo, Write, TypeOK, storeVars, Statuses
<1>7. CASE Download
  BY <1>0, <1>7 DEF Download, GoTo, TypeOK, storeVars
<1>8. ASSUME NEW a \in Artifacts, Store(a) PROVE TypeOK'
  <2>1. blob' \in [Artifacts -> FileStates] /\ meta' \in [Artifacts -> FileStates]
    BY <1>8 DEF Store, Put, Filled, TypeOK, FileStates
  <2>2. record' \in Records /\ left' \in SUBSET Artifacts
    <3>1. [record EXCEPT !.ids = @ \cup {a}] \in Records
      BY DEF TypeOK, Records
    <3> QED
      BY <1>8, <3>1 DEF Store, TypeOK
  <2> QED
    BY <1>0, <1>8, <2>1, <2>2 DEF Store, TypeOK
<1>9. CASE Finish
  BY <1>0, <1>9, StatusTyped DEF Finish, Write, TypeOK, storeVars, Statuses
<1>10. CASE ProviderRaises
  BY <1>0, <1>10 DEF ProviderRaises, GoTo, TypeOK, storeVars
<1>11. CASE StoreRaises
  BY <1>0, <1>11, JobsAssumption DEF StoreRaises, GoTo, TypeOK, storeVars
<1>12. CASE Except
  BY <1>0, <1>12, StatusTyped DEF Except, Write, TypeOK, storeVars, Statuses
<1> QED
  BY <1>1, <1>2, <1>3, <1>4, <1>5, <1>6, <1>7, <1>8, <1>9, <1>10, <1>11, <1>12 DEF Work

LEMMA OtherTypes ==
    ASSUME TypeOK,
           Die \/ Lifecycle \/ \E r \in Readers : \/ \E next \in {"poll", "follow"} : Ask(r, next)
                                                  \/ Read(r)
    PROVE  TypeOK'
<1> USE DEF TypeOK
<1>1. CASE Die
  BY <1>1 DEF Die, storeVars, readVars, Ended
<1>2. CASE Lifecycle
  BY <1>2 DEF Lifecycle, jobVars, readVars, FileStates
<1>3. ASSUME NEW r \in Readers, NEW next \in {"poll", "follow"}, Ask(r, next) PROVE TypeOK'
  BY <1>3 DEF Ask, jobVars, storeVars
<1>4. ASSUME NEW r \in Readers, Poll(r) PROVE TypeOK'
  BY <1>4, JobsAssumption DEF Poll, Leave, jobVars, storeVars, Records
<1>5. ASSUME NEW r \in Readers, Stream(r) PROVE TypeOK'
  <2>1. saved.status \in Statuses /\ polls[r] \in 0 .. MaxPolls
    BY DEF Records
  <2>2. seen' \in [Readers -> Statuses \cup {"none"}]
    BY <1>5, <2>1 DEF Stream
  <2>3. polls' \in [Readers -> 0 .. MaxPolls]
    BY <1>5, <2>1, JobsAssumption DEF Stream, Leave
  <2>4. /\ rpc' \in [Readers -> {"idle", "poll", "follow", "stream"}]
        /\ out' \in [Readers -> Terminal \cup {"none", "answered", "not_found", "timed_out"}]
    BY <1>5 DEF Stream, Leave, Finished
  <2> QED
    BY <1>5, <2>2, <2>3, <2>4 DEF Stream, jobVars, storeVars
<1> QED
  BY <1>1, <1>2, <1>3, <1>4, <1>5 DEF Read

-----------------------------------------------------------------------------
(* The invariant *)

LEMMA InitIInv == Init => IInv
<1> SUFFICES ASSUME Init PROVE IInv
  OBVIOUS
<1> USE DEF Init
<1>1. TypeOK
  BY JobsAssumption DEF TypeOK, Records, Statuses, FileStates, Ended
<1>2. RecordFollows /\ SavedFollows /\ CreateFirst
  BY DEF RecordFollows, SavedFollows, CreateFirst, Unstarted, Underway, Terminal
<1>3. DeletedLate /\ BlobFirst /\ ListedStored /\ SeenFollows
  BY RankOfStatus DEF DeletedLate, BlobFirst, ListedStored, SeenFollows, Absent,
     Torn, Whole, Deleted
<1> QED
  BY <1>1, <1>2, <1>3 DEF IInv

\* Steps that leave the artifacts' files and the record's list alone.
LEMMA ArtifactsKept ==
    ASSUME IInv, UNCHANGED <<blob, meta>>, record'.ids = record.ids,
           wpc' \notin Over => wpc \notin Over
    PROVE  DeletedLate' /\ BlobFirst' /\ ListedStored'
<1> QED
  BY DEF IInv, DeletedLate, BlobFirst, ListedStored

\* Steps that change neither what is stored of the job nor what readers saw.
LEMMA SeenKept ==
    ASSUME IInv, UNCHANGED <<saved, seen>>
    PROVE  SeenFollows'
<1> QED
  BY DEF IInv, SeenFollows

LEMMA CreateIInv == IInv /\ Create => IInv'
<1> SUFFICES ASSUME IInv, Create PROVE IInv'
  OBVIOUS
<1>1. TypeOK'
  BY CreateTypes DEF IInv
<1> USE DEF IInv, RecordFollows, SavedFollows, CreateFirst, Unstarted, Underway,
            Terminal, storeVars, readVars
<1>2. CASE Queue
  <2>1. /\ wpc = "none" /\ record.status = "queued" /\ saved.status = "queued"
        /\ UNCHANGED <<wpc, then, record, blob, meta, seen, faults>>
        /\ saved'.status = "queued"
    BY <1>2 DEF Queue
  <2>2. RecordFollows' /\ SavedFollows' /\ CreateFirst'
    BY <1>2, <2>1 DEF Queue
  <2>3. SeenFollows'
    BY <2>1 DEF SeenFollows
  <2> QED
    BY <1>1, <2>1, <2>2, <2>3, ArtifactsKept
<1>3. CASE QueueFails
  <2>1. RecordFollows' /\ SavedFollows' /\ CreateFirst'
    BY <1>3 DEF QueueFails, TypeOK
  <2> QED
    BY <1>1, <1>3, <2>1, ArtifactsKept, SeenKept DEF QueueFails
<1>4. CASE HandOver
  <2>1. RecordFollows' /\ SavedFollows' /\ CreateFirst'
    BY <1>4 DEF HandOver
  <2> QED
    BY <1>1, <1>4, <2>1, ArtifactsKept, SeenKept DEF HandOver, Over
<1>5. CASE Answer
  <2>1. RecordFollows' /\ SavedFollows' /\ CreateFirst'
    BY <1>5 DEF Answer
  <2> QED
    BY <1>1, <1>5, <2>1, ArtifactsKept, SeenKept DEF Answer
<1> QED
  BY <1>2, <1>3, <1>4, <1>5 DEF Create

\* The thread changes the record and goes to write it.
LEMMA WriteIInv ==
    ASSUME IInv, TypeOK', wpc \notin Over \cup {"none"},
           NEW status \in Statuses, NEW next \in {"submit", "check", "end", "raised"},
           CASE next \in {"submit", "check"} -> status = "generating"
             [] next = "end"    -> status \in Terminal
             [] next = "raised" -> status = "failed",
           status = "ready" => record.ids # {},
           Write([record EXCEPT !.status = status], next),
           UNCHANGED <<hpc, left, storeVars, seen, faults>>
    PROVE  IInv'
<1>1. record' = [record EXCEPT !.status = status] /\ wpc' = "open" /\ then' = next
  BY DEF Write
<1>2. record'.status = status /\ record'.ids = record.ids
  BY <1>1 DEF IInv, TypeOK, Records
<1>3. RecordFollows'
  <2>1. CASE next \in {"submit", "check"}
    BY <1>1, <1>2, <2>1 DEF RecordFollows, Unstarted, Underway
  <2>2. CASE next = "end"
    BY <1>1, <1>2, <2>2 DEF RecordFollows, Unstarted, Underway
  <2>3. CASE next = "raised"
    BY <1>1, <1>2, <2>3 DEF RecordFollows, Unstarted, Underway
  <2> QED
    BY <2>1, <2>2, <2>3
<1>4. SavedFollows' /\ CreateFirst'
  BY <1>1 DEF IInv, SavedFollows, CreateFirst, Unstarted, Over, storeVars
<1> QED
  BY <1>1, <1>2, <1>3, <1>4, ArtifactsKept, SeenKept DEF IInv, storeVars, Over

\* The thread goes on without touching the record.
LEMMA GoToIInv ==
    ASSUME IInv, TypeOK', wpc \notin Over \cup Unstarted,
           NEW next \in Underway \cup {"except", "exited"}, GoTo(next),
           next \in Underway => record.status = "generating",
           next = "exited" => faults' # 0,
           UNCHANGED <<hpc, storeVars, seen>>
    PROVE  IInv'
<1>1. RecordFollows' /\ SavedFollows' /\ CreateFirst'
  BY DEF IInv, RecordFollows, SavedFollows, CreateFirst, GoTo, Unstarted, Over,
         Underway, storeVars
<1> QED
  BY <1>1, ArtifactsKept, SeenKept DEF IInv, GoTo, storeVars

LEMMA CloseIInv == IInv /\ Work /\ Close => IInv'
<1> SUFFICES ASSUME IInv, Work, Close PROVE IInv'
  OBVIOUS
<1>1. TypeOK' /\ UNCHANGED <<hpc, seen>>
  BY WorkTypes DEF IInv, Work, readVars
<1>2. /\ wpc = "close" /\ wpc' = then /\ file' = Whole /\ saved' = record
      /\ UNCHANGED <<record, then, left, blob, meta, faults>>
  BY DEF Close, GoTo
<1>3. /\ then \in {"submit", "check", "end", "raised"}
      /\ then \in {"submit", "check"} => record.status = "generating"
      /\ then = "end" => record.status \in Terminal
      /\ then = "raised" => record.status = "failed"
  <2>1. CASE then \in {"submit", "check"}
    BY <1>2, <2>1 DEF IInv, RecordFollows
  <2>2. CASE then = "end"
    BY <1>2, <2>2 DEF IInv, RecordFollows
  <2>3. CASE then = "raised"
    BY <1>2, <2>3 DEF IInv, RecordFollows
  <2>4. CASE then = "none"
    BY <1>2, <2>4 DEF IInv, RecordFollows
  <2> QED
    BY <2>1, <2>2, <2>3, <2>4 DEF IInv, TypeOK
<1>4. RecordFollows' /\ SavedFollows' /\ CreateFirst'
  BY <1>1, <1>2, <1>3 DEF IInv, RecordFollows, SavedFollows, CreateFirst, Unstarted,
     Underway, Terminal
<1>5. SeenFollows'
  <2>1. saved.status \in {"queued", "generating"}
    BY <1>2 DEF IInv, SavedFollows, TypeOK, Records, Statuses, Terminal
  <2>2. Rank(saved.status) < Rank(record.status) \/ saved.status = record.status
    BY <2>1, <1>3, RankOfStatus DEF Terminal
  <2>3. Rank(saved.status) \in Nat /\ Rank(record.status) \in Nat
    BY <2>1, <1>3, RankOfStatus DEF Terminal
  <2> SUFFICES ASSUME NEW r \in Readers
               PROVE  Rank(seen[r]) < Rank(record.status) \/ seen[r] = record.status
    BY <1>1, <1>2 DEF SeenFollows
  <2>4. Rank(seen[r]) \in Nat
    BY RankOfStatus DEF IInv, TypeOK, Statuses
  <2> QED
    BY <2>2, <2>3, <2>4 DEF IInv, SeenFollows
<1> QED
  BY <1>1, <1>2, <1>3, <1>4, <1>5, ArtifactsKept DEF IInv, Over

\* One step of store_artifact.
LEMMA StoreIInv ==
    ASSUME IInv, Work, NEW a \in Artifacts, Store(a)
    PROVE  IInv'
<1>1. TypeOK' /\ UNCHANGED <<hpc, seen>>
  BY WorkTypes DEF IInv, Work, readVars
<1>2. /\ wpc = "store" /\ wpc' = "store" /\ a \in left /\ Put(a)
      /\ UNCHANGED <<then, file, saved, faults>>
      /\ \/ left' = left /\ record' = record
         \/ /\ blob'[a] = Whole /\ meta'[a] = Whole
            /\ record' = [record EXCEPT !.ids = @ \cup {a}]
  BY DEF Store
<1>3. record.status = "generating" /\ record'.status = "generating"
  BY <1>2 DEF IInv, TypeOK, Records, RecordFollows, Underway
<1>4. RecordFollows' /\ SavedFollows' /\ CreateFirst'
  BY <1>1, <1>2, <1>3 DEF IInv, RecordFollows, SavedFollows, CreateFirst, Unstarted,
     Underway, Terminal
<1>5. Deleted \notin {blob[a], meta[a]}
  BY <1>2 DEF IInv, DeletedLate, Over
<1>6. \/ /\ blob[a] # Whole /\ meta' = meta
         /\ blob' = [blob EXCEPT ![a] = IF @ = Absent THEN Torn ELSE Whole]
      \/ /\ blob[a] = Whole /\ meta[a] # Whole /\ blob' = blob
         /\ meta' = [meta EXCEPT ![a] = IF @ = Absent THEN Torn ELSE Whole]
  BY <1>2 DEF Put, Filled
<1>7. \A b \in Artifacts : /\ b # a => blob'[b] = blob[b] /\ meta'[b] = meta[b]
                           /\ {blob'[a], meta'[a]} \subseteq {blob[a], meta[a], Torn, Whole}
  BY <1>6 DEF IInv, TypeOK
<1>8. DeletedLate'
  BY <1>2, <1>5, <1>7 DEF IInv, DeletedLate, Over, Deleted, Torn, Whole
<1>9. BlobFirst'
  <2>1. CASE blob[a] # Whole
    BY <1>5, <1>6, <1>7, <2>1 DEF IInv, TypeOK, BlobFirst, Torn, Whole, Deleted
  <2>2. CASE blob[a] = Whole
    BY <1>6, <1>7, <2>2 DEF IInv, TypeOK, BlobFirst
  <2> QED
    BY <2>1, <2>2
<1>10. ListedStored'
  <2>1. record.ids \subseteq Artifacts
    BY DEF IInv, TypeOK, Records
  <2>2. a \notin record.ids
    BY <1>5, <1>6 DEF IInv, ListedStored
  <2>3. \A b \in record.ids : b # a /\ blob'[b] = blob[b] /\ meta'[b] = meta[b]
    BY <2>1, <2>2, <1>7
  <2>4. CASE record' = record
    BY <2>3, <2>4 DEF IInv, ListedStored
  <2>5. CASE /\ blob'[a] = Whole /\ meta'[a] = Whole
             /\ record' = [record EXCEPT !.ids = @ \cup {a}]
    <3>1. record'.ids = record.ids \cup {a}
      BY <2>5 DEF IInv, TypeOK, Records
    <3> QED
      BY <2>3, <2>5, <3>1 DEF IInv, ListedStored
  <2> QED
    BY <1>2, <2>4, <2>5
<1> QED
  BY <1>1, <1>2, <1>4, <1>8, <1>9, <1>10, SeenKept DEF IInv

LEMMA WorkIInv == IInv /\ Work => IInv'
<1> SUFFICES ASSUME IInv, Work PROVE IInv'
  OBVIOUS
<1>0. TypeOK /\ TypeOK' /\ UNCHANGED <<hpc, seen>>
  BY WorkTypes DEF IInv, Work, readVars
<1> USE DEF Over, Unstarted
<1>1. CASE Begin
  BY <1>0, <1>1, WriteIInv DEF Begin, Statuses
<1>2. CASE Open
  <2>1. RecordFollows' /\ SavedFollows' /\ CreateFirst'
    BY <1>0, <1>2 DEF Open, GoTo, IInv, RecordFollows, SavedFollows, CreateFirst, Underway
  <2> QED
    BY <1>0, <1>2, <2>1, ArtifactsKept, SeenKept DEF Open, GoTo, IInv
<1>3. CASE Close
  BY <1>3, CloseIInv
<1>4. CASE WriteFails
  <2>1. faults' # 0
    BY <1>0, <1>4 DEF WriteFails, TypeOK
  <2> QED
    BY <1>0, <1>4, <2>1, GoToIInv DEF WriteFails, Underway
<1>5. CASE Submit
  <2>1. record.status = "generating" /\ record = [record EXCEPT !.status = "generating"]
    BY <1>0, <1>5 DEF Submit, IInv, RecordFollows, Underway, TypeOK, Records
  <2> QED
    BY <1>0, <1>5, <2>1, WriteIInv DEF Submit, Statuses
<1>6. CASE Check
  <2>1. record.status = "generating"
    BY <1>6 DEF Check, IInv, RecordFollows, Underway
  <2>2. CASE GoTo("poll")
    BY <1>0, <1>6, <2>1, <2>2, GoToIInv DEF Check, Underway
  <2>3. CASE GoTo("download")
    BY <1>0, <1>6, <2>1, <2>3, GoToIInv DEF Check, Underway
  <2>4. CASE Write([record EXCEPT !.status = "failed"], "end")
    BY <1>0, <1>6, <2>4, WriteIInv DEF Check, Statuses, Terminal
  <2> QED
    BY <1>6, <2>2, <2>3, <2>4 DEF Check
<1>7. CASE Download
  <2>1. record.status = "generating"
    BY <1>7 DEF Download, IInv, RecordFollows, Underway
  <2> QED
    BY <1>0, <1>7, <2>1, GoToIInv DEF Download, Underway
<1>8. ASSUME NEW a \in Artifacts, Store(a) PROVE IInv'
  BY <1>8, StoreIInv
<1>9. CASE Finish
  <2>1. CASE record.ids = {}
    BY <1>0, <1>9, <2>1, WriteIInv DEF Finish, Statuses, Terminal
  <2>2. CASE record.ids # {}
    BY <1>0, <1>9, <2>2, WriteIInv DEF Finish, Statuses, Terminal
  <2> QED
    BY <2>1, <2>2
<1>10. CASE ProviderRaises
  BY <1>0, <1>10, GoToIInv DEF ProviderRaises, Underway
<1>11. CASE StoreRaises
  BY <1>0, <1>11, GoToIInv DEF StoreRaises, Underway
<1>12. CASE Except
  BY <1>0, <1>12, WriteIInv DEF Except, Statuses
<1> QED
  BY <1>1, <1>2, <1>3, <1>4, <1>5, <1>6, <1>7, <1>8, <1>9, <1>10, <1>11, <1>12 DEF Work

LEMMA DieIInv == IInv /\ Die => IInv'
<1> SUFFICES ASSUME IInv, Die PROVE IInv'
  OBVIOUS
<1>1. TypeOK'
  BY OtherTypes DEF IInv
<1>2. RecordFollows' /\ SavedFollows' /\ CreateFirst'
  BY DEF Die, IInv, TypeOK, RecordFollows, SavedFollows, CreateFirst, Unstarted,
     Underway, storeVars
<1> QED
  BY <1>1, <1>2, ArtifactsKept, SeenKept DEF Die, IInv, storeVars, readVars, Over

LEMMA LifecycleIInv == IInv /\ Lifecycle => IInv'
<1> SUFFICES ASSUME IInv, Lifecycle PROVE IInv'
  OBVIOUS
<1>1. TypeOK'
  BY OtherTypes DEF IInv
<1>2. /\ wpc \in Over
      /\ UNCHANGED <<hpc, wpc, then, record, saved, seen, faults>>
      /\ file' \in {file, Deleted}
  BY DEF Lifecycle, jobVars, readVars, Ended, Over
<1>3. RecordFollows' /\ SavedFollows' /\ CreateFirst' /\ DeletedLate'
  BY <1>2 DEF IInv, RecordFollows, SavedFollows, CreateFirst, DeletedLate
<1>4. \A a \in Artifacts : /\ blob'[a] \in {blob[a], Deleted}
                           /\ meta'[a] \in {meta[a], Deleted}
  BY DEF Lifecycle, IInv, TypeOK
<1>5. BlobFirst'
  BY <1>4 DEF IInv, BlobFirst, Torn, Whole, Deleted
<1>6. ListedStored'
  BY <1>2, <1>4 DEF IInv, ListedStored, TypeOK, Records
<1> QED
  BY <1>1, <1>2, <1>3, <1>5, <1>6, SeenKept DEF IInv

\* Readers learn what is stored and change nothing.
LEMMA ReadersIInv ==
    ASSUME IInv, NEW r \in Readers,
           Ask(r, "poll") \/ Ask(r, "follow") \/ Read(r)
    PROVE  /\ IInv'
           /\ seen' = seen \/ seen' = [seen EXCEPT ![r] = saved.status]
<1>1. TypeOK'
  BY OtherTypes DEF IInv
<1>2. UNCHANGED <<jobVars, storeVars, faults>>
  BY DEF Ask, Read, Poll, Stream
<1>3. seen' = seen \/ seen' = [seen EXCEPT ![r] = saved.status]
  BY DEF Ask, Read, Poll, Stream
<1>4. RecordFollows' /\ SavedFollows' /\ CreateFirst'
  BY <1>2 DEF IInv, RecordFollows, SavedFollows, CreateFirst, jobVars, storeVars
<1>5. SeenFollows'
  BY <1>2, <1>3 DEF IInv, TypeOK, SeenFollows, storeVars
<1> QED
  BY <1>1, <1>2, <1>3, <1>4, <1>5, ArtifactsKept DEF IInv, jobVars, storeVars

LEMMA NextIInv == IInv /\ [Next]_vars => IInv'
<1> SUFFICES ASSUME IInv, [Next]_vars PROVE IInv'
  OBVIOUS
<1>1. CASE UNCHANGED vars
  BY <1>1 DEF vars, jobVars, storeVars, readVars, IInv, TypeOK, RecordFollows,
     SavedFollows, CreateFirst, DeletedLate, BlobFirst, ListedStored, SeenFollows
<1>2. CASE \E r \in Readers : \/ \E next \in {"poll", "follow"} : Ask(r, next)
                              \/ Read(r)
  BY <1>2, ReadersIInv
<1> QED
  BY <1>1, <1>2, CreateIInv, WorkIInv, DieIInv, LifecycleIInv DEF Next

-----------------------------------------------------------------------------
(* Theorems *)

\* The inductive invariant of a job (jobs.py:96-163).
THEOREM JobInvariant == Spec => []IInv
<1> QED
  BY InitIInv, NextIInv, PTL DEF Spec

\* Every variable keeps its type.
THEOREM TypeCorrect == Spec => []TypeOK
<1>1. IInv => TypeOK
  BY DEF IInv
<1> QED
  BY <1>1, JobInvariant, PTL

\* A job that reads as ready names artifacts that can be read until the
\* bucket deletes them (jobs.py:132-157).
THEOREM ReadyJobsAreReadable == Spec => []ReadyMeansReadable
<1>1. IInv => ReadyMeansReadable
  BY DEF IInv, TypeOK, Records, RecordFollows, SavedFollows, ListedStored,
     ReadyMeansReadable, Readable, Terminal
<1> QED
  BY <1>1, JobInvariant, PTL

\* An artifact that can be read has all its bytes (artifacts.py:191-192).
THEOREM ReadableArtifactsAreWhole == Spec => []ReadableMeansWhole
<1>1. IInv => ReadableMeansWhole
  BY DEF IInv, BlobFirst, ReadableMeansWhole, Readable, Torn, Whole, Deleted
<1> QED
  BY <1>1, JobInvariant, PTL

\* With a store that takes every write, a thread that is over has recorded
\* how the job ended (jobs.py:89-91).
THEOREM OutcomeIsRecorded == Spec => []OutcomeRecorded
<1>1. IInv => OutcomeRecorded
  BY DEF IInv, SavedFollows, OutcomeRecorded, Found, Finished
<1> QED
  BY <1>1, JobInvariant, PTL

\* What a caller is told of a job goes forward only, and ends where it ends
\* (artifacts.py:312-317).
THEOREM AnswersGoForward == Spec => AnswersAdvance
<1> DEFINE Forward == \A r \in Readers : \/ Rank(seen'[r]) > Rank(seen[r])
                                         \/ seen'[r] = seen[r]
<1>1. ASSUME IInv, [Next]_vars PROVE [Forward]_vars
  <2>1. CASE seen' = seen
    BY <2>1
  <2>2. ASSUME NEW r \in Readers, seen' = [seen EXCEPT ![r] = saved.status] PROVE Forward
    <3>1. Rank(seen[r]) \in Nat /\ Rank(saved.status) \in Nat
      BY <1>1, RankOfStatus DEF IInv, TypeOK, Records, Statuses
    <3>2. Rank(seen[r]) < Rank(saved.status) \/ seen[r] = saved.status
      BY <1>1 DEF IInv, SeenFollows
    <3> QED
      BY <1>1, <2>2, <3>1, <3>2 DEF IInv, TypeOK
  <2>3. CASE \E r \in Readers : \/ \E next \in {"poll", "follow"} : Ask(r, next)
                                \/ Read(r)
    BY <1>1, <2>1, <2>2, <2>3, ReadersIInv
  <2>4. CASE Create \/ Work \/ Die \/ Lifecycle
    BY <2>1, <2>4 DEF Create, Queue, QueueFails, HandOver, Answer, Work, Die, Lifecycle,
       readVars
  <2> QED
    BY <1>1, <2>1, <2>3, <2>4 DEF Next, vars, readVars
<1> QED
  BY <1>1, JobInvariant, PTL DEF Spec, AnswersAdvance

-----------------------------------------------------------------------------
(* The promise *)

published == <<saved, Found, shelf, gone, seen>>

LEMMA InitPromise == Init => Promise!Init
<1> SUFFICES ASSUME Init PROVE Promise!Init
  OBVIOUS
<1>1. Found = FALSE /\ shelf = {} /\ gone = {}
  BY DEF Init, Found, shelf, gone, Readable, Absent, Torn, Whole, Deleted
<1> QED
  BY <1>1, Zenon DEF Init, Promise!Init

\* Writes to the job's file: one that begins hides the record, one that ends
\* publishes it.
LEMMA HideKept ==
    ASSUME file' # Whole, UNCHANGED <<saved, blob, meta, seen>>
    PROVE  Promise!Next
<1>1. Found' = FALSE
  BY DEF Found
<1>2. UNCHANGED <<shelf, gone>>
  BY DEF shelf, gone, Readable
<1>3. Promise!Hide
  BY <1>1, <1>2 DEF Promise!Hide
<1> QED
  BY <1>3 DEF Promise!Next

LEMMA PublishKept ==
    ASSUME IInv, file' = Whole, saved' = record, UNCHANGED <<blob, meta, seen>>,
           saved.status \in {"queued", "generating"},
           Promise!Follows(record.status, saved.status), wpc \notin Over
    PROVE  Promise!Next
<1>1. Found' = TRUE /\ shelf' = shelf /\ gone' = gone
  BY DEF Found, shelf, gone, Readable
<1>2. /\ record = [status |-> record.status, ids |-> record.ids]
      /\ record.status \in Statuses /\ record.ids \in SUBSET Artifacts
  BY DEF IInv, TypeOK, Records
<1>3. record.status = "ready" => record.ids # {} /\ record.ids \subseteq shelf
  <2>1. ASSUME NEW a \in record.ids PROVE a \in shelf
    BY <1>2, <2>1 DEF IInv, ListedStored, DeletedLate, shelf, Readable
  <2> QED
    BY <2>1 DEF IInv, RecordFollows
<1>4. Promise!Publish(record.status, record.ids)
  BY <1>1, <1>2, <1>3 DEF Promise!Publish, Promise!Outcomes
<1> QED
  BY <1>2, <1>4 DEF Promise!Next, Promise!Outcomes, Statuses

LEMMA CloseKept == IInv /\ Work /\ Close => Promise!Next
<1> SUFFICES ASSUME IInv, Work, Close PROVE Promise!Next
  OBVIOUS
<1>1. /\ wpc = "close" /\ file' = Whole /\ saved' = record
      /\ UNCHANGED <<blob, meta, seen>>
  BY DEF Close, Work, readVars
<1>2. saved.status \in {"queued", "generating"}
  BY <1>1 DEF IInv, SavedFollows, TypeOK, Records, Statuses, Terminal
<1>3. record.status = "generating" \/ record.status \in Terminal
  <2>1. CASE then \in {"submit", "check"}
    BY <1>1, <2>1 DEF IInv, RecordFollows
  <2>2. CASE then = "end"
    BY <1>1, <2>2 DEF IInv, RecordFollows
  <2>3. CASE then = "raised"
    BY <1>1, <2>3 DEF IInv, RecordFollows, Terminal
  <2>4. CASE then = "none"
    BY <1>1, <2>4 DEF IInv, RecordFollows
  <2> QED
    BY <2>1, <2>2, <2>3, <2>4 DEF IInv, TypeOK
<1>4. Promise!Follows(record.status, saved.status)
  BY <1>2, <1>3 DEF Promise!Follows, Promise!Outcomes, Terminal
<1> QED
  BY <1>1, <1>2, <1>4, PublishKept DEF Over

LEMMA CreateKept == IInv /\ Create => [Promise!Next]_published
<1> SUFFICES ASSUME IInv, Create PROVE [Promise!Next]_published
  OBVIOUS
<1>1. CASE Queue /\ hpc = "write"
  BY <1>1, HideKept DEF Queue, readVars, Torn, Whole
<1>2. CASE Queue /\ hpc = "close"
  <2>1. wpc = "none" /\ record.status = "queued" /\ saved.status = "queued"
    BY <1>2 DEF IInv, CreateFirst, RecordFollows, SavedFollows, Unstarted
  <2>2. Promise!Follows(record.status, saved.status)
    BY <2>1 DEF Promise!Follows
  <2> QED
    BY <1>2, <2>1, <2>2, PublishKept DEF Queue, readVars, Over
<1>3. CASE QueueFails \/ HandOver \/ Answer
  BY <1>3 DEF QueueFails, HandOver, Answer, published, storeVars, readVars, Found, shelf,
     gone, Readable
<1> QED
  BY <1>1, <1>2, <1>3 DEF Create, Queue

\* An artifact is on the shelf with the last byte of its metadata, and the
\* bytes of its blob have come before.
LEMMA StoreKept ==
    ASSUME IInv, Work, NEW a \in Artifacts, Store(a)
    PROVE  [Promise!Next]_published
<1>1. /\ wpc = "store" /\ Put(a) /\ UNCHANGED <<file, saved, seen>>
  BY DEF Store, Work, readVars
<1>2. Deleted \notin {blob[a], meta[a]}
  BY <1>1 DEF IInv, DeletedLate, Over
<1>3. \/ /\ blob[a] # Whole /\ meta' = meta
         /\ blob' = [blob EXCEPT ![a] = IF @ = Absent THEN Torn ELSE Whole]
      \/ /\ blob[a] = Whole /\ meta[a] # Whole /\ blob' = blob
         /\ meta' = [meta EXCEPT ![a] = IF @ = Absent THEN Torn ELSE Whole]
  BY <1>1 DEF Put, Filled
<1>4. /\ \A b \in Artifacts \ {a} : blob'[b] = blob[b] /\ meta'[b] = meta[b]
      /\ {blob'[a], meta'[a]} \subseteq {blob[a], meta[a], Torn, Whole}
  BY <1>3 DEF IInv, TypeOK
<1>5. gone' = gone /\ a \notin gone /\ Found' = Found
  BY <1>1, <1>2, <1>4 DEF gone, Found, Deleted, Torn, Whole
<1>6. a \notin shelf
  BY <1>2, <1>3 DEF IInv, BlobFirst, shelf, Readable, Torn, Whole, Deleted
<1>7. shelf' = shelf \/ shelf' = shelf \cup {a}
  <2>1. \A b \in Artifacts \ {a} : Readable(b)' <=> Readable(b)
    BY <1>4 DEF Readable
  <2>2. shelf' = {b \in Artifacts : Readable(b)'} /\ shelf = {b \in Artifacts : Readable(b)}
    BY DEF shelf, Readable
  <2>3. CASE Readable(a)'
    BY <2>1, <2>2, <2>3
  <2>4. CASE ~Readable(a)'
    BY <1>6, <2>1, <2>2, <2>4
  <2> QED
    BY <2>3, <2>4
<1>8. CASE shelf' = shelf
  BY <1>1, <1>5, <1>8 DEF published
<1>9. CASE shelf' = shelf \cup {a}
  <2>1. Promise!Shelve(a)
    BY <1>1, <1>5, <1>9 DEF Promise!Shelve
  <2> QED
    BY <2>1 DEF Promise!Next
<1> QED
  BY <1>7, <1>8, <1>9

LEMMA WorkKept == IInv /\ Work => [Promise!Next]_published
<1> SUFFICES ASSUME IInv, Work PROVE [Promise!Next]_published
  OBVIOUS
<1>1. CASE Open
  BY <1>1, HideKept DEF Open, Work, readVars, Torn, Whole
<1>2. CASE Close
  BY <1>2, CloseKept
<1>3. ASSUME NEW a \in Artifacts, Store(a) PROVE [Promise!Next]_published
  BY <1>3, StoreKept
<1>4. CASE Begin \/ WriteFails \/ Submit \/ Check \/ Download \/ Finish \/ ProviderRaises
           \/ StoreRaises \/ Except
  <2>1. UNCHANGED storeVars /\ seen' = seen
    BY <1>4 DEF Work, readVars, Begin, WriteFails, Submit, Check, Download, Finish,
                ProviderRaises, StoreRaises, Except
  <2> QED
    BY <2>1 DEF published, storeVars, Found, shelf, gone, Readable
<1> QED
  BY <1>1, <1>2, <1>3, <1>4 DEF Work

LEMMA LifecycleKept == IInv /\ Lifecycle => Promise!Next
<1> SUFFICES ASSUME IInv, Lifecycle PROVE Promise!Next
  OBVIOUS
<1>1. UNCHANGED <<saved, seen>>
  BY DEF Lifecycle, readVars
<1>2. CASE file' = Deleted /\ UNCHANGED <<blob, meta>>
  BY <1>1, <1>2, HideKept DEF Deleted, Whole
<1>3. ASSUME NEW a \in Artifacts, file' = file,
             \/ blob' = [blob EXCEPT ![a] = Deleted] /\ meta' = meta
             \/ meta' = [meta EXCEPT ![a] = Deleted] /\ blob' = blob
      PROVE  Promise!Next
  <2>1. /\ \A b \in Artifacts \ {a} : blob'[b] = blob[b] /\ meta'[b] = meta[b]
        /\ Deleted \in {blob'[a], meta'[a]}
    BY <1>3 DEF IInv, TypeOK
  <2>2. ~Readable(a)'
    <3>1. CASE meta'[a] = Deleted
      BY <3>1 DEF Readable, Torn, Whole, Deleted
    <3>2. CASE blob'[a] = Deleted
      BY <3>2 DEF Readable, Torn, Whole, Deleted
    <3> QED
      BY <2>1, <3>1, <3>2
  <2>3. shelf' = shelf \ {a}
    BY <2>1, <2>2 DEF shelf, Readable
  <2>4. gone' = gone \cup {a}
    BY <2>1 DEF gone
  <2>5. Promise!Remove(a)
    BY <1>1, <1>3, <2>3, <2>4 DEF Promise!Remove, Found
  <2> QED
    BY <2>5 DEF Promise!Next
<1> QED
  BY <1>2, <1>3 DEF Lifecycle

LEMMA ReadersKept ==
    ASSUME IInv, NEW r \in Readers,
           Ask(r, "poll") \/ Ask(r, "follow") \/ Read(r)
    PROVE  [Promise!Next]_published
<1>1. /\ UNCHANGED storeVars
      /\ \/ seen' = seen
         \/ Found /\ seen' = [seen EXCEPT ![r] = saved.status]
  BY DEF Ask, Read, Poll, Stream
<1>2. UNCHANGED <<saved, shelf, gone>> /\ Found' = Found
  BY <1>1 DEF storeVars, Found, shelf, gone, Readable
<1>3. CASE seen' = seen
  BY <1>2, <1>3 DEF published
<1>4. CASE Found /\ seen' = [seen EXCEPT ![r] = saved.status]
  <2>1. Promise!Tell(r)
    BY <1>2, <1>4 DEF Promise!Tell
  <2> QED
    BY <2>1 DEF Promise!Next
<1> QED
  BY <1>1, <1>3, <1>4

LEMMA StepKept == IInv /\ [Next]_vars => [Promise!Next]_published
<1> SUFFICES ASSUME IInv, [Next]_vars PROVE [Promise!Next]_published
  OBVIOUS
<1>1. CASE Die \/ UNCHANGED vars
  BY <1>1 DEF Die, vars, published, storeVars, readVars, Found, shelf, gone, Readable
<1>2. CASE \E r \in Readers : \/ \E next \in {"poll", "follow"} : Ask(r, next)
                              \/ Read(r)
  BY <1>2, ReadersKept
<1> QED
  BY <1>1, <1>2, CreateKept, WorkKept, LifecycleKept DEF Next

\* The thread, its files, the bucket and the readers together are the board
\* JobPromise describes, whatever fails: one record at a time, forward to one
\* outcome, with its artifacts there.
THEOREM JobsKeepTheirPromise == Spec => JobKept
<1> QED
  BY InitPromise, StepKept, JobInvariant, PTL DEF Spec, JobKept, Promise!Spec, published
=============================================================================
