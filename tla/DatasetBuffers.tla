----------------------------- MODULE DatasetBuffers -----------------------------
(* One dataset: its accumulation buffer, the window files that rows are       *)
(* appended to, and the versions made of them, by reaching the threshold, by  *)
(* the scheduler's tick or a call, by CSV uploads and by the lineage of tasks. *)
(* A transaction and a write to a file are a step each.                       *)
EXTENDS Integers, FiniteSets

CONSTANTS
  Clients,
  Ops,           \* the workloads: client -> what it does
  Limits,        \* target_threshold
  Strategies,    \* of "threshold", "schedule", "manual" (or rolling_accumulate)
  Sizes,         \* rows of an upload, or reported by a task
  Legacy,        \* ML_AIR_LINEAGE_LEGACY_DEFAULT_VERSION_LABEL
  MaxVersions, MaxWindows, MaxRows, MaxUploads, MaxCrashes

AllOps == {"append", "upload", "ingest", "feedback", "tick", "manual", "configure", "delete"}

ASSUME BufferNumbers ==
  /\ {MaxVersions, MaxWindows, MaxRows, MaxUploads, MaxCrashes} \subseteq Nat
  /\ MaxWindows # 0
  /\ Limits # {} /\ Limits \cup Sizes \subseteq Nat \ {0}
ASSUME BufferChoices ==
  /\ Ops \subseteq [Clients -> SUBSET AllOps]
  /\ Strategies \subseteq {"threshold", "schedule", "manual"} /\ Legacy \in BOOLEAN

VARIABLES
  buffer,     \* its row of dataset_accumulation_buffers
  content,    \* of every file: the rows of a window, or which upload it holds
  source,     \* datasets.source_uri and checksum
  versions,   \* dataset_versions, in the order of created_at
  opened,     \* windows so far; a window is its window_start
  uploads,
  job,        \* what every client is doing
  crashes,
  work        \* the workload, one of Ops

vars == <<buffer, content, source, versions, opened, uploads, job, crashes, work>>

Windows  == 1..MaxWindows
Ids      == 1..MaxVersions
Unnumbered == 0                  \* the label "default"
Labels   == 0..MaxVersions
Place(kind, n) == [kind |-> kind, n |-> n]
NoPlace  == Place("none", 0)
Places   == {NoPlace} \cup {Place("window", w) : w \in Windows} \cup {Place("upload", n) : n \in Labels}
Types    == {"append", "upload", "ingest", "feedback"}
NoKey    == <<>>
NoVersion == [status |-> "none", label |-> Unnumbered, place |-> NoPlace, count |-> 0, key |-> NoKey]

Idle == [pc |-> "idle", size |-> 0, limit |-> 0, strategy |-> "threshold", window |-> 0,
         type |-> "append", place |-> NoPlace, sum |-> 0, force |-> FALSE, label |-> Unnumbered, id |-> 0]

\* A dataset whose buffer was configured, nothing in it yet.
Init ==
  /\ buffer \in [size : {0}, limit : Limits, strategy : Strategies, window : {1}, type : {"append"}]
  /\ content = [p \in Places |-> 0]
  /\ source = [place |-> NoPlace, sum |-> 0]
  /\ versions = [v \in Ids |-> NoVersion]
  /\ opened = 1
  /\ uploads = 0
  /\ job = [c \in Clients |-> Idle]
  /\ crashes = 0
  /\ work \in Ops

At(c, label)   == job[c].pc = label
Starts(c, op)  == At(c, "idle") /\ op \in work[c]
Done(c)        == job' = [job EXCEPT ![c] = Idle]
Goto(c, label) == job' = [job EXCEPT ![c].pc = label]

Live     == {v \in Ids : versions[v].status = "live"}
Numbered == {v \in Live : versions[v].label # Unnumbered}
Fresh(v) == versions[v].status = "none" /\ \A u \in Ids : u < v => versions[u].status # "none"

\* Mutant: MAX(N) itself.
IsNextLabelMax(n) ==
  /\ \A v \in Numbered : versions[v].label <= n
  /\ n = 0 \/ \E v \in Numbered : versions[v].label = n

\* MAX(N) + 1 over the labels vN.
IsNextLabel(n) ==
  /\ \A v \in Numbered : versions[v].label < n
  /\ n = 1 \/ \E v \in Numbered : versions[v].label = n - 1

\* Mutant: the versions are counted.
IsUploadLabelCount(n) == n = Cardinality(Live) + 1

\* An upload takes the number after the newest row's; after a row without one it is v1 again.
IsUploadLabel(n) ==
  LET newest == {v \in Live : \A u \in Live : u <= v} IN
  \/ newest = {} /\ n = 1
  \/ \E v \in newest : n = versions[v].label + 1

-----------------------------------------------------------------------------
(* append_dataset_buffer_rows.                                                *)

ReadBuffer(c) ==
  /\ Starts(c, "append")
  /\ content[Place("window", buffer.window)] < MaxRows
  /\ job' = [job EXCEPT ![c] = [Idle EXCEPT !.pc = "file", !.size = buffer.size, !.limit = buffer.limit,
                                 !.strategy = buffer.strategy, !.window = buffer.window]]
  /\ UNCHANGED <<buffer, content, source, versions, opened, uploads, crashes>>

AppendRow(c) ==
  /\ At(c, "file")
  /\ content' = [content EXCEPT ![Place("window", job[c].window)] = @ + 1]
  /\ Goto(c, "count")
  /\ UNCHANGED <<buffer, source, versions, opened, uploads, crashes>>

\* Everything it read is written back with it.
CountRow(c) ==
  LET j == job[c] IN
  /\ At(c, "count")
  /\ buffer' = [size |-> j.size + 1, limit |-> j.limit, strategy |-> j.strategy,
                window |-> j.window, type |-> "append"]
  /\ job' = [job EXCEPT ![c].pc = "materialize", ![c].size = @ + 1, ![c].type = "append",
                        ![c].place = Place("window", j.window)]
  /\ UNCHANGED <<content, source, versions, opened, uploads, crashes>>

-----------------------------------------------------------------------------
(* The transaction of _materialize_runtime_feedback_if_needed, which holds    *)
(* the dataset's advisory lock.                                               *)

\* An emptied buffer counts as the caller saw it before.
Taken(c) == IF buffer.size = 0 THEN job[c].size ELSE buffer.size

Gate(c) ==
  /\ job[c].force \/ buffer.strategy = "threshold"
  /\ Taken(c) > 0
  /\ job[c].force \/ Taken(c) >= buffer.limit

Key(c) == <<buffer.strategy, buffer.limit, Taken(c), job[c].type, job[c].place, job[c].sum>>

\* Mutant: the next rows go to the same window.
EmptyBufferOnly == buffer' = [buffer EXCEPT !.size = 0] /\ UNCHANGED opened

EmptyBuffer ==
  /\ opened < MaxWindows
  /\ opened' = opened + 1
  /\ buffer' = [buffer EXCEPT !.size = 0, !.window = opened + 1]

KeepAll(c) ==
  /\ At(c, "materialize")
  /\ ~Gate(c) \/ \E v \in Live : versions[v].key = Key(c)
  /\ Done(c)
  /\ UNCHANGED <<buffer, content, source, versions, opened, uploads, crashes>>

Materialize(c, v, n) ==
  /\ At(c, "materialize") /\ Gate(c)
  /\ \A u \in Live : versions[u].key # Key(c)
  /\ Fresh(v) /\ IsNextLabel(n)
  /\ versions' = [versions EXCEPT ![v] = [status |-> "live", label |-> n, place |-> job[c].place,
                                           count |-> Taken(c), key |-> Key(c)]]
  /\ EmptyBuffer
  /\ Done(c)
  /\ UNCHANGED <<content, source, uploads, crashes>>

-----------------------------------------------------------------------------
(* materialize_scheduled_buffers and materialize_dataset_buffer_now.          *)

FindScheduled(c) ==
  /\ Starts(c, "tick")
  /\ buffer.strategy = "schedule" /\ buffer.size > 0
  /\ job' = [job EXCEPT ![c] = [Idle EXCEPT !.pc = "source", !.size = buffer.size,
                                 !.type = buffer.type, !.force = TRUE]]
  /\ UNCHANGED <<buffer, content, source, versions, opened, uploads, crashes>>

ReadSource(c) ==
  /\ \/ At(c, "source") /\ job' = [job EXCEPT ![c].pc = "materialize", ![c].place = source.place,
                                                    ![c].sum = source.sum]
     \/ Starts(c, "manual") /\ job' = [job EXCEPT ![c] = [Idle EXCEPT !.pc = "strategy", !.place = source.place,
                                                                      !.sum = source.sum]]
  /\ UNCHANGED <<buffer, content, source, versions, opened, uploads, crashes>>

CheckStrategy(c) ==
  /\ At(c, "strategy")
  /\ IF buffer.strategy \in {"manual", "schedule"}
       THEN job' = [job EXCEPT ![c].pc = "materialize", ![c].size = buffer.size,
                               ![c].type = buffer.type, ![c].force = TRUE]
       ELSE Done(c)
  /\ UNCHANGED <<buffer, content, source, versions, opened, uploads, crashes>>

-----------------------------------------------------------------------------
(* create_dataset_version_from_csv_upload and ingest_lineage_from_task.       *)

NameUpload(c, n, size) ==
  /\ Starts(c, "upload") /\ uploads < MaxUploads
  /\ IsUploadLabel(n)
  /\ job' = [job EXCEPT ![c] = [Idle EXCEPT !.pc = "store", !.size = size, !.type = "upload",
                                 !.label = n, !.place = Place("upload", n)]]
  /\ UNCHANGED <<buffer, content, source, versions, opened, uploads, crashes>>

StoreUpload(c) ==
  /\ At(c, "store")
  /\ uploads' = uploads + 1
  /\ content' = [content EXCEPT ![job[c].place] = uploads + 1]
  /\ job' = [job EXCEPT ![c].pc = "link", ![c].sum = uploads + 1]
  /\ UNCHANGED <<buffer, source, versions, opened, crashes>>

\* The dataset row; then the threshold is read that RefillBuffer writes.
LinkUpload(c) ==
  /\ At(c, "link")
  /\ source' = [place |-> job[c].place, sum |-> job[c].sum]
  /\ job' = [job EXCEPT ![c].pc = "refill", ![c].limit = buffer.limit, ![c].sum = 0]
  /\ UNCHANGED <<buffer, content, versions, opened, uploads, crashes>>

\* An item of a task's lineage without a version; one without a size counts as 0.
Ingest(c, type, size) ==
  /\ type \in {"ingest", "feedback"} /\ Starts(c, type)
  /\ job' = [job EXCEPT ![c] = [Idle EXCEPT !.pc = "refill", !.size = size, !.type = type,
                                 !.limit = buffer.limit]]
  /\ UNCHANGED <<buffer, content, source, versions, opened, uploads, crashes>>

\* The size is replaced, the strategy becomes the default again, the window stays.
RefillBuffer(c) ==
  /\ At(c, "refill")
  /\ buffer' = [buffer EXCEPT !.size = job[c].size, !.limit = job[c].limit,
                              !.strategy = "threshold", !.type = job[c].type]
  /\ Goto(c, CASE job[c].type = "feedback" -> "materialize"
               [] job[c].type = "ingest"   -> "label"
               [] OTHER -> "save")
  /\ UNCHANGED <<content, source, versions, opened, uploads, crashes>>

LabelItem(c, n) ==
  /\ At(c, "label")
  /\ IF Legacy THEN n = Unnumbered ELSE IsNextLabel(n)
  /\ job' = [job EXCEPT ![c].pc = "save", ![c].label = n]
  /\ UNCHANGED <<buffer, content, source, versions, opened, uploads, crashes>>

\* _upsert_dataset_version: a label that is there already keeps its row, with the new count.
SaveVersion(c, v) ==
  LET j == job[c]
      same == {u \in Live : versions[u].label = j.label} IN
  /\ At(c, "save")
  /\ IF same # {}
       THEN /\ v \in same
            /\ versions' = [versions EXCEPT ![v].count = IF j.size = 0 THEN @ ELSE j.size]
       ELSE /\ Fresh(v)
            /\ versions' = [versions EXCEPT ![v] = [status |-> "live", label |-> j.label, place |-> j.place,
                                                     count |-> j.size, key |-> NoKey]]
  /\ Done(c)
  /\ UNCHANGED <<buffer, content, source, opened, uploads, crashes>>

-----------------------------------------------------------------------------
(* update_dataset_buffer_config and delete_dataset_version.                   *)

ReadConfig(c) ==
  /\ Starts(c, "configure")
  /\ job' = [job EXCEPT ![c] = [Idle EXCEPT !.pc = "configure", !.size = buffer.size, !.type = buffer.type]]
  /\ UNCHANGED <<buffer, content, source, versions, opened, uploads, crashes>>

\* Starts a window, for the size it read.
Configure(c, limit, strategy) ==
  /\ At(c, "configure") /\ opened < MaxWindows
  /\ opened' = opened + 1
  /\ buffer' = [size |-> job[c].size, limit |-> limit, strategy |-> strategy,
                window |-> opened + 1, type |-> job[c].type]
  /\ Done(c)
  /\ UNCHANGED <<content, source, versions, uploads, crashes>>

RemoveFile(c, v) ==
  /\ Starts(c, "delete") /\ v \in Live
  /\ content' = [content EXCEPT ![versions[v].place] = 0]
  /\ job' = [job EXCEPT ![c] = [Idle EXCEPT !.pc = "delete", !.id = v]]
  /\ UNCHANGED <<buffer, source, versions, opened, uploads, crashes>>

DeleteRow(c) ==
  /\ At(c, "delete")
  /\ versions' = [versions EXCEPT ![job[c].id].status = "gone"]
  /\ Done(c)
  /\ UNCHANGED <<buffer, content, source, opened, uploads, crashes>>

Crash(c) ==
  /\ ~At(c, "idle") /\ crashes < MaxCrashes
  /\ crashes' = crashes + 1
  /\ Done(c)
  /\ UNCHANGED <<buffer, content, source, versions, opened, uploads>>

Append(c) == ReadBuffer(c) \/ AppendRow(c) \/ CountRow(c)

Snapshot(c) ==
  FindScheduled(c) \/ ReadSource(c) \/ CheckStrategy(c) \/ KeepAll(c)
  \/ \E v \in Ids, n \in Labels : Materialize(c, v, n)

Upload(c) ==
  \/ \E n \in Labels, size \in Sizes : NameUpload(c, n, size)
  \/ StoreUpload(c) \/ LinkUpload(c) \/ RefillBuffer(c)
  \/ \E v \in Ids : SaveVersion(c, v)

IngestItem(c) ==
  \/ \E type \in Types, size \in Sizes \cup {0} : Ingest(c, type, size)
  \/ \E n \in Labels : LabelItem(c, n)

Maintain(c) ==
  \/ ReadConfig(c)
  \/ \E limit \in Limits, strategy \in Strategies : Configure(c, limit, strategy)
  \/ \E v \in Ids : RemoveFile(c, v)
  \/ DeleteRow(c)

Next ==
  /\ \E c \in Clients :
       Append(c) \/ Snapshot(c) \/ Upload(c) \/ IngestItem(c) \/ Maintain(c) \/ Crash(c)
  /\ UNCHANGED work

Spec == Init /\ [][Next]_vars
-----------------------------------------------------------------------------
(* What the buffer and the versions promise.                                  *)

Steps == {"idle", "file", "count", "materialize", "source", "strategy", "store", "link", "refill",
          "label", "save", "configure", "delete"}

\* The types; and a label names one version.
BufferTypeOK ==
  /\ buffer \in [size : Nat, limit : Limits, strategy : {"threshold", "schedule", "manual"},
                 window : Windows, type : Types]
  /\ buffer.window <= opened
  /\ content \in [Places -> Nat]
  /\ source \in [place : Places, sum : 0..uploads]
  /\ \A v \in Ids :
       /\ versions[v].status \in {"none", "live", "gone"}
       /\ versions[v].label \in Labels /\ versions[v].place \in Places /\ versions[v].count \in Nat
  /\ \A u, v \in Live : versions[u].label = versions[v].label => u = v
  /\ work \in Ops /\ opened \in Windows /\ uploads \in Nat /\ crashes \in 0..MaxCrashes
  /\ \A c \in Clients :
       /\ job[c].pc \in Steps /\ job[c].type \in Types /\ job[c].place \in Places
       /\ job[c].sum \in 0..uploads
       /\ job[c].label \in Labels /\ job[c].size \in Nat /\ job[c].window \in 0..opened

\* A window becomes a version once, whatever is appended, uploaded, configured,
\* deleted and given up by a crash in between.
OnePerWindow ==
  \A u, v \in Ids :
    versions[u].place.kind = "window" /\ versions[u].place = versions[v].place => u = v

\* A file of its own: a window, or the upload of its label.
OwnFile(v) == versions[v].place.kind = "window" \/ versions[v].place = Place("upload", versions[v].label)

\* A version keeps what it stands for until it is deleted: its count, and the
\* bytes of its file, unless that is another label's upload.
SnapshotIsFrozen ==
  [][\A v \in Live : versions'[v].status = "live" =>
       /\ versions'[v].count = versions[v].count
       /\ OwnFile(v) => content'[versions[v].place] \in {content[versions[v].place], 0}]_vars

\* Each tick materializes a buffer that is not empty.
TickSnapshots ==
  [][\A c \in Clients :
       At(c, "materialize") /\ job[c].force /\ buffer.size > 0 /\ ~At(c, "materialize")' /\ UNCHANGED crashes
         => buffer'.size = 0]_vars
=============================================================================
