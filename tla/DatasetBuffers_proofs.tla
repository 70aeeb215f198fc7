----------------------- MODULE DatasetBuffers_proofs -----------------------
(* Theorems about DatasetBuffers for any number of clients, windows,         *)
(* versions and uploads, and any workload.                                   *)
EXTENDS DatasetBuffers, TLAPS, WellFoundedInduction

-----------------------------------------------------------------------------
(* Types.  BufferTypeOK says nothing of a version's key nor of what a client *)
(* carries from one statement to the next; what it writes depends on both.   *)

Modes == {"threshold", "schedule", "manual"}

Keys == {NoKey} \cup (Modes \X Limits \X Nat \X Types \X Places \X Nat)

Version == [status : {"none", "live", "gone"}, label : Labels, place : Places, count : Nat, key : Keys]

Job == [pc : Steps, size : Nat, limit : Nat, strategy : Modes, window : 0..MaxWindows, type : Types,
        place : Places, sum : Nat, force : BOOLEAN, label : Labels, id : 0..MaxVersions]

\* What a client carries at the statements that use it.
Carries(j) ==
  /\ j.pc \in {"file", "count"} => j.limit \in Limits /\ j.window \in Windows
  /\ j.pc = "refill" => j.limit \in Limits
  /\ j.pc = "delete" => j.id \in Ids

TypeInv ==
  /\ BufferTypeOK
  /\ versions \in [Ids -> Version]
  /\ job \in [Clients -> Job]
  /\ \A c \in Clients : Carries(job[c])

LEMMA Constants ==
  /\ MaxVersions \in Nat /\ MaxWindows \in Nat \ {0} /\ MaxRows \in Nat /\ MaxUploads \in Nat
  /\ MaxCrashes \in Nat
  /\ Limits \subseteq Nat \ {0} /\ Sizes \subseteq Nat \ {0}
  /\ Strategies \subseteq Modes
  /\ Ids \subseteq Labels /\ Labels \subseteq Nat /\ 0 \in Labels /\ 0 \notin Ids
  /\ 1 \in Windows /\ Windows \subseteq Nat \ {0}
BY BufferNumbers, BufferChoices DEF Modes, Ids, Labels, Windows

LEMMA PlacesTyped ==
  /\ NoPlace \in Places
  /\ \A w \in Windows : Place("window", w) \in Places
  /\ \A n \in Labels : Place("upload", n) \in Places
BY DEF Places

LEMMA IdleTyped == Idle \in Job /\ Carries(Idle) /\ Idle.sum = 0 /\ Idle.window = 0 /\ Idle.pc = "idle"
BY Constants, PlacesTyped DEF Idle, Job, Carries, Steps, Modes, Types, Unnumbered

LEMMA InitTyped == Init => TypeInv
<1>. SUFFICES ASSUME Init PROVE TypeInv
  OBVIOUS
<1>1. NoVersion \in Version
  BY Constants, PlacesTyped DEF NoVersion, Version, Keys, Unnumbered
<1>2. Live = {}
  BY DEF Init, Live, NoVersion
<1>3. /\ buffer \in [size : Nat, limit : Limits, strategy : Modes, window : Windows, type : Types]
      /\ buffer.window = 1 /\ opened = 1 /\ uploads = 0 /\ crashes = 0 /\ work \in Ops
  BY Constants DEF Init, Types
<1>4. content \in [Places -> Nat] /\ source \in [place : Places, sum : 0..uploads]
  BY <1>3, PlacesTyped DEF Init
<1>5. \A v \in Ids : versions[v] \in Version
  BY <1>1 DEF Init
<1>6. \A c \in Clients : job[c] = Idle
  BY DEF Init
<1>7. \A c \in Clients :
        /\ job[c].pc \in Steps /\ job[c].type \in Types /\ job[c].place \in Places
        /\ job[c].sum \in 0..uploads
        /\ job[c].label \in Labels /\ job[c].size \in Nat /\ job[c].window \in 0..opened
  BY <1>3, <1>6, IdleTyped DEF Job
<1>8. \A v \in Ids : /\ versions[v].status \in {"none", "live", "gone"}
                     /\ versions[v].label \in Labels /\ versions[v].place \in Places /\ versions[v].count \in Nat
  BY <1>5 DEF Version
<1>9. BufferTypeOK
  BY <1>2, <1>3, <1>4, <1>7, <1>8, Constants DEF BufferTypeOK, Modes
<1>. QED
  BY <1>1, <1>9, IdleTyped DEF Init, TypeInv

\* The step leaves c with j in hand, the others as they were.
Moves(c, j) ==
  /\ j \in Job /\ Carries(j)
  /\ j.window \in 0..opened' /\ j.sum \in 0..uploads'
  /\ job' = [job EXCEPT ![c] = j]

\* A step that keeps the labels of the live versions apart keeps the types, if
\* it keeps those of what it writes.
LEMMA Composed ==
  ASSUME TypeInv, NEW c \in Clients, NEW j, Moves(c, j),
         buffer' \in [size : Nat, limit : Limits, strategy : Modes, window : Windows, type : Types],
         buffer'.window \in 0..opened',
         content' \in [Places -> Nat],
         source' \in [place : Places, sum : 0..uploads'],
         versions' \in [Ids -> Version],
         \A u, v \in Live' : versions'[u].label = versions'[v].label => u = v,
         opened' \in Windows, opened' \in Nat, opened \in Nat, opened <= opened',
         uploads' \in Nat, uploads \in Nat, uploads <= uploads',
         crashes' \in 0..MaxCrashes, work' \in Ops
  PROVE  TypeInv'
<1>1. job'[c] = j /\ \A d \in Clients : d # c => job'[d] = job[d]
  BY DEF Moves, TypeInv
<1>2. job' \in [Clients -> Job] /\ \A d \in Clients : Carries(job'[d])
  BY <1>1 DEF Moves, TypeInv
<1>3. \A d \in Clients : job[d].window \in 0..opened /\ job[d].sum \in 0..uploads
  BY DEF TypeInv, BufferTypeOK
<1>4. \A d \in Clients : job'[d].window \in 0..opened' /\ job'[d].sum \in 0..uploads'
  BY <1>1, <1>3 DEF Moves
<1>5. \A d \in Clients : job'[d].pc \in Steps /\ job'[d].type \in Types /\ job'[d].place \in Places
                         /\ job'[d].label \in Labels /\ job'[d].size \in Nat
  BY <1>2 DEF Job
<1>6. \A v \in Ids : /\ versions'[v].status \in {"none", "live", "gone"}
                     /\ versions'[v].label \in Labels /\ versions'[v].place \in Places /\ versions'[v].count \in Nat
  BY DEF Version
<1>7. buffer'.window <= opened'
  BY Constants
<1>8. BufferTypeOK'
  BY <1>4, <1>5, <1>6, <1>7 DEF BufferTypeOK, Modes
<1>. QED
  BY <1>2, <1>8 DEF TypeInv

LEMMA Parts ==
  ASSUME TypeInv
  PROVE  /\ buffer \in [size : Nat, limit : Limits, strategy : Modes, window : Windows, type : Types]
         /\ buffer.window \in 0..opened
         /\ content \in [Places -> Nat]
         /\ source \in [place : Places, sum : 0..uploads]
         /\ versions \in [Ids -> Version]
         /\ \A u, v \in Live : versions[u].label = versions[v].label => u = v
         /\ opened \in Windows /\ opened \in Nat
         /\ uploads \in Nat
         /\ crashes \in 0..MaxCrashes /\ work \in Ops
<1>1. /\ buffer \in [size : Nat, limit : Limits, strategy : Modes, window : Windows, type : Types]
      /\ buffer.window <= opened /\ opened \in Windows /\ uploads \in Nat
      /\ content \in [Places -> Nat]
      /\ source \in [place : Places, sum : 0..uploads]
      /\ versions \in [Ids -> Version]
      /\ \A u, v \in Live : versions[u].label = versions[v].label => u = v
      /\ crashes \in 0..MaxCrashes /\ work \in Ops
  BY DEF TypeInv, BufferTypeOK, Modes
<1>2. opened \in Nat
  BY <1>1, Constants
<1>3. buffer.window \in Nat
  <2>1. buffer.window \in Windows
    BY <1>1
  <2>. QED
    BY <2>1, Constants
<1>4. buffer.window \in 0..opened
  BY <1>1, <1>2, <1>3
<1>. QED
  BY <1>1, <1>2, <1>4

\* The fields of what a step reads.
LEMMA Fields ==
  ASSUME TypeInv
  PROVE  /\ buffer.size \in Nat /\ buffer.limit \in Limits /\ buffer.limit \in Nat
         /\ buffer.strategy \in Modes /\ buffer.type \in Types
         /\ buffer.window \in Windows /\ buffer.window \in 0..MaxWindows
         /\ source.place \in Places /\ source.sum \in 0..uploads /\ source.sum \in Nat
<1>1. /\ buffer.size \in Nat /\ buffer.limit \in Limits /\ buffer.strategy \in Modes
      /\ buffer.type \in Types /\ buffer.window \in Windows
      /\ source.place \in Places /\ source.sum \in 0..uploads
  BY Parts
<1>2. buffer.limit \in Nat
  BY <1>1, Constants
<1>3. buffer.window \in 0..MaxWindows
  BY <1>1, Constants DEF Windows
<1>4. source.sum \in Nat
  BY <1>1, Parts
<1>. QED
  BY <1>1, <1>2, <1>3, <1>4

LEMMA StepsListed ==
  {"idle", "file", "count", "materialize", "source", "strategy", "store", "link", "refill",
   "label", "save", "configure", "delete"} \subseteq Steps
BY DEF Steps

LEMMA InHand ==
  ASSUME TypeInv, NEW c \in Clients
  PROVE  /\ job[c] \in Job /\ Carries(job[c])
         /\ job[c].window \in 0..opened /\ job[c].sum \in 0..uploads
BY DEF TypeInv, BufferTypeOK

\* A step that only moves its client.
LEMMA OnlyMoves ==
  ASSUME TypeInv, NEW c \in Clients, NEW j, Moves(c, j),
         UNCHANGED <<buffer, content, source, versions, opened, uploads, work>>,
         crashes' \in 0..MaxCrashes
  PROVE  TypeInv'
<1>1. UNCHANGED Live
  BY DEF Live
<1>. QED
  BY <1>1, Parts, Composed

LEMMA Finished ==
  ASSUME TypeInv, NEW c \in Clients, Done(c), opened' \in Nat, uploads' \in Nat
  PROVE  Moves(c, Idle)
BY IdleTyped DEF Done, Moves

-----------------------------------------------------------------------------
(* The actions, one after the other.                                         *)

LEMMA ReadBufferTyped ==
  ASSUME TypeInv, NEW c \in Clients, ReadBuffer(c), UNCHANGED work
  PROVE  TypeInv'
<1>. DEFINE j == [Idle EXCEPT !.pc = "file", !.size = buffer.size, !.limit = buffer.limit,
                              !.strategy = buffer.strategy, !.window = buffer.window]
<1>1. j \in Job /\ Carries(j) /\ j.sum = 0 /\ j.window = buffer.window
  BY Fields, StepsListed, IdleTyped DEF Job, Carries
<1>2. Moves(c, j)
  BY <1>1, Parts DEF ReadBuffer, Moves
<1>. QED
  BY <1>2, Parts, OnlyMoves DEF ReadBuffer

LEMMA AppendRowTyped ==
  ASSUME TypeInv, NEW c \in Clients, AppendRow(c), UNCHANGED work
  PROVE  TypeInv'
<1>. DEFINE j == [job[c] EXCEPT !.pc = "count"]
<1>1. j \in Job /\ Carries(j) /\ j.sum = job[c].sum /\ j.window = job[c].window
  BY InHand DEF Job, Carries, Steps, AppendRow, At
<1>2. Moves(c, j)
  <2>1. job' = [job EXCEPT ![c] = j]
    BY DEF AppendRow, Goto, TypeInv
  <2>. QED
    BY <1>1, <2>1, InHand DEF AppendRow, Moves
<1>3. content' \in [Places -> Nat]
  <2>1. Place("window", job[c].window) \in Places
    BY InHand, PlacesTyped DEF AppendRow, At, Carries
  <2>. QED
    BY <2>1, Parts DEF AppendRow
<1>4. UNCHANGED Live
  BY DEF AppendRow, Live
<1>. QED
  BY <1>2, <1>3, <1>4, Parts, Composed DEF AppendRow

LEMMA CountRowTyped ==
  ASSUME TypeInv, NEW c \in Clients, CountRow(c), UNCHANGED work
  PROVE  TypeInv'
<1>. DEFINE j == [job[c] EXCEPT !.pc = "materialize", !.size = @ + 1, !.type = "append",
                                !.place = Place("window", job[c].window)]
<1>1. job[c].limit \in Limits /\ job[c].window \in Windows
  BY InHand DEF CountRow, At, Carries
<1>2. j \in Job /\ Carries(j) /\ j.sum = job[c].sum /\ j.window = job[c].window
  <2>1. Place("window", job[c].window) \in Places /\ "append" \in Types
    BY <1>1, PlacesTyped DEF Types
  <2>2. job[c] \in Job /\ job[c].size + 1 \in Nat
    BY InHand DEF Job
  <2>3. j \in Job
    BY <2>1, <2>2, StepsListed DEF Job
  <2>. QED
    BY <2>2, <2>3 DEF Job, Carries
<1>3. Moves(c, j)
  <2>1. job' = [job EXCEPT ![c] = j]
    BY DEF CountRow, TypeInv
  <2>. QED
    BY <1>2, <2>1, InHand DEF CountRow, Moves
<1>4. buffer' \in [size : Nat, limit : Limits, strategy : Modes, window : Windows, type : Types]
      /\ buffer'.window \in 0..opened
  BY <1>1, InHand DEF CountRow, Job, Types
<1>5. UNCHANGED Live
  BY DEF CountRow, Live
<1>. QED
  BY <1>3, <1>4, <1>5, Parts, Composed DEF CountRow

LEMMA KeyTyped ==
  ASSUME TypeInv, NEW c \in Clients
  PROVE  Taken(c) \in Nat /\ Key(c) \in Keys
<1>1. Taken(c) \in Nat
  BY Parts, InHand DEF Taken, Job
<1>. QED
  BY <1>1, Parts, InHand DEF Key, Keys, Job

\* MAX(N) + 1 is nobody's label.
LEMMA NextLabelIsFree ==
  ASSUME TypeInv, NEW n \in Labels, IsNextLabel(n)
  PROVE  \A v \in Live : versions[v].label # n
<1>1. \A v \in Live : versions[v].label \in Nat
  BY Parts, Constants DEF Live, Version
<1>2. n \in Nat /\ n # 0
  <2>1. CASE n = 1
    BY <2>1
  <2>2. CASE \E v \in Numbered : versions[v].label = n - 1
    BY <2>2, <1>1, Constants DEF Numbered, Unnumbered
  <2>. QED
    BY <2>1, <2>2, Constants DEF IsNextLabel
<1>. QED
  BY <1>1, <1>2 DEF IsNextLabel, Numbered, Unnumbered

\* A new version with a free label.
LEMMA NewVersion ==
  ASSUME TypeInv, NEW v \in Ids, NEW r \in Version, r.status = "live", Fresh(v),
         versions' = [versions EXCEPT ![v] = r],
         \A u \in Live : versions[u].label # r.label
  PROVE  /\ versions' \in [Ids -> Version]
         /\ \A u, w \in Live' : versions'[u].label = versions'[w].label => u = w
<1>1. versions' \in [Ids -> Version]
  BY Parts
<1>2. versions'[v] = r /\ \A u \in Ids : u # v => versions'[u] = versions[u]
  BY Parts
<1>3. Live' = Live \cup {v}
  BY <1>2 DEF Live, Fresh
<1>. QED
  BY <1>1, <1>2, <1>3, Parts DEF Live

LEMMA MaterializeTyped ==
  ASSUME TypeInv, NEW c \in Clients, NEW v \in Ids, NEW n \in Labels, Materialize(c, v, n),
         UNCHANGED work
  PROVE  TypeInv'
<1>. DEFINE r == [status |-> "live", label |-> n, place |-> job[c].place, count |-> Taken(c), key |-> Key(c)]
<1>1. r \in Version /\ r.status = "live" /\ r.label = n
  BY KeyTyped, InHand DEF Version, Job
<1>2. /\ versions' \in [Ids -> Version]
      /\ \A u, w \in Live' : versions'[u].label = versions'[w].label => u = w
  BY <1>1, NewVersion, NextLabelIsFree DEF Materialize
<1>3. /\ opened' = opened + 1 /\ opened' \in Windows /\ opened' \in Nat
      /\ buffer' = [buffer EXCEPT !.size = 0, !.window = opened']
  BY Parts, Constants DEF Materialize, EmptyBuffer, Windows
<1>4. buffer' \in [size : Nat, limit : Limits, strategy : Modes, window : Windows, type : Types]
      /\ buffer'.window \in 0..opened'
  <2>1. buffer'.window = opened' /\ opened' \in 0..opened'
    BY <1>3, Parts
  <2>2. buffer' \in [size : Nat, limit : Limits, strategy : Modes, window : Windows, type : Types]
    <3>1. buffer \in [size : Nat, limit : Limits, strategy : Modes, window : Windows, type : Types]
      BY Parts
    <3>. QED
      BY <1>3, <3>1
  <2>. QED
    BY <2>1, <2>2
<1>5. Moves(c, Idle)
  BY <1>3, Parts, Finished DEF Materialize
<1>. QED
  BY <1>2, <1>3, <1>4, <1>5, Parts, Composed DEF Materialize

LEMMA KeepAllTyped ==
  ASSUME TypeInv, NEW c \in Clients, KeepAll(c), UNCHANGED work
  PROVE  TypeInv'
<1>1. Moves(c, Idle)
  BY Parts, Finished DEF KeepAll
<1>. QED
  BY <1>1, Parts, OnlyMoves DEF KeepAll

LEMMA FindScheduledTyped ==
  ASSUME TypeInv, NEW c \in Clients, FindScheduled(c), UNCHANGED work
  PROVE  TypeInv'
<1>. DEFINE j == [Idle EXCEPT !.pc = "source", !.size = buffer.size, !.type = buffer.type, !.force = TRUE]
<1>1. j \in Job /\ Carries(j) /\ j.sum = 0 /\ j.window = 0
  BY Fields, StepsListed, IdleTyped DEF Job, Carries
<1>2. Moves(c, j)
  BY <1>1, Parts DEF FindScheduled, Moves
<1>. QED
  BY <1>2, Parts, OnlyMoves DEF FindScheduled

LEMMA ReadSourceTyped ==
  ASSUME TypeInv, NEW c \in Clients, ReadSource(c), UNCHANGED work
  PROVE  TypeInv'
<1>1. ASSUME At(c, "source"), job' = [job EXCEPT ![c].pc = "materialize", ![c].place = source.place,
                                                 ![c].sum = source.sum]
      PROVE  TypeInv'
  <2>. DEFINE j == [job[c] EXCEPT !.pc = "materialize", !.place = source.place, !.sum = source.sum]
  <2>1. j \in Job /\ Carries(j) /\ j.sum = source.sum /\ j.window = job[c].window
    BY Fields, StepsListed, InHand DEF Job, Carries
  <2>2. job' = [job EXCEPT ![c] = j]
    BY <1>1 DEF TypeInv
  <2>3. Moves(c, j)
    BY <2>1, <2>2, Parts, InHand DEF ReadSource, Moves
  <2>. QED
    BY <2>3, Parts, OnlyMoves DEF ReadSource
<1>2. ASSUME job' = [job EXCEPT ![c] = [Idle EXCEPT !.pc = "strategy", !.place = source.place,
                                                    !.sum = source.sum]]
      PROVE  TypeInv'
  <2>. DEFINE j == [Idle EXCEPT !.pc = "strategy", !.place = source.place, !.sum = source.sum]
  <2>1. j \in Job /\ Carries(j) /\ j.sum = source.sum /\ j.window = 0
    BY Fields, StepsListed, IdleTyped DEF Job, Carries
  <2>2. Moves(c, j)
    BY <1>2, <2>1, Parts DEF ReadSource, Moves
  <2>. QED
    BY <2>2, Parts, OnlyMoves DEF ReadSource
<1>. QED
  BY <1>1, <1>2 DEF ReadSource

LEMMA CheckStrategyTyped ==
  ASSUME TypeInv, NEW c \in Clients, CheckStrategy(c), UNCHANGED work
  PROVE  TypeInv'
<1>1. CASE buffer.strategy \in {"manual", "schedule"}
  <2>. DEFINE j == [job[c] EXCEPT !.pc = "materialize", !.size = buffer.size, !.type = buffer.type,
                                  !.force = TRUE]
  <2>1. j \in Job /\ Carries(j) /\ j.sum = job[c].sum /\ j.window = job[c].window
    BY Fields, StepsListed, InHand DEF Job, Carries
  <2>2. job' = [job EXCEPT ![c] = j]
    BY <1>1 DEF CheckStrategy, TypeInv
  <2>3. Moves(c, j)
    BY <2>1, <2>2, InHand DEF CheckStrategy, Moves
  <2>. QED
    BY <2>3, Parts, OnlyMoves DEF CheckStrategy
<1>2. CASE buffer.strategy \notin {"manual", "schedule"}
  BY <1>2, Parts, Finished, OnlyMoves DEF CheckStrategy
<1>. QED
  BY <1>1, <1>2

LEMMA NameUploadTyped ==
  ASSUME TypeInv, NEW c \in Clients, NEW n \in Labels, NEW size \in Sizes, NameUpload(c, n, size),
         UNCHANGED work
  PROVE  TypeInv'
<1>. DEFINE j == [Idle EXCEPT !.pc = "store", !.size = size, !.type = "upload",
                              !.label = n, !.place = Place("upload", n)]
<1>1. size \in Nat /\ Place("upload", n) \in Places /\ "upload" \in Types
  BY Constants, PlacesTyped DEF Types
<1>2. j \in Job /\ Carries(j) /\ j.sum = 0 /\ j.window = 0
  BY <1>1, StepsListed, IdleTyped DEF Job, Carries
<1>3. Moves(c, j)
  BY <1>2, Parts DEF NameUpload, Moves
<1>. QED
  BY <1>3, Parts, OnlyMoves DEF NameUpload

LEMMA StoreUploadTyped ==
  ASSUME TypeInv, NEW c \in Clients, StoreUpload(c), UNCHANGED work
  PROVE  TypeInv'
<1>. DEFINE j == [job[c] EXCEPT !.pc = "link", !.sum = uploads + 1]
<1>1. uploads' = uploads + 1 /\ uploads' \in Nat /\ uploads <= uploads' /\ uploads + 1 \in 0..uploads'
  BY Parts DEF StoreUpload
<1>2. j \in Job /\ Carries(j) /\ j.sum = uploads + 1 /\ j.window = job[c].window
  <2>1. job[c] \in Job /\ Carries(job[c]) /\ uploads + 1 \in Nat
    BY <1>1, InHand
  <2>2. j \in Job
    BY <2>1, StepsListed DEF Job
  <2>. QED
    BY <2>1, <2>2 DEF Job, Carries
<1>3. Moves(c, j)
  <2>1. job' = [job EXCEPT ![c] = j]
    BY DEF StoreUpload, TypeInv
  <2>. QED
    BY <1>1, <1>2, <2>1, InHand DEF StoreUpload, Moves
<1>4. content' \in [Places -> Nat]
  <2>1. content \in [Places -> Nat] /\ uploads + 1 \in Nat
    BY <1>1, Parts
  <2>. QED
    BY <2>1 DEF StoreUpload
<1>5. source' \in [place : Places, sum : 0..uploads']
  <2>1. source.place \in Places /\ source.sum \in 0..uploads'
    BY <1>1, Fields, Parts
  <2>. QED
    BY <2>1, Parts DEF StoreUpload
<1>6. UNCHANGED Live
  BY DEF StoreUpload, Live
<1>. QED
  BY <1>1, <1>3, <1>4, <1>5, <1>6, Parts, Composed DEF StoreUpload

LEMMA LinkUploadTyped ==
  ASSUME TypeInv, NEW c \in Clients, LinkUpload(c), UNCHANGED work
  PROVE  TypeInv'
<1>. DEFINE j == [job[c] EXCEPT !.pc = "refill", !.limit = buffer.limit, !.sum = 0]
<1>1. j \in Job /\ Carries(j) /\ j.sum = 0 /\ j.window = job[c].window
  <2>1. job[c] \in Job /\ buffer.limit \in Limits /\ buffer.limit \in Nat
    BY InHand, Fields
  <2>2. j \in Job
    BY <2>1, StepsListed DEF Job
  <2>. QED
    BY <2>1, <2>2 DEF Job, Carries
<1>2. Moves(c, j)
  <2>1. job' = [job EXCEPT ![c] = j]
    BY DEF LinkUpload, TypeInv
  <2>2. opened' = opened /\ 0 \in 0..uploads' /\ job[c].window \in 0..opened'
    BY InHand, Parts DEF LinkUpload
  <2>. HIDE DEF j
  <2>. QED
    BY <1>1, <2>1, <2>2 DEF Moves
<1>3. source' \in [place : Places, sum : 0..uploads]
  BY InHand DEF LinkUpload, Job
<1>4. UNCHANGED Live
  BY DEF LinkUpload, Live
<1>. QED
  BY <1>2, <1>3, <1>4, Parts, Composed DEF LinkUpload

LEMMA IngestTyped ==
  ASSUME TypeInv, NEW c \in Clients, NEW type \in Types, NEW size \in Sizes \cup {0},
         Ingest(c, type, size), UNCHANGED work
  PROVE  TypeInv'
<1>. DEFINE j == [Idle EXCEPT !.pc = "refill", !.size = size, !.type = type, !.limit = buffer.limit]
<1>1. size \in Nat
  BY Constants
<1>2. j \in Job /\ Carries(j) /\ j.sum = 0 /\ j.window = 0
  BY <1>1, Fields, StepsListed, IdleTyped DEF Job, Carries
<1>3. Moves(c, j)
  BY <1>2, Parts DEF Ingest, Moves
<1>. QED
  BY <1>3, Parts, OnlyMoves DEF Ingest

LEMMA RefillBufferTyped ==
  ASSUME TypeInv, NEW c \in Clients, RefillBuffer(c), UNCHANGED work
  PROVE  TypeInv'
<1>. DEFINE next == CASE job[c].type = "feedback" -> "materialize"
                      [] job[c].type = "ingest"   -> "label"
                      [] OTHER -> "save"
            j == [job[c] EXCEPT !.pc = next]
<1>1. next \in {"materialize", "label", "save"}
  OBVIOUS
<1>. HIDE DEF next
<1>2. j \in Job /\ Carries(j) /\ j.sum = job[c].sum /\ j.window = job[c].window
  BY <1>1, InHand, StepsListed DEF Job, Carries
<1>3. Moves(c, j)
  <2>1. job' = [job EXCEPT ![c] = j]
    BY DEF RefillBuffer, Goto, TypeInv, next
  <2>. QED
    BY <1>2, <2>1, InHand DEF RefillBuffer, Moves
<1>4. buffer' \in [size : Nat, limit : Limits, strategy : Modes, window : Windows, type : Types]
      /\ buffer'.window = buffer.window
  <2>1. job[c].size \in Nat /\ job[c].limit \in Limits /\ job[c].type \in Types
    BY InHand DEF RefillBuffer, At, Carries, Job
  <2>. QED
    BY <2>1, Parts DEF RefillBuffer, Modes
<1>5. UNCHANGED Live
  BY DEF RefillBuffer, Live
<1>. QED
  BY <1>3, <1>4, <1>5, Parts, Composed DEF RefillBuffer

LEMMA LabelItemTyped ==
  ASSUME TypeInv, NEW c \in Clients, NEW n \in Labels, LabelItem(c, n), UNCHANGED work
  PROVE  TypeInv'
<1>. DEFINE j == [job[c] EXCEPT !.pc = "save", !.label = n]
<1>1. j \in Job /\ Carries(j) /\ j.sum = job[c].sum /\ j.window = job[c].window
  BY InHand, StepsListed DEF Job, Carries
<1>2. Moves(c, j)
  <2>1. job' = [job EXCEPT ![c] = j]
    BY DEF LabelItem, TypeInv
  <2>. QED
    BY <1>1, <2>1, InHand DEF LabelItem, Moves
<1>. QED
  BY <1>2, Parts, OnlyMoves DEF LabelItem

LEMMA SaveVersionTyped ==
  ASSUME TypeInv, NEW c \in Clients, NEW v \in Ids, SaveVersion(c, v), UNCHANGED work
  PROVE  TypeInv'
<1>. DEFINE same == {u \in Live : versions[u].label = job[c].label}
            r == [status |-> "live", label |-> job[c].label, place |-> job[c].place,
                  count |-> job[c].size, key |-> NoKey]
<1>1. Moves(c, Idle)
  BY Parts, Finished DEF SaveVersion
<1>2. CASE same # {}
  <2>. DEFINE k == IF job[c].size = 0 THEN versions[v].count ELSE job[c].size
  <2>1. versions' = [versions EXCEPT ![v] = [@ EXCEPT !.count = k]]
    BY <1>2, Parts DEF SaveVersion
  <2>2. k \in Nat
    BY Parts, InHand DEF Version, Job
  <2>. HIDE DEF k
  <2>3. versions' \in [Ids -> Version]
    BY <2>1, <2>2, Parts DEF Version
  <2>4. \A u \in Ids : versions'[u].label = versions[u].label /\ versions'[u].status = versions[u].status
    BY <2>1, Parts DEF Version
  <2>5. Live' = Live
    BY <2>4 DEF Live
  <2>6. \A u, w \in Live' : versions'[u].label = versions'[w].label => u = w
    BY <2>4, <2>5, Parts DEF Live
  <2>. QED
    BY <1>1, <2>3, <2>6, Parts, Composed DEF SaveVersion
<1>3. CASE same = {}
  <2>1. Fresh(v) /\ versions' = [versions EXCEPT ![v] = r]
    BY <1>3 DEF SaveVersion
  <2>2. r \in Version /\ r.status = "live" /\ r.label = job[c].label
    BY InHand DEF Version, Job, Keys
  <2>3. \A u \in Live : versions[u].label # r.label
    BY <1>3
  <2>4. /\ versions' \in [Ids -> Version]
        /\ \A u, w \in Live' : versions'[u].label = versions'[w].label => u = w
    <3>. HIDE DEF r
    <3>. QED
      BY <2>1, <2>2, <2>3, NewVersion
  <2>. QED
    BY <1>1, <2>4, Parts, Composed DEF SaveVersion
<1>. QED
  BY <1>2, <1>3

LEMMA ReadConfigTyped ==
  ASSUME TypeInv, NEW c \in Clients, ReadConfig(c), UNCHANGED work
  PROVE  TypeInv'
<1>. DEFINE j == [Idle EXCEPT !.pc = "configure", !.size = buffer.size, !.type = buffer.type]
<1>1. j \in Job /\ Carries(j) /\ j.sum = 0 /\ j.window = 0
  BY Fields, StepsListed, IdleTyped DEF Job, Carries
<1>2. Moves(c, j)
  BY <1>1, Parts DEF ReadConfig, Moves
<1>. QED
  BY <1>2, Parts, OnlyMoves DEF ReadConfig

LEMMA ConfigureTyped ==
  ASSUME TypeInv, NEW c \in Clients, NEW limit \in Limits, NEW strategy \in Strategies,
         Configure(c, limit, strategy), UNCHANGED work
  PROVE  TypeInv'
<1>1. opened' = opened + 1 /\ opened' \in Windows /\ opened' \in Nat /\ opened' \in 0..opened'
  BY Parts, Constants DEF Configure, Windows
<1>2. buffer' = [size |-> job[c].size, limit |-> limit, strategy |-> strategy,
                 window |-> opened', type |-> job[c].type]
  BY <1>1 DEF Configure
<1>3. job[c].size \in Nat /\ job[c].type \in Types /\ strategy \in Modes
  BY InHand, Constants DEF Job
<1>4. /\ buffer' \in [size : Nat, limit : Limits, strategy : Modes, window : Windows, type : Types]
      /\ buffer'.window \in 0..opened'
  BY <1>1, <1>2, <1>3
<1>5. Moves(c, Idle)
  BY <1>1, Parts, Finished DEF Configure
<1>6. UNCHANGED Live
  BY DEF Configure, Live
<1>. QED
  BY <1>1, <1>4, <1>5, <1>6, Parts, Composed DEF Configure

LEMMA RemoveFileTyped ==
  ASSUME TypeInv, NEW c \in Clients, NEW v \in Ids, RemoveFile(c, v), UNCHANGED work
  PROVE  TypeInv'
<1>. DEFINE j == [Idle EXCEPT !.pc = "delete", !.id = v]
<1>1. v \in 0..MaxVersions
  BY Constants DEF Ids
<1>2. j \in Job /\ Carries(j) /\ j.sum = 0 /\ j.window = 0
  BY <1>1, StepsListed, IdleTyped DEF Job, Carries
<1>3. Moves(c, j)
  BY <1>2, Parts DEF RemoveFile, Moves
<1>4. content' \in [Places -> Nat]
  BY Parts DEF RemoveFile
<1>5. UNCHANGED Live
  BY DEF RemoveFile, Live
<1>. QED
  BY <1>3, <1>4, <1>5, Parts, Composed DEF RemoveFile

LEMMA DeleteRowTyped ==
  ASSUME TypeInv, NEW c \in Clients, DeleteRow(c), UNCHANGED work
  PROVE  TypeInv'
<1>. DEFINE v == job[c].id
<1>1. v \in Ids
  BY InHand DEF DeleteRow, At, Carries
<1>2. versions' = [versions EXCEPT ![v] = [@ EXCEPT !.status = "gone"]]
  BY Parts DEF DeleteRow
<1>. HIDE DEF v
<1>3. versions' \in [Ids -> Version]
  BY <1>1, <1>2, Parts DEF Version
<1>4. \A u \in Ids : versions'[u].label = versions[u].label
  BY <1>1, <1>2, Parts DEF Version
<1>5. Live' \subseteq Live
  BY <1>1, <1>2, Parts DEF Live, Version
<1>6. \A u, w \in Live' : versions'[u].label = versions'[w].label => u = w
  BY <1>4, <1>5, Parts DEF Live
<1>7. Moves(c, Idle)
  BY Parts, Finished DEF DeleteRow
<1>. QED
  BY <1>3, <1>6, <1>7, Parts, Composed DEF DeleteRow

LEMMA CrashTyped ==
  ASSUME TypeInv, NEW c \in Clients, Crash(c), UNCHANGED work
  PROVE  TypeInv'
<1>1. crashes' \in 0..MaxCrashes
  BY Parts, Constants DEF Crash
<1>2. Moves(c, Idle)
  BY Parts, Finished DEF Crash
<1>. QED
  BY <1>1, <1>2, OnlyMoves DEF Crash

LEMMA NextTyped == TypeInv /\ [Next]_vars => TypeInv'
<1>. SUFFICES ASSUME TypeInv, [Next]_vars PROVE TypeInv'
  OBVIOUS
<1>1. CASE UNCHANGED vars
  BY <1>1 DEF vars, TypeInv, BufferTypeOK, Live, At
<1>2. ASSUME NEW c \in Clients, UNCHANGED work,
             Append(c) \/ Snapshot(c) \/ Upload(c) \/ IngestItem(c) \/ Maintain(c) \/ Crash(c)
      PROVE  TypeInv'
  <2>1. CASE Append(c)
    BY <1>2, <2>1, ReadBufferTyped, AppendRowTyped, CountRowTyped DEF Append
  <2>2. CASE Snapshot(c)
    BY <1>2, <2>2, FindScheduledTyped, ReadSourceTyped, CheckStrategyTyped, KeepAllTyped,
       MaterializeTyped DEF Snapshot
  <2>3. CASE Upload(c)
    BY <1>2, <2>3, NameUploadTyped, StoreUploadTyped, LinkUploadTyped, RefillBufferTyped,
       SaveVersionTyped DEF Upload
  <2>4. CASE IngestItem(c)
    BY <1>2, <2>4, IngestTyped, LabelItemTyped DEF IngestItem
  <2>5. CASE Maintain(c)
    BY <1>2, <2>5, ReadConfigTyped, ConfigureTyped, RemoveFileTyped, DeleteRowTyped DEF Maintain
  <2>. QED
    BY <1>2, <2>1, <2>2, <2>3, <2>4, <2>5, CrashTyped
<1>. QED
  BY <1>1, <1>2 DEF Next

\* The buffer, the versions and what clients carry keep their types, and no two
\* live versions of a dataset have the same label, whoever labels them.
THEOREM BufferTypeCorrect == Spec => []BufferTypeOK
<1>1. Spec => []TypeInv
  BY InitTyped, NextTyped, PTL DEF Spec
<1>2. TypeInv => BufferTypeOK
  BY DEF TypeInv
<1>. QED
  BY <1>1, <1>2, PTL

-----------------------------------------------------------------------------
(* Windows.  With one appender, the window in a client's hand is no          *)
(* version's yet, and neither is the buffer's.                               *)

OneAppender ==
  \A w \in Ops : \A c, d \in Clients : "append" \in w[c] /\ "append" \in w[d] => c = d

Unused(p) == \A v \in Ids : versions[v].place # p

Holds(c) ==
  /\ At(c, "file") \/ At(c, "count") =>
       "append" \in work[c] /\ Unused(Place("window", job[c].window))
  /\ job[c].place.kind = "window" =>
       /\ At(c, "materialize") /\ "append" \in work[c]
       /\ Unused(job[c].place) /\ job[c].place.n <= opened

WindowInv ==
  /\ source.place.kind # "window"
  /\ \A v \in Ids : versions[v].place.kind = "window" => versions[v].place.n <= opened
  /\ Unused(Place("window", buffer.window))
  /\ \A c \in Clients : Holds(c)
  /\ OnePerWindow

LEMMA InitWindows == Init => WindowInv
<1>. SUFFICES ASSUME Init PROVE WindowInv
  OBVIOUS
<1>1. \A v \in Ids : versions[v].place = NoPlace
  BY DEF Init, NoVersion
<1>2. NoPlace.kind # "window" /\ \A n : Place("window", n) # NoPlace
  BY DEF NoPlace, Place
<1>3. \A c \in Clients : job[c].pc = "idle" /\ job[c].place = NoPlace
  BY DEF Init, Idle
<1>. QED
  BY <1>1, <1>2, <1>3 DEF Init, WindowInv, Unused, Holds, At, OnePerWindow

LEMMA PlaceNumbers ==
  \A p \in Places : p.kind \in {"none", "window", "upload"} /\ p.n \in Nat
BY Constants DEF Places, NoPlace, Place

LEMMA NextWindowUnused ==
  ASSUME TypeInv, WindowInv
  PROVE  Unused(Place("window", opened + 1))
<1>1. \A v \in Ids : versions[v].place = Place("window", opened + 1) => FALSE
  BY Parts DEF WindowInv, Place
<1>. QED
  BY <1>1 DEF Unused

\* No version gets another place: what the step has to show is what it leaves
\* in the buffer, in the dataset row and in its own hand.
LEMMA SamePlaces ==
  ASSUME TypeInv, WindowInv, NEW c \in Clients, NEW j,
         UNCHANGED work, opened' \in Nat, opened <= opened',
         job' = [job EXCEPT ![c] = j], j.place \in Places,
         \A v \in Ids : versions'[v].place = versions[v].place,
         source'.place.kind # "window",
         Unused(Place("window", buffer'.window)),
         j.pc \in {"file", "count"} => "append" \in work[c] /\ Unused(Place("window", j.window)),
         j.place.kind = "window" => /\ j.pc = "materialize" /\ "append" \in work[c]
                                    /\ Unused(j.place) /\ j.place.n <= opened
  PROVE  WindowInv'
<1>1. \A q : Unused(q) => Unused(q)'
  BY DEF Unused
<1>2. job'[c] = j /\ \A d \in Clients : d # c => job'[d] = job[d]
  BY DEF TypeInv
<1>3. \A p \in Places : p.n <= opened => p.n <= opened'
  BY PlaceNumbers, Parts
<1>4. \A v \in Ids : versions'[v].place.kind = "window" => versions'[v].place.n <= opened'
  BY <1>3, Parts DEF WindowInv, Version
<1>5. \A d \in Clients : d # c => Holds(d)'
  BY <1>1, <1>2, <1>3, InHand DEF WindowInv, Holds, At, Job
<1>6. Unused(Place("window", buffer'.window)) => (Unused(Place("window", buffer.window)))'
  BY DEF Unused
<1>7. OnePerWindow'
  BY DEF WindowInv, OnePerWindow
<1>8. Holds(c)'
  <2>1. job'[c] = j /\ work'[c] = work[c]
    BY <1>2
  <2>2. j.pc \in {"file", "count"} =>
          "append" \in work[c] /\ \A v \in Ids : versions'[v].place # Place("window", j.window)
    BY DEF Unused
  <2>3. j.place.kind = "window" =>
          /\ j.pc = "materialize" /\ "append" \in work[c]
          /\ j.place.n <= opened' /\ \A v \in Ids : versions'[v].place # j.place
    BY <1>3 DEF Unused
  <2>. QED
    BY <2>1, <2>2, <2>3 DEF Holds, At, Unused
<1>. QED
  BY <1>4, <1>5, <1>6, <1>7, <1>8 DEF WindowInv, Unused

\* Nothing of a window in hand afterwards, and the buffer keeps its window.
LEMMA NothingInHand ==
  ASSUME TypeInv, WindowInv, NEW c \in Clients, NEW j,
         UNCHANGED <<work, opened>>,
         job' = [job EXCEPT ![c] = j], j.place \in Places,
         \A v \in Ids : versions'[v].place = versions[v].place,
         source'.place.kind # "window", buffer'.window = buffer.window,
         j.pc \notin {"file", "count"}, j.place.kind # "window"
  PROVE  WindowInv'
<1>1. Unused(Place("window", buffer'.window)) /\ opened \in Nat /\ opened <= opened'
  BY Parts DEF WindowInv
<1>. QED
  BY <1>1, SamePlaces, Parts

LEMMA IdleHand ==
  Idle.place \in Places /\ Idle.pc = "idle" /\ Idle.place.kind # "window" /\ NoPlace.kind # "window"
BY PlacesTyped DEF Idle, NoPlace, Place

LEMMA SourceKind == ASSUME WindowInv PROVE source.place.kind # "window"
BY DEF WindowInv

\* A client at no statement that has a window in hand.
LEMMA PlainHand ==
  ASSUME TypeInv, WindowInv, NEW c \in Clients, ~At(c, "materialize")
  PROVE  job[c].place.kind # "window" /\ job[c].place \in Places
BY InHand DEF WindowInv, Holds, Job

LEMMA AppendKeeps ==
  ASSUME TypeInv, WindowInv, NEW c \in Clients, Append(c), UNCHANGED work
  PROVE  WindowInv'
<1>0. opened \in Nat /\ source.place.kind # "window" /\ Unused(Place("window", buffer.window))
  BY Parts DEF WindowInv
<1>1. CASE ReadBuffer(c)
  <2>. DEFINE j == [Idle EXCEPT !.pc = "file", !.size = buffer.size, !.limit = buffer.limit,
                                !.strategy = buffer.strategy, !.window = buffer.window]
  <2>1. j.place = NoPlace /\ j.window = buffer.window /\ j.pc = "file"
    BY DEF Idle
  <2>2. job' = [job EXCEPT ![c] = j] /\ "append" \in work[c]
        /\ UNCHANGED <<buffer, source, versions, opened>>
    BY <1>1 DEF ReadBuffer, Starts
  <2>. HIDE DEF j
  <2>3. /\ opened' \in Nat /\ opened <= opened' /\ source'.place.kind # "window"
        /\ Unused(Place("window", buffer'.window)) /\ Unused(Place("window", j.window))
        /\ \A v \in Ids : versions'[v].place = versions[v].place
    BY <1>0, <2>1, <2>2
  <2>. QED
    BY <2>1, <2>2, <2>3, IdleHand, PlacesTyped, SamePlaces
<1>2. CASE AppendRow(c)
  <2>. DEFINE j == [job[c] EXCEPT !.pc = "count"]
  <2>1. /\ job[c].place.kind # "window" /\ job[c].place \in Places
        /\ "append" \in work[c] /\ Unused(Place("window", job[c].window))
    BY <1>2, PlainHand DEF AppendRow, At, WindowInv, Holds
  <2>2. j.place = job[c].place /\ j.window = job[c].window /\ j.pc = "count"
    BY InHand DEF Job
  <2>3. job' = [job EXCEPT ![c] = j] /\ UNCHANGED <<buffer, source, versions, opened>>
    BY <1>2 DEF AppendRow, Goto, TypeInv
  <2>. HIDE DEF j
  <2>4. /\ opened' \in Nat /\ opened <= opened' /\ source'.place.kind # "window"
        /\ Unused(Place("window", buffer'.window)) /\ Unused(Place("window", j.window))
        /\ \A v \in Ids : versions'[v].place = versions[v].place
    BY <1>0, <2>1, <2>2, <2>3
  <2>. QED
    BY <2>1, <2>2, <2>3, <2>4, SamePlaces
<1>3. CASE CountRow(c)
  <2>. DEFINE p == Place("window", job[c].window)
              j == [job[c] EXCEPT !.pc = "materialize", !.size = @ + 1, !.type = "append", !.place = p]
  <2>1. "append" \in work[c] /\ Unused(p)
    BY <1>3 DEF CountRow, At, WindowInv, Holds
  <2>2. p \in Places /\ p.n = job[c].window /\ p.kind = "window" /\ job[c].window \in 0..opened
    BY <1>3, InHand, PlacesTyped DEF CountRow, At, Carries, Place
  <2>3. j.place = p /\ j.pc = "materialize" /\ p.n <= opened
    BY <1>0, <2>2, InHand DEF Job
  <2>4. /\ job' = [job EXCEPT ![c] = j] /\ buffer'.window = job[c].window
        /\ UNCHANGED <<source, versions, opened>>
    BY <1>3 DEF CountRow, TypeInv
  <2>5. Unused(Place("window", buffer'.window))
    BY <2>1, <2>4
  <2>. HIDE DEF j, p
  <2>6. /\ opened' \in Nat /\ opened <= opened' /\ source'.place.kind # "window"
        /\ \A v \in Ids : versions'[v].place = versions[v].place
    BY <1>0, <2>4
  <2>7. Unused(j.place) /\ j.place \in Places /\ j.place.n <= opened
    BY <2>1, <2>2, <2>3
  <2>. QED
    BY <2>1, <2>3, <2>4, <2>5, <2>6, <2>7, SamePlaces
<1>. QED
  BY <1>1, <1>2, <1>3 DEF Append

\* The only appender takes its window to a version; the next one is new.
LEMMA MaterializeKeeps ==
  ASSUME OneAppender, TypeInv, WindowInv, NEW c \in Clients, NEW v \in Ids, NEW n \in Labels,
         Materialize(c, v, n), UNCHANGED work
  PROVE  WindowInv'
<1>. DEFINE p == job[c].place
<1>0. opened \in Nat /\ opened' = opened + 1 /\ buffer'.window = opened + 1 /\ UNCHANGED source
  BY Parts DEF Materialize, EmptyBuffer
<1>1. versions'[v].place = p /\ \A u \in Ids : u # v => versions'[u].place = versions[u].place
  BY Parts DEF Materialize
<1>2. p \in Places /\ (p.kind = "window" => Unused(p) /\ p.n <= opened /\ "append" \in work[c])
  BY InHand DEF Job, WindowInv, Holds
<1>3. job'[c] = Idle /\ \A d \in Clients : d # c => job'[d] = job[d]
  BY DEF Materialize, Done, TypeInv
<1>4. \A q \in Places : q.n <= opened => q.n <= opened' /\ q.n # opened + 1
  BY <1>0, PlaceNumbers
<1>. HIDE DEF p
<1>5. \A u \in Ids : versions'[u].place.kind = "window" => versions'[u].place.n <= opened'
  BY <1>1, <1>2, <1>4, Parts DEF WindowInv, Version
<1>6. Unused(Place("window", buffer.window))'
  <2>1. p # Place("window", opened + 1)
    BY <1>0, <1>2 DEF Place
  <2>2. \A u \in Ids : versions'[u].place # Place("window", opened + 1)
    BY <1>1, <2>1, NextWindowUnused DEF Unused
  <2>. QED
    BY <1>0, <2>2 DEF Unused
<1>7. ASSUME NEW d \in Clients PROVE Holds(d)'
  <2>1. CASE d = c
    BY <1>3, <2>1, IdleHand DEF Holds, At
  <2>2. CASE d # c
    <3>1. job'[d] = job[d] /\ job[d].place \in Places /\ Holds(d) /\ work'[d] = work[d]
      BY <1>3, <2>2, InHand DEF WindowInv, Job
    <3>2. "append" \in work[d] => p.kind # "window"
      BY <1>2, <2>2, Parts DEF OneAppender
    <3>3. \A q : q.kind = "window" /\ Unused(q) /\ "append" \in work[d] => Unused(q)'
      BY <1>1, <3>2 DEF Unused
    <3>4. Place("window", job[d].window).kind = "window"
      BY DEF Place
    <3>5. At(d, "file") \/ At(d, "count") => (Unused(Place("window", job[d].window)))'
      <4>1. At(d, "file") \/ At(d, "count") =>
              \A u \in Ids : versions'[u].place # Place("window", job[d].window)
        BY <1>1, <3>1, <3>2, <3>4 DEF Holds, Unused
      <4>. QED
        BY <3>1, <4>1 DEF Unused
    <3>6. job[d].place.kind = "window" => Unused(job[d].place)' /\ job[d].place.n <= opened'
      BY <1>4, <3>1, <3>3 DEF Holds, Unused
    <3>. QED
      BY <3>1, <3>5, <3>6 DEF Holds, At, Unused
  <2>. QED
    BY <2>1, <2>2
<1>8. OnePerWindow'
  BY <1>1, <1>2 DEF OnePerWindow, WindowInv, Unused
<1>. QED
  BY <1>0, <1>5, <1>6, <1>7, <1>8 DEF WindowInv

LEMMA SnapshotKeeps ==
  ASSUME OneAppender, TypeInv, WindowInv, NEW c \in Clients, Snapshot(c), UNCHANGED work
  PROVE  WindowInv'
<1>1. CASE FindScheduled(c)
  <2>. DEFINE j == [Idle EXCEPT !.pc = "source", !.size = buffer.size, !.type = buffer.type, !.force = TRUE]
  <2>1. j.place = Idle.place /\ j.pc = "source"
    BY DEF Idle
  <2>. QED
    BY <1>1, <2>1, IdleHand, SourceKind, NothingInHand DEF FindScheduled
<1>2. CASE ReadSource(c)
  <2>1. source.place \in Places
    BY Parts
  <2>2. ASSUME At(c, "source"), job' = [job EXCEPT ![c].pc = "materialize", ![c].place = source.place,
                                                   ![c].sum = source.sum]
        PROVE  WindowInv'
    <3>. DEFINE j == [job[c] EXCEPT !.pc = "materialize", !.place = source.place, !.sum = source.sum]
    <3>1. job' = [job EXCEPT ![c] = j] /\ j.place = source.place /\ j.pc = "materialize"
      BY <2>2, InHand DEF TypeInv, Job
    <3>. HIDE DEF j
    <3>. QED
      BY <1>2, <2>1, <3>1, SourceKind, NothingInHand DEF ReadSource
  <2>3. ASSUME job' = [job EXCEPT ![c] = [Idle EXCEPT !.pc = "strategy", !.place = source.place,
                                                      !.sum = source.sum]]
        PROVE  WindowInv'
    <3>. DEFINE j == [Idle EXCEPT !.pc = "strategy", !.place = source.place, !.sum = source.sum]
    <3>1. j.place = source.place /\ j.pc = "strategy"
      BY DEF Idle
    <3>. QED
      BY <1>2, <2>1, <2>3, <3>1, SourceKind, NothingInHand DEF ReadSource
  <2>. QED
    BY <1>2, <2>2, <2>3 DEF ReadSource
<1>3. CASE CheckStrategy(c)
  <2>1. CASE buffer.strategy \in {"manual", "schedule"}
    <3>. DEFINE j == [job[c] EXCEPT !.pc = "materialize", !.size = buffer.size, !.type = buffer.type,
                                    !.force = TRUE]
    <3>1. /\ job' = [job EXCEPT ![c] = j] /\ j.place = job[c].place /\ j.pc = "materialize"
          /\ ~At(c, "materialize")
      BY <1>3, <2>1, InHand DEF TypeInv, Job, CheckStrategy, At
    <3>. HIDE DEF j
    <3>. QED
      BY <1>3, <3>1, PlainHand, SourceKind, NothingInHand DEF CheckStrategy
  <2>. QED
    BY <1>3, <2>1, IdleHand, SourceKind, NothingInHand DEF CheckStrategy, Done
<1>4. CASE KeepAll(c)
  BY <1>4, IdleHand, SourceKind, NothingInHand DEF KeepAll, Done
<1>. QED
  BY <1>1, <1>2, <1>3, <1>4, MaterializeKeeps DEF Snapshot

LEMMA SaveVersionKeeps ==
  ASSUME TypeInv, WindowInv, NEW c \in Clients, NEW v \in Ids, SaveVersion(c, v), UNCHANGED work
  PROVE  WindowInv'
<1>. DEFINE same == {u \in Live : versions[u].label = job[c].label}
<1>1. CASE same # {}
  <2>1. \A u \in Ids : versions'[u].place = versions[u].place
    BY <1>1, Parts DEF SaveVersion, Version
  <2>. QED
    BY <2>1, IdleHand, SourceKind, NothingInHand DEF SaveVersion, Done
<1>2. CASE same = {}
  <2>. DEFINE p == job[c].place
  <2>1. p.kind # "window" /\ p \in Places
    BY PlainHand DEF SaveVersion, At
  <2>2. versions'[v].place = p /\ \A u \in Ids : u # v => versions'[u].place = versions[u].place
    BY <1>2, Parts DEF SaveVersion
  <2>3. job'[c] = Idle /\ \A d \in Clients : d # c => job'[d] = job[d]
    BY DEF SaveVersion, Done, TypeInv
  <2>4. UNCHANGED <<buffer, source, opened>>
    BY DEF SaveVersion
  <2>. HIDE DEF p
  <2>5. \A q : q.kind = "window" /\ Unused(q) => \A u \in Ids : versions'[u].place # q
    BY <2>1, <2>2 DEF Unused
  <2>6. \A w : Place("window", w).kind = "window"
    BY DEF Place
  <2>7. \A u \in Ids : versions'[u].place.kind = "window" => versions'[u].place.n <= opened'
    BY <2>1, <2>2, <2>4 DEF WindowInv
  <2>8. Unused(Place("window", buffer.window))'
    BY <2>4, <2>5, <2>6 DEF WindowInv, Unused
  <2>9. ASSUME NEW d \in Clients PROVE Holds(d)'
    <3>1. CASE d = c
      BY <2>3, <3>1, IdleHand DEF Holds, At
    <3>2. CASE d # c
      <4>1. job'[d] = job[d] /\ Holds(d) /\ work'[d] = work[d]
        BY <2>3, <3>2 DEF WindowInv
      <4>2. At(d, "file") \/ At(d, "count") =>
              \A u \in Ids : versions'[u].place # Place("window", job[d].window)
        BY <2>5, <2>6, <4>1 DEF Holds
      <4>3. job[d].place.kind = "window" => \A u \in Ids : versions'[u].place # job[d].place
        BY <2>5, <4>1 DEF Holds
      <4>. QED
        BY <2>4, <4>1, <4>2, <4>3 DEF Holds, At, Unused
    <3>. QED
      BY <3>1, <3>2
  <2>10. OnePerWindow'
    BY <2>1, <2>2 DEF OnePerWindow, WindowInv
  <2>. QED
    BY <2>4, <2>7, <2>8, <2>9, <2>10 DEF WindowInv
<1>. QED
  BY <1>1, <1>2

LEMMA UploadKeeps ==
  ASSUME TypeInv, WindowInv, NEW c \in Clients, Upload(c), UNCHANGED work
  PROVE  WindowInv'
<1>1. ASSUME NEW n \in Labels, NEW size \in Sizes, NameUpload(c, n, size) PROVE WindowInv'
  <2>. DEFINE j == [Idle EXCEPT !.pc = "store", !.size = size, !.type = "upload",
                                !.label = n, !.place = Place("upload", n)]
  <2>1. j.place \in Places /\ j.pc = "store" /\ j.place.kind # "window"
    BY PlacesTyped DEF Idle, Place
  <2>. QED
    BY <1>1, <2>1, SourceKind, NothingInHand DEF NameUpload
<1>2. CASE StoreUpload(c)
  <2>. DEFINE j == [job[c] EXCEPT !.pc = "link", !.sum = uploads + 1]
  <2>1. /\ job' = [job EXCEPT ![c] = j] /\ j.place = job[c].place /\ j.pc = "link"
        /\ ~At(c, "materialize")
    BY <1>2, InHand DEF TypeInv, Job, StoreUpload, At
  <2>. HIDE DEF j
  <2>. QED
    BY <1>2, <2>1, PlainHand, SourceKind, NothingInHand DEF StoreUpload
<1>3. CASE LinkUpload(c)
  <2>. DEFINE j == [job[c] EXCEPT !.pc = "refill", !.limit = buffer.limit, !.sum = 0]
  <2>1. /\ job' = [job EXCEPT ![c] = j] /\ j.place = job[c].place /\ j.pc = "refill"
        /\ ~At(c, "materialize") /\ source'.place = job[c].place
    BY <1>3, InHand DEF TypeInv, Job, LinkUpload, At
  <2>. HIDE DEF j
  <2>. QED
    BY <1>3, <2>1, PlainHand, NothingInHand DEF LinkUpload
<1>4. CASE RefillBuffer(c)
  <2>. DEFINE next == CASE job[c].type = "feedback" -> "materialize"
                        [] job[c].type = "ingest"   -> "label"
                        [] OTHER -> "save"
              j == [job[c] EXCEPT !.pc = next]
  <2>1. next \in {"materialize", "label", "save"}
    OBVIOUS
  <2>2. job' = [job EXCEPT ![c] = j] /\ ~At(c, "materialize") /\ buffer'.window = buffer.window
    BY <1>4, Parts DEF RefillBuffer, Goto, At, TypeInv
  <2>. HIDE DEF next
  <2>3. j.place = job[c].place /\ j.pc = next
    BY InHand DEF Job
  <2>. HIDE DEF j
  <2>. QED
    BY <1>4, <2>1, <2>2, <2>3, PlainHand, SourceKind, NothingInHand DEF RefillBuffer
<1>. QED
  BY <1>1, <1>2, <1>3, <1>4, SaveVersionKeeps DEF Upload

LEMMA IngestKeeps ==
  ASSUME TypeInv, WindowInv, NEW c \in Clients, IngestItem(c), UNCHANGED work
  PROVE  WindowInv'
<1>1. ASSUME NEW type \in Types, NEW size \in Sizes \cup {0}, Ingest(c, type, size) PROVE WindowInv'
  <2>. DEFINE j == [Idle EXCEPT !.pc = "refill", !.size = size, !.type = type, !.limit = buffer.limit]
  <2>1. j.place = Idle.place /\ j.pc = "refill"
    BY DEF Idle
  <2>. QED
    BY <1>1, <2>1, IdleHand, SourceKind, NothingInHand DEF Ingest
<1>2. ASSUME NEW n \in Labels, LabelItem(c, n) PROVE WindowInv'
  <2>. DEFINE j == [job[c] EXCEPT !.pc = "save", !.label = n]
  <2>1. /\ job' = [job EXCEPT ![c] = j] /\ j.place = job[c].place /\ j.pc = "save"
        /\ ~At(c, "materialize")
    BY <1>2, InHand DEF TypeInv, Job, LabelItem, At
  <2>. HIDE DEF j
  <2>. QED
    BY <1>2, <2>1, PlainHand, SourceKind, NothingInHand DEF LabelItem
<1>. QED
  BY <1>1, <1>2 DEF IngestItem

LEMMA MaintainKeeps ==
  ASSUME TypeInv, WindowInv, NEW c \in Clients, Maintain(c), UNCHANGED work
  PROVE  WindowInv'
<1>1. CASE ReadConfig(c)
  <2>. DEFINE j == [Idle EXCEPT !.pc = "configure", !.size = buffer.size, !.type = buffer.type]
  <2>1. j.place = Idle.place /\ j.pc = "configure"
    BY DEF Idle
  <2>. QED
    BY <1>1, <2>1, IdleHand, SourceKind, NothingInHand DEF ReadConfig
<1>2. ASSUME NEW limit \in Limits, NEW strategy \in Strategies, Configure(c, limit, strategy)
      PROVE  WindowInv'
  <2>1. /\ opened' \in Nat /\ opened <= opened' /\ buffer'.window = opened + 1
        /\ job' = [job EXCEPT ![c] = Idle] /\ UNCHANGED <<source, versions>>
    BY <1>2, Parts DEF Configure, Done
  <2>. QED
    BY <2>1, IdleHand, SourceKind, NextWindowUnused, SamePlaces
<1>3. ASSUME NEW v \in Ids, RemoveFile(c, v) PROVE WindowInv'
  <2>. DEFINE j == [Idle EXCEPT !.pc = "delete", !.id = v]
  <2>1. j.place = Idle.place /\ j.pc = "delete"
    BY DEF Idle
  <2>. QED
    BY <1>3, <2>1, IdleHand, SourceKind, NothingInHand DEF RemoveFile
<1>4. CASE DeleteRow(c)
  <2>1. \A v \in Ids : versions'[v].place = versions[v].place
    BY <1>4, Parts DEF DeleteRow, Version
  <2>. QED
    BY <1>4, <2>1, IdleHand, SourceKind, NothingInHand DEF DeleteRow, Done
<1>. QED
  BY <1>1, <1>2, <1>3, <1>4 DEF Maintain

LEMMA NextWindows == OneAppender /\ TypeInv /\ WindowInv /\ [Next]_vars => WindowInv'
<1>. SUFFICES ASSUME OneAppender, TypeInv, WindowInv, [Next]_vars PROVE WindowInv'
  OBVIOUS
<1>1. CASE UNCHANGED vars
  BY <1>1 DEF vars, WindowInv, Unused, Holds, At, OnePerWindow
<1>2. ASSUME NEW c \in Clients, UNCHANGED work, Crash(c) PROVE WindowInv'
  BY <1>2, IdleHand, SourceKind, NothingInHand DEF Crash, Done
<1>. QED
  BY <1>1, <1>2, AppendKeeps, SnapshotKeeps, UploadKeeps, IngestKeeps, MaintainKeeps DEF Next

\* A dataset's window becomes a version once, however appends, ticks, uploads,
\* reconfigurations, deletions and crashes fall together, as long as one client
\* appends.
THEOREM WindowsBecomeOneVersion ==
  ASSUME OneAppender
  PROVE  Spec => []OnePerWindow
<1>1. Init => TypeInv /\ WindowInv
  BY InitTyped, InitWindows
<1>2. TypeInv /\ WindowInv /\ [Next]_vars => (TypeInv /\ WindowInv)'
  BY NextTyped, NextWindows
<1>3. TypeInv /\ WindowInv => OnePerWindow
  BY DEF WindowInv
<1>. QED
  BY <1>1, <1>2, <1>3, PTL DEF Spec

-----------------------------------------------------------------------------
(* Labels.  With one client that labels what it stores, versions are labelled *)
(* in their order, and the label in a client's hand comes after all of them.  *)

Writes == {"append", "upload", "ingest", "feedback", "tick", "manual"}

\* Beside a client that uploads, or ingests what a task reports, nobody writes
\* versions; and no version is labelled "default".
OneLabeller ==
  /\ ~Legacy
  /\ \A w \in Ops : \A c, d \in Clients :
       w[c] \cap {"upload", "ingest"} # {} /\ w[d] \cap Writes # {} => c = d

\* A label was chosen and the version is not yet saved.
Labelling(j) == \/ j.pc \in {"store", "link", "save"}
                \/ j.pc = "refill" /\ j.type = "upload"

\* Where a client with the workload w can be.
OnCourse(j, w) ==
  /\ j.pc \notin {"idle", "configure", "delete"} => w \cap Writes # {}
  /\ j.pc = "refill" => j.type \in {"upload", "ingest", "feedback"} \cap w
  /\ j.pc = "label" => "ingest" \in w
  /\ j.pc = "store" => j.place = Place("upload", j.label)
  /\ j.pc \in {"store", "link"} => j.type = "upload" /\ "upload" \in w
  /\ Labelling(j) => w \cap {"upload", "ingest"} # {} /\ j.label # Unnumbered

AboveAll(n) == \A v \in Live : versions[v].label < n

LabelInv ==
  /\ \A u, v \in Ids : u < v /\ versions[v].status # "none" => versions[u].status # "none"
  /\ \A v \in Live : versions[v].label # Unnumbered
  /\ \A u, v \in Live : u < v => versions[u].label < versions[v].label
  /\ \A c \in Clients : /\ OnCourse(job[c], work[c])
                        /\ Labelling(job[c]) => AboveAll(job[c].label)
                        /\ At(c, "delete") => versions[job[c].id].status # "none"

LEMMA InitLabels == Init => LabelInv
<1>. SUFFICES ASSUME Init PROVE LabelInv
  OBVIOUS
<1>1. \A v \in Ids : versions[v].status = "none"
  BY DEF Init, NoVersion
<1>2. Live = {}
  BY <1>1 DEF Live
<1>3. \A c \in Clients : job[c] = Idle
  BY DEF Init
<1>4. Idle.pc = "idle"
  BY IdleTyped
<1>. QED
  BY <1>1, <1>2, <1>3, <1>4 DEF LabelInv, OnCourse, Labelling, At

NoneAdded ==
  \A v \in Ids : /\ versions'[v].label = versions[v].label
                 /\ (versions'[v].status = "none") <=> (versions[v].status = "none")
                 /\ versions'[v].status = "live" => versions[v].status = "live"

LEMMA SameVersions == UNCHANGED versions => NoneAdded
BY DEF NoneAdded

\* A step that adds no version: what it has to show is where it leaves its
\* client, and that a label it chose comes after all the others.
LEMMA LabelsStand ==
  ASSUME LabelInv, NEW c \in Clients, UNCHANGED work,
         NoneAdded,
         \A d \in Clients : d # c => job'[d] = job[d],
         OnCourse(job'[c], work[c]),
         Labelling(job'[c]) => \/ Labelling(job[c]) /\ job'[c].label = job[c].label
                               \/ AboveAll(job'[c].label),
         job'[c].pc = "delete" => job'[c].id \in Ids /\ versions[job'[c].id].status # "none",
         TypeInv
  PROVE  LabelInv'
<1>1. Live' \subseteq Live /\ Live \subseteq Ids
  BY DEF Live, NoneAdded
<1>2. \A n : AboveAll(n) => \A v \in Live' : versions'[v].label < n
  BY <1>1 DEF AboveAll, NoneAdded
<1>3. \A d \in Clients : At(d, "delete") => job[d].id \in Ids
  BY DEF TypeInv, Carries, At
<1>4. ASSUME NEW d \in Clients
      PROVE  /\ OnCourse(job'[d], work'[d])
             /\ Labelling(job'[d]) => \A v \in Live' : versions'[v].label < job'[d].label
             /\ job'[d].pc = "delete" => versions'[job'[d].id].status # "none"
  <2>1. CASE d = c
    BY <1>2, <2>1 DEF LabelInv, NoneAdded
  <2>2. CASE d # c
    BY <1>2, <1>3, <2>2 DEF LabelInv, At, NoneAdded
  <2>. QED BY <2>1, <2>2
<1>. QED
  BY <1>1, <1>4 DEF LabelInv, AboveAll, At, NoneAdded

\* A step that adds version v with label n.
LEMMA LabelsGrow ==
  ASSUME LabelInv, NEW c \in Clients, UNCHANGED work, TypeInv, NEW v \in Ids, NEW n \in Labels,
         Fresh(v), AboveAll(n), n # Unnumbered,
         versions'[v].status = "live", versions'[v].label = n,
         \A u \in Ids : u # v => versions'[u] = versions[u],
         \A d \in Clients : d # c => job'[d] = job[d] /\ ~Labelling(job[d]),
         job'[c] = Idle
  PROVE  LabelInv'
<1>1. Live' = Live \cup {v} /\ v \notin Live /\ Live \subseteq Ids /\ Ids \subseteq Nat
  BY DEF Live, Fresh, Ids
<1>2. \A u \in Live : u < v
  BY <1>1 DEF LabelInv, Fresh, Live, Ids
<1>3. \A u \in Live : versions'[u].label = versions[u].label /\ versions[u].label < n
  BY <1>1 DEF AboveAll
<1>4. \A t, u \in Ids : t < u /\ versions'[u].status # "none" => versions'[t].status # "none"
  BY <1>1 DEF LabelInv, Fresh
<1>5. \A t, u \in Live' : t < u => versions'[t].label < versions'[u].label
  BY <1>1, <1>2, <1>3 DEF LabelInv
<1>6. ASSUME NEW d \in Clients
      PROVE  /\ OnCourse(job'[d], work'[d])
             /\ ~Labelling(job'[d])
             /\ job'[d].pc = "delete" => versions'[job'[d].id].status # "none"
  <2>1. CASE d = c
    BY <2>1, IdleTyped DEF OnCourse, Labelling
  <2>2. CASE d # c
    <3>1. At(d, "delete") => job[d].id \in Ids /\ versions[job[d].id].status # "none"
      BY DEF TypeInv, Carries, At, LabelInv
    <3>. QED BY <2>2, <3>1 DEF LabelInv, At
  <2>. QED BY <2>1, <2>2
<1>7. \A u \in Live' : versions'[u].label # Unnumbered
  BY <1>1, <1>3 DEF LabelInv
<1>. QED
  BY <1>4, <1>5, <1>6, <1>7 DEF LabelInv, At

\* The numbers that are chosen come after all the others.
LEMMA NextLabelAbove ==
  ASSUME TypeInv, LabelInv, NEW n \in Labels, IsNextLabel(n)
  PROVE  AboveAll(n) /\ n # Unnumbered
<1>1. \A v \in Live : v \in Numbered /\ versions[v].label \in Nat
  BY Parts, Constants DEF Live, Numbered, Version, LabelInv
<1>2. Unnumbered = 0 /\ n \in Nat
  BY Constants DEF Unnumbered
<1>3. \A v \in Numbered : v \in Live
  BY DEF Numbered
<1>. QED
  BY <1>1, <1>2, <1>3 DEF IsNextLabel, AboveAll

LEMMA NewestExists ==
  ASSUME Live # {}
  PROVE  \E v \in Live : \A u \in Live : u <= v
<1>. DEFINE I == {i \in Nat : \E v \in Live : i = MaxVersions - v}
<1>1. Live \subseteq 1..MaxVersions /\ MaxVersions \in Nat
  BY Constants DEF Live, Ids
<1>2. I # {}
  <2>1. PICK v \in Live : TRUE
    OBVIOUS
  <2>2. MaxVersions - v \in I
    BY <1>1, <2>1
  <2>. QED BY <2>2
<1>3. \E i \in I : \A j \in I : i <= j
  <2>. DEFINE Less == {p \in Nat \X Nat : p[1] < p[2]}
  <2>1. IsWellFoundedOn(Less, Nat)
    BY NatLessThanWellFounded DEF OpToRel
  <2>2. PICK i \in I : \A j \in I : <<j, i>> \notin Less
    BY <1>2, <2>1, WFMin
  <2>3. \A j \in I : ~(j < i)
    BY <2>2
  <2>. QED BY <2>3
<1>4. PICK i \in I : \A j \in I : i <= j
  BY <1>3
<1>5. PICK v \in Live : i = MaxVersions - v
  BY <1>4
<1>6. ASSUME NEW u \in Live PROVE u <= v
  <2>1. MaxVersions - u \in I
    BY <1>1
  <2>. QED BY <1>1, <1>4, <1>5, <2>1
<1>. QED BY <1>6

LEMMA UploadLabelAbove ==
  ASSUME TypeInv, LabelInv, NEW n \in Labels, IsUploadLabel(n)
  PROVE  AboveAll(n) /\ n # Unnumbered
<1>0. /\ \A v \in Live : versions[v].label \in Nat
      /\ Unnumbered = 0 /\ n \in Nat /\ Live \subseteq Nat
  BY Parts, Constants DEF Live, Version, Unnumbered, Ids
<1>. DEFINE newest == {v \in Live : \A u \in Live : u <= v}
<1>1. CASE newest = {} /\ n = 1
  <2>1. Live = {}
    BY <1>1, NewestExists
  <2>. QED BY <1>0, <1>1, <2>1 DEF AboveAll
<1>2. ASSUME NEW v \in newest, n = versions[v].label + 1
      PROVE  AboveAll(n) /\ n # Unnumbered
  <2>0. v \in Live /\ \A u \in Live : u <= v
    OBVIOUS
  <2>. HIDE DEF newest
  <2>1. ASSUME NEW u \in Live PROVE versions[u].label <= versions[v].label
    <3>1. u = v \/ u < v
      BY <1>0, <2>0
    <3>. QED BY <1>0, <2>0, <3>1 DEF LabelInv
  <2>2. \A u \in Live : versions[u].label < n
    BY <1>0, <1>2, <2>0, <2>1
  <2>. QED BY <1>0, <1>2, <2>0, <2>2 DEF AboveAll
<1>. QED
  BY <1>1, <1>2 DEF IsUploadLabel

\* Nobody but c has a label in hand when c writes a version.
LEMMA OthersUnlabelled ==
  ASSUME OneLabeller, TypeInv, LabelInv, NEW c \in Clients,
         job[c].pc \notin {"idle", "configure", "delete"}
  PROVE  \A d \in Clients : d # c => ~Labelling(job[d])
<1>1. work \in Ops
  BY Parts
<1>2. work[c] \cap Writes # {}
  BY DEF LabelInv, OnCourse
<1>3. \A d \in Clients : Labelling(job[d]) => work[d] \cap {"upload", "ingest"} # {}
  BY DEF LabelInv, OnCourse
<1>. QED
  BY <1>1, <1>2, <1>3 DEF OneLabeller

\* The actions: where each leaves its client.
LEMMA AppendLabels ==
  ASSUME TypeInv, LabelInv, NEW c \in Clients, UNCHANGED work, Append(c)
  PROVE  LabelInv'
<1>1. UNCHANGED versions
  BY DEF Append, ReadBuffer, AppendRow, CountRow
<1>2. job[c] \in Job /\ OnCourse(job[c], work[c]) /\ DOMAIN job = Clients
  BY InHand DEF LabelInv, TypeInv
<1>3. \A d \in Clients : d # c => job'[d] = job[d]
  BY <1>2 DEF Append, ReadBuffer, AppendRow, CountRow, Goto
<1>4. /\ job'[c].pc \in {"file", "count", "materialize"}
      /\ work[c] \cap Writes # {}
  <2>1. CASE ReadBuffer(c)
    BY <1>2, <2>1 DEF ReadBuffer, Starts, Writes, Idle
  <2>2. CASE AppendRow(c)
    BY <1>2, <2>2 DEF AppendRow, At, Goto, OnCourse, Job
  <2>3. CASE CountRow(c)
    BY <1>2, <2>3 DEF CountRow, At, OnCourse, Job
  <2>. QED BY <2>1, <2>2, <2>3 DEF Append
<1>5. OnCourse(job'[c], work[c]) /\ ~Labelling(job'[c])
  BY <1>4 DEF OnCourse, Labelling
<1>. QED BY <1>1, <1>3, <1>4, <1>5, SameVersions, LabelsStand

LEMMA SnapshotLabels ==
  ASSUME OneLabeller, TypeInv, LabelInv, NEW c \in Clients, UNCHANGED work, Snapshot(c)
  PROVE  LabelInv'
<1>2. job[c] \in Job /\ OnCourse(job[c], work[c]) /\ DOMAIN job = Clients
  BY InHand DEF LabelInv, TypeInv
<1>3. CASE FindScheduled(c) \/ ReadSource(c) \/ CheckStrategy(c) \/ KeepAll(c)
  <2>1. UNCHANGED versions
    BY <1>3 DEF FindScheduled, ReadSource, CheckStrategy, KeepAll
  <2>2. \A d \in Clients : d # c => job'[d] = job[d]
    BY <1>2, <1>3 DEF FindScheduled, ReadSource, CheckStrategy, KeepAll, Done
  <2>3. /\ job'[c].pc \in {"source", "materialize", "strategy", "idle"}
        /\ job'[c].pc # "idle" => work[c] \cap Writes # {}
    <3>1. CASE FindScheduled(c)
      BY <1>2, <3>1 DEF FindScheduled, Starts, Writes, Idle
    <3>2. CASE ReadSource(c)
      <4>1. CASE At(c, "source")
        BY <1>2, <3>2, <4>1 DEF ReadSource, Starts, At, OnCourse, Job
      <4>2. CASE ~At(c, "source")
        BY <1>2, <3>2, <4>2 DEF ReadSource, Starts, Writes, Idle
      <4>. QED BY <4>1, <4>2
    <3>3. CASE CheckStrategy(c)
      BY <1>2, <3>3 DEF CheckStrategy, At, OnCourse, Job, Done, Idle
    <3>4. CASE KeepAll(c)
      BY <1>2, <3>4 DEF KeepAll, Done, Idle
    <3>. QED BY <1>3, <3>1, <3>2, <3>3, <3>4
  <2>4. OnCourse(job'[c], work[c]) /\ ~Labelling(job'[c])
    BY <2>3 DEF OnCourse, Labelling
  <2>. QED BY <2>1, <2>2, <2>3, <2>4, SameVersions, LabelsStand
<1>4. ASSUME NEW v \in Ids, NEW n \in Labels, Materialize(c, v, n) PROVE LabelInv'
  <2>1. /\ Fresh(v) /\ IsNextLabel(n) /\ At(c, "materialize") /\ Done(c)
        /\ versions' = [versions EXCEPT ![v] = [status |-> "live", label |-> n, place |-> job[c].place,
                                                  count |-> Taken(c), key |-> Key(c)]]
    BY <1>4 DEF Materialize
  <2>2. AboveAll(n) /\ n # Unnumbered
    BY <2>1, NextLabelAbove
  <2>3. \A d \in Clients : d # c => job'[d] = job[d] /\ ~Labelling(job[d])
    BY <1>2, <2>1, OthersUnlabelled DEF At, Done
  <2>4. DOMAIN versions = Ids /\ job'[c] = Idle
    BY <1>2, <2>1, Parts DEF Done
  <2>5. /\ versions'[v].status = "live" /\ versions'[v].label = n
        /\ \A u \in Ids : u # v => versions'[u] = versions[u]
    BY <2>1, <2>4
  <2>. QED BY <2>1, <2>2, <2>3, <2>4, <2>5, LabelsGrow
<1>. QED BY <1>3, <1>4 DEF Snapshot

LEMMA UploadLabels ==
  ASSUME TypeInv, LabelInv, NEW c \in Clients, UNCHANGED work,
         \/ \E n \in Labels, size \in Sizes : NameUpload(c, n, size)
         \/ StoreUpload(c) \/ LinkUpload(c) \/ RefillBuffer(c)
  PROVE  LabelInv'
<1>1. UNCHANGED versions
  BY DEF NameUpload, StoreUpload, LinkUpload, RefillBuffer
<1>2. /\ job[c] \in Job /\ OnCourse(job[c], work[c]) /\ DOMAIN job = Clients
      /\ Labelling(job[c]) => AboveAll(job[c].label)
  BY InHand DEF LabelInv, TypeInv
<1>3. \A d \in Clients : d # c => job'[d] = job[d]
  BY <1>2 DEF NameUpload, StoreUpload, LinkUpload, RefillBuffer, Goto
<1>4. ASSUME NEW n \in Labels, NEW size \in Sizes, NameUpload(c, n, size)
      PROVE  /\ OnCourse(job'[c], work[c]) /\ AboveAll(job'[c].label) /\ job'[c].pc = "store"
  <2>1. AboveAll(n) /\ n # Unnumbered
    BY <1>4, UploadLabelAbove DEF NameUpload
  <2>2. /\ job'[c].pc = "store" /\ job'[c].label = n /\ job'[c].place = Place("upload", n)
        /\ job'[c].type = "upload" /\ "upload" \in work[c]
    BY <1>2, <1>4 DEF NameUpload, Starts, Idle
  <2>. QED BY <2>1, <2>2 DEF OnCourse, Labelling, Writes
<1>5. ASSUME StoreUpload(c) \/ LinkUpload(c)
      PROVE  /\ OnCourse(job'[c], work[c]) /\ job'[c].pc # "delete"
             /\ Labelling(job[c]) /\ job'[c].label = job[c].label
  <2>1. /\ job[c].pc \in {"store", "link"} /\ job'[c].pc \in {"link", "refill"}
        /\ job'[c].type = job[c].type /\ job'[c].label = job[c].label
    BY <1>2, <1>5 DEF StoreUpload, LinkUpload, At, Job
  <2>2. job[c].type = "upload" /\ "upload" \in work[c]
    BY <1>2, <2>1 DEF OnCourse
  <2>. QED BY <1>2, <2>1, <2>2 DEF OnCourse, Labelling
<1>6. ASSUME RefillBuffer(c)
      PROVE  /\ OnCourse(job'[c], work[c]) /\ job'[c].pc # "delete"
             /\ Labelling(job'[c]) => Labelling(job[c]) /\ job'[c].label = job[c].label
  <2>1. /\ job[c].pc = "refill" /\ job'[c].type = job[c].type /\ job'[c].label = job[c].label
        /\ job'[c].pc = CASE job[c].type = "feedback" -> "materialize"
                          [] job[c].type = "ingest"   -> "label"
                          [] OTHER -> "save"
    BY <1>2, <1>6 DEF RefillBuffer, Goto, At, Job
  <2>2. job[c].type \in {"upload", "ingest", "feedback"} \cap work[c]
    BY <1>2, <2>1 DEF OnCourse
  <2>3. \/ job[c].type = "feedback" /\ job'[c].pc = "materialize"
        \/ job[c].type = "ingest" /\ job'[c].pc = "label"
        \/ job[c].type = "upload" /\ job'[c].pc = "save"
    BY <2>1, <2>2
  <2>. QED BY <1>2, <2>1, <2>2, <2>3 DEF OnCourse, Labelling
<1>. QED
  BY <1>1, <1>3, <1>4, <1>5, <1>6, SameVersions, LabelsStand

LEMMA SaveLabels ==
  ASSUME OneLabeller, TypeInv, LabelInv, NEW c \in Clients, NEW v \in Ids, UNCHANGED work,
         SaveVersion(c, v)
  PROVE  LabelInv' /\ v \notin Live /\ \A u \in Ids : u # v => versions'[u] = versions[u]
<1>0. /\ job[c].pc = "save" /\ Labelling(job[c]) /\ Done(c)
      /\ job[c] \in Job /\ DOMAIN job = Clients /\ DOMAIN versions = Ids
  BY Parts, InHand DEF SaveVersion, At, Labelling, TypeInv
<1>1. AboveAll(job[c].label) /\ job[c].label # Unnumbered /\ job[c].label \in Labels
  BY <1>0 DEF LabelInv, OnCourse, Job
<1>2. {u \in Live : versions[u].label = job[c].label} = {}
  <2>1. \A u \in Live : versions[u].label \in Nat /\ versions[u].label < job[c].label
    BY <1>1, Parts, Constants DEF AboveAll, Live, Version
  <2>2. \A u \in Live : versions[u].label # job[c].label
    BY <1>1, <2>1, Constants
  <2>. QED BY <2>2
<1>3. /\ Fresh(v)
      /\ versions' = [versions EXCEPT ![v] = [status |-> "live", label |-> job[c].label,
                        place |-> job[c].place, count |-> job[c].size, key |-> NoKey]]
  BY <1>2 DEF SaveVersion
<1>4. /\ versions'[v].status = "live" /\ versions'[v].label = job[c].label
      /\ \A u \in Ids : u # v => versions'[u] = versions[u]
  BY <1>0, <1>3
<1>5. /\ job'[c] = Idle
      /\ \A d \in Clients : d # c => job'[d] = job[d] /\ ~Labelling(job[d])
  BY <1>0, OthersUnlabelled DEF Done
<1>6. v \notin Live
  BY <1>3 DEF Fresh, Live
<1>. QED BY <1>1, <1>3, <1>4, <1>5, <1>6, LabelsGrow

LEMMA IngestLabels ==
  ASSUME OneLabeller, TypeInv, LabelInv, NEW c \in Clients, UNCHANGED work, IngestItem(c)
  PROVE  LabelInv'
<1>1. UNCHANGED versions
  BY DEF IngestItem, Ingest, LabelItem
<1>2. job[c] \in Job /\ OnCourse(job[c], work[c]) /\ DOMAIN job = Clients
  BY InHand DEF LabelInv, TypeInv
<1>3. \A d \in Clients : d # c => job'[d] = job[d]
  BY <1>2 DEF IngestItem, Ingest, LabelItem
<1>4. ASSUME NEW type \in Types, NEW size \in Sizes \cup {0}, Ingest(c, type, size)
      PROVE  OnCourse(job'[c], work[c]) /\ ~Labelling(job'[c]) /\ job'[c].pc = "refill"
  <2>1. /\ job'[c].pc = "refill" /\ job'[c].type = type /\ type \in {"ingest", "feedback"} \cap work[c]
    BY <1>2, <1>4 DEF Ingest, Starts, Idle
  <2>. QED BY <2>1 DEF OnCourse, Labelling, Writes
<1>5. ASSUME NEW n \in Labels, LabelItem(c, n)
      PROVE  OnCourse(job'[c], work[c]) /\ AboveAll(job'[c].label) /\ job'[c].pc = "save"
  <2>1. IsNextLabel(n) /\ job[c].pc = "label" /\ job'[c].pc = "save" /\ job'[c].label = n
    BY <1>2, <1>5 DEF LabelItem, OneLabeller, At, Job
  <2>2. AboveAll(n) /\ n # Unnumbered
    BY <2>1, NextLabelAbove
  <2>. QED BY <1>2, <2>1, <2>2 DEF OnCourse, Labelling, Writes
<1>. QED
  BY <1>1, <1>3, <1>4, <1>5, SameVersions, LabelsStand DEF IngestItem

LEMMA MaintainLabels ==
  ASSUME TypeInv, LabelInv, NEW c \in Clients, UNCHANGED work, Maintain(c)
  PROVE  LabelInv'
<1>2. job[c] \in Job /\ Carries(job[c]) /\ DOMAIN job = Clients /\ DOMAIN versions = Ids
  BY InHand, Parts DEF TypeInv
<1>3. CASE DeleteRow(c)
  <2>1. /\ job[c].pc = "delete" /\ Done(c) /\ job[c].id \in Ids
        /\ versions[job[c].id].status # "none"
    BY <1>2, <1>3 DEF DeleteRow, At, Carries, LabelInv
  <2>2. NoneAdded
    <3>1. versions' = [versions EXCEPT ![job[c].id].status = "gone"]
      BY <1>3 DEF DeleteRow
    <3>2. ASSUME NEW v \in Ids
          PROVE  /\ versions'[v].label = versions[v].label
                 /\ v # job[c].id => versions'[v].status = versions[v].status
                 /\ v = job[c].id => versions'[v].status = "gone"
      <4>1. versions[v] \in Version /\ versions \in [Ids -> Version]
        BY Parts
      <4>. QED BY <2>1, <3>1, <4>1 DEF Version
    <3>. QED BY <2>1, <3>2 DEF NoneAdded
  <2>3. job'[c] = Idle /\ \A d \in Clients : d # c => job'[d] = job[d]
    BY <1>2, <2>1 DEF Done
  <2>4. OnCourse(job'[c], work[c]) /\ ~Labelling(job'[c]) /\ job'[c].pc # "delete"
    BY <2>3, IdleTyped DEF OnCourse, Labelling
  <2>. QED BY <2>2, <2>3, <2>4, SameVersions, LabelsStand
<1>4. CASE \/ ReadConfig(c) \/ \E v \in Ids : RemoveFile(c, v)
           \/ \E limit \in Limits, strategy \in Strategies : Configure(c, limit, strategy)
  <2>1. UNCHANGED versions
    BY <1>4 DEF ReadConfig, RemoveFile, Configure
  <2>2. \A d \in Clients : d # c => job'[d] = job[d]
    BY <1>2, <1>4 DEF ReadConfig, RemoveFile, Configure, Done
  <2>3. /\ job'[c].pc \in {"idle", "configure", "delete"}
        /\ job'[c].pc = "delete" => job'[c].id \in Live
    <3>1. CASE ReadConfig(c)
      BY <1>2, <3>1 DEF ReadConfig, Idle
    <3>2. ASSUME NEW limit \in Limits, NEW strategy \in Strategies, Configure(c, limit, strategy)
          PROVE  job'[c].pc = "idle"
      BY <1>2, <3>2, IdleTyped DEF Configure, Done
    <3>3. ASSUME NEW v \in Ids, RemoveFile(c, v) PROVE job'[c].pc = "delete" /\ job'[c].id = v /\ v \in Live
      BY <1>2, <3>3 DEF RemoveFile, Idle
    <3>. QED BY <1>4, <3>1, <3>2, <3>3
  <2>4. OnCourse(job'[c], work[c]) /\ ~Labelling(job'[c])
    BY <2>3 DEF OnCourse, Labelling
  <2>5. \A v \in Live : v \in Ids /\ versions[v].status # "none"
    BY DEF Live
  <2>. QED BY <2>1, <2>2, <2>3, <2>4, <2>5, SameVersions, LabelsStand
<1>. QED BY <1>3, <1>4 DEF Maintain

LEMMA NextLabels == OneLabeller /\ TypeInv /\ LabelInv /\ [Next]_vars => LabelInv'
<1>. SUFFICES ASSUME OneLabeller, TypeInv, LabelInv, [Next]_vars PROVE LabelInv'
  OBVIOUS
<1>1. CASE UNCHANGED vars
  BY <1>1 DEF vars, LabelInv, AboveAll, Live, At
<1>2. ASSUME NEW c \in Clients, UNCHANGED work, Crash(c) PROVE LabelInv'
  <2>1. job'[c] = Idle /\ \A d \in Clients : d # c => job'[d] = job[d]
    BY <1>2 DEF Crash, Done, TypeInv
  <2>2. OnCourse(job'[c], work[c]) /\ ~Labelling(job'[c]) /\ job'[c].pc # "delete"
    BY <2>1, IdleTyped DEF OnCourse, Labelling
  <2>3. UNCHANGED versions
    BY <1>2 DEF Crash
  <2>. QED BY <1>2, <2>1, <2>2, <2>3, SameVersions, LabelsStand
<1>. QED
  BY <1>1, <1>2, AppendLabels, SnapshotLabels, UploadLabels, SaveLabels, IngestLabels, MaintainLabels
  DEF Next, Upload

\* What a step does to the versions that are there.
LEMMA CountsStay ==
  ASSUME OneLabeller, TypeInv, LabelInv, [Next]_vars, NEW v \in Live
  PROVE  versions'[v].count = versions[v].count
<1>0. v \in Ids /\ versions \in [Ids -> Version] /\ ~Fresh(v)
  BY Parts DEF Live, Fresh
<1>1. ASSUME NEW c \in Clients, UNCHANGED work, NEW u \in Ids, SaveVersion(c, u)
      PROVE  versions'[v].count = versions[v].count
  BY <1>0, <1>1, SaveLabels
<1>2. ASSUME NEW c \in Clients, NEW u \in Ids, NEW n \in Labels, Materialize(c, u, n)
      PROVE  versions'[v].count = versions[v].count
  BY <1>0, <1>2 DEF Materialize
<1>3. ASSUME NEW c \in Clients, DeleteRow(c) PROVE versions'[v].count = versions[v].count
  BY <1>0, <1>3 DEF DeleteRow, Version
<1>4. ASSUME NEW c \in Clients, Append(c) \/ IngestItem(c) \/ Crash(c) PROVE UNCHANGED versions
  BY <1>4 DEF Append, ReadBuffer, AppendRow, CountRow, IngestItem, Ingest, LabelItem, Crash
<1>5. ASSUME NEW c \in Clients,
             \/ FindScheduled(c) \/ ReadSource(c) \/ CheckStrategy(c) \/ KeepAll(c)
             \/ \E n \in Labels, size \in Sizes : NameUpload(c, n, size)
             \/ StoreUpload(c) \/ LinkUpload(c) \/ RefillBuffer(c)
      PROVE  UNCHANGED versions
  BY <1>5 DEF FindScheduled, ReadSource, CheckStrategy, KeepAll, NameUpload, StoreUpload, LinkUpload,
              RefillBuffer
<1>6. ASSUME NEW c \in Clients,
             \/ ReadConfig(c) \/ \E u \in Ids : RemoveFile(c, u)
             \/ \E limit \in Limits, strategy \in Strategies : Configure(c, limit, strategy)
      PROVE  UNCHANGED versions
  BY <1>6 DEF ReadConfig, RemoveFile, Configure
<1>7. UNCHANGED vars => UNCHANGED versions
  BY DEF vars
<1>. QED
  BY <1>1, <1>2, <1>3, <1>4, <1>5, <1>6, <1>7 DEF Next, Snapshot, Upload, Maintain

\* What a step does to the files: a row is appended to a window no version
\* has, an upload is stored under a number no version has.
LEMMA FilesStay ==
  ASSUME TypeInv, WindowInv, LabelInv, [Next]_vars, NEW v \in Live, OwnFile(v)
  PROVE  content'[versions[v].place] \in {content[versions[v].place], 0}
<1>0. /\ v \in Ids /\ versions[v].place \in Places /\ content \in [Places -> Nat]
      /\ versions[v].label \in Nat
  BY Parts, Constants DEF Live, Version
<1>1. ASSUME NEW c \in Clients, AppendRow(c)
      PROVE  content'[versions[v].place] = content[versions[v].place]
  <2>1. Unused(Place("window", job[c].window))
    BY <1>1 DEF AppendRow, At, WindowInv, Holds
  <2>2. versions[v].place # Place("window", job[c].window)
    BY <1>0, <2>1 DEF Unused
  <2>. QED BY <1>0, <1>1, <2>2 DEF AppendRow
<1>2. ASSUME NEW c \in Clients, StoreUpload(c)
      PROVE  content'[versions[v].place] = content[versions[v].place]
  <2>1. job[c].pc = "store" /\ content' = [content EXCEPT ![job[c].place] = uploads + 1]
    BY <1>2 DEF StoreUpload, At
  <2>2. job[c].place = Place("upload", job[c].label) /\ versions[v].label < job[c].label
    BY <2>1 DEF LabelInv, OnCourse, Labelling, AboveAll
  <2>3. versions[v].label # job[c].label /\ job[c].label \in Nat
    <3>1. job[c].label \in Labels
      BY InHand DEF Job
    <3>2. job[c].label \in Nat
      BY <3>1, Constants
    <3>. QED BY <1>0, <2>2, <3>2
  <2>4. versions[v].place # job[c].place
    BY <2>2, <2>3 DEF OwnFile, Place
  <2>. QED BY <1>0, <2>1, <2>4
<1>3. ASSUME NEW c \in Clients, NEW u \in Ids, RemoveFile(c, u)
      PROVE  content'[versions[v].place] \in {content[versions[v].place], 0}
  BY <1>0, <1>3 DEF RemoveFile
<1>4. ASSUME NEW c \in Clients, ReadBuffer(c) \/ CountRow(c) \/ Snapshot(c) \/ IngestItem(c) \/ Crash(c)
      PROVE  UNCHANGED content
  BY <1>4 DEF ReadBuffer, CountRow, Snapshot, FindScheduled, ReadSource, CheckStrategy, KeepAll, Materialize,
              IngestItem, Ingest, LabelItem, Crash
<1>5. ASSUME NEW c \in Clients,
             \/ \E n \in Labels, size \in Sizes : NameUpload(c, n, size)
             \/ LinkUpload(c) \/ RefillBuffer(c) \/ \E u \in Ids : SaveVersion(c, u)
             \/ ReadConfig(c) \/ DeleteRow(c)
             \/ \E limit \in Limits, strategy \in Strategies : Configure(c, limit, strategy)
      PROVE  UNCHANGED content
  BY <1>5 DEF NameUpload, LinkUpload, RefillBuffer, SaveVersion, ReadConfig, DeleteRow, Configure
<1>6. UNCHANGED vars => UNCHANGED content
  BY DEF vars
<1>. QED
  BY <1>1, <1>2, <1>3, <1>4, <1>5, <1>6 DEF Next, Append, Upload, Maintain

\* A version keeps its count and the bytes of its file until it is deleted,
\* however appends, ticks, uploads, reconfigurations, deletions and crashes fall
\* together, as long as one client appends, a client that labels versions ahead
\* of saving them is the only one to write any, and none is labelled "default".
THEOREM VersionsAreFrozen ==
  ASSUME OneAppender, OneLabeller
  PROVE  Spec => SnapshotIsFrozen
<1>1. Init => TypeInv /\ WindowInv /\ LabelInv
  BY InitTyped, InitWindows, InitLabels
<1>2. TypeInv /\ WindowInv /\ LabelInv /\ [Next]_vars => (TypeInv /\ WindowInv /\ LabelInv)'
  BY NextTyped, NextWindows, NextLabels
<1>3. TypeInv /\ WindowInv /\ LabelInv /\ [Next]_vars =>
        [\A v \in Live : versions'[v].status = "live" =>
           /\ versions'[v].count = versions[v].count
           /\ OwnFile(v) => content'[versions[v].place] \in {content[versions[v].place], 0}]_vars
  BY CountsStay, FilesStay
<1>. QED
  BY <1>1, <1>2, <1>3, PTL DEF Spec, SnapshotIsFrozen
=============================================================================
