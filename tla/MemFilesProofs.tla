--------------------------- MODULE MemFilesProofs ---------------------------
(***************************************************************************)
(* For any threads, names, files and handles, and any closes and unlinks   *)
(* of a file at the same time, as long as no file is opened while it is    *)
(* being closed and none is seized while it is open (Allowed is empty): no *)
(* handle is left on a deleted file, the count of a file is never too low, *)
(* and its memory has one owner.                                           *)
(*                                                                         *)
(* Due(f) is what nRefCount should at least be.  A close moves a reference *)
(* from a handle to the thread that closes it, and what that thread loaded *)
(* stays at least Due(f) while others close and unlink, for these only     *)
(* lower Due(f).                                                           *)
(***************************************************************************)
EXTENDS MemFiles, FiniteSetTheorems, TLAPS

FileType ==
  [state : {"unborn", "live", "deleted"}, name : Names \cup {NULL},
   refs : Nat, dir : BOOLEAN, owns : BOOLEAN,
   data : {"none", "heap", "borrowed"}, length : Nat, alloc : Nat]
HandleType ==
  [file : Files, thread : Threads, offset : Nat, update : BOOLEAN]
JobType ==
  [step : {"idle", "open", "close"}, name : Names \cup {NULL},
   file : Files \cup {NULL}, refs : Nat]

\* The type of each variable; only a thread that closes a handle, or opens the
\* file it made, is on its way to a file.
Typed ==
  /\ oFileList \in [Names -> Files \cup {NULL}]
  /\ file \in [Files -> FileType]
  /\ handle \in [Handles -> HandleType \cup {Closed}]
  /\ callers \in [Files -> {"none", "valid", "freed"}]
  /\ job \in [Threads -> JobType]
  /\ \A t \in Threads : /\ job[t].step = "close" <=> job[t].file # NULL
                        /\ job[t].step = "open" => job[t].name \in Names

One(b) == IF b THEN 1 ELSE 0
InList(f) == \E n \in Names : oFileList[n] = f
Due(f) == Cardinality(Opened(f)) + Cardinality(Closing(f)) + One(InList(f))

\* What leads to a file finds it, and the list finds it under its name only.
Found(f) ==
  /\ \A n \in Names : oFileList[n] = f => Live(f) /\ file[f].name = n
  /\ \A h \in Handles : handle[h].file = f => Live(f)
  /\ \A t \in Threads : job[t].file = f => Live(f)

\* Its count, and what the threads that close it loaded of it, is enough.
Enough(f) ==
  Live(f) =>
    /\ file[f].refs >= Due(f) /\ file[f].refs > 0
    /\ \A t \in Threads : job[t].file = f => job[t].refs >= Due(f)

Owned(f) ==
  /\ callers[f] = "none" <=> file[f].owns \/ file[f].data = "none"
  /\ file[f].data = "borrowed" => callers[f] = "valid"
  /\ Live(f) /\ file[f].data = "none" => file[f].owns

MemInv == Typed /\ \A f \in Files : Found(f) /\ Enough(f) /\ Owned(f)

\* A step leads to f from nowhere else than before.
NoNewWay(f) ==
  /\ \A n \in Names : oFileList'[n] = f => oFileList[n] = f
  /\ \A h \in Handles : handle'[h].file = f => handle[h].file = f
  /\ \A t \in Threads : job'[t].file = f =>
       job[t].file = f /\ job'[t].refs = job[t].refs

\* It does nothing to f either.
LeavesAlone(f) ==
  NoNewWay(f) /\ file'[f] = file[f] /\ callers'[f] = callers[f]
----------------------------------------------------------------------------
LEMMA Constants ==
  /\ NULL \notin Names /\ NULL \notin Files /\ NULL \notin Threads
  /\ MaxLength \in Nat /\ IsFiniteSet(Handles) /\ IsFiniteSet(Threads)
  /\ \A n \in Names : Normalized[n] \in Names
BY MemFilesAssumption

\* Counting handles, or threads.
LEMMA Counting ==
  ASSUME NEW T, IsFiniteSet(T), NEW S \in SUBSET T
  PROVE  /\ Cardinality(S) \in Nat
         /\ Cardinality(S) = 0 <=> S = {}
         /\ \A x \in T \ S : Cardinality(S \cup {x}) = Cardinality(S) + 1
         /\ \A x \in S : Cardinality(S \ {x}) = Cardinality(S) - 1
         /\ \A R \in SUBSET S : Cardinality(R) <= Cardinality(S)
<1>1. IsFiniteSet(S)
  BY FS_Subset
<1>2. Cardinality(S) \in Nat /\ (Cardinality(S) = 0 <=> S = {})
  BY <1>1, FS_CardinalityType, FS_EmptySet
<1>3. \A x \in T \ S : Cardinality(S \cup {x}) = Cardinality(S) + 1
  BY <1>1, FS_AddElement
<1>4. \A x \in S : Cardinality(S \ {x}) = Cardinality(S) - 1
  BY <1>1, FS_RemoveElement
<1>5. \A R \in SUBSET S : Cardinality(R) <= Cardinality(S)
  BY <1>1, FS_Subset
<1> QED BY <1>2, <1>3, <1>4, <1>5

\* The references to f: of what numbers they are the sum, and when there are
\* none.
LEMMA DueIs ==
  ASSUME NEW f
  PROVE  /\ Cardinality(Opened(f)) \in Nat /\ Cardinality(Closing(f)) \in Nat
         /\ One(InList(f)) \in Nat /\ Due(f) \in Nat
         /\ Due(f) = 0 <=> Opened(f) = {} /\ Closing(f) = {} /\ ~InList(f)
<1>1. Cardinality(Opened(f)) \in Nat /\ (Cardinality(Opened(f)) = 0 <=> Opened(f) = {})
  BY Constants, Counting DEF Opened
<1>2. Cardinality(Closing(f)) \in Nat /\ (Cardinality(Closing(f)) = 0 <=> Closing(f) = {})
  BY Constants, Counting DEF Closing
<1>3. One(InList(f)) \in Nat /\ (One(InList(f)) = 0 <=> ~InList(f))
  BY DEF One
<1> QED BY <1>1, <1>2, <1>3 DEF Due

LEMMA DueIsNext ==
  ASSUME NEW f
  PROVE  /\ Cardinality(Opened(f)') \in Nat /\ Cardinality(Closing(f)') \in Nat
         /\ One(InList(f)') \in Nat /\ Due(f)' \in Nat
         /\ Due(f)' = 0 <=> Opened(f)' = {} /\ Closing(f)' = {} /\ ~InList(f)'
<1>1. Cardinality(Opened(f)') \in Nat /\ (Cardinality(Opened(f)') = 0 <=> Opened(f)' = {})
  BY Constants, Counting DEF Opened
<1>2. Cardinality(Closing(f)') \in Nat /\ (Cardinality(Closing(f)') = 0 <=> Closing(f)' = {})
  BY Constants, Counting DEF Closing
<1>3. One(InList(f)') \in Nat /\ (One(InList(f)') = 0 <=> ~InList(f)')
  BY DEF One
<1> QED BY <1>1, <1>2, <1>3 DEF Due

LEMMA DueLess ==
  ASSUME NEW f, NoNewWay(f)
  PROVE  Due(f)' <= Due(f)
<1>1. Opened(f)' \subseteq Opened(f) /\ Closing(f)' \subseteq Closing(f)
  BY DEF NoNewWay, Opened, Closing
<1>2. Cardinality(Opened(f)') <= Cardinality(Opened(f))
  <2>1. PICK S \in SUBSET Handles : S = Opened(f)
    BY DEF Opened
  <2> QED BY <1>1, <2>1, Constants, Counting
<1>3. Cardinality(Closing(f)') <= Cardinality(Closing(f))
  <2>1. PICK S \in SUBSET Threads : S = Closing(f)
    BY DEF Closing
  <2> QED BY <1>1, <2>1, Constants, Counting
<1>4. One(InList(f)') <= One(InList(f))
  BY DEF NoNewWay, InList, One
<1> QED BY <1>2, <1>3, <1>4, DueIs, DueIsNext DEF Due

\* What a record of NoFile, a new one, a deleted one, a released one and one
\* with another length say.
LEMMA NoFileIs == NoFile \in FileType /\ NoFile.state = "unborn"
                  /\ NoFile.data = "none" /\ NoFile.owns = TRUE
BY DEF NoFile, FileType

LEMMA NewFileIs ==
  ASSUME NEW n \in Names
  PROVE  /\ NewFile(n) \in FileType
         /\ NewFile(n).state = "live" /\ NewFile(n).name = n
         /\ NewFile(n).refs = 1 /\ NewFile(n).owns = TRUE
         /\ NewFile(n).data = "none" /\ NewFile(n).length = 0
BY DEF NewFile, NoFile, FileType

LEMMA DeletedIs ==
  ASSUME NEW r \in FileType
  PROVE  /\ Deleted(r) \in FileType /\ Deleted(r).state # "live"
         /\ Deleted(r).owns \/ Deleted(r).data = "none" <=> r.owns \/ r.data = "none"
         /\ Deleted(r).data = "borrowed" => r.data = "borrowed"
<1>1. CASE r.owns \/ r.data = "none"
  BY <1>1, NoFileIs DEF Deleted
<1>2. CASE ~(r.owns \/ r.data = "none")
  <2>1. Deleted(r) = [NoFile EXCEPT !.state = "deleted", !.owns = FALSE, !.data = r.data]
    BY <1>2 DEF Deleted
  <2>2. r.data \in {"none", "heap", "borrowed"} /\ ~r.owns /\ r.data # "none"
    BY <1>2 DEF FileType
  <2>3. /\ Deleted(r).state = "deleted" /\ Deleted(r).owns = FALSE
        /\ Deleted(r).data = r.data
    BY <2>1 DEF NoFile
  <2>4. Deleted(r) = [state |-> "deleted", name |-> NULL, refs |-> 0, dir |-> FALSE,
                      owns |-> FALSE, data |-> r.data, length |-> 0, alloc |-> 0]
    BY <2>1 DEF NoFile
  <2>5. Deleted(r) \in FileType
    BY <2>2, <2>4 DEF FileType
  <2> QED BY <2>2, <2>3, <2>5
<1> QED BY <1>1, <1>2

LEMMA ReleasedIs ==
  ASSUME NEW r \in FileType, r.refs > 0
  PROVE  \/ r.refs = 1 /\ Released(r) = Deleted(r)
         \/ /\ r.refs > 1 /\ Released(r) \in FileType
            /\ Released(r).refs = r.refs - 1 /\ Released(r).state = r.state
            /\ Released(r).name = r.name
            /\ Released(r).data = r.data /\ Released(r).owns = r.owns
<1>1. CASE r.refs = 1
  BY <1>1 DEF Released
<1>2. CASE r.refs # 1
  <2>1. Released(r) = [r EXCEPT !.refs = @ - 1]
    BY <1>2 DEF Released
  <2>2. r.refs \in Nat /\ r.refs > 1
    BY <1>2 DEF FileType
  <2> QED BY <2>1, <2>2 DEF FileType
<1> QED BY <1>1, <1>2

LEMMA SetLengthIs ==
  ASSUME NEW r \in FileType, NEW length \in Nat
  PROVE  LET s == SetLength(r, length) IN
         /\ s \in FileType /\ s.length = length
         /\ s.state = r.state /\ s.name = r.name
         /\ s.refs = r.refs /\ s.owns = r.owns
         /\ s.data = IF length <= r.alloc THEN r.data ELSE "heap"
BY Constants DEF SetLength, FileType

LEMMA IdleIs == Idle \in JobType /\ Idle.step = "idle" /\ Idle.file = NULL
BY DEF Idle, JobType

\* A handle is closed or on a file.
LEMMA HandleIs ==
  ASSUME Typed, NEW h \in Handles
  PROVE  /\ handle[h] = Closed <=> handle[h].file = NULL
         /\ handle[h] = Closed <=> handle[h].thread \notin Threads
         /\ handle[h] # Closed => handle[h] \in HandleType
BY Constants DEF Typed, HandleType, Closed
----------------------------------------------------------------------------
\* A file stays found and its count enough when nothing new leads to it and
\* neither its name nor its count changes.
LEMMA WaysKept ==
  ASSUME NEW f, Found(f), Enough(f), NoNewWay(f),
         file'[f].state = file[f].state, file'[f].name = file[f].name,
         file'[f].refs = file[f].refs, file[f].refs \in Nat,
         \A t \in Threads : job[t].refs \in Nat
  PROVE  Found(f)' /\ Enough(f)'
<1>1. Due(f)' <= Due(f) /\ Due(f)' \in Nat /\ Due(f) \in Nat
  BY DueLess, DueIs, DueIsNext
<1>2. Found(f)'
  BY DEF Found, NoNewWay, Live
<1>3. Enough(f)'
  <2> SUFFICES ASSUME Live(f)'
               PROVE  /\ file'[f].refs >= Due(f)' /\ file'[f].refs > 0
                      /\ \A t \in Threads : job'[t].file = f => job'[t].refs >= Due(f)'
    BY DEF Enough
  <2>1. /\ file[f].refs >= Due(f) /\ file[f].refs > 0
        /\ \A t \in Threads : job[t].file = f => job[t].refs >= Due(f)
    BY DEF Enough, Live
  <2>2. file'[f].refs >= Due(f)' /\ file'[f].refs > 0
    BY <1>1, <2>1
  <2>3. ASSUME NEW t \in Threads, job'[t].file = f PROVE job'[t].refs >= Due(f)'
    <3>1. job[t].file = f /\ job'[t].refs = job[t].refs /\ job[t].refs \in Nat
      BY <2>3 DEF NoNewWay
    <3>2. job[t].refs >= Due(f)
      BY <2>1, <3>1
    <3> QED BY <1>1, <3>1, <3>2
  <2> QED BY <2>2, <2>3
<1> QED BY <1>2, <1>3

LEMMA LeftAlone ==
  ASSUME MemInv, NEW g \in Files, LeavesAlone(g)
  PROVE  Found(g)' /\ Enough(g)' /\ Owned(g)'
<1>1. Found(g) /\ Enough(g) /\ Owned(g)
  BY DEF MemInv
<1>2. file[g].refs \in Nat /\ \A t \in Threads : job[t].refs \in Nat
  BY DEF MemInv, Typed, FileType, JobType
<1>3. Found(g)' /\ Enough(g)'
  BY <1>1, <1>2, WaysKept DEF LeavesAlone
<1>4. Owned(g)'
  BY <1>1 DEF LeavesAlone, Owned, Live
<1> QED BY <1>3, <1>4

\* A step about one file leaves the others alone.
LEMMA StepInv ==
  ASSUME MemInv, NEW f, Typed', \A g \in Files \ {f} : LeavesAlone(g),
         f \in Files => Found(f)' /\ Enough(f)' /\ Owned(f)'
  PROVE  MemInv'
BY LeftAlone DEF MemInv

\* One way to the file goes, and the count that was loaded goes down by one or
\* the file is deleted, with the last way to it.
LEMMA WayGone ==
  ASSUME MemInv, NEW f \in Files, NEW r \in FileType, Live(f), NoNewWay(f),
         Due(f)' = Due(f) - 1, r.refs >= Due(f), r.refs > 0,
         r.state = file[f].state, r.name = file[f].name,
         r.data = file[f].data, r.owns = file[f].owns,
         file'[f] = Released(r), callers'[f] = callers[f]
  PROVE  Found(f)' /\ Enough(f)' /\ Owned(f)' /\ Released(r) \in FileType
<1>1. /\ Found(f) /\ Enough(f) /\ Owned(f) /\ r.refs \in Nat
      /\ Due(f)' \in Nat /\ Due(f) \in Nat
  BY DueIs, DueIsNext DEF MemInv, FileType
<1> DEFINE s == Released(r)
<1>2. CASE r.refs = 1 /\ s = Deleted(r)
  <2>1. /\ s \in FileType /\ s.state # "live"
        /\ s.owns \/ s.data = "none" <=> r.owns \/ r.data = "none"
        /\ s.data = "borrowed" => r.data = "borrowed"
    BY <1>2, DeletedIs
  <2> HIDE DEF s
  <2>2. file'[f] = s
    BY DEF s
  <2>3. Due(f)' = 0
    BY <1>1, <1>2
  <2>4. Opened(f)' = {} /\ Closing(f)' = {} /\ ~InList(f)'
    BY <2>3, DueIsNext
  <2>5. Found(f)'
    BY <2>4 DEF Found, Opened, Closing, InList
  <2>6. Enough(f)'
    BY <2>1, <2>2 DEF Enough, Live
  <2>7. Owned(f)'
    BY <1>1, <2>1, <2>2 DEF Owned, Live
  <2> QED BY <2>1, <2>5, <2>6, <2>7 DEF s
<1>3. CASE /\ r.refs > 1 /\ s \in FileType
           /\ s.refs = r.refs - 1 /\ s.state = r.state /\ s.name = r.name
           /\ s.data = r.data /\ s.owns = r.owns
  <2> HIDE DEF s
  <2>1. file'[f] = s
    BY DEF s
  <2>2. Found(f)'
    BY <1>1, <1>3, <2>1 DEF Found, NoNewWay, Live
  <2>3. Owned(f)'
    BY <1>1, <1>3, <2>1 DEF Owned, Live
  <2>4. Enough(f)'
    <3>1. s.refs >= Due(f)' /\ s.refs > 0
      BY <1>1, <1>3
    <3>2. ASSUME NEW t \in Threads, job'[t].file = f PROVE job'[t].refs >= Due(f)'
      <4>1. job[t].file = f /\ job'[t].refs = job[t].refs /\ job[t].refs \in Nat
        BY <3>2 DEF NoNewWay, MemInv, Typed, JobType
      <4>2. job[t].refs >= Due(f)
        BY <1>1, <4>1 DEF Enough
      <4> QED BY <1>1, <4>1, <4>2
    <3> QED BY <2>1, <3>1, <3>2 DEF Enough
  <2> QED BY <1>3, <2>2, <2>3, <2>4 DEF s
<1> HIDE DEF s
<1> QED BY <1>2, <1>3, ReleasedIs DEF s
----------------------------------------------------------------------------
\* Another handle on a file that is there, and that nobody is closing.
LEMMA HandleAdded ==
  ASSUME MemInv, Allowed = {}, NEW t \in Threads, NEW h \in Handles,
         NEW f \in Files, NEW access, NEW start \in Nat, NEW r \in FileType,
         Live(f), job[t].file = NULL, MayOpen(f),
         OpenHandle(t, h, f, access, start),
         file' = [file EXCEPT ![f] = r],
         r.refs = file[f].refs + 1, r.state = file[f].state,
         r.name = file[f].name, r.owns = file[f].owns, r.data = file[f].data,
         job' = [job EXCEPT ![t] = Idle], UNCHANGED <<oFileList, callers>>
  PROVE  MemInv'
<1> DEFINE new == [file |-> f, thread |-> t, offset |-> start, update |-> access # "r"]
<1>1. /\ handle[h] = Closed /\ handle' = [handle EXCEPT ![h] = new]
      /\ new \in HandleType /\ new.file = f
  BY DEF OpenHandle, HandleType
<1> HIDE DEF new
<1>2. Typed /\ Found(f) /\ Enough(f) /\ Owned(f)
  BY DEF MemInv
<1>3. /\ handle[h].file = NULL
      /\ \A x \in Handles : handle'[x] = IF x = h THEN new ELSE handle[x]
  BY <1>1, <1>2, HandleIs DEF Typed
<1>4. \A x \in Threads : job'[x] = IF x = t THEN Idle ELSE job[x]
  BY <1>2 DEF Typed
<1>5. \A g \in Files : file'[g] = IF g = f THEN r ELSE file[g]
  BY <1>2 DEF Typed
<1>6. Typed'
  <2>1. file' \in [Files -> FileType]
    BY <1>2 DEF Typed
  <2>2. handle' \in [Handles -> HandleType \cup {Closed}]
    BY <1>1, <1>2 DEF Typed
  <2>3. job' \in [Threads -> JobType]
    BY <1>2, IdleIs DEF Typed
  <2>4. \A x \in Threads : /\ job'[x].step = "close" <=> job'[x].file # NULL
                           /\ job'[x].step = "open" => job'[x].name \in Names
    BY <1>2, <1>4, IdleIs DEF Typed
  <2> QED BY <1>2, <2>1, <2>2, <2>3, <2>4 DEF Typed
<1>7. \A g \in Files \ {f} : LeavesAlone(g)
  BY <1>1, <1>3, <1>4, <1>5, IdleIs, Constants DEF LeavesAlone, NoNewWay
<1>8. Found(f)' /\ Owned(f)'
  BY <1>2, <1>5 DEF Found, Owned, Live
<1>9. Closing(f) = {} /\ Closing(f)' = {}
  BY <1>4, IdleIs, Constants DEF MayOpen, Closing
<1>10. Due(f)' = Due(f) + 1
  <2>1. Opened(f)' = Opened(f) \cup {h} /\ h \notin Opened(f)
    BY <1>1, <1>3, Constants DEF Opened
  <2>2. PICK S \in SUBSET Handles : S = Opened(f)
    BY DEF Opened
  <2>3. Cardinality(Opened(f)') = Cardinality(Opened(f)) + 1
    BY <2>1, <2>2, Constants, Counting
  <2>4. One(InList(f)') = One(InList(f))
    BY DEF InList, One
  <2>5. Cardinality(Closing(f)') = Cardinality(Closing(f))
    BY <1>9
  <2> QED BY <2>3, <2>4, <2>5, DueIs, DueIsNext DEF Due
<1>11. Enough(f)'
  <2>1. file[f].refs >= Due(f) /\ file[f].refs > 0 /\ file[f].refs \in Nat /\ Due(f) \in Nat
    BY <1>2, DueIs DEF Enough, Typed, FileType
  <2>2. r.refs >= Due(f)' /\ r.refs > 0
    BY <1>10, <2>1
  <2>3. \A x \in Threads : job'[x].file # f
    BY <1>9 DEF Closing
  <2> QED BY <1>5, <2>2, <2>3 DEF Enough
<1> QED BY <1>6, <1>7, <1>8, <1>11, StepInv

\* A file that nothing leads to.
LEMMA FreshIs ==
  ASSUME MemInv, NEW f \in Files, Fresh(f)
  PROVE  /\ ~Live(f) /\ ~InList(f) /\ Closing(f) = {} /\ Opened(f) = {}
         /\ callers[f] = "none"
<1>1. Typed /\ Found(f) /\ Owned(f) /\ file[f] = NoFile
  BY DEF MemInv, Fresh
<1>2. ~Live(f)
  BY <1>1, NoFileIs DEF Live
<1>3. callers[f] = "none"
  BY <1>1, NoFileIs DEF Owned
<1> QED BY <1>1, <1>2, <1>3 DEF Fresh, Found, InList, Closing

\* Handles that were closed are opened on f.
OnlyOpens(f) ==
  /\ handle' \in [Handles -> HandleType \cup {Closed}]
  /\ \A h \in Handles : handle'[h] # handle[h] => handle'[h].file = f

\* r is a file that may be entered as f under the name n, with the handles on it.
FileFor(n, f, r, owner) ==
  /\ r \in FileType /\ owner \in {"none", "valid"}
  /\ r.refs = Cardinality(Opened(f)') + 1 /\ r.state = "live" /\ r.name = n
  /\ r.owns <=> r.data # "borrowed"
  /\ owner = "valid" <=> r.data = "borrowed"

\* It takes the name, from another file perhaps.
Enters(n, f, r, owner) ==
  /\ Fresh(f)
  /\ file' = [file EXCEPT ![f] = r]
  /\ oFileList' = [oFileList EXCEPT ![n] = f]
  /\ callers' = [callers EXCEPT ![f] = owner]

\* The thread that enters it closes none.
GoesOn(t, j) ==
  /\ job[t].file = NULL /\ job' = [job EXCEPT ![t] = j]
  /\ j \in JobType /\ j.step # "close" /\ j.file = NULL
  /\ j.step = "open" => j.name \in Names

\* A new file, with or without a handle on it.
LEMMA FileEntered ==
  ASSUME MemInv, NEW t \in Threads, NEW n \in Names, NEW f \in Files,
         NEW r, NEW owner, NEW j,
         FileFor(n, f, r, owner), Enters(n, f, r, owner), GoesOn(t, j), OnlyOpens(f)
  PROVE  MemInv'
<1> USE DEF FileFor, Enters, GoesOn
<1>1. /\ ~Live(f) /\ ~InList(f) /\ Closing(f) = {} /\ Opened(f) = {}
  BY FreshIs
<1>2. Typed
  BY DEF MemInv
<1>3. \A x \in Threads : job'[x] = IF x = t THEN j ELSE job[x]
  BY <1>2 DEF Typed
<1>4. \A g \in Files : /\ file'[g] = IF g = f THEN r ELSE file[g]
                       /\ callers'[g] = IF g = f THEN owner ELSE callers[g]
  BY <1>2 DEF Typed
<1>5. \A m \in Names : oFileList'[m] = IF m = n THEN f ELSE oFileList[m]
  BY <1>2 DEF Typed
<1>6. Typed'
  <2>1. file' \in [Files -> FileType] /\ oFileList' \in [Names -> Files \cup {NULL}]
    BY <1>2 DEF Typed
  <2>2. callers' \in [Files -> {"none", "valid", "freed"}]
    BY <1>2 DEF Typed
  <2>3. job' \in [Threads -> JobType]
    BY <1>2 DEF Typed
  <2>4. \A x \in Threads : /\ job'[x].step = "close" <=> job'[x].file # NULL
                           /\ job'[x].step = "open" => job'[x].name \in Names
    BY <1>2, <1>3 DEF Typed
  <2> QED BY <2>1, <2>2, <2>3, <2>4 DEF Typed, OnlyOpens
<1>7. \A g \in Files \ {f} : LeavesAlone(g)
  <2> SUFFICES ASSUME NEW g \in Files \ {f} PROVE LeavesAlone(g)
    OBVIOUS
  <2>1. \A h \in Handles : handle'[h].file = g => handle[h].file = g
    BY DEF OnlyOpens
  <2>2. \A x \in Threads : job'[x].file = g =>
          job[x].file = g /\ job'[x].refs = job[x].refs
    BY <1>3, Constants
  <2>3. \A m \in Names : oFileList'[m] = g => oFileList[m] = g
    BY <1>5
  <2> QED BY <1>4, <2>1, <2>2, <2>3 DEF LeavesAlone, NoNewWay
<1>8. Found(f)'
  <2>1. \A m \in Names : oFileList'[m] = f => m = n
    BY <1>1, <1>5 DEF InList
  <2> QED BY <1>4, <2>1 DEF Found, Live
<1>9. InList(f)' /\ Closing(f)' = {}
  BY <1>1, <1>3, <1>5, Constants DEF Closing, InList
<1>10. Enough(f)'
  <2>1. Cardinality(Opened(f)') \in Nat /\ Cardinality(Closing(f)') = 0 /\ One(InList(f)') = 1
    BY <1>9, DueIsNext, FS_EmptySet DEF One
  <2>2. r.refs >= Due(f)' /\ r.refs > 0
    BY <2>1 DEF Due
  <2>3. \A x \in Threads : job'[x].file # f
    BY <1>9 DEF Closing
  <2> QED BY <1>4, <2>2, <2>3 DEF Enough
<1>11. Owned(f)'
  BY <1>4 DEF Owned, Live, FileType
<1> QED BY <1>6, <1>7, <1>8, <1>10, <1>11, StepInv

\* Nothing is opened when no handle changes.
LEMMA NothingOpened ==
  ASSUME MemInv, NEW f \in Files, Fresh(f), UNCHANGED handle
  PROVE  Cardinality(Opened(f)') + 1 = 1 /\ OnlyOpens(f)
<1>1. Opened(f)' = {}
  BY FreshIs DEF Opened
<1>2. Cardinality(Opened(f)') + 1 = 1
  BY <1>1, FS_EmptySet
<1> QED BY <1>2 DEF OnlyOpens, MemInv, Typed

LEMMA NormalIs == Normal \subseteq Names
BY Constants DEF Normal

LEMMA MkdirInv == ASSUME MemInv, NEW t \in Threads, Mkdir(t) PROVE MemInv'
<1>1. PICK n \in Normal, f \in Files :
        /\ oFileList[n] = NULL /\ Fresh(f)
        /\ file' = [file EXCEPT ![f] = [NewFile(n) EXCEPT !.dir = TRUE]]
        /\ oFileList' = [oFileList EXCEPT ![n] = f]
  BY DEF Mkdir
<1> DEFINE r == [NewFile(n) EXCEPT !.dir = TRUE]
<1>2. n \in Names
  BY NormalIs
<1>3. /\ r \in FileType /\ r.state = "live" /\ r.name = n /\ r.refs = 1
      /\ r.owns = TRUE /\ r.data = "none"
  BY <1>2 DEF NewFile, NoFile, FileType
<1>4. callers[f] = "none" /\ callers' = [callers EXCEPT ![f] = "none"]
  BY <1>1, FreshIs DEF Mkdir, MemInv, Typed
<1>5. job[t] = Idle /\ job' = [job EXCEPT ![t] = Idle] /\ UNCHANGED handle
  BY DEF Mkdir, MemInv, Typed
<1>6. file' = [file EXCEPT ![f] = r]
  BY <1>1
<1>7. /\ r.owns <=> r.data # "borrowed"
      /\ "none" = "valid" <=> r.data = "borrowed"
  BY <1>3
<1> HIDE DEF r
<1>8. /\ r.refs = Cardinality(Opened(f)') + 1 /\ OnlyOpens(f)
  BY <1>1, <1>3, <1>5, NothingOpened
<1>9. FileFor(n, f, r, "none") /\ Enters(n, f, r, "none")
  BY <1>1, <1>3, <1>4, <1>6, <1>7, <1>8 DEF FileFor, Enters
<1>10. GoesOn(t, Idle)
  BY <1>5, IdleIs DEF GoesOn
<1> QED BY <1>2, <1>8, <1>9, <1>10, FileEntered

LEMMA FileFromMemBufferInv ==
  ASSUME MemInv, NEW t \in Threads, NEW n \in Names, NEW f \in Files,
         NEW take \in BOOLEAN, FileFromMemBuffer(t, n, f, take)
  PROVE  MemInv'
<1>1. PICK length \in 0 .. MaxLength :
        file' = [file EXCEPT ![f] = [NewFile(n) EXCEPT !.owns = take,
                  !.data = IF take THEN "heap" ELSE "borrowed",
                  !.length = length, !.alloc = length]]
  BY DEF FileFromMemBuffer
<1> DEFINE d == IF take THEN "heap" ELSE "borrowed"
           r == [NewFile(n) EXCEPT !.owns = take, !.data = d,
                  !.length = length, !.alloc = length]
           j == [Idle EXCEPT !.step = "open", !.name = Normalized[n]]
           owner == IF take THEN "none" ELSE "valid"
<1>2. length \in Nat
  BY Constants
<1>3. /\ r \in FileType /\ r.state = "live" /\ r.name = n /\ r.refs = 1
      /\ r.owns = take /\ r.data = (IF take THEN "heap" ELSE "borrowed")
  <2>1. d \in {"heap", "borrowed"}
    OBVIOUS
  <2>2. PICK new \in FileType : new = NewFile(n)
    BY NewFileIs
  <2>3. r = [new EXCEPT !.owns = take, !.data = d, !.length = length, !.alloc = length]
    BY <2>2
  <2> HIDE DEF d, r
  <2>4. /\ r \in FileType /\ r.state = new.state /\ r.name = new.name
        /\ r.refs = new.refs /\ r.owns = take /\ r.data = d
    BY <1>2, <2>1, <2>3 DEF FileType
  <2> QED BY <2>2, <2>4, NewFileIs DEF d
<1>4. /\ j \in JobType /\ j.step = "open" /\ j.file = NULL /\ j.name \in Names
  BY Constants DEF Idle, JobType
<1>5. /\ Fresh(f) /\ job[t] = Idle
      /\ oFileList' = [oFileList EXCEPT ![n] = f]
      /\ callers' = [callers EXCEPT ![f] = owner]
      /\ job' = [job EXCEPT ![t] = j] /\ UNCHANGED handle
  BY DEF FileFromMemBuffer
<1>6. /\ r.owns <=> r.data # "borrowed"
      /\ owner \in {"none", "valid"}
      /\ owner = "valid" <=> r.data = "borrowed"
  BY <1>3
<1>7. file' = [file EXCEPT ![f] = r]
  BY <1>1
<1> HIDE DEF r, j, owner, d
<1>8. /\ r.refs = Cardinality(Opened(f)') + 1 /\ OnlyOpens(f)
  BY <1>3, <1>5, NothingOpened
<1>9. FileFor(n, f, r, owner) /\ Enters(n, f, r, owner)
  BY <1>3, <1>5, <1>6, <1>7, <1>8 DEF FileFor, Enters
<1>10. GoesOn(t, j)
  BY <1>4, <1>5, IdleIs DEF GoesOn
<1> QED BY <1>8, <1>9, <1>10, FileEntered

LEMMA CreateInv ==
  ASSUME MemInv, NEW t \in Threads, NEW h \in Handles, NEW n \in Names,
         NEW f \in Files, job[t] = Idle, UNCHANGED job, Create(t, h, n, f)
  PROVE  MemInv'
<1> DEFINE new == [file |-> f, thread |-> t, offset |-> 0, update |-> "w" # "r"]
           r == [NewFile(n) EXCEPT !.refs = 2]
<1>1. /\ handle[h] = Closed /\ handle' = [handle EXCEPT ![h] = new]
      /\ new \in HandleType /\ new.file = f
  BY DEF Create, OpenHandle, HandleType
<1>2. /\ r \in FileType /\ r.state = "live" /\ r.name = n /\ r.refs = 2
      /\ r.owns = TRUE /\ r.data = "none"
  BY DEF NewFile, NoFile, FileType
<1>3. /\ Fresh(f) /\ file' = [file EXCEPT ![f] = r]
      /\ oFileList' = [oFileList EXCEPT ![n] = f] /\ UNCHANGED callers
  BY DEF Create
<1> HIDE DEF new, r
<1>4. callers[f] = "none" /\ callers' = [callers EXCEPT ![f] = "none"]
  BY <1>3, FreshIs DEF MemInv, Typed
<1>5. job' = [job EXCEPT ![t] = Idle]
  BY DEF MemInv, Typed
<1>6. /\ handle' \in [Handles -> HandleType \cup {Closed}]
      /\ \A x \in Handles : handle'[x] = IF x = h THEN new ELSE handle[x]
  BY <1>1 DEF MemInv, Typed
<1>7. Opened(f)' = {h}
  BY <1>1, <1>3, <1>6, FreshIs DEF Opened
<1>8. Cardinality(Opened(f)') + 1 = 2
  BY <1>7, FS_Singleton
<1>9. /\ r.owns <=> r.data # "borrowed"
      /\ "none" = "valid" <=> r.data = "borrowed"
      /\ r.refs = Cardinality(Opened(f)') + 1 /\ OnlyOpens(f)
  BY <1>1, <1>2, <1>6, <1>8 DEF OnlyOpens
<1>10. FileFor(n, f, r, "none") /\ Enters(n, f, r, "none")
  BY <1>2, <1>3, <1>4, <1>9 DEF FileFor, Enters
<1>11. GoesOn(t, Idle)
  BY <1>5, IdleIs DEF GoesOn
<1> QED BY <1>9, <1>10, <1>11, FileEntered

\* A name leads to a file that is there.
LEMMA NamedIsLive ==
  ASSUME MemInv, NEW n \in Names, oFileList[n] # NULL
  PROVE  /\ oFileList[n] \in Files /\ Live(oFileList[n])
         /\ file[oFileList[n]] \in FileType /\ file[oFileList[n]].name = n
         /\ file[oFileList[n]].refs \in Nat /\ file[oFileList[n]].length \in Nat
<1>1. oFileList[n] \in Files
  BY DEF MemInv, Typed
<1> QED BY <1>1 DEF MemInv, Typed, Found, FileType

LEMMA OpenExistingInv ==
  ASSUME MemInv, Allowed = {}, NEW t \in Threads, NEW h \in Handles,
         NEW n \in Names, NEW access, job[t].file = NULL,
         job' = [job EXCEPT ![t] = Idle], OpenExisting(t, h, n, access)
  PROVE  MemInv'
<1>1. PICK f \in Files : f = oFileList[n] /\ oFileList[n] # NULL
  BY NamedIsLive DEF OpenExisting
<1> DEFINE r == [file[f] EXCEPT !.refs = @ + 1]
           start == IF access = "a" THEN file[f].length ELSE 0
<1>2. /\ Live(f) /\ file[f] \in FileType /\ file[f].refs \in Nat
      /\ file[f].length \in Nat
  BY <1>1, NamedIsLive
<1>3. /\ MayOpen(f) /\ OpenHandle(t, h, f, access, start)
      /\ UNCHANGED <<oFileList, callers>>
  BY <1>1 DEF OpenExisting
<1>4. file' = [file EXCEPT ![f] = r]
  BY <1>1 DEF OpenExisting
<1>5. /\ r \in FileType /\ r.refs = file[f].refs + 1 /\ r.state = file[f].state
      /\ r.name = file[f].name /\ r.owns = file[f].owns /\ r.data = file[f].data
  BY <1>2 DEF FileType
<1>6. start \in Nat
  BY <1>2
<1> HIDE DEF r, start
<1> QED BY <1>2, <1>3, <1>4, <1>5, <1>6, HandleAdded

LEMMA TruncateInv ==
  ASSUME MemInv, Allowed = {}, NEW t \in Threads, NEW h \in Handles,
         NEW n \in Names, job[t] = Idle, UNCHANGED job, Truncate(t, h, n)
  PROVE  MemInv'
<1>1. PICK f \in Files : f = oFileList[n] /\ oFileList[n] # NULL
  BY NamedIsLive DEF Truncate
<1> DEFINE s == SetLength(file[f], 0)
           r == [s EXCEPT !.refs = @ + 1]
<1>2. /\ Live(f) /\ file[f] \in FileType /\ file[f].refs \in Nat
      /\ file[f].alloc \in Nat
  BY <1>1, NamedIsLive DEF FileType
<1>3. /\ MayOpen(f) /\ OpenHandle(t, h, f, "w", 0)
      /\ UNCHANGED <<oFileList, callers>> /\ job' = [job EXCEPT ![t] = Idle]
  BY <1>1 DEF Truncate, MemInv, Typed
<1>4. file' = [file EXCEPT ![f] = r]
  BY <1>1 DEF Truncate
<1>5. /\ s \in FileType /\ s.state = file[f].state /\ s.name = file[f].name
      /\ s.refs = file[f].refs /\ s.owns = file[f].owns
      /\ s.data = IF 0 <= file[f].alloc THEN file[f].data ELSE "heap"
  BY <1>2, SetLengthIs
<1> HIDE DEF s
<1>6. /\ r \in FileType /\ r.refs = s.refs + 1 /\ r.state = s.state
      /\ r.name = s.name /\ r.owns = s.owns /\ r.data = s.data
  BY <1>5 DEF FileType
<1>7. s.data = file[f].data
  BY <1>2, <1>5
<1>8. job[t].file = NULL /\ 0 \in Nat
  BY IdleIs
<1> HIDE DEF r
<1>9. /\ r.refs = file[f].refs + 1 /\ r.state = file[f].state
      /\ r.name = file[f].name /\ r.owns = file[f].owns /\ r.data = file[f].data
  BY <1>5, <1>6, <1>7
<1> QED BY <1>2, <1>3, <1>4, <1>6, <1>8, <1>9, HandleAdded

LEMMA OpenInv == ASSUME MemInv, Allowed = {}, NEW t \in Threads, Open(t) PROVE MemInv'
<1>1. job[t] = Idle /\ UNCHANGED job /\ job' = [job EXCEPT ![t] = Idle]
  BY DEF Open, MemInv, Typed
<1>2. PICK h \in Handles, n \in Names :
        \/ \E access \in {"r", "r+", "a"} : OpenExisting(t, h, n, access)
        \/ Truncate(t, h, n)
        \/ \E f \in Files : Create(t, h, n, f)
  BY NormalIs DEF Open
<1> QED BY <1>1, <1>2, IdleIs, OpenExistingInv, TruncateInv, CreateInv

LEMMA OpenMemBufferInv ==
  ASSUME MemInv, Allowed = {}, NEW t \in Threads, OpenMemBuffer(t) PROVE MemInv'
<1>1. job[t].step = "open" /\ job[t].file = NULL /\ job[t].name \in Names
  BY DEF OpenMemBuffer, MemInv, Typed
<1> QED BY <1>1, OpenExistingInv DEF OpenMemBuffer
----------------------------------------------------------------------------
LEMMA UnlinkInv ==
  ASSUME MemInv, NEW t \in Threads, NEW n \in Names, Unlink(t, n)
  PROVE  MemInv'
<1>1. PICK f \in Files : f = oFileList[n] /\ oFileList[n] # NULL
  BY NamedIsLive DEF Unlink
<1>2. Typed /\ Found(f) /\ Enough(f)
  BY DEF MemInv
<1> DEFINE r == file[f]
<1>3. Live(f) /\ r \in FileType /\ r.refs >= Due(f) /\ r.refs > 0
  BY <1>1, <1>2, NamedIsLive DEF Enough
<1>4. /\ job[t] = Idle /\ UNCHANGED <<handle, job, callers>>
      /\ oFileList' = [oFileList EXCEPT ![n] = NULL]
      /\ file' = [file EXCEPT ![f] = Released(r)]
  BY <1>1 DEF Unlink
<1>5. /\ \A g \in Files : file'[g] = IF g = f THEN Released(r) ELSE file[g]
      /\ \A m \in Names : oFileList'[m] = IF m = n THEN NULL ELSE oFileList[m]
  BY <1>2, <1>4 DEF Typed
<1>6. \A g \in Files : NoNewWay(g)
  BY <1>4, <1>5, Constants DEF NoNewWay
<1>7. Due(f)' = Due(f) - 1
  <2>1. InList(f) /\ ~InList(f)'
    BY <1>1, <1>2, <1>5, Constants DEF InList, Found
  <2>2. One(InList(f)) = 1 /\ One(InList(f)') = 0
    BY <2>1 DEF One
  <2>3. Opened(f)' = Opened(f) /\ Closing(f)' = Closing(f)
    BY <1>4 DEF Opened, Closing
  <2> QED BY <2>2, <2>3, DueIs DEF Due
<1>8. /\ file'[f] = Released(r) /\ callers'[f] = callers[f]
      /\ r.state = file[f].state /\ r.name = file[f].name
      /\ r.data = file[f].data /\ r.owns = file[f].owns
  BY <1>4, <1>5
<1> HIDE DEF r
<1>9. Found(f)' /\ Enough(f)' /\ Owned(f)' /\ Released(r) \in FileType
  BY <1>3, <1>6, <1>7, <1>8, WayGone
<1>10. Typed'
  <2>1. file' \in [Files -> FileType] /\ oFileList' \in [Names -> Files \cup {NULL}]
    BY <1>2, <1>4, <1>9 DEF Typed
  <2> QED BY <1>2, <1>4, <2>1 DEF Typed
<1>11. \A g \in Files \ {f} : LeavesAlone(g)
  BY <1>4, <1>5, <1>6 DEF LeavesAlone
<1> QED BY <1>9, <1>10, <1>11, StepInv

LEMMA SeizeInv ==
  ASSUME MemInv, Allowed = {}, NEW t \in Threads, NEW n \in Names, Seize(t, n)
  PROVE  MemInv'
<1>1. PICK f \in Files : f = oFileList[n] /\ oFileList[n] # NULL
  BY NamedIsLive DEF Seize
<1> DEFINE s == [file[f] EXCEPT !.owns = FALSE]
           r == Deleted(s)
           owner == IF file[f].data = "none" THEN callers[f] ELSE "valid"
<1>2. /\ Typed /\ Live(f) /\ file[f] \in FileType /\ Found(f) /\ Owned(f)
      /\ callers[f] \in {"none", "valid", "freed"}
  BY <1>1, NamedIsLive DEF MemInv, Typed
<1>3. /\ job[t] = Idle /\ UNCHANGED <<handle, job>>
      /\ Opened(f) \cup Closing(f) = {}
      /\ oFileList' = [oFileList EXCEPT ![n] = NULL]
      /\ file' = [file EXCEPT ![f] = r] /\ callers' = [callers EXCEPT ![f] = owner]
  BY <1>1 DEF Seize
<1>4. s \in FileType /\ s.owns = FALSE /\ s.data = file[f].data
  BY <1>2 DEF FileType
<1>5. /\ r \in FileType /\ r.state # "live"
      /\ r.owns \/ r.data = "none" <=> s.owns \/ s.data = "none"
      /\ r.data = "borrowed" => s.data = "borrowed"
  BY <1>4, DeletedIs
<1>6. /\ file[f].data = "none" => owner = "none"
      /\ file[f].data # "none" => owner = "valid"
  BY <1>2 DEF Owned
<1> HIDE DEF s, r, owner
<1>7. /\ \A g \in Files : /\ file'[g] = IF g = f THEN r ELSE file[g]
                          /\ callers'[g] = IF g = f THEN owner ELSE callers[g]
      /\ \A m \in Names : oFileList'[m] = IF m = n THEN NULL ELSE oFileList[m]
  BY <1>2, <1>3 DEF Typed
<1>8. Typed'
  <2>1. file' \in [Files -> FileType] /\ oFileList' \in [Names -> Files \cup {NULL}]
    BY <1>2, <1>3, <1>5 DEF Typed
  <2>2. callers' \in [Files -> {"none", "valid", "freed"}]
    BY <1>2, <1>3, <1>6 DEF Typed
  <2> QED BY <1>2, <1>3, <2>1, <2>2 DEF Typed
<1>9. \A g \in Files \ {f} : LeavesAlone(g)
  BY <1>3, <1>7, Constants DEF LeavesAlone, NoNewWay
<1>10. Found(f)'
  <2>1. \A m \in Names : oFileList'[m] # f
    BY <1>1, <1>2, <1>7, Constants DEF Found
  <2> QED BY <1>3, <2>1 DEF Found, Opened, Closing
<1>11. Enough(f)' /\ Owned(f)'
  BY <1>4, <1>5, <1>6, <1>7 DEF Enough, Owned, Live
<1> QED BY <1>8, <1>9, <1>10, <1>11, StepInv

LEMMA MemBufferGoneInv ==
  ASSUME MemInv, NEW t \in Threads, MemBufferGone(t) PROVE MemInv'
<1>1. Typed /\ job[t].file = NULL
  BY DEF MemInv, Typed, MemBufferGone
<1>2. \A x \in Threads : job'[x] = IF x = t THEN Idle ELSE job[x]
  BY <1>1 DEF Typed, MemBufferGone
<1>3. Typed'
  <2>1. job' \in [Threads -> JobType]
    BY <1>1, IdleIs DEF Typed, MemBufferGone
  <2>2. \A x \in Threads : /\ job'[x].step = "close" <=> job'[x].file # NULL
                           /\ job'[x].step = "open" => job'[x].name \in Names
    BY <1>1, <1>2, IdleIs DEF Typed
  <2> QED BY <1>1, <2>1, <2>2 DEF Typed, MemBufferGone
<1>4. \A g \in Files : LeavesAlone(g)
  BY <1>2, IdleIs, Constants DEF LeavesAlone, NoNewWay, MemBufferGone
<1> QED BY <1>3, <1>4, Constants, StepInv

LEMMA CallerFreesInv ==
  ASSUME MemInv, NEW f \in Files, CallerFrees(f) PROVE MemInv'
<1>1. Typed /\ Found(f) /\ ~Live(f) /\ UNCHANGED <<oFileList, handle, job>>
  BY DEF MemInv, CallerFrees
<1>2. \A g \in Files : /\ file'[g] = IF g = f THEN NoFile ELSE file[g]
                       /\ callers'[g] = IF g = f THEN "none" ELSE callers[g]
  BY <1>1 DEF Typed, CallerFrees
<1>3. Typed'
  <2>1. file' \in [Files -> FileType] /\ callers' \in [Files -> {"none", "valid", "freed"}]
    BY <1>1, NoFileIs DEF Typed, CallerFrees
  <2> QED BY <1>1, <2>1 DEF Typed
<1>4. \A g \in Files \ {f} : LeavesAlone(g)
  BY <1>1, <1>2 DEF LeavesAlone, NoNewWay
<1>5. Found(f)'
  BY <1>1 DEF Found
<1>6. Enough(f)' /\ Owned(f)'
  BY <1>2, NoFileIs DEF Enough, Owned, Live
<1> QED BY <1>3, <1>4, <1>5, <1>6, StepInv

\* With no handle and no call, a file that is not listed is one whose count
\* was left too high, or none.
LEMMA CleanUpInv == ASSUME MemInv, CleanUp PROVE MemInv'
<1>1. /\ \A t \in Threads : job[t] = Idle
      /\ \A h \in Handles : handle[h] = Closed
      /\ oFileList' = [n \in Names |-> NULL] /\ UNCHANGED <<handle, callers, job>>
  BY DEF CleanUp
<1>2. Typed
  BY DEF MemInv
<1>3. \A f \in Files : file'[f] = IF InList(f) THEN Deleted(file[f]) ELSE file[f]
  BY DEF CleanUp, InList
<1>4. \A f \in Files : file[f] \in FileType
  BY <1>2 DEF Typed
<1>5. Typed'
  <2>1. \A f \in Files : file'[f] \in FileType
    BY <1>3, <1>4, DeletedIs
  <2>2. file' \in [Files -> FileType]
    BY <2>1 DEF CleanUp
  <2>3. oFileList' \in [Names -> Files \cup {NULL}]
    BY <1>1
  <2> QED BY <1>1, <1>2, <2>2, <2>3 DEF Typed
<1>6. ASSUME NEW f \in Files PROVE Found(f)' /\ Enough(f)' /\ Owned(f)'
  <2>1. NoNewWay(f)
    BY <1>1, Constants DEF NoNewWay
  <2>2. CASE InList(f)
    <3>1. /\ file'[f].state # "live"
          /\ file'[f].owns \/ file'[f].data = "none" <=> file[f].owns \/ file[f].data = "none"
          /\ file'[f].data = "borrowed" => file[f].data = "borrowed"
      BY <1>3, <1>4, <2>2, DeletedIs
    <3>2. Found(f)'
      BY <1>1, IdleIs, Constants DEF Found, Closed
    <3>3. Owned(f)
      BY DEF MemInv
    <3> QED BY <1>1, <3>1, <3>2, <3>3 DEF Enough, Owned, Live
  <2>3. CASE ~InList(f)
    BY <1>1, <1>3, <2>1, <2>3, LeftAlone DEF LeavesAlone
  <2> QED BY <2>2, <2>3
<1> QED BY <1>5, <1>6 DEF MemInv
----------------------------------------------------------------------------
\* A thread that has a handle is not closing another one.
LEMMA HasIs ==
  ASSUME MemInv, NEW t \in Threads, NEW h \in Handles, Has(t, h)
  PROVE  /\ handle[h] \in HandleType /\ handle[h].file \in Files
         /\ job[t].file = NULL
         /\ Live(handle[h].file) /\ handle[h].offset \in Nat
<1>1. handle[h] \in HandleType /\ job[t].file = NULL
  BY HandleIs, IdleIs DEF Has, MemInv
<1>2. handle[h].file \in Files /\ handle[h].offset \in Nat
  BY <1>1 DEF HandleType
<1> QED BY <1>1, <1>2 DEF MemInv, Found

\* The reference goes from the handle to the thread that closes it.
LEMMA CloseInv ==
  ASSUME MemInv, NEW t \in Threads, NEW h \in Handles, Close(t, h)
  PROVE  MemInv'
<1>1. PICK f \in Files : f = handle[h].file
  BY HasIs DEF Close
<1>2. /\ Has(t, h) /\ UNCHANGED <<oFileList, file, callers>>
      /\ handle' = [handle EXCEPT ![h] = Closed]
      /\ job' = [job EXCEPT ![t] = [Idle EXCEPT !.step = "close", !.file = f,
                                      !.refs = file[f].refs]]
  BY <1>1 DEF Close
<1>3. /\ Typed /\ Found(f) /\ Enough(f) /\ Owned(f)
      /\ Live(f) /\ job[t].file = NULL
  BY <1>1, <1>2, HasIs DEF MemInv
<1> DEFINE j == [Idle EXCEPT !.step = "close", !.file = f, !.refs = file[f].refs]
<1>4. file[f].refs \in Nat
  BY <1>3 DEF Typed, FileType
<1>5. j \in JobType /\ j.step = "close" /\ j.file = f /\ j.refs = file[f].refs
  BY <1>4 DEF Idle, JobType
<1>6. job' = [job EXCEPT ![t] = j]
  BY <1>2
<1> HIDE DEF j
<1>7. \A x \in Threads : job'[x] = IF x = t THEN j ELSE job[x]
  BY <1>3, <1>6 DEF Typed
<1>8. \A x \in Handles : handle'[x] = IF x = h THEN Closed ELSE handle[x]
  BY <1>2, <1>3 DEF Typed
<1>9. Typed'
  <2>1. handle' \in [Handles -> HandleType \cup {Closed}]
    BY <1>2, <1>3 DEF Typed
  <2>2. job' \in [Threads -> JobType]
    BY <1>3, <1>5, <1>6 DEF Typed
  <2>3. \A x \in Threads : /\ job'[x].step = "close" <=> job'[x].file # NULL
                           /\ job'[x].step = "open" => job'[x].name \in Names
    BY <1>3, <1>5, <1>7, Constants DEF Typed
  <2> QED BY <1>2, <1>3, <2>1, <2>2, <2>3 DEF Typed
<1>10. Closed.file = NULL
  BY DEF Closed
<1>11. \A g \in Files \ {f} : LeavesAlone(g)
  BY <1>2, <1>5, <1>7, <1>8, <1>10, Constants DEF LeavesAlone, NoNewWay
<1>12. Found(f)' /\ Owned(f)'
  BY <1>2, <1>3 DEF Found, Owned, Live
<1>13. Due(f)' = Due(f)
  <2>1. Opened(f)' = Opened(f) \ {h} /\ h \in Opened(f)
    BY <1>1, <1>8, <1>10, Constants DEF Opened
  <2>2. Cardinality(Opened(f)') = Cardinality(Opened(f)) - 1
    BY <2>1, Constants, Counting DEF Opened
  <2>3. Closing(f)' = Closing(f) \cup {t} /\ t \notin Closing(f)
    BY <1>3, <1>5, <1>7, Constants DEF Closing
  <2>4. PICK S \in SUBSET Threads : S = Closing(f)
    BY DEF Closing
  <2>5. Cardinality(Closing(f)') = Cardinality(Closing(f)) + 1
    BY <2>3, <2>4, Constants, Counting
  <2>6. One(InList(f)') = One(InList(f))
    BY <1>2 DEF InList, One
  <2> QED BY <2>2, <2>5, <2>6, DueIs DEF Due
<1>14. Enough(f)'
  BY <1>2, <1>3, <1>5, <1>7, <1>13 DEF Enough, Live
<1> QED BY <1>9, <1>11, <1>12, <1>14, StepInv

\* What was loaded is at least what is due still, when it is stored.
LEMMA CloseDoneInv ==
  ASSUME MemInv, NEW t \in Threads, CloseDone(t)
  PROVE  MemInv'
<1>1. PICK f \in Files : f = job[t].file
  BY DEF CloseDone, MemInv, Typed, JobType
<1>2. Typed /\ Found(f) /\ Enough(f)
  BY DEF MemInv
<1>3. Live(f) /\ job[t].refs \in Nat /\ job[t].refs >= Due(f)
  BY <1>1, <1>2 DEF Found, Enough, Typed, JobType
<1>4. file[f] \in FileType
  BY <1>2 DEF Typed
<1> DEFINE r == [file[f] EXCEPT !.refs = job[t].refs]
<1>5. /\ r \in FileType /\ r.refs = job[t].refs
      /\ r.state = file[f].state /\ r.name = file[f].name
      /\ r.data = file[f].data /\ r.owns = file[f].owns
  BY <1>3, <1>4 DEF FileType
<1>6. /\ file' = [file EXCEPT ![f] = Released(r)] /\ job' = [job EXCEPT ![t] = Idle]
      /\ UNCHANGED <<oFileList, handle, callers>>
  BY <1>1 DEF CloseDone
<1> HIDE DEF r
<1>7. /\ \A x \in Threads : job'[x] = IF x = t THEN Idle ELSE job[x]
      /\ \A g \in Files : file'[g] = IF g = f THEN Released(r) ELSE file[g]
  BY <1>2, <1>6 DEF Typed
<1>8. \A g \in Files : NoNewWay(g)
  BY <1>6, <1>7, IdleIs, Constants DEF NoNewWay
<1>9. Due(f)' = Due(f) - 1 /\ Due(f) > 0
  <2>1. Closing(f)' = Closing(f) \ {t} /\ t \in Closing(f)
    BY <1>1, <1>7, IdleIs, Constants DEF Closing
  <2>2. Cardinality(Closing(f)') = Cardinality(Closing(f)) - 1
    BY <2>1, Constants, Counting DEF Closing
  <2>3. Opened(f)' = Opened(f) /\ One(InList(f)') = One(InList(f))
    BY <1>6 DEF Opened, InList, One
  <2>4. Due(f) # 0
    BY <2>1, DueIs
  <2> QED BY <2>2, <2>3, <2>4, DueIs DEF Due
<1>10. /\ file'[f] = Released(r) /\ callers'[f] = callers[f]
       /\ r.refs >= Due(f) /\ r.refs > 0
  BY <1>3, <1>5, <1>6, <1>7, <1>9, DueIs
<1>11. Found(f)' /\ Enough(f)' /\ Owned(f)' /\ Released(r) \in FileType
  BY <1>3, <1>5, <1>8, <1>9, <1>10, WayGone
<1>12. Typed'
  <2>1. file' \in [Files -> FileType] /\ job' \in [Threads -> JobType]
    BY <1>2, <1>6, <1>11, IdleIs DEF Typed
  <2>2. \A x \in Threads : /\ job'[x].step = "close" <=> job'[x].file # NULL
                           /\ job'[x].step = "open" => job'[x].name \in Names
    BY <1>2, <1>7, IdleIs DEF Typed
  <2> QED BY <1>2, <1>6, <2>1, <2>2 DEF Typed
<1>13. \A g \in Files \ {f} : LeavesAlone(g)
  BY <1>6, <1>7, <1>8 DEF LeavesAlone
<1> QED BY <1>11, <1>12, <1>13, StepInv

\* The memory of r has one owner.
OwnedBy(r, owner) ==
  /\ owner \in {"none", "valid", "freed"}
  /\ owner = "none" <=> r.owns \/ r.data = "none"
  /\ r.data = "borrowed" => owner = "valid"
  /\ r.data = "none" => r.owns

\* A handle moves, and its file, which may have grown into other memory, has
\* an owner still.
LEMMA HandleMoved ==
  ASSUME MemInv, NEW t \in Threads, NEW h \in Handles, NEW f \in Files,
         NEW r \in FileType, NEW owner, OwnedBy(r, owner), NEW to \in Nat,
         Has(t, h), f = handle[h].file,
         file' = [file EXCEPT ![f] = r],
         handle' = [handle EXCEPT ![h].offset = to],
         callers' = [callers EXCEPT ![f] = owner],
         r.state = file[f].state, r.name = file[f].name, r.refs = file[f].refs,
         UNCHANGED <<oFileList, job>>
  PROVE  MemInv'
<1>1. Typed /\ Found(f) /\ Enough(f) /\ handle[h] \in HandleType
  BY HasIs DEF MemInv
<1> DEFINE moved == [handle[h] EXCEPT !.offset = to]
<1>2. moved \in HandleType /\ moved.file = f
  BY <1>1 DEF HandleType
<1>3. handle' = [handle EXCEPT ![h] = moved]
  OBVIOUS
<1> HIDE DEF moved
<1>4. \A x \in Handles : handle'[x] = IF x = h THEN moved ELSE handle[x]
  BY <1>1, <1>3 DEF Typed
<1>5. \A g \in Files : /\ file'[g] = IF g = f THEN r ELSE file[g]
                       /\ callers'[g] = IF g = f THEN owner ELSE callers[g]
  BY <1>1 DEF Typed
<1>6. Typed'
  <2>1. file' \in [Files -> FileType] /\ handle' \in [Handles -> HandleType \cup {Closed}]
    BY <1>1, <1>2, <1>3 DEF Typed
  <2>2. callers' \in [Files -> {"none", "valid", "freed"}]
    BY <1>1 DEF Typed, OwnedBy
  <2> QED BY <1>1, <2>1, <2>2 DEF Typed
<1>7. \A g \in Files : NoNewWay(g)
  BY <1>2, <1>4 DEF NoNewWay
<1>8. \A g \in Files \ {f} : LeavesAlone(g)
  BY <1>5, <1>7 DEF LeavesAlone
<1>9. /\ file[f].refs \in Nat /\ \A x \in Threads : job[x].refs \in Nat
      /\ file'[f].state = file[f].state /\ file'[f].name = file[f].name
      /\ file'[f].refs = file[f].refs
  BY <1>1, <1>5 DEF Typed, FileType, JobType
<1>10. Found(f)' /\ Enough(f)'
  BY <1>1, <1>7, <1>9, WaysKept
<1>11. Owned(f)'
  BY <1>5 DEF Owned, Live, OwnedBy
<1> QED BY <1>6, <1>8, <1>10, <1>11, StepInv

\* A handle moves and its file stays as it is.
LEMMA HandleMovedOnly ==
  ASSUME MemInv, NEW t \in Threads, NEW h \in Handles, NEW f \in Files,
         NEW to \in Nat, Has(t, h), f = handle[h].file,
         handle' = [handle EXCEPT ![h].offset = to],
         UNCHANGED <<oFileList, file, callers, job>>
  PROVE  MemInv'
<1>1. PICK r \in FileType, owner \in {"none", "valid", "freed"} :
        r = file[f] /\ owner = callers[f]
  BY DEF MemInv, Typed
<1>2. file' = [file EXCEPT ![f] = r] /\ callers' = [callers EXCEPT ![f] = owner]
  BY <1>1 DEF MemInv, Typed
<1>3. Owned(f) /\ Live(f)
  BY HasIs DEF MemInv
<1>4. /\ r.state = file[f].state /\ r.name = file[f].name /\ r.refs = file[f].refs
      /\ OwnedBy(r, owner)
  BY <1>1, <1>3 DEF Owned, OwnedBy
<1>5. UNCHANGED <<oFileList, job>>
  OBVIOUS
<1> QED BY <1>2, <1>4, <1>5, HandleMoved

\* A handle moves and its file grows.
LEMMA HandleMovedOn ==
  ASSUME MemInv, NEW t \in Threads, NEW h \in Handles, NEW f \in Files,
         NEW to \in Nat, Has(t, h), f = handle[h].file,
         handle' = [handle EXCEPT ![h].offset = to],
         file' = [file EXCEPT ![f] = SetLength(file[f], to)],
         callers' = CallersAfter(f, to), UNCHANGED <<oFileList, job>>
  PROVE  MemInv'
<1> DEFINE r == SetLength(file[f], to)
           grows == to > file[f].alloc
           owner == IF grows /\ file[f].data = "borrowed" THEN "freed" ELSE callers[f]
<1>1. /\ Typed /\ Owned(f) /\ Live(f)
      /\ file[f] \in FileType /\ file[f].alloc \in Nat
      /\ callers[f] \in {"none", "valid", "freed"}
  BY HasIs DEF MemInv, Typed, FileType
<1>2. /\ r \in FileType /\ r.state = file[f].state /\ r.name = file[f].name
      /\ r.refs = file[f].refs /\ r.owns = file[f].owns
      /\ r.data = IF to <= file[f].alloc THEN file[f].data ELSE "heap"
  BY <1>1, SetLengthIs
<1>3. callers' = [callers EXCEPT ![f] = owner]
  BY <1>1 DEF CallersAfter, Reallocates, Typed
<1>4. file' = [file EXCEPT ![f] = r]
  OBVIOUS
<1>5. to <= file[f].alloc <=> ~grows
  BY <1>1
<1> HIDE DEF r, grows
<1>6. OwnedBy(r, owner)
  <2>1. CASE ~grows
    BY <1>1, <1>2, <1>5, <2>1 DEF Owned, OwnedBy
  <2>2. CASE grows
    BY <1>1, <1>2, <1>5, <2>2 DEF Owned, OwnedBy
  <2> QED BY <2>1, <2>2
<1> HIDE DEF owner
<1> QED BY <1>2, <1>3, <1>4, <1>6, HandleMoved

\* The length of a file is one.
LEMMA LengthIs == ASSUME MemInv, NEW f \in Files PROVE file[f].length \in Nat
BY DEF MemInv, Typed, FileType

LEMMA SeekInv ==
  ASSUME MemInv, NEW t \in Threads, NEW h \in Handles,
         NEW to \in 0 .. MaxLength, Seek(t, h, to)
  PROVE  MemInv'
<1>1. PICK f \in Files : f = handle[h].file
  BY HasIs DEF Seek
<1>2. /\ Has(t, h) /\ to \in Nat /\ file[f].length \in Nat
      /\ UNCHANGED <<oFileList, job>>
  BY Constants, LengthIs DEF Seek
<1>3. CASE to > file[f].length /\ handle[h].update
  <2>1. /\ file' = [file EXCEPT ![f] = SetLength(file[f], to)]
        /\ callers' = CallersAfter(f, to)
        /\ handle' = [handle EXCEPT ![h].offset = to]
    BY <1>1, <1>3 DEF Seek
  <2>2. UNCHANGED <<oFileList, job>>
    BY <1>2
  <2> QED BY <1>1, <1>2, <2>1, <2>2, HandleMovedOn
<1>4. CASE ~(to > file[f].length /\ handle[h].update)
  <2> DEFINE there == IF to > file[f].length THEN file[f].length ELSE to
  <2>1. /\ UNCHANGED <<file, callers>>
        /\ handle' = [handle EXCEPT ![h].offset = there]
    BY <1>1, <1>4 DEF Seek
  <2>2. there \in Nat
    BY <1>2
  <2> HIDE DEF there
  <2> QED BY <1>1, <1>2, <2>1, <2>2, HandleMovedOnly
<1> QED BY <1>3, <1>4

LEMMA ReadInv ==
  ASSUME MemInv, NEW t \in Threads, NEW h \in Handles,
         NEW bytes \in 0 .. MaxLength, Read(t, h, bytes)
  PROVE  MemInv'
<1>1. PICK f \in Files : f = handle[h].file
  BY HasIs DEF Read
<1> DEFINE there == file[f].length - handle[h].offset
           to == handle[h].offset + IF bytes > there THEN there ELSE bytes
<1>2. /\ Has(t, h) /\ UNCHANGED <<oFileList, file, callers, job>>
      /\ handle' = [handle EXCEPT ![h].offset = to]
  BY <1>1 DEF Read
<1>3. handle[h].offset \in Nat /\ file[f].length \in Nat /\ bytes \in Nat
  BY <1>1, <1>2, HasIs, LengthIs, Constants
<1>4. to \in Nat
  BY <1>3
<1> HIDE DEF to, there
<1> QED BY <1>1, <1>2, <1>4, HandleMovedOnly

LEMMA WriteInv ==
  ASSUME MemInv, NEW t \in Threads, NEW h \in Handles,
         NEW bytes \in 0 .. MaxLength, Write(t, h, bytes)
  PROVE  MemInv'
<1>1. PICK f \in Files : f = handle[h].file
  BY HasIs DEF Write
<1> DEFINE end == handle[h].offset + bytes
<1>2. /\ Has(t, h) /\ UNCHANGED <<oFileList, job>>
      /\ handle' = [handle EXCEPT ![h].offset = end]
  BY <1>1 DEF Write
<1>3. end \in Nat
  BY <1>1, <1>2, HasIs, Constants
<1>4. CASE end > file[f].length
  <2>1. /\ file' = [file EXCEPT ![f] = SetLength(file[f], end)]
        /\ callers' = CallersAfter(f, end)
    BY <1>1, <1>4 DEF Write
  <2>2. UNCHANGED <<oFileList, job>>
    BY <1>2
  <2> HIDE DEF end
  <2> QED BY <1>1, <1>2, <1>3, <2>1, <2>2, HandleMovedOn
<1>5. CASE ~(end > file[f].length)
  <2>1. UNCHANGED <<file, callers>>
    BY <1>1, <1>5 DEF Write
  <2> HIDE DEF end
  <2> QED BY <1>1, <1>2, <1>3, <2>1, HandleMovedOnly
<1> QED BY <1>4, <1>5
----------------------------------------------------------------------------
LEMMA InitInv == Init => MemInv
<1> SUFFICES ASSUME Init PROVE MemInv
  OBVIOUS
<1>1. Closed.file = NULL /\ NoFile.state = "unborn"
  BY DEF Closed, NoFile
<1>2. Typed
  BY NoFileIs, IdleIs DEF Init, Typed
<1>3. ASSUME NEW f \in Files PROVE Found(f) /\ Enough(f) /\ Owned(f)
  <2>1. Found(f)
    BY <1>1, IdleIs, Constants DEF Init, Found
  <2>2. Enough(f) /\ Owned(f)
    BY NoFileIs DEF Init, Enough, Owned, Live
  <2> QED BY <2>1, <2>2
<1> QED BY <1>2, <1>3 DEF MemInv

LEMMA NextInv == ASSUME Allowed = {}, MemInv, [Next]_vars PROVE MemInv'
<1>1. CASE CleanUp
  BY <1>1, CleanUpInv
<1>2. ASSUME NEW f \in Files, CallerFrees(f) PROVE MemInv'
  BY <1>2, CallerFreesInv
<1>3. ASSUME NEW t \in Threads, Open(t) \/ Mkdir(t) PROVE MemInv'
  BY <1>3, OpenInv, MkdirInv
<1>4. ASSUME NEW t \in Threads, NEW n \in Normal, Unlink(t, n) PROVE MemInv'
  BY <1>4, NormalIs, UnlinkInv
<1>5. ASSUME NEW t \in Threads, NEW n \in Names, Seize(t, n) PROVE MemInv'
  BY <1>5, SeizeInv
<1>6. ASSUME NEW t \in Threads, NEW n \in Names, NEW f \in Files, NEW take \in BOOLEAN,
             FileFromMemBuffer(t, n, f, take)
      PROVE  MemInv'
  BY <1>6, FileFromMemBufferInv
<1>7. ASSUME NEW t \in Threads, OpenMemBuffer(t) \/ MemBufferGone(t) \/ CloseDone(t)
      PROVE  MemInv'
  BY <1>7, OpenMemBufferInv, MemBufferGoneInv, CloseDoneInv
<1>8. ASSUME NEW t \in Threads, NEW h \in Handles, Close(t, h) PROVE MemInv'
  BY <1>8, CloseInv
<1>9. ASSUME NEW t \in Threads, NEW h \in Handles, NEW n \in 0 .. MaxLength,
             Seek(t, h, n) \/ Read(t, h, n) \/ Write(t, h, n)
      PROVE  MemInv'
  BY <1>9, SeekInv, ReadInv, WriteInv
<1>10. CASE UNCHANGED vars
  <2>1. Typed'
    BY <1>10 DEF MemInv, Typed, vars
  <2>2. \A g \in Files : LeavesAlone(g)
    BY <1>10 DEF LeavesAlone, NoNewWay, vars
  <2> QED BY <2>1, <2>2, Constants, StepInv
<1> QED BY <1>1, <1>2, <1>3, <1>4, <1>5, <1>6, <1>7, <1>8, <1>9, <1>10 DEF Next

LEMMA MemInvariance == Allowed = {} => (Spec => []MemInv)
<1>1. ASSUME Allowed = {} PROVE Spec => []MemInv
  <2>1. MemInv /\ [Next]_vars => MemInv'
    BY <1>1, NextInv
  <2> QED BY <2>1, InitInv, PTL DEF Spec
<1> QED BY <1>1

\* A handle is on a file that exists until Close has returned, whoever
\* unlinks, replaces or closes that file meanwhile: as long as no file is
\* opened while it is being closed, and none is seized while it is open.
THEOREM HandlesUsableHolds == Allowed = {} => (Spec => []HandlesUsable)
<1>1. MemInv => HandlesUsable
  <2> SUFFICES ASSUME MemInv PROVE HandlesUsable
    OBVIOUS
  <2>1. ASSUME NEW h \in Handles, handle[h] # Closed PROVE Live(handle[h].file)
    <3>1. handle[h].file \in Files
      BY <2>1, HandleIs DEF MemInv, HandleType
    <3> QED BY <3>1 DEF MemInv, Found
  <2>2. ASSUME NEW t \in Threads, job[t].step = "close" PROVE Live(job[t].file)
    <3>1. job[t].file \in Files
      BY <2>2 DEF MemInv, Typed, JobType
    <3> QED BY <3>1 DEF MemInv, Found
  <2> QED BY <2>1, <2>2 DEF HandlesUsable
<1> QED BY <1>1, MemInvariance, PTL

\* The memory of a file has one owner, the file or the caller, and no file uses
\* memory that was freed.
THEOREM MemoryOwnedOnceHolds == Allowed = {} => (Spec => []MemoryOwnedOnce)
<1>1. MemInv => MemoryOwnedOnce
  BY DEF MemInv, Owned, MemoryOwnedOnce
<1> QED BY <1>1, MemInvariance, PTL

\* nRefCount is never lower than the references to the file, however many
\* threads change it in Close, which does not take the mutex.
THEOREM RefsEnoughHolds == Allowed = {} => (Spec => []RefsEnough)
<1>1. MemInv => RefsEnough
  <2> SUFFICES ASSUME MemInv, NEW f \in Files, Live(f)
               PROVE  file[f].refs >=
                        Cardinality(Opened(f)) + Cardinality({n \in Names : oFileList[n] = f})
                          + Cardinality(Closing(f))
    BY DEF RefsEnough
  <2> DEFINE listing == {n \in Names : oFileList[n] = f}
  <2>1. Found(f) /\ Enough(f)
    BY DEF MemInv
  <2>2. Cardinality(listing) = One(InList(f))
    <3>1. CASE ~InList(f)
      <4>1. listing = {}
        BY <3>1 DEF InList
      <4> QED BY <3>1, <4>1, FS_EmptySet DEF One
    <3>2. CASE InList(f)
      <4>1. PICK n \in Names : oFileList[n] = f
        BY <3>2 DEF InList
      <4>2. listing = {n}
        BY <2>1, <4>1 DEF Found
      <4> QED BY <3>2, <4>2, FS_Singleton DEF One
    <3> QED BY <3>1, <3>2
  <2> HIDE DEF listing
  <2>3. file[f].refs >= Cardinality(Opened(f)) + Cardinality(listing) + Cardinality(Closing(f))
    BY <2>1, <2>2, DueIs DEF Enough, Due
  <2> QED BY <2>3 DEF listing
<1> QED BY <1>1, MemInvariance, PTL
=============================================================================
