------------------------------ MODULE MemFiles ------------------------------
(***************************************************************************)
(* The in-memory files of /vsimem/ (port/cpl_vsi_mem.cpp): the list of     *)
(* files and its mutex, the reference counts of files, which the list and  *)
(* every open handle hold, and the owner of the memory of a file.          *)
(*                                                                         *)
(* What takes the mutex is one step.  VSIMemHandle::Close does not: the    *)
(* count is loaded, and stored, with other threads in between, which may   *)
(* close and unlink the file too: what is lost then is a decrement, as it  *)
(* would be if Unlink's load and store were steps of their own.  A handle  *)
(* is used by the thread that opened it, and a file is written while no    *)
(* other thread uses it (cpl_vsi_mem.cpp:67-72).  Allowed names what these *)
(* two rules do not exclude and the handles of a file do not survive.      *)
(***************************************************************************)
EXTENDS Naturals, FiniteSets

CONSTANTS
  Threads,
  Names,      \* names of files and directories below /vsimem/
  Normalized, \* Normalized[n]: n with each backslash made a slash
  Files,      \* the VSIMemFile objects
  Handles,    \* the VSIMemHandle objects
  MaxLength,  \* bound on the length of a file
  MaxRefs,    \* bound on a count, of which closes may lose decrements
  Allowed,    \* what callers may do, of the two below
  NULL

Two == {"open while closed", "seize open"}

ASSUME MemFilesAssumption ==
  /\ MaxLength \in Nat /\ Allowed \subseteq Two
  /\ Normalized \in [Names -> Names]
  /\ NULL \notin Names \cup Files \cup Handles \cup Threads
  /\ IsFiniteSet(Handles) /\ IsFiniteSet(Threads)

VARIABLES
  oFileList, \* oFileList[n]: the file of that name, or NULL
  file,      \* file[f]: the object f
  handle,    \* handle[h]: the object h
  callers,   \* callers[f]: the buffer of f, as far as it is the caller's
  job        \* job[t]: the call of t that has more than one step

vars == <<oFileList, file, handle, callers, job>>
----------------------------------------------------------------------------
\* alloc is nAllocLength; what malloc adds when a file grows is beyond bounds.
NoFile == [state |-> "unborn", name |-> NULL, refs |-> 0, dir |-> FALSE,
           owns |-> TRUE, data |-> "none", length |-> 0, alloc |-> 0]
NewFile(n) == [NoFile EXCEPT !.state = "live", !.name = n, !.refs = 1]
Closed == [file |-> NULL, thread |-> NULL, offset |-> 0, update |-> FALSE]
Idle == [step |-> "idle", name |-> NULL, file |-> NULL, refs |-> 0]

Opened(f) == {h \in Handles : handle[h].file = f}
Live(f) == file[f].state = "live"
Has(t, h) == handle[h].thread = t /\ job[t] = Idle

\* Objects are few: one that is gone is used again once nothing points to it.
Fresh(f) ==
  /\ file[f] = NoFile /\ Opened(f) = {}
  /\ \A t \in Threads : job[t].file # f

\* A handle is left for each thread that is about to open one.
HandleLeft ==
  Cardinality({h \in Handles : handle[h] = Closed})
    > Cardinality({t \in Threads : job[t].step = "open"})

\* The names under which Open, Mkdir and Unlink look.
Normal == {Normalized[n] : n \in Names}

OnlyUser(t, f) == \A h \in Opened(f) : handle[h].thread = t

\* The threads between the load and the store of the count of f in Close.
Closing(f) == {t \in Threads : job[t].file = f}

MayOpen(f) ==
  /\ Closing(f) = {} \/ "open while closed" \in Allowed
  /\ file[f].refs < MaxRefs

\* SetLength; CPLRealloc frees the block it is given, whoever owns it.
SetLength(r, length) ==
  IF length <= r.alloc THEN [r EXCEPT !.length = length]
  ELSE [r EXCEPT !.length = length, !.alloc = MaxLength, !.data = "heap"]

Reallocates(f, length) ==
  length > file[f].alloc /\ file[f].data = "borrowed"

CallersAfter(f, length) ==
  IF Reallocates(f, length) THEN [callers EXCEPT ![f] = "freed"] ELSE callers

\* The destructor of VSIMemFile, with the memory it does not own left over.
Deleted(r) ==
  IF r.owns \/ r.data = "none" THEN NoFile
  ELSE [NoFile EXCEPT !.state = "deleted", !.owns = FALSE, !.data = r.data]

\* --nRefCount, and delete at zero.
Released(r) == IF r.refs = 1 THEN Deleted(r) ELSE [r EXCEPT !.refs = @ - 1]
----------------------------------------------------------------------------
\* VSIMemFilesystemHandler::Open in thread t, of a file that is there ...
OpenHandle(t, h, f, access, start) ==
  /\ handle[h] = Closed
  /\ handle' = [handle EXCEPT ![h] = [file |-> f, thread |-> t,
                  offset |-> start, update |-> access # "r"]]

OpenExisting(t, h, n, access) ==
  LET f == oFileList[n]
  IN /\ access # "w" /\ f # NULL
     /\ ~file[f].dir /\ MayOpen(f)
     /\ OpenHandle(t, h, f, access, IF access = "a" THEN file[f].length ELSE 0)
     /\ file' = [file EXCEPT ![f].refs = @ + 1]
     /\ UNCHANGED <<oFileList, callers>>

\* ... or is emptied ...
Truncate(t, h, n) ==
  LET f == oFileList[n]
      emptied == SetLength(file[f], 0)
  IN /\ f # NULL
     /\ ~file[f].dir /\ MayOpen(f) /\ OnlyUser(t, f)
     /\ OpenHandle(t, h, f, "w", 0)
     /\ file' = [file EXCEPT ![f] = [emptied EXCEPT !.refs = @ + 1]]
     /\ UNCHANGED <<oFileList, callers>>

\* Mutant: the reference of the list is not counted.
CreateUnlisted(t, h, n, f) ==
  /\ oFileList[n] = NULL /\ Fresh(f)
  /\ OpenHandle(t, h, f, "w", 0)
  /\ file' = [file EXCEPT ![f] = NewFile(n)]
  /\ oFileList' = [oFileList EXCEPT ![n] = f]
  /\ UNCHANGED callers

\* ... or created.
Create(t, h, n, f) ==
  /\ oFileList[n] = NULL /\ Fresh(f)
  /\ OpenHandle(t, h, f, "w", 0)
  /\ file' = [file EXCEPT ![f] = [NewFile(n) EXCEPT !.refs = 2]]
  /\ oFileList' = [oFileList EXCEPT ![n] = f]
  /\ UNCHANGED callers

Open(t) ==
  /\ job[t] = Idle /\ HandleLeft
  /\ \E h \in Handles, n \in Normal :
       \/ \E access \in {"r", "r+", "a"} : OpenExisting(t, h, n, access)
       \/ Truncate(t, h, n)
       \/ \E f \in Files : Create(t, h, n, f)
  /\ UNCHANGED job

Mkdir(t) ==
  /\ job[t] = Idle
  /\ \E n \in Normal, f \in Files :
       /\ oFileList[n] = NULL /\ Fresh(f)
       /\ file' = [file EXCEPT ![f] = [NewFile(n) EXCEPT !.dir = TRUE]]
       /\ oFileList' = [oFileList EXCEPT ![n] = f]
  /\ UNCHANGED <<handle, callers, job>>

\* Mutant: a file is deleted as soon as it has no name.
UnlinkDeletes(t, n) ==
  LET f == oFileList[n]
  IN /\ job[t] = Idle
     /\ f # NULL
     /\ file' = [file EXCEPT ![f] = Deleted(@)]
     /\ oFileList' = [oFileList EXCEPT ![n] = NULL]
     /\ UNCHANGED <<handle, callers, job>>

\* Unlink, and Rmdir, which does the same whatever the name is of.
Unlink(t, n) ==
  LET f == oFileList[n]
  IN /\ job[t] = Idle
     /\ f # NULL
     /\ file' = [file EXCEPT ![f] = Released(@)]
     /\ oFileList' = [oFileList EXCEPT ![n] = NULL]
     /\ UNCHANGED <<handle, callers, job>>
----------------------------------------------------------------------------
\* VSIFileFromMemBuffer enters the file into the list, in the place of one of
\* that name, and then opens it, under the name that Open makes of it.
FileFromMemBuffer(t, n, f, take) ==
  /\ job[t] = Idle /\ Fresh(f) /\ HandleLeft
  /\ \E length \in 0 .. MaxLength :
       file' = [file EXCEPT ![f] = [NewFile(n) EXCEPT !.owns = take,
                  !.data = IF take THEN "heap" ELSE "borrowed",
                  !.length = length, !.alloc = length]]
  /\ callers' = [callers EXCEPT ![f] = IF take THEN "none" ELSE "valid"]
  /\ oFileList' = [oFileList EXCEPT ![n] = f]
  /\ job' = [job EXCEPT ![t] = [Idle EXCEPT !.step = "open",
                                  !.name = Normalized[n]]]
  /\ UNCHANGED handle

OpenMemBuffer(t) ==
  /\ job[t].step = "open"
  /\ \E h \in Handles : OpenExisting(t, h, job[t].name, "r+")
  /\ job' = [job EXCEPT ![t] = Idle]

\* Another thread removed it, and perhaps made a directory of that name, or it
\* is listed under a name that is never looked up.
MemBufferGone(t) ==
  /\ job[t].step = "open"
  /\ LET f == oFileList[job[t].name] IN IF f = NULL THEN TRUE ELSE file[f].dir
  /\ job' = [job EXCEPT ![t] = Idle]
  /\ UNCHANGED <<oFileList, file, handle, callers>>

\* Mutant: bOwnData is left TRUE, so that the destructor frees the block.
SeizeOwned(t, n) ==
  LET f == oFileList[n]
  IN /\ job[t] = Idle
     /\ f # NULL
     /\ Opened(f) \cup Closing(f) = {} \/ "seize open" \in Allowed
     /\ callers' = [callers EXCEPT ![f] = IF file[f].data = "none" THEN @ ELSE "valid"]
     /\ oFileList' = [oFileList EXCEPT ![n] = NULL]
     /\ file' = [file EXCEPT ![f] = Deleted(@)]
     /\ UNCHANGED <<handle, job>>

\* VSIGetMemFileBuffer with bUnlinkAndSeize; without, it changes nothing.
Seize(t, n) ==
  LET f == oFileList[n]
  IN /\ job[t] = Idle
     /\ f # NULL
     /\ Opened(f) \cup Closing(f) = {} \/ "seize open" \in Allowed
     /\ callers' = [callers EXCEPT ![f] = IF file[f].data = "none" THEN @ ELSE "valid"]
     /\ oFileList' = [oFileList EXCEPT ![n] = NULL]
     /\ file' = [file EXCEPT ![f] = Deleted([@ EXCEPT !.owns = FALSE])]
     /\ UNCHANGED <<handle, job>>

\* The caller frees what it lent or seized when the file is gone.
CallerFrees(f) ==
  /\ callers[f] = "valid" /\ ~Live(f)
  /\ callers' = [callers EXCEPT ![f] = "none"]
  /\ file' = [file EXCEPT ![f] = NoFile]
  /\ UNCHANGED <<oFileList, handle, job>>

\* ~VSIMemFilesystemHandler, when GDAL is shut down; it may start again.
CleanUp ==
  /\ \A t \in Threads : job[t] = Idle
  /\ \A h \in Handles : handle[h] = Closed
  /\ file' = [f \in Files |->
                IF \E n \in Names : oFileList[n] = f THEN Deleted(file[f]) ELSE file[f]]
  /\ oFileList' = [n \in Names |-> NULL]
  /\ UNCHANGED <<handle, callers, job>>
----------------------------------------------------------------------------
\* VSIMemHandle::Close: the load of nRefCount, and the store.
Close(t, h) ==
  LET f == handle[h].file
  IN /\ Has(t, h)
     /\ handle' = [handle EXCEPT ![h] = Closed]
     /\ job' = [job EXCEPT ![t] = [Idle EXCEPT !.step = "close", !.file = f,
                                     !.refs = file[f].refs]]
     /\ UNCHANGED <<oFileList, file, callers>>

CloseDone(t) ==
  /\ job[t].step = "close"
  /\ file' = [file EXCEPT ![job[t].file] =
                Released([@ EXCEPT !.refs = job[t].refs])]
  /\ job' = [job EXCEPT ![t] = Idle]
  /\ UNCHANGED <<oFileList, handle, callers>>

\* Seek past the end extends a file that may be written, and else fails.
Seek(t, h, to) ==
  LET f == handle[h].file
      grows == to > file[f].length /\ handle[h].update
  IN /\ Has(t, h)
     /\ grows => OnlyUser(t, f)
     /\ file' = IF grows THEN [file EXCEPT ![f] = SetLength(@, to)] ELSE file
     /\ callers' = IF grows THEN CallersAfter(f, to) ELSE callers
     /\ handle' = [handle EXCEPT ![h].offset =
                     IF to > file[f].length /\ ~grows THEN file[f].length ELSE to]
     /\ UNCHANGED <<oFileList, job>>

\* A position that a truncation left behind the end makes nLength - nOffset
\* wrap around, and memcpy does not return.
Read(t, h, bytes) ==
  LET f == handle[h].file
      there == file[f].length - handle[h].offset
  IN /\ Has(t, h) /\ handle[h].offset <= file[f].length
     /\ handle' = [handle EXCEPT ![h].offset =
                     @ + IF bytes > there THEN there ELSE bytes]
     /\ UNCHANGED <<oFileList, file, callers, job>>

Write(t, h, bytes) ==
  LET f == handle[h].file
      end == handle[h].offset + bytes
      grows == end > file[f].length
  IN /\ Has(t, h) /\ handle[h].update
     /\ OnlyUser(t, f) /\ end <= MaxLength
     /\ file' = IF grows THEN [file EXCEPT ![f] = SetLength(@, end)] ELSE file
     /\ callers' = IF grows THEN CallersAfter(f, end) ELSE callers
     /\ handle' = [handle EXCEPT ![h].offset = end]
     /\ UNCHANGED <<oFileList, job>>
----------------------------------------------------------------------------
Init ==
  /\ oFileList = [n \in Names |-> NULL]
  /\ file = [f \in Files |-> NoFile]
  /\ handle = [h \in Handles |-> Closed]
  /\ callers = [f \in Files |-> "none"]
  /\ job = [t \in Threads |-> Idle]

Next ==
  \/ CleanUp
  \/ \E f \in Files : CallerFrees(f)
  \/ \E t \in Threads :
    \/ Open(t) \/ Mkdir(t)
    \/ \E n \in Normal : Unlink(t, n)
    \/ \E n \in Names : Seize(t, n)
    \/ \E n \in Names, f \in Files, take \in BOOLEAN :
         FileFromMemBuffer(t, n, f, take)
    \/ OpenMemBuffer(t) \/ MemBufferGone(t)
    \/ \E h \in Handles : Close(t, h)
    \/ CloseDone(t)
    \/ \E h \in Handles, n \in 0 .. MaxLength :
         Seek(t, h, n) \/ (n > 0 /\ (Read(t, h, n) \/ Write(t, h, n)))

Spec == Init /\ [][Next]_vars
----------------------------------------------------------------------------
\* A handle is on a file that exists until Close has returned, whoever
\* unlinks, replaces or closes that file meanwhile.
HandlesUsable ==
  /\ \A h \in Handles : handle[h] # Closed => Live(handle[h].file)
  /\ \A t \in Threads : job[t].step = "close" => Live(job[t].file)

\* nRefCount is never too low: the list, each handle and each thread that is
\* closing one are counted.  It may be too high, of a file that was replaced
\* in the list or of which two decrements were one: that file is never freed.
RefsEnough ==
  \A f \in Files : Live(f) =>
    file[f].refs >=
      Cardinality(Opened(f)) + Cardinality({n \in Names : oFileList[n] = f})
        + Cardinality(Closing(f))

\* The memory of a file has one owner: the file, or the caller who lent or
\* seized it.  What the caller lent is freed when the file outgrows it, and
\* the block the file has then belongs to nobody; no file uses what was freed.
MemoryOwnedOnce ==
  \A f \in Files :
    /\ callers[f] = "none" <=> file[f].owns \/ file[f].data = "none"
    /\ file[f].data = "borrowed" => callers[f] = "valid"
=============================================================================
