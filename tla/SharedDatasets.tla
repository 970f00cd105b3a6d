--------------------------- MODULE SharedDatasets ---------------------------
(***************************************************************************)
(* Datasets that are opened once and shared: GDALOpenShared, MarkAsShared, *)
(* Reference, Dereference, GDALClose and the destructor of GDALDataset     *)
(* (gcore/gdaldataset.cpp), with the callers that share: VRT sources,      *)
(* warped VRTs, geolocation transformers, and the dataset pool, in which a *)
(* thread opens files on behalf of another one.                            *)
(*                                                                         *)
(* hDLMutex is held by GDALClose and by each access to the two sets, and   *)
(* by the pool while it opens a file; GDALOpenShared gives it up between   *)
(* its lookup, the opening and MarkAsShared.  Reference and Dereference do *)
(* not take it: a load and a store of nRefCount that anyone can come       *)
(* between.                                                                *)
(***************************************************************************)
EXTENDS Integers, FiniteSets, Functions

CONSTANTS
  Threads,      \* the threads, named by their PIDs
  Impersonated, \* those that created the proxies the pool opens files for
  Unlocked,     \* those that create and drop sources, warpers, transformers
  Files,        \* pszFilename
  Accesses,     \* the accesses asked for
  Datasets,     \* the GDALDataset objects
  MaxHandles,   \* bound: handles for one thread on one dataset
  None          \* NULL, and the PID -1

Modes == {"ReadOnly", "Update"}
Users == {"own", "pool"}
Drops == {"source", "warped", "geoloc"}

ASSUME SharedAssumption ==
  /\ Impersonated \subseteq Threads /\ Unlocked \subseteq Threads
  /\ Accesses \subseteq Modes
  /\ MaxHandles \in Nat \ {0}
  /\ None \notin Threads \cup Files \cup Datasets
  /\ IsFiniteSet(Threads)

VARIABLES
  mutex,     \* the thread inside the pool, which holds hDLMutex, or None
  ds,        \* ds[d]: the object d; it is in phAllDatasetSet while "open"
  sharedSet, \* phSharedDatasetSet
  handles,   \* handles[u][p][d]: how often d was got for thread p, by itself
             \* or through the pool, and not given back
  job        \* job[t]: what t is doing

vars == <<mutex, ds, sharedSet, handles, job>>
----------------------------------------------------------------------------
Unborn == [state |-> "unborn", file |-> None, access |-> "ReadOnly",
           refs |-> 0, shared |-> FALSE, creator |-> None]

Idle == [step |-> "idle", user |-> "own", pid |-> None, file |-> None,
         access |-> "ReadOnly", ds |-> None, count |-> 0, drop |-> "source"]

NewDataset(f, access) ==
  [Unborn EXCEPT !.state = "open", !.file = f, !.access = access, !.refs = 1]
Opening(u, p, f, a) ==
  [Idle EXCEPT !.step = "open", !.user = u, !.pid = p, !.file = f, !.access = a]

Open(d) == ds[d].state = "open"
MutexFree(t) == mutex \in {None, t}

\* What the two sets and GDALSharedDatasetEqualFunc are searched for.
Entries(p, f, a) == {e \in sharedSet : e.pid = p /\ e.file = f /\ e.access = a}

\* Mutant: the datasets of all threads are looked through.
MatchesOfAll(p, f, a) == {e \in sharedSet : e.file = f /\ e.access = a}

\* A request to read is content with a dataset open for update.
Matches(p, f, a) ==
  LET exact == Entries(p, f, a)
  IN IF exact = {} /\ a = "ReadOnly" THEN Entries(p, f, "Update") ELSE exact

Got(u, p, d) == [handles EXCEPT ![u][p][d] = @ + 1]
GaveBack(u, p, d) == [handles EXCEPT ![u][p][d] = @ - 1]

HandlesOn(d) ==
  SumFunction([x \in Users \X Threads |-> handles[x[1]][x[2]][d]])
----------------------------------------------------------------------------
\* GDALOpenShared by t on behalf of p; through the pool t keeps hDLMutex.
Request(t, u, p, f, a) ==
  /\ job[t] = Idle /\ MutexFree(t)
  /\ IF u = "own" THEN p = t ELSE p \in Impersonated

\* Mutant: the dataset that was found is returned without a reference.
FoundUnreferenced(t, u, p, f, a) ==
  /\ Request(t, u, p, f, a)
  /\ \E e \in Matches(p, f, a) :
       /\ handles[u][p][e.ds] < MaxHandles
       /\ handles' = Got(u, p, e.ds)
  /\ UNCHANGED <<mutex, ds, sharedSet, job>>

Found(t, u, p, f, a) ==
  /\ Request(t, u, p, f, a)
  /\ \E e \in Matches(p, f, a) :
       /\ handles[u][p][e.ds] < MaxHandles
       /\ ds' = [ds EXCEPT ![e.ds].refs = @ + 1]
       /\ handles' = Got(u, p, e.ds)
  /\ UNCHANGED <<mutex, sharedSet, job>>

NotFound(t, u, p, f, a) ==
  /\ Request(t, u, p, f, a)
  /\ Matches(p, f, a) = {}
  /\ job' = [job EXCEPT ![t] = Opening(u, p, f, a)]
  /\ mutex' = IF u = "pool" THEN t ELSE mutex
  /\ UNCHANGED <<ds, sharedSet, handles>>

Return(t) ==
  /\ job' = [job EXCEPT ![t] = Idle]
  /\ mutex' = IF mutex = t THEN None ELSE mutex

OpenFails(t) ==
  /\ job[t].step = "open"
  /\ Return(t)
  /\ UNCHANGED <<ds, sharedSet, handles>>

\* GDALOpen: the driver decides on the access and on the description.
Opened(t, d, access) ==
  /\ job[t].step = "open" /\ MutexFree(t)
  /\ ds[d] = Unborn
  /\ ds' = [ds EXCEPT ![d] = NewDataset(job[t].file, access)]

OpenNamed(t, d, access) ==
  /\ Opened(t, d, access)
  /\ job' = [job EXCEPT ![t].step = "mark", ![t].ds = d]
  /\ UNCHANGED <<mutex, sharedSet, handles>>

OpenRenamed(t, d, access) ==
  /\ Opened(t, d, access)
  /\ handles' = Got(job[t].user, job[t].pid, d)
  /\ Return(t)
  /\ UNCHANGED sharedSet

\* Mutant: the PID that the entry is made for is not kept.
MarkedAnonymous(t) ==
  LET d == job[t].ds
  IN /\ sharedSet' = sharedSet \cup
          IF Entries(job[t].pid, ds[d].file, ds[d].access) # {} THEN {}
          ELSE {[pid |-> job[t].pid, file |-> ds[d].file,
                 access |-> ds[d].access, ds |-> d]}
     /\ ds' = [ds EXCEPT ![d].shared = TRUE]

\* MarkAsShared; a second dataset with the key of another is left out.
Marked(t) ==
  LET d == job[t].ds
      refused == Entries(job[t].pid, ds[d].file, ds[d].access) # {}
  IN /\ sharedSet' = sharedSet \cup
          IF refused THEN {}
          ELSE {[pid |-> job[t].pid, file |-> ds[d].file,
                 access |-> ds[d].access, ds |-> d]}
     /\ ds' = [ds EXCEPT ![d].shared = TRUE,
                         ![d].creator = IF refused THEN @ ELSE job[t].pid]

MarkAsShared(t) ==
  /\ job[t].step = "mark" /\ MutexFree(t)
  /\ Marked(t)
  /\ handles' = Got(job[t].user, job[t].pid, job[t].ds)
  /\ Return(t)
----------------------------------------------------------------------------
\* The destructor, which finds the entry by the PID that made it.
EntryOf(d) == {e \in Entries(ds[d].creator, ds[d].file, ds[d].access) : e.ds = d}

Destroy(d) ==
  /\ ds' = [ds EXCEPT ![d] = [Unborn EXCEPT !.state = "deleted"]]
  /\ sharedSet' = sharedSet \ IF ds[d].shared THEN EntryOf(d) ELSE {}

GDALClose(d) ==
  IF ds[d].shared /\ ds[d].refs - 1 > 0
  THEN /\ ds' = [ds EXCEPT ![d].refs = @ - 1]
       /\ UNCHANGED sharedSet
  ELSE Destroy(d)

\* Threads that pass a dataset on do not use it at the same time.
NotInUse(d, t) == \A x \in Threads \ {t} : job[x].ds # d

\* Thread t gives back a handle of p; one that is not shared goes at the end.
Close(t, u, p, d) ==
  /\ job[t] = Idle /\ MutexFree(t) /\ NotInUse(d, t)
  /\ handles[u][p][d] > 0
  /\ ds[d].shared \/ HandlesOn(d) = 1
  /\ GDALClose(d)
  /\ handles' = GaveBack(u, p, d)
  /\ UNCHANGED <<mutex, job>>
----------------------------------------------------------------------------
\* Reference and Dereference: the load, and the store of the caller's kind.
Load(t, d, step, drop) ==
  /\ t \in Unlocked /\ job[t] = Idle
  /\ handles["own"][t][d] > 0
  /\ job' = [job EXCEPT ![t] = [Idle EXCEPT !.step = step, !.ds = d,
               !.count = ds[d].refs, !.drop = drop]]
  /\ UNCHANGED <<mutex, ds, sharedSet, handles>>

\* AddSimpleSource, GDALCreateGeoLocTransformer on its base dataset.
AddReference(t, d) ==
  /\ handles["own"][t][d] < MaxHandles
  /\ Load(t, d, "reference", "source")

\* ~VRTSimpleSource of a dataset that is not shared, which is not closed even
\* when that was the last reference, ~VRTWarpedDataset, and
\* GDALDestroyGeoLocTransformer.
Drop(t, d, drop) ==
  /\ drop = "source" => ~ds[d].shared
  /\ Load(t, d, "dereference", drop)

StoreReference(t) ==
  /\ job[t].step = "reference"
  /\ ds' = [ds EXCEPT ![job[t].ds].refs = job[t].count + 1]
  /\ handles' = Got("own", t, job[t].ds)
  /\ job' = [job EXCEPT ![t] = Idle]
  /\ UNCHANGED <<mutex, sharedSet>>

\* Mutant: the last reference is dropped without closing the dataset.
StoreDereferenceOnly(t) ==
  /\ job[t].step = "dereference"
  /\ ds' = [ds EXCEPT ![job[t].ds].refs = job[t].count - 1]
  /\ handles' = GaveBack("own", t, job[t].ds)
  /\ job' = [job EXCEPT ![t] = Idle]
  /\ UNCHANGED <<mutex, sharedSet>>

StoreDereference(t) ==
  LET left == job[t].count - 1
  IN /\ job[t].step = "dereference"
     /\ ds' = [ds EXCEPT ![job[t].ds].refs = left]
     /\ handles' = GaveBack("own", t, job[t].ds)
     /\ job' = [job EXCEPT ![t] =
          IF left > 0 \/ job[t].drop = "source" THEN Idle
          ELSE [job[t] EXCEPT !.step = job[t].drop]]
     /\ UNCHANGED <<mutex, sharedSet>>

\* ~VRTWarpedDataset gives GDALClose a reference to take away again ...
Reopen(t) ==
  /\ job[t].step = "warped"
  /\ ds' = [ds EXCEPT ![job[t].ds].refs = @ + 1]
  /\ job' = [job EXCEPT ![t].step = "geoloc"]
  /\ UNCHANGED <<mutex, sharedSet, handles>>

\* ... and GDALDestroyGeoLocTransformer lets the count go below zero.
CloseDropped(t) ==
  /\ job[t].step = "geoloc" /\ MutexFree(t)
  /\ GDALClose(job[t].ds)
  /\ job' = [job EXCEPT ![t] = Idle]
  /\ UNCHANGED <<mutex, handles>>
----------------------------------------------------------------------------
Init ==
  /\ mutex = None
  /\ ds = [d \in Datasets |-> Unborn]
  /\ sharedSet = {}
  /\ handles = [u \in Users |-> [p \in Threads |-> [d \in Datasets |-> 0]]]
  /\ job = [t \in Threads |-> Idle]

Next ==
  \E t \in Threads :
    \/ \E u \in Users, p \in Threads, f \in Files, a \in Accesses :
         Found(t, u, p, f, a) \/ NotFound(t, u, p, f, a)
    \/ OpenFails(t) \/ MarkAsShared(t)
    \/ \E d \in Datasets, access \in Modes :
         OpenNamed(t, d, access) \/ OpenRenamed(t, d, access)
    \/ \E u \in Users, p \in Threads, d \in Datasets : Close(t, u, p, d)
    \/ \E d \in Datasets : AddReference(t, d)
    \/ \E d \in Datasets, drop \in Drops : Drop(t, d, drop)
    \/ StoreReference(t) \/ StoreDereference(t)
    \/ Reopen(t) \/ CloseDropped(t)

Spec == Init /\ [][Next]_vars
----------------------------------------------------------------------------
\* Whoever was given a dataset can use it until it is given back: no sequence
\* of opening, sharing, closing by other threads and refused MarkAsShared
\* deletes it before.
HeldIsOpen ==
  \A u \in Users, p \in Threads, d \in Datasets :
    handles[u][p][d] > 0 => Open(d)

\* nRefCount is the number of handles, so that the last one closes the
\* dataset; a dataset that is being opened or dropped has the thread that does
\* it instead.  No shared one is left open with nobody to close it.  One that
\* is not shared may be: ~VRTSimpleSource only takes its reference away.
RefsMatchHandles ==
  \A d \in Datasets : Open(d) =>
    IF \E t \in Threads : job[t].ds = d /\ job[t].step \in {"mark"} \cup Drops
    THEN HandlesOn(d) = 0
    ELSE ds[d].refs = HandlesOn(d) /\ (ds[d].shared => ds[d].refs > 0)

\* What GDALOpenShared finds in the set exists, is the file asked for, and
\* its destructor will find the entry, whichever thread runs it and although
\* another dataset of that file was refused by MarkAsShared; a dataset that was
\* not refused is found until it is closed.
EntriesValid ==
  /\ \A e \in sharedSet :
       /\ Open(e.ds) /\ ds[e.ds].shared
       /\ ds[e.ds].creator = e.pid
       /\ ds[e.ds].file = e.file /\ ds[e.ds].access = e.access
  /\ \A d \in Datasets : Open(d) /\ ds[d].creator # None =>
       \E e \in sharedSet : e.ds = d

\* "If GDALOpenShared() is called on the same pszFilename from two different
\* threads, a different GDALDataset object will be returned": the thread the
\* pool opens a file for counts, not the one that runs it.
ThreadsApart ==
  \A u, v \in Users, p, q \in Threads, d \in Datasets :
    handles[u][p][d] > 0 /\ handles[v][q][d] > 0 => p = q
=============================================================================
