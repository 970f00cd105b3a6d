------------------------ MODULE SharedDatasetsProofs ------------------------
(***************************************************************************)
(* For any threads, files and datasets: what GDALOpenShared finds in the   *)
(* set of shared datasets is open and is what was asked for, and two       *)
(* threads are never given the same dataset, although GDALOpenShared gives *)
(* hDLMutex up between its lookup and MarkAsShared, and whatever counts    *)
(* Reference and Dereference lose to each other.                           *)
(* Unless the pool opens files for a thread that itself counts references  *)
(* without hDLMutex, what somebody holds is open, and nRefCount is the     *)
(* number of those who do.                                                 *)
(*                                                                         *)
(* The invariant says of each dataset what its object, its entry, those    *)
(* who hold it and the calls under way agree on.  A step is about one      *)
(* dataset and leaves what is said of the others alone.                    *)
(***************************************************************************)
EXTENDS SharedDatasets, ListsAndSums

Steps == {"idle", "open", "mark", "reference", "dereference", "warped", "geoloc"}

DatasetType ==
  [state : {"unborn", "open", "deleted"}, file : Files \cup {None},
   access : Modes, refs : Int, shared : BOOLEAN, creator : Threads \cup {None}]
EntryType == [pid : Threads, file : Files, access : Modes, ds : Datasets]
HandlesType == [Users -> [Threads -> [Datasets -> Nat]]]
JobType ==
  [step : Steps, user : Users, pid : Threads \cup {None},
   file : Files \cup {None}, access : Modes, ds : Datasets \cup {None},
   count : Int, drop : Drops]

\* A call that opens a file knows for whom; any other one, for what dataset.
JobTyped(j) ==
  /\ j \in JobType
  /\ j.step \in {"open", "mark"} => j.pid \in Threads /\ j.file \in Files
  /\ j.step \in {"idle", "open"} <=> j.ds = None

Typed ==
  /\ ds \in [Datasets -> DatasetType]
  /\ sharedSet \subseteq EntryType
  /\ handles \in HandlesType
  /\ job \in [Threads -> JobType] /\ \A t \in Threads : JobTyped(job[t])

Held(d) == \E u \in Users, p \in Threads : handles[u][p][d] > 0

\* The entry of d is one of its creator, under its own key ...
Entered(d) ==
  /\ Open(d) => ds[d].file \in Files
  /\ \A e \in sharedSet : e.ds = d =>
       /\ Open(d) /\ ds[d].shared /\ ds[d].creator = e.pid
       /\ ds[d].file = e.file /\ ds[d].access = e.access
  /\ Open(d) /\ ds[d].creator # None => \E e \in sharedSet : e.ds = d

\* ... only its opener knows a dataset that is not marked yet ...
OpenedByOne(d) ==
  \A t \in Threads : job[t].step = "mark" /\ job[t].ds = d =>
    /\ Open(d) /\ ds[d].creator = None /\ ~Held(d)
    /\ \A x \in Threads : job[x].ds = d => x = t

Unknown(d) ==
  ds[d].state = "unborn" => ~Held(d) /\ \A t \in Threads : job[t].ds # d

\* ... who changes the count holds it ...
CountedByHolder(d) ==
  \A t \in Threads : job[t].ds = d /\ job[t].step \in {"reference", "dereference"} =>
    handles["own"][t][d] > 0

\* ... and all who hold it do so for one thread, the creator of the entry.
HeldForOne(d) ==
  \A u \in Users, p \in Threads : handles[u][p][d] > 0 =>
    /\ ds[d].creator \in {None, p}
    /\ \A v \in Users, q \in Threads : handles[v][q][d] > 0 => p = q

Consistent(d) ==
  /\ Entered(d) /\ OpenedByOne(d) /\ Unknown(d)
  /\ CountedByHolder(d) /\ HeldForOne(d)

SharedInv == Typed /\ \A d \in Datasets : Consistent(d)

\* What a step about d does not do.
OthersKept(d) ==
  /\ \A g \in Datasets \ {d} : ds'[g] = ds[g]
  /\ \A g \in Datasets \ {d}, u \in Users, p \in Threads :
       handles'[u][p][g] = handles[u][p][g]
  /\ \A e \in EntryType : e.ds # d => (e \in sharedSet' <=> e \in sharedSet)
  /\ \A t \in Threads : \/ job'[t] = job[t]
                        \/ {job[t].ds, job'[t].ds} \subseteq {d, None}
----------------------------------------------------------------------------
LEMMA Constants ==
  /\ None \notin Threads /\ None \notin Files /\ None \notin Datasets
  /\ Impersonated \subseteq Threads /\ Accesses \subseteq Modes
BY SharedAssumption

LEMMA IdleIs == JobTyped(Idle) /\ Idle.step = "idle" /\ Idle.ds = None
BY DEF JobTyped, Idle, JobType, Steps, Users, Modes, Drops

LEMMA UnbornIs ==
  /\ Unborn \in DatasetType
  /\ Unborn.state = "unborn" /\ Unborn.creator = None /\ Unborn.shared = FALSE
BY DEF Unborn, DatasetType, Modes

LEMMA NewDatasetIs ==
  ASSUME NEW f \in Files, NEW access \in Modes
  PROVE  /\ NewDataset(f, access) \in DatasetType
         /\ NewDataset(f, access).state = "open" /\ NewDataset(f, access).file = f
         /\ NewDataset(f, access).access = access
         /\ NewDataset(f, access).creator = None
<1>1. PICK r \in DatasetType : r = Unborn
  BY UnbornIs
<1>2. NewDataset(f, access) =
        [r EXCEPT !.state = "open", !.file = f, !.access = access, !.refs = 1]
  BY <1>1 DEF NewDataset
<1>3. f \in Files \cup {None} /\ 1 \in Int /\ r.creator = None
  BY <1>1, UnbornIs
<1>4. PICK d : d = NewDataset(f, access)
  OBVIOUS
<1>5. /\ d.state = "open" /\ d.file = f /\ d.access = access /\ d.refs = 1
      /\ d.shared = r.shared /\ d.creator = r.creator
  BY <1>2, <1>4 DEF DatasetType
<1>6. d \in DatasetType
  BY <1>2, <1>3, <1>4 DEF DatasetType
<1> QED BY <1>3, <1>4, <1>5, <1>6

\* A call that opens a file.
LEMMA OpeningIs ==
  ASSUME NEW u \in Users, NEW p \in Threads, NEW f \in Files, NEW a \in Modes
  PROVE  JobTyped(Opening(u, p, f, a)) /\ Opening(u, p, f, a).ds = None
<1> DEFINE j == Opening(u, p, f, a)
<1>1. PICK i \in JobType : i = Idle
  BY IdleIs DEF JobTyped
<1>2. j = [i EXCEPT !.step = "open", !.user = u, !.pid = p, !.file = f, !.access = a]
  BY <1>1 DEF Opening
<1> HIDE DEF j
<1>3. "open" \in Steps /\ p \in Threads \cup {None} /\ f \in Files \cup {None}
  BY DEF Steps
<1>4. /\ j \in JobType /\ j.step = "open" /\ j.pid = p /\ j.file = f /\ j.ds = i.ds
  BY <1>2, <1>3 DEF JobType
<1>5. JobTyped(j) /\ j.ds = None
  BY <1>1, <1>4, IdleIs DEF JobTyped
<1> QED BY <1>5 DEF j

\* One more handle, or one less.
LEMMA GotIs ==
  ASSUME Typed, NEW u \in Users, NEW p \in Threads, NEW d \in Datasets
  PROVE  /\ Got(u, p, d) \in HandlesType
         /\ \A v \in Users, q \in Threads, g \in Datasets :
              Got(u, p, d)[v][q][g] =
                IF v = u /\ q = p /\ g = d THEN handles[u][p][d] + 1
                ELSE handles[v][q][g]
BY DEF Typed, HandlesType, Got

LEMMA GaveBackIs ==
  ASSUME Typed, NEW u \in Users, NEW p \in Threads, NEW d \in Datasets,
         handles[u][p][d] > 0
  PROVE  /\ GaveBack(u, p, d) \in HandlesType
         /\ \A v \in Users, q \in Threads, g \in Datasets :
              GaveBack(u, p, d)[v][q][g] =
                IF v = u /\ q = p /\ g = d THEN handles[u][p][d] - 1
                ELSE handles[v][q][g]
BY DEF Typed, HandlesType, GaveBack

LEMMA HandleIsNat ==
  ASSUME Typed, NEW u \in Users, NEW p \in Threads, NEW d \in Datasets
  PROVE  handles[u][p][d] \in Nat
BY DEF Typed, HandlesType

\* What is said of the datasets that a step is not about stays true.
LEMMA OthersConsistent ==
  ASSUME NEW d \in Datasets \cup {None}, NEW g \in Datasets \ {d},
         Typed, Typed', OthersKept(d), Consistent(g)
  PROVE  Consistent(g)'
<1>1. ds'[g] = ds[g]
  BY DEF OthersKept
<1>2. \A u \in Users, p \in Threads : handles'[u][p][g] = handles[u][p][g]
  BY DEF OthersKept
<1>3. \A e \in EntryType : e.ds = g => (e \in sharedSet' <=> e \in sharedSet)
  BY DEF OthersKept
<1>4. \A t \in Threads : /\ job'[t].ds = g <=> job[t].ds = g
                         /\ job'[t].ds = g => job'[t] = job[t]
  BY Constants DEF OthersKept
<1>5. sharedSet \subseteq EntryType /\ sharedSet' \subseteq EntryType
  BY DEF Typed
<1>6. Held(g)' <=> Held(g)
  BY <1>2 DEF Held
<1>7. Entered(g)'
  BY <1>1, <1>3, <1>5 DEF Consistent, Entered, Open
<1>8. OpenedByOne(g)' /\ Unknown(g)'
  BY <1>1, <1>4, <1>6 DEF Consistent, OpenedByOne, Unknown, Open
<1>9. CountedByHolder(g)'
  BY <1>2, <1>4 DEF Consistent, CountedByHolder, Users
<1>10. HeldForOne(g)'
  BY <1>1, <1>2 DEF Consistent, HeldForOne
<1> QED BY <1>7, <1>8, <1>9, <1>10 DEF Consistent

LEMMA StepConsistent ==
  ASSUME SharedInv, NEW d \in Datasets, OthersKept(d), Typed', Consistent(d)'
  PROVE  SharedInv'
BY OthersConsistent DEF SharedInv

\* A step of a call that has no dataset yet.
LEMMA NothingOpened ==
  ASSUME SharedInv, NEW t \in Threads, NEW j, JobTyped(j), j.ds = None,
         job[t].ds = None, job' = [job EXCEPT ![t] = j],
         UNCHANGED <<ds, sharedSet, handles>>
  PROVE  SharedInv'
<1>1. Typed
  BY DEF SharedInv
<1>2. \A x \in Threads : job'[x] = IF x = t THEN j ELSE job[x]
  BY <1>1 DEF Typed
<1>3. Typed'
  <2>1. job' \in [Threads -> JobType]
    BY <1>1 DEF Typed, JobTyped
  <2>2. \A x \in Threads : JobTyped(job'[x])
    BY <1>1, <1>2 DEF Typed
  <2> QED BY <1>1, <2>1, <2>2 DEF Typed, JobTyped
<1>4. OthersKept(None)
  BY <1>2 DEF OthersKept
<1> QED BY <1>1, <1>3, <1>4, OthersConsistent, Constants DEF SharedInv

\* A step of t about d has the type of each variable and what is said of d to
\* be looked at.
LEMMA StepAbout ==
  ASSUME SharedInv, NEW t \in Threads, NEW d \in Datasets, NEW j,
         ds' \in [Datasets -> DatasetType],
         \A g \in Datasets \ {d} : ds'[g] = ds[g],
         sharedSet' \subseteq EntryType,
         \A e \in EntryType : e.ds # d => (e \in sharedSet' <=> e \in sharedSet),
         handles' \in HandlesType,
         \A g \in Datasets \ {d}, u \in Users, p \in Threads :
           handles'[u][p][g] = handles[u][p][g],
         JobTyped(j), job' = [job EXCEPT ![t] = j],
         {job[t].ds, j.ds} \subseteq {d, None},
         Consistent(d)'
  PROVE  SharedInv'
<1>1. Typed
  BY DEF SharedInv
<1>2. \A x \in Threads : job'[x] = IF x = t THEN j ELSE job[x]
  BY <1>1 DEF Typed
<1>3. Typed'
  <2>1. job' \in [Threads -> JobType]
    BY <1>1 DEF Typed, JobTyped
  <2>2. \A x \in Threads : JobTyped(job'[x])
    BY <1>1, <1>2 DEF Typed
  <2> QED BY <2>1, <2>2 DEF Typed, JobTyped
<1>4. OthersKept(d)
  BY <1>2 DEF OthersKept
<1> QED BY <1>3, <1>4, StepConsistent

\* The object of d is the same but for its count.
SameObject(d) ==
  /\ ds' \in [Datasets -> DatasetType]
  /\ \A g \in Datasets \ {d} : ds'[g] = ds[g]
  /\ ds'[d].state = ds[d].state /\ ds'[d].file = ds[d].file
  /\ ds'[d].access = ds[d].access /\ ds'[d].shared = ds[d].shared
  /\ ds'[d].creator = ds[d].creator
  /\ UNCHANGED sharedSet

LEMMA CountChanged ==
  ASSUME Typed, NEW d \in Datasets, NEW n \in Int,
         ds' = [ds EXCEPT ![d].refs = n], UNCHANGED sharedSet
  PROVE  SameObject(d)
BY DEF Typed, DatasetType, SameObject

\* Nobody marks a dataset that somebody holds, or has another job with.
LEMMA NotMarked ==
  ASSUME SharedInv, NEW d \in Datasets,
         Held(d) \/ \E t \in Threads : job[t].ds = d /\ job[t].step # "mark"
  PROVE  /\ ds[d].state # "unborn"
         /\ \A x \in Threads : job[x].ds = d => job[x].step # "mark"
<1>1. OpenedByOne(d) /\ Unknown(d)
  BY DEF SharedInv, Consistent
<1> QED BY <1>1 DEF OpenedByOne, Unknown

\* A step of t that changes the count and who holds d, which nobody marks.
LEMMA CountStep ==
  ASSUME SharedInv, NEW t \in Threads, NEW d \in Datasets, NEW j,
         SameObject(d), ds[d].state # "unborn",
         \A x \in Threads : job[x].ds = d => job[x].step # "mark",
         handles' \in HandlesType,
         \A g \in Datasets \ {d}, u \in Users, p \in Threads :
           handles'[u][p][g] = handles[u][p][g],
         JobTyped(j), job' = [job EXCEPT ![t] = j],
         {job[t].ds, j.ds} \subseteq {d, None}, j.step # "mark",
         CountedByHolder(d)', HeldForOne(d)'
  PROVE  SharedInv'
<1>1. Typed /\ Consistent(d)
  BY DEF SharedInv
<1>2. \A x \in Threads : job'[x] = IF x = t THEN j ELSE job[x]
  BY <1>1 DEF Typed
<1>3. Entered(d)'
  BY <1>1 DEF Consistent, Entered, SameObject, Open
<1>4. OpenedByOne(d)' /\ Unknown(d)'
  BY <1>2 DEF OpenedByOne, Unknown, SameObject
<1>5. Consistent(d)'
  BY <1>3, <1>4 DEF Consistent
<1>6. /\ ds' \in [Datasets -> DatasetType] /\ sharedSet' \subseteq EntryType
      /\ \A g \in Datasets \ {d} : ds'[g] = ds[g]
      /\ \A e \in EntryType : e.ds # d => (e \in sharedSet' <=> e \in sharedSet)
  BY <1>1 DEF SameObject, Typed
<1> QED BY <1>5, <1>6, StepAbout

\* Nobody comes to hold d.
LEMMA HeldForOneStill ==
  ASSUME SharedInv, NEW d \in Datasets, ds'[d].creator \in {ds[d].creator, None},
         \A u \in Users, p \in Threads : handles'[u][p][d] > 0 => handles[u][p][d] > 0
  PROVE  HeldForOne(d)'
<1>1. HeldForOne(d)
  BY DEF SharedInv, Consistent
<1> QED BY <1>1 DEF HeldForOne

\* GDALClose of a dataset that nobody marks, whether it is the last or not.
LEMMA GDALCloseStep ==
  ASSUME SharedInv, NEW t \in Threads, NEW d \in Datasets, NEW j,
         GDALClose(d), ds[d].state # "unborn",
         \A x \in Threads : job[x].ds = d => job[x].step # "mark",
         handles' \in HandlesType,
         \A g \in Datasets \ {d}, u \in Users, p \in Threads :
           handles'[u][p][g] = handles[u][p][g],
         \A u \in Users, p \in Threads : handles'[u][p][d] > 0 => handles[u][p][d] > 0,
         JobTyped(j), job' = [job EXCEPT ![t] = j],
         {job[t].ds, j.ds} \subseteq {d, None}, j.step # "mark",
         CountedByHolder(d)'
  PROVE  SharedInv'
<1>1. Typed /\ Consistent(d)
  BY DEF SharedInv
<1>2. CASE ds[d].shared /\ ds[d].refs - 1 > 0
  <2>1. ds' = [ds EXCEPT ![d].refs = ds[d].refs - 1] /\ UNCHANGED sharedSet
    BY <1>2 DEF GDALClose
  <2>2. ds[d].refs - 1 \in Int
    BY <1>1 DEF Typed, DatasetType
  <2>3. SameObject(d)
    BY <1>1, <2>1, <2>2, CountChanged
  <2>4. HeldForOne(d)'
    BY <2>3, HeldForOneStill DEF SameObject
  <2> QED BY <2>3, <2>4, CountStep
<1>3. CASE ~(ds[d].shared /\ ds[d].refs - 1 > 0)
  <2> DEFINE gone == [Unborn EXCEPT !.state = "deleted"]
  <2>1. /\ ds' = [ds EXCEPT ![d] = gone]
        /\ sharedSet' = sharedSet \ IF ds[d].shared THEN EntryOf(d) ELSE {}
    BY <1>3 DEF GDALClose, Destroy
  <2>2. gone \in DatasetType /\ gone.state = "deleted" /\ gone.creator = None
    <3>1. gone \in DatasetType /\ gone.state = "deleted" /\ gone.creator = Unborn.creator
      BY <1>1, UnbornIs DEF DatasetType
    <3> QED BY <3>1, UnbornIs
  <2> HIDE DEF gone
  <2>3. /\ ds' \in [Datasets -> DatasetType] /\ ds'[d] = gone
        /\ \A g \in Datasets \ {d} : ds'[g] = ds[g]
    BY <1>1, <2>1, <2>2 DEF Typed
  <2>4. /\ sharedSet' \subseteq EntryType
        /\ \A e \in EntryType : e.ds # d => (e \in sharedSet' <=> e \in sharedSet)
    BY <1>1, <2>1 DEF Typed, EntryOf
  <2>5. \A e \in sharedSet : e.ds = d => ds[d].shared /\ e \in EntryOf(d)
    BY <1>1 DEF Consistent, Entered, EntryOf, Entries
  <2>6. Entered(d)'
    BY <2>1, <2>2, <2>3, <2>5 DEF Entered, Open
  <2>7. \A x \in Threads : job'[x].ds = d => job'[x].step # "mark"
    BY <1>1 DEF Typed
  <2>8. OpenedByOne(d)' /\ Unknown(d)'
    BY <2>2, <2>3, <2>7 DEF OpenedByOne, Unknown
  <2>9. HeldForOne(d)'
    BY <2>2, <2>3, HeldForOneStill
  <2>10. Consistent(d)'
    BY <2>6, <2>8, <2>9 DEF Consistent
  <2> QED BY <2>3, <2>4, <2>10, StepAbout
<1> QED BY <1>2, <1>3
----------------------------------------------------------------------------
\* GDALOpenShared.
LEMMA FoundInv ==
  ASSUME SharedInv, NEW t \in Threads, NEW u \in Users, NEW p \in Threads,
         NEW f \in Files, NEW a \in Accesses, Found(t, u, p, f, a)
  PROVE  SharedInv'
<1>1. Typed
  BY DEF SharedInv
<1>2. PICK e \in Matches(p, f, a) :
        /\ ds' = [ds EXCEPT ![e.ds].refs = @ + 1]
        /\ handles' = Got(u, p, e.ds)
        /\ UNCHANGED <<mutex, sharedSet, job>>
  BY DEF Found
<1>3. e \in sharedSet /\ e.pid = p
  BY DEF Matches, Entries
<1>4. PICK d \in Datasets : d = e.ds
  BY <1>1, <1>3 DEF Typed, EntryType
<1>5. Consistent(d) /\ Open(d) /\ ds[d].creator = p
  BY <1>3, <1>4 DEF SharedInv, Consistent, Entered
<1>6. SameObject(d)
  <2>1. ds' = [ds EXCEPT ![d].refs = ds[d].refs + 1] /\ ds[d].refs + 1 \in Int
    BY <1>1, <1>2, <1>4 DEF Typed, DatasetType
  <2> QED BY <1>1, <1>2, <2>1, CountChanged
<1>7. /\ handles' \in HandlesType
      /\ \A v \in Users, q \in Threads, g \in Datasets :
           handles'[v][q][g] = IF v = u /\ q = p /\ g = d THEN handles[u][p][d] + 1
                               ELSE handles[v][q][g]
  BY <1>1, <1>2, <1>4, GotIs
<1>8. \A x \in Threads : job[x].ds = d => job[x].step # "mark"
  BY <1>3, <1>5, Constants DEF Consistent, OpenedByOne
<1>9. /\ job' = [job EXCEPT ![t] = Idle] /\ {job[t].ds, Idle.ds} \subseteq {d, None}
      /\ JobTyped(Idle) /\ Idle.step # "mark"
  BY <1>1, <1>2, IdleIs DEF Found, Request, Typed
<1>10. CountedByHolder(d)'
  <2> SUFFICES ASSUME NEW x \in Threads, job'[x].ds = d,
                      job'[x].step \in {"reference", "dereference"}
               PROVE  handles'["own"][x][d] > 0
    BY DEF CountedByHolder
  <2>1. handles["own"][x][d] > 0
    BY <1>2, <1>5 DEF Consistent, CountedByHolder
  <2> QED BY <1>1, <1>7, <2>1, HandleIsNat DEF Users
<1>11. HeldForOne(d)'
  <2>1. \A v \in Users, q \in Threads : handles[v][q][d] > 0 => q = p
    BY <1>5, Constants DEF Consistent, HeldForOne
  <2>2. \A v \in Users, q \in Threads : handles'[v][q][d] > 0 => q = p
    BY <1>7, <2>1
  <2> QED BY <1>5, <1>6, <2>2 DEF HeldForOne, SameObject
<1>12. ds[d].state # "unborn"
  BY <1>5 DEF Open
<1>13. \A g \in Datasets \ {d}, v \in Users, q \in Threads :
         handles'[v][q][g] = handles[v][q][g]
  BY <1>7
<1>14. handles' \in HandlesType
  BY <1>7
<1> QED BY <1>6, <1>8, <1>9, <1>10, <1>11, <1>12, <1>13, <1>14, CountStep

LEMMA NotFoundInv ==
  ASSUME SharedInv, NEW t \in Threads, NEW u \in Users, NEW p \in Threads,
         NEW f \in Files, NEW a \in Accesses, NotFound(t, u, p, f, a)
  PROVE  SharedInv'
<1> DEFINE j == Opening(u, p, f, a)
<1>1. /\ job[t] = Idle /\ job' = [job EXCEPT ![t] = j]
      /\ UNCHANGED <<ds, sharedSet, handles>>
  BY DEF NotFound, Request
<1>2. JobTyped(j) /\ j.ds = None
  BY OpeningIs, Constants
<1> HIDE DEF j
<1> QED BY <1>1, <1>2, IdleIs, NothingOpened

LEMMA OpenFailsInv ==
  ASSUME SharedInv, NEW t \in Threads, OpenFails(t) PROVE SharedInv'
<1>1. job[t].ds = None
  BY DEF SharedInv, Typed, JobTyped, OpenFails
<1> QED BY <1>1, IdleIs, NothingOpened DEF OpenFails, Return

\* GDALOpen makes a dataset that nobody knows.
LEMMA OpenedIs ==
  ASSUME SharedInv, NEW t \in Threads, NEW d \in Datasets, NEW access \in Modes,
         Opened(t, d, access)
  PROVE  /\ ds' \in [Datasets -> DatasetType]
         /\ \A g \in Datasets \ {d} : ds'[g] = ds[g]
         /\ ds'[d].state = "open" /\ ds'[d].file = job[t].file
         /\ ds'[d].access = access /\ ds'[d].creator = None
         /\ job[t].pid \in Threads /\ job[t].file \in Files /\ job[t].ds = None
         /\ ~Held(d) /\ \A x \in Threads : job[x].ds # d
         /\ \A e \in sharedSet : e.ds # d
<1>1. Typed /\ Consistent(d) /\ job[t].step = "open" /\ ds[d].state = "unborn"
  BY DEF SharedInv, Opened, Unborn
<1>2. job[t].pid \in Threads /\ job[t].file \in Files /\ job[t].ds = None
  BY <1>1 DEF Typed, JobTyped
<1> DEFINE new == NewDataset(job[t].file, access)
<1>4. /\ new \in DatasetType /\ new.state = "open" /\ new.file = job[t].file
      /\ new.access = access /\ new.creator = None
  BY <1>2, NewDatasetIs
<1>5. ds' = [ds EXCEPT ![d] = new]
  BY DEF Opened
<1> HIDE DEF new
<1>6. /\ ds' \in [Datasets -> DatasetType] /\ ds'[d] = new
      /\ \A g \in Datasets \ {d} : ds'[g] = ds[g]
  BY <1>1, <1>4, <1>5 DEF Typed
<1>7. ~Held(d) /\ (\A x \in Threads : job[x].ds # d) /\ (\A e \in sharedSet : e.ds # d)
  BY <1>1 DEF Consistent, Unknown, Entered, Open
<1> QED BY <1>2, <1>4, <1>6, <1>7

LEMMA OpenNamedInv ==
  ASSUME SharedInv, NEW t \in Threads, NEW d \in Datasets, NEW access \in Modes,
         OpenNamed(t, d, access)
  PROVE  SharedInv'
<1> DEFINE j == [job[t] EXCEPT !.step = "mark", !.ds = d]
<1>1. /\ Opened(t, d, access) /\ UNCHANGED <<sharedSet, handles>>
      /\ Typed /\ job[t] \in JobType
  BY DEF OpenNamed, SharedInv, Typed
<1>2. job' = [job EXCEPT ![t] = j]
  BY <1>1 DEF OpenNamed
<1>3. JobTyped(j) /\ j.step = "mark" /\ j.ds = d
  BY <1>1, OpenedIs, Constants DEF JobTyped, JobType, Steps
<1> HIDE DEF j
<1>4. \A x \in Threads : job'[x] = IF x = t THEN j ELSE job[x]
  BY <1>1, <1>2 DEF Typed
<1>5. Consistent(d)'
  <2>1. Entered(d)'
    BY <1>1, OpenedIs DEF Entered
  <2>2. ~Held(d)' /\ \A u \in Users, p \in Threads : ~(handles'[u][p][d] > 0)
    BY <1>1, OpenedIs DEF Held
  <2>3. \A x \in Threads : job'[x].ds = d => x = t
    BY <1>1, <1>4, OpenedIs
  <2>4. OpenedByOne(d)'
    BY <1>1, <2>2, <2>3, OpenedIs DEF OpenedByOne, Open
  <2>5. Unknown(d)'
    BY <1>1, OpenedIs DEF Unknown
  <2>6. CountedByHolder(d)'
    BY <1>3, <1>4, <2>3 DEF CountedByHolder
  <2>7. HeldForOne(d)'
    BY <2>2 DEF HeldForOne
  <2> QED BY <2>1, <2>4, <2>5, <2>6, <2>7 DEF Consistent
<1>6. /\ sharedSet' \subseteq EntryType /\ handles' \in HandlesType
      /\ \A e \in EntryType : e.ds # d => (e \in sharedSet' <=> e \in sharedSet)
      /\ \A g \in Datasets \ {d}, u \in Users, p \in Threads :
           handles'[u][p][g] = handles[u][p][g]
  BY <1>1 DEF Typed
<1>7. /\ {job[t].ds, j.ds} \subseteq {d, None} /\ JobTyped(j)
      /\ ds' \in [Datasets -> DatasetType] /\ \A g \in Datasets \ {d} : ds'[g] = ds[g]
  BY <1>1, <1>3, OpenedIs
<1> QED BY <1>2, <1>5, <1>6, <1>7, StepAbout

\* The first handle on a dataset that nobody held, and the end of the call.
LEMMA FirstHandle ==
  ASSUME SharedInv, NEW t \in Threads, NEW d \in Datasets, NEW u \in Users,
         NEW p \in Threads, ~Held(d), job[t].ds \in {d, None},
         \A x \in Threads : job[x].ds = d => x = t,
         ds' \in [Datasets -> DatasetType],
         \A g \in Datasets \ {d} : ds'[g] = ds[g],
         ds'[d].state = "open", ds'[d].creator \in {None, p},
         sharedSet' \subseteq EntryType,
         \A e \in EntryType : e.ds # d => (e \in sharedSet' <=> e \in sharedSet),
         Entered(d)', handles' = Got(u, p, d), Return(t)
  PROVE  SharedInv'
<1>1. Typed
  BY DEF SharedInv
<1>2. /\ handles' \in HandlesType
      /\ \A v \in Users, q \in Threads, g \in Datasets :
           handles'[v][q][g] = IF v = u /\ q = p /\ g = d THEN handles[u][p][d] + 1
                               ELSE handles[v][q][g]
  BY <1>1, GotIs
<1>3. \A v \in Users, q \in Threads : handles'[v][q][d] > 0 => q = p
  BY <1>2 DEF Held
<1>4. \A x \in Threads : job'[x].ds # d
  BY <1>1, IdleIs, Constants DEF Typed, Return
<1>5. OpenedByOne(d)' /\ CountedByHolder(d)' /\ Unknown(d)'
  BY <1>4 DEF OpenedByOne, CountedByHolder, Unknown
<1>6. HeldForOne(d)'
  BY <1>3 DEF HeldForOne
<1>7. Consistent(d)'
  BY <1>5, <1>6 DEF Consistent
<1>8. /\ JobTyped(Idle) /\ job' = [job EXCEPT ![t] = Idle]
      /\ {job[t].ds, Idle.ds} \subseteq {d, None}
  BY IdleIs DEF Return
<1>9. /\ handles' \in HandlesType
      /\ \A g \in Datasets \ {d}, v \in Users, q \in Threads :
           handles'[v][q][g] = handles[v][q][g]
  BY <1>2
<1> QED BY <1>7, <1>8, <1>9, StepAbout

LEMMA OpenRenamedInv ==
  ASSUME SharedInv, NEW t \in Threads, NEW d \in Datasets, NEW access \in Modes,
         OpenRenamed(t, d, access)
  PROVE  SharedInv'
<1>1. /\ Opened(t, d, access) /\ UNCHANGED sharedSet /\ Return(t)
      /\ Typed /\ job[t].user \in Users
  BY DEF OpenRenamed, SharedInv, Typed, JobType
<1>2. PICK u \in Users, p \in Threads : handles' = Got(u, p, d)
  BY <1>1, OpenedIs DEF OpenRenamed
<1>3. /\ ds' \in [Datasets -> DatasetType]
      /\ \A g \in Datasets \ {d} : ds'[g] = ds[g]
      /\ ds'[d].state = "open" /\ ds'[d].creator \in {None, p}
      /\ ~Held(d) /\ job[t].ds \in {d, None}
      /\ \A x \in Threads : job[x].ds = d => x = t
  BY <1>1, OpenedIs
<1>4. Entered(d)'
  BY <1>1, OpenedIs DEF Entered
<1>5. /\ sharedSet' \subseteq EntryType
      /\ \A e \in EntryType : e.ds # d => (e \in sharedSet' <=> e \in sharedSet)
  BY <1>1 DEF Typed
<1> QED BY <1>1, <1>2, <1>3, <1>4, <1>5, FirstHandle

\* The dataset that was opened gets its creator and its entry, both or none.
LEMMA MarkAsSharedInv ==
  ASSUME SharedInv, NEW t \in Threads, MarkAsShared(t) PROVE SharedInv'
<1>1. Typed /\ JobTyped(job[t]) /\ job[t].step = "mark" /\ job[t] \in JobType
  BY DEF SharedInv, Typed, MarkAsShared
<1>2. PICK d \in Datasets : d = job[t].ds
  BY <1>1 DEF JobTyped, JobType
<1>3. PICK p \in Threads, u \in Users : p = job[t].pid /\ u = job[t].user
  BY <1>1 DEF JobTyped, JobType
<1>4. /\ Consistent(d) /\ Open(d) /\ ds[d].creator = None /\ ~Held(d)
      /\ \A x \in Threads : job[x].ds = d => x = t
  BY <1>1, <1>2 DEF SharedInv, Consistent, OpenedByOne
<1> DEFINE refused == Entries(p, ds[d].file, ds[d].access) # {}
           creator == IF refused THEN None ELSE p
           entry == [pid |-> p, file |-> ds[d].file, access |-> ds[d].access, ds |-> d]
<1>5. /\ sharedSet' = sharedSet \cup IF refused THEN {} ELSE {entry}
      /\ ds' = [ds EXCEPT ![d].shared = TRUE, ![d].creator = creator]
      /\ handles' = Got(u, p, d) /\ Return(t)
  BY <1>1, <1>2, <1>3, <1>4 DEF MarkAsShared, Marked, Typed, DatasetType
<1>6. creator \in Threads \cup {None}
  OBVIOUS
<1>7. entry.pid = p /\ entry.ds = d /\ entry.file = ds[d].file /\ entry.access = ds[d].access
  OBVIOUS
<1>8. ~refused => entry \in EntryType
  <2>1. ds[d].file \in Files /\ ds[d].access \in Modes
    BY <1>1, <1>4 DEF Consistent, Entered, Typed, DatasetType
  <2> QED BY <2>1 DEF EntryType
<1> HIDE DEF creator, entry, refused
<1>9. /\ ds' \in [Datasets -> DatasetType]
      /\ \A g \in Datasets \ {d} : ds'[g] = ds[g]
      /\ ds'[d].state = ds[d].state /\ ds'[d].file = ds[d].file
      /\ ds'[d].access = ds[d].access /\ ds'[d].shared = TRUE
      /\ ds'[d].creator = creator
  BY <1>1, <1>5, <1>6 DEF Typed, DatasetType
<1>10. /\ sharedSet' \subseteq EntryType
       /\ \A e \in EntryType : e.ds # d => (e \in sharedSet' <=> e \in sharedSet)
  BY <1>1, <1>5, <1>7, <1>8 DEF Typed
<1>11. \A e \in sharedSet : e.ds # d
  BY <1>1, <1>4, Constants DEF Consistent, Entered, Typed, EntryType
<1>12. Entered(d)'
  <2>1. \A e \in sharedSet' : e.ds = d => e = entry /\ ~refused
    BY <1>5, <1>11
  <2>2. /\ creator = IF refused THEN None ELSE p
        /\ ~refused => entry \in sharedSet'
    BY <1>5 DEF creator
  <2> QED BY <1>4, <1>7, <1>9, <2>1, <2>2 DEF Consistent, Entered, Open
<1>13. /\ ds'[d].state = "open" /\ ds'[d].creator \in {None, p}
       /\ job[t].ds \in {d, None} /\ handles' = Got(u, p, d) /\ Return(t)
  BY <1>2, <1>4, <1>5, <1>9 DEF Open, creator
<1> QED BY <1>4, <1>9, <1>10, <1>12, <1>13, FirstHandle
----------------------------------------------------------------------------
\* A handle is given back: who holds, and who changes the count, still holds.
LEMMA CloseInv ==
  ASSUME SharedInv, NEW t \in Threads, NEW u \in Users, NEW p \in Threads,
         NEW d \in Datasets, Close(t, u, p, d)
  PROVE  SharedInv'
<1>1. /\ Typed /\ Consistent(d) /\ GDALClose(d) /\ UNCHANGED job
      /\ handles[u][p][d] > 0 /\ handles' = GaveBack(u, p, d)
      /\ job[t] = Idle /\ \A x \in Threads \ {t} : job[x].ds # d
  BY DEF SharedInv, Close, NotInUse
<1>2. /\ handles' \in HandlesType
      /\ \A v \in Users, q \in Threads, g \in Datasets :
           handles'[v][q][g] = IF v = u /\ q = p /\ g = d THEN handles[u][p][d] - 1
                               ELSE handles[v][q][g]
  BY <1>1, GaveBackIs
<1>3. /\ \A g \in Datasets \ {d}, v \in Users, q \in Threads :
           handles'[v][q][g] = handles[v][q][g]
      /\ \A v \in Users, q \in Threads : handles'[v][q][d] > 0 => handles[v][q][d] > 0
  BY <1>1, <1>2
<1>4. /\ ds[d].state # "unborn"
      /\ \A x \in Threads : job[x].ds = d => job[x].step # "mark"
  BY <1>1, NotMarked DEF Held
<1>5. \A x \in Threads : job[x].ds # d
  BY <1>1, IdleIs, Constants
<1>6. CountedByHolder(d)'
  BY <1>1, <1>5 DEF CountedByHolder
<1>7. /\ JobTyped(Idle) /\ job' = [job EXCEPT ![t] = Idle] /\ Idle.step # "mark"
      /\ {job[t].ds, Idle.ds} \subseteq {d, None}
  BY <1>1, IdleIs DEF Typed
<1>8. handles' \in HandlesType /\ GDALClose(d)
  BY <1>1, <1>2
<1> QED BY <1>3, <1>4, <1>6, <1>7, <1>8, GDALCloseStep

\* Reference and Dereference: the load, by a thread that holds the dataset.
LEMMA LoadInv ==
  ASSUME SharedInv, NEW t \in Threads, NEW d \in Datasets,
         NEW step \in {"reference", "dereference"}, NEW drop \in Drops,
         Load(t, d, step, drop)
  PROVE  SharedInv'
<1> DEFINE j == [Idle EXCEPT !.step = step, !.ds = d, !.count = ds[d].refs, !.drop = drop]
<1>1. /\ Typed /\ Consistent(d) /\ job[t] = Idle /\ handles["own"][t][d] > 0
      /\ job' = [job EXCEPT ![t] = j] /\ UNCHANGED <<ds, sharedSet, handles>>
  BY DEF SharedInv, Load
<1>2. JobTyped(j) /\ j.step = step /\ j.ds = d
  <2>1. PICK i \in JobType : i = Idle
    BY IdleIs DEF JobTyped
  <2>2. step \in Steps /\ d \in Datasets \cup {None} /\ ds[d].refs \in Int
    BY <1>1 DEF Steps, Typed, DatasetType
  <2>3. j = [i EXCEPT !.step = step, !.ds = d, !.count = ds[d].refs, !.drop = drop]
    BY <2>1
  <2> HIDE DEF j
  <2>4. j \in JobType /\ j.step = step /\ j.ds = d
    BY <2>2, <2>3 DEF JobType
  <2> QED BY <2>4, Constants DEF JobTyped
<1> HIDE DEF j
<1>3. SameObject(d)
  BY <1>1 DEF SameObject, Typed
<1>4. /\ ds[d].state # "unborn"
      /\ \A x \in Threads : job[x].ds = d => job[x].step # "mark"
  BY <1>1, NotMarked DEF Held, Users
<1>5. CountedByHolder(d)'
  <2>1. \A x \in Threads : job'[x] = IF x = t THEN j ELSE job[x]
    BY <1>1 DEF Typed
  <2> QED BY <1>1, <2>1 DEF Consistent, CountedByHolder
<1>6. HeldForOne(d)'
  BY <1>1 DEF Consistent, HeldForOne
<1>7. /\ handles' \in HandlesType
      /\ \A g \in Datasets \ {d}, v \in Users, q \in Threads :
           handles'[v][q][g] = handles[v][q][g]
      /\ {job[t].ds, j.ds} \subseteq {d, None} /\ j.step # "mark"
      /\ job' = [job EXCEPT ![t] = j] /\ JobTyped(j)
  BY <1>1, <1>2, IdleIs DEF Typed
<1> QED BY <1>3, <1>4, <1>5, <1>6, <1>7, CountStep

\* What the steps that end a change of the count have in common: the dataset
\* that the call is about, and what is said of it.
LEMMA JobOf ==
  ASSUME SharedInv, NEW t \in Threads,
         job[t].step \in {"reference", "dereference", "warped", "geoloc"}
  PROVE  \E d \in Datasets :
           /\ d = job[t].ds /\ ds[d].state # "unborn"
           /\ \A x \in Threads : job[x].ds = d => job[x].step # "mark"
<1>1. JobTyped(job[t]) /\ job[t] \in JobType
  BY DEF SharedInv, Typed
<1>2. PICK d \in Datasets : d = job[t].ds
  BY <1>1 DEF JobTyped, JobType
<1> QED BY <1>2, NotMarked

LEMMA StoreReferenceInv ==
  ASSUME SharedInv, NEW t \in Threads, StoreReference(t) PROVE SharedInv'
<1>1. /\ Typed /\ job[t].step = "reference" /\ job[t].count + 1 \in Int
      /\ job' = [job EXCEPT ![t] = Idle] /\ UNCHANGED sharedSet
  BY DEF SharedInv, StoreReference, Typed, JobType
<1>2. PICK d \in Datasets :
        /\ d = job[t].ds /\ ds[d].state # "unborn"
        /\ \A x \in Threads : job[x].ds = d => job[x].step # "mark"
  BY <1>1, JobOf
<1>3. SameObject(d)
  <2>1. ds' = [ds EXCEPT ![d].refs = job[t].count + 1]
    BY <1>2 DEF StoreReference
  <2> QED BY <1>1, <2>1, CountChanged
<1>4. /\ handles' \in HandlesType
      /\ \A v \in Users, q \in Threads, g \in Datasets :
           handles'[v][q][g] = IF v = "own" /\ q = t /\ g = d THEN handles["own"][t][d] + 1
                               ELSE handles[v][q][g]
  BY <1>1, <1>2, GotIs DEF StoreReference, Users
<1>5. Consistent(d) /\ handles["own"][t][d] > 0
  BY <1>1, <1>2 DEF SharedInv, Consistent, CountedByHolder
<1>6. \A v \in Users, q \in Threads : handles'[v][q][d] > 0 <=> handles[v][q][d] > 0
  <2>1. handles["own"][t][d] + 1 > 0
    BY <1>1, <1>5, HandleIsNat DEF Users
  <2> QED BY <1>4, <1>5, <2>1
<1>7. HeldForOne(d)'
  BY <1>3, <1>6, HeldForOneStill DEF SameObject
<1>8. CountedByHolder(d)'
  <2>1. \A x \in Threads : job'[x] = IF x = t THEN Idle ELSE job[x]
    BY <1>1 DEF Typed
  <2> QED BY <1>5, <1>6, <2>1, IdleIs, Constants DEF Consistent, CountedByHolder, Users
<1>9. /\ handles' \in HandlesType
      /\ \A g \in Datasets \ {d}, v \in Users, q \in Threads :
           handles'[v][q][g] = handles[v][q][g]
      /\ JobTyped(Idle) /\ Idle.step # "mark" /\ {job[t].ds, Idle.ds} \subseteq {d, None}
  BY <1>2, <1>4, IdleIs
<1> QED BY <1>1, <1>2, <1>3, <1>7, <1>8, <1>9, CountStep

\* The thread that drops the last reference goes on to close the dataset.
LEMMA StoreDereferenceInv ==
  ASSUME SharedInv, NEW t \in Threads, StoreDereference(t) PROVE SharedInv'
<1>1. /\ Typed /\ job[t].step = "dereference" /\ job[t].count - 1 \in Int
      /\ job[t] \in JobType /\ JobTyped(job[t]) /\ UNCHANGED sharedSet
  BY DEF SharedInv, StoreDereference, Typed, JobType
<1>2. PICK d \in Datasets :
        /\ d = job[t].ds /\ ds[d].state # "unborn"
        /\ \A x \in Threads : job[x].ds = d => job[x].step # "mark"
  BY <1>1, JobOf
<1>3. SameObject(d)
  <2>1. ds' = [ds EXCEPT ![d].refs = job[t].count - 1]
    BY <1>2 DEF StoreDereference
  <2> QED BY <1>1, <2>1, CountChanged
<1>4. Consistent(d) /\ handles["own"][t][d] > 0
  BY <1>1, <1>2 DEF SharedInv, Consistent, CountedByHolder
<1>5. /\ handles' \in HandlesType
      /\ \A v \in Users, q \in Threads, g \in Datasets :
           handles'[v][q][g] = IF v = "own" /\ q = t /\ g = d THEN handles["own"][t][d] - 1
                               ELSE handles[v][q][g]
  <2>1. "own" \in Users /\ handles' = GaveBack("own", t, d)
    BY <1>2 DEF StoreDereference, Users
  <2> QED BY <1>1, <1>4, <2>1, GaveBackIs
<1>6. PICK j : /\ job' = [job EXCEPT ![t] = j] /\ JobTyped(j)
               /\ {job[t].ds, j.ds} \subseteq {d, None}
               /\ j.step \notin {"mark", "reference", "dereference"}
  <2>1. CASE job[t].count - 1 > 0 \/ job[t].drop = "source"
    BY <1>2, <2>1, IdleIs DEF StoreDereference
  <2>2. CASE ~(job[t].count - 1 > 0 \/ job[t].drop = "source")
    <3> DEFINE j == [job[t] EXCEPT !.step = job[t].drop]
    <3>1. job' = [job EXCEPT ![t] = j]
      BY <2>2 DEF StoreDereference
    <3>2. job[t].drop \in {"warped", "geoloc"} /\ job[t].drop \in Steps
      BY <1>1, <2>2 DEF JobType, Drops, Steps
    <3>3. j \in JobType /\ j.step = job[t].drop /\ j.ds = d
      BY <1>1, <1>2, <3>2 DEF JobType
    <3> HIDE DEF j
    <3>4. JobTyped(j) /\ j.step \notin {"mark", "reference", "dereference"}
      BY <3>2, <3>3, Constants DEF JobTyped
    <3> QED BY <1>2, <3>1, <3>3, <3>4
  <2> QED BY <2>1, <2>2
<1>7. HeldForOne(d)'
  <2>1. \A v \in Users, q \in Threads : handles'[v][q][d] > 0 => handles[v][q][d] > 0
    BY <1>4, <1>5
  <2> QED BY <1>3, <2>1, HeldForOneStill DEF SameObject
<1>8. CountedByHolder(d)'
  <2>1. \A x \in Threads : job'[x] = IF x = t THEN j ELSE job[x]
    BY <1>1, <1>6 DEF Typed
  <2> QED BY <1>4, <1>5, <1>6, <2>1 DEF Consistent, CountedByHolder, Users
<1>9. /\ handles' \in HandlesType /\ j.step # "mark"
      /\ \A g \in Datasets \ {d}, v \in Users, q \in Threads :
           handles'[v][q][g] = handles[v][q][g]
  BY <1>5, <1>6
<1> QED BY <1>2, <1>3, <1>6, <1>7, <1>8, <1>9, CountStep

LEMMA ReopenInv ==
  ASSUME SharedInv, NEW t \in Threads, Reopen(t) PROVE SharedInv'
<1> DEFINE j == [job[t] EXCEPT !.step = "geoloc"]
<1>1. /\ Typed /\ job[t].step = "warped" /\ job[t] \in JobType /\ JobTyped(job[t])
      /\ UNCHANGED <<sharedSet, handles>>
  BY DEF SharedInv, Reopen, Typed
<1>2. PICK d \in Datasets :
        /\ d = job[t].ds /\ ds[d].state # "unborn"
        /\ \A x \in Threads : job[x].ds = d => job[x].step # "mark"
  BY <1>1, JobOf
<1>3. SameObject(d)
  <2>1. ds' = [ds EXCEPT ![d].refs = ds[d].refs + 1] /\ ds[d].refs + 1 \in Int
    BY <1>1, <1>2 DEF Reopen, Typed, DatasetType
  <2> QED BY <1>1, <2>1, CountChanged
<1>4. job' = [job EXCEPT ![t] = j]
  BY <1>1 DEF Reopen, Typed
<1>5. j \in JobType /\ j.step = "geoloc" /\ j.ds = d
  BY <1>1, <1>2 DEF JobType, Steps
<1> HIDE DEF j
<1>6. JobTyped(j)
  BY <1>5, Constants DEF JobTyped
<1>7. CountedByHolder(d)'
  <2>1. Consistent(d) /\ \A x \in Threads : job'[x] = IF x = t THEN j ELSE job[x]
    BY <1>1, <1>4 DEF Typed, SharedInv
  <2> QED BY <1>1, <1>5, <2>1 DEF Consistent, CountedByHolder
<1>8. HeldForOne(d)'
  BY <1>1, <1>3, HeldForOneStill DEF SameObject
<1>9. /\ handles' \in HandlesType /\ j.step # "mark"
      /\ \A g \in Datasets \ {d}, v \in Users, q \in Threads :
           handles'[v][q][g] = handles[v][q][g]
      /\ {job[t].ds, j.ds} \subseteq {d, None}
  BY <1>1, <1>2, <1>5 DEF Typed
<1> QED BY <1>2, <1>3, <1>4, <1>6, <1>7, <1>8, <1>9, CountStep

LEMMA CloseDroppedInv ==
  ASSUME SharedInv, NEW t \in Threads, CloseDropped(t) PROVE SharedInv'
<1>1. /\ Typed /\ job[t].step = "geoloc" /\ UNCHANGED handles
      /\ job' = [job EXCEPT ![t] = Idle]
  BY DEF SharedInv, CloseDropped
<1>2. PICK d \in Datasets :
        /\ d = job[t].ds /\ ds[d].state # "unborn"
        /\ \A x \in Threads : job[x].ds = d => job[x].step # "mark"
  BY <1>1, JobOf
<1>3. GDALClose(d)
  BY <1>2 DEF CloseDropped
<1>4. CountedByHolder(d)'
  <2>1. Consistent(d) /\ \A x \in Threads : job'[x] = IF x = t THEN Idle ELSE job[x]
    BY <1>1 DEF Typed, SharedInv
  <2> QED BY <1>1, <2>1, IdleIs, Constants DEF Consistent, CountedByHolder
<1>5. /\ handles' \in HandlesType /\ Idle.step # "mark" /\ JobTyped(Idle)
      /\ \A g \in Datasets \ {d}, v \in Users, q \in Threads :
           handles'[v][q][g] = handles[v][q][g]
      /\ \A v \in Users, q \in Threads : handles'[v][q][d] > 0 => handles[v][q][d] > 0
      /\ {job[t].ds, Idle.ds} \subseteq {d, None}
  BY <1>1, <1>2, IdleIs DEF Typed
<1> QED BY <1>1, <1>2, <1>3, <1>4, <1>5, GDALCloseStep
----------------------------------------------------------------------------
LEMMA InitInv == Init => SharedInv
<1> SUFFICES ASSUME Init PROVE SharedInv
  OBVIOUS
<1>1. /\ Unborn \in DatasetType /\ Unborn.state = "unborn" /\ Unborn.creator = None
  BY UnbornIs
<1>2. Typed
  BY <1>1, IdleIs DEF Init, Typed, HandlesType, JobTyped
<1>3. ASSUME NEW d \in Datasets PROVE Consistent(d)
  <2>1. ~Held(d) /\ \A u \in Users, p \in Threads : handles[u][p][d] = 0
    BY DEF Init, Held
  <2>2. \A t \in Threads : job[t].ds # d
    BY IdleIs, Constants DEF Init
  <2>3. Entered(d)
    BY <1>1 DEF Init, Entered, Open
  <2> QED BY <2>1, <2>2, <2>3
          DEF Consistent, OpenedByOne, Unknown, CountedByHolder, HeldForOne
<1> QED BY <1>2, <1>3 DEF SharedInv

LEMMA NextInv == ASSUME SharedInv, [Next]_vars PROVE SharedInv'
<1>1. CASE Next
  <2>1. PICK t \in Threads :
          \/ \E u \in Users, p \in Threads, f \in Files, a \in Accesses :
               Found(t, u, p, f, a) \/ NotFound(t, u, p, f, a)
          \/ OpenFails(t) \/ MarkAsShared(t)
          \/ \E d \in Datasets, access \in Modes :
               OpenNamed(t, d, access) \/ OpenRenamed(t, d, access)
          \/ \E u \in Users, p \in Threads, d \in Datasets : Close(t, u, p, d)
          \/ \E d \in Datasets : AddReference(t, d)
          \/ \E d \in Datasets, drop \in Drops : Drop(t, d, drop)
          \/ StoreReference(t) \/ StoreDereference(t)
          \/ Reopen(t) \/ CloseDropped(t)
    BY <1>1 DEF Next
  <2>2. ASSUME NEW u \in Users, NEW p \in Threads, NEW f \in Files, NEW a \in Accesses,
               Found(t, u, p, f, a) \/ NotFound(t, u, p, f, a)
        PROVE  SharedInv'
    BY <2>2, FoundInv, NotFoundInv
  <2>3. CASE OpenFails(t) \/ MarkAsShared(t)
    BY <2>3, OpenFailsInv, MarkAsSharedInv
  <2>4. ASSUME NEW d \in Datasets, NEW access \in Modes,
               OpenNamed(t, d, access) \/ OpenRenamed(t, d, access)
        PROVE  SharedInv'
    BY <2>4, OpenNamedInv, OpenRenamedInv
  <2>5. ASSUME NEW u \in Users, NEW p \in Threads, NEW d \in Datasets, Close(t, u, p, d)
        PROVE  SharedInv'
    BY <2>5, CloseInv
  <2>6. ASSUME NEW d \in Datasets, AddReference(t, d) PROVE SharedInv'
    BY <2>6, LoadInv DEF AddReference, Drops
  <2>7. ASSUME NEW d \in Datasets, NEW drop \in Drops, Drop(t, d, drop) PROVE SharedInv'
    BY <2>7, LoadInv DEF Drop
  <2>8. CASE StoreReference(t) \/ StoreDereference(t)
    BY <2>8, StoreReferenceInv, StoreDereferenceInv
  <2>9. CASE Reopen(t) \/ CloseDropped(t)
    BY <2>9, ReopenInv, CloseDroppedInv
  <2> QED BY <2>1, <2>2, <2>3, <2>4, <2>5, <2>6, <2>7, <2>8, <2>9
<1>2. CASE UNCHANGED vars
  <2>1. Typed' /\ OthersKept(None)
    BY <1>2 DEF SharedInv, vars, Typed, OthersKept
  <2> QED BY <2>1, OthersConsistent, Constants DEF SharedInv
<1> QED BY <1>1, <1>2

LEMMA SharedInvariance == Spec => []SharedInv
BY InitInv, NextInv, PTL DEF Spec
----------------------------------------------------------------------------
\* What GDALOpenShared finds in the set exists, is the file asked for, and its
\* destructor will find the entry; a dataset with an entry has it until it is
\* closed, whoever opens, marks and closes the same file in between.
THEOREM EntriesValidHolds == Spec => []EntriesValid
<1>1. SharedInv => EntriesValid
  <2> SUFFICES ASSUME SharedInv PROVE EntriesValid
    OBVIOUS
  <2>1. \A e \in sharedSet : e.ds \in Datasets
    BY DEF SharedInv, Typed, EntryType
  <2>2. \A d \in Datasets : Entered(d)
    BY DEF SharedInv, Consistent
  <2> QED BY <2>1, <2>2 DEF EntriesValid, Entered
<1> QED BY <1>1, SharedInvariance, PTL

\* Two threads are never given the same dataset: the thread that the pool
\* opens a file for counts, not the one that runs it.
THEOREM ThreadsApartHolds == Spec => []ThreadsApart
<1>1. SharedInv => ThreadsApart
  BY DEF SharedInv, Consistent, HeldForOne, ThreadsApart
<1> QED BY <1>1, SharedInvariance, PTL
----------------------------------------------------------------------------
(* The counts.  What Reference and Dereference load is stale by the time   *)
(* they store it only when somebody else has the same dataset: that needs  *)
(* a thread that the pool opens files for and that itself creates and      *)
(* drops transformers.                                                     *)

Ending == {"mark", "warped", "geoloc"}
Ended(d) == \E t \in Threads : job[t].ds = d /\ job[t].step \in Ending
NotUsed(d) == \A t \in Threads : job[t].ds # d

\* An open dataset has as many references as there are handles, or somebody
\* on the way to give out the first or to close it after the last ...
CountRight(d) ==
  /\ Open(d) => IF Ended(d) THEN ~Held(d)
                ELSE ds[d].refs = HandlesOn(d) /\ (ds[d].shared => ds[d].refs > 0)
  /\ ~Open(d) => ~Held(d) /\ NotUsed(d)

\* ... and a count that was loaded is the count still.
CountKnown(d) ==
  /\ \A t, x \in Threads : job[t].ds = d /\ job[x].ds = d => t = x
  /\ \A t \in Threads : job[t].ds = d =>
       /\ job[t].step = "mark" => ds[d].refs = 1
       /\ job[t].step # "mark" => t \in Unlocked /\ ds[d].creator \in {None, t}
       /\ job[t].step \in {"reference", "dereference"} => job[t].count = ds[d].refs
       /\ job[t].step = "dereference" /\ job[t].drop = "source" => ~ds[d].shared
       /\ job[t].step = "warped" => ds[d].refs = 0
       /\ job[t].step = "geoloc" => ds[d].refs <= 1

Counted(d) == CountRight(d) /\ CountKnown(d)
CountInv == SharedInv /\ \A d \in Datasets : Counted(d)

\* A number of handles is a sum over threads, and those that come from the
\* pool and those that do not.
LEMMA HoldersFinite == IsFiniteSet(Users \X Threads)
<1>1. IsFiniteSet(Users)
  <2>1. Users = {"own"} \cup {"pool"}
    BY DEF Users
  <2> QED BY <2>1, FS_Singleton, FS_AddElement
<1>2. IsFiniteSet(Threads)
  BY SharedAssumption
<1> QED BY <1>1, <1>2, FS_Product

LEMMA HandlesOnIs ==
  ASSUME Typed, NEW d \in Datasets
  PROVE  /\ HandlesOn(d) \in Nat
         /\ \A u \in Users, p \in Threads : handles[u][p][d] <= HandlesOn(d)
         /\ ~Held(d) <=> HandlesOn(d) = 0
<1> DEFINE S == Users \X Threads
<1>1. PICK f : f = [x \in S |-> handles[x[1]][x[2]][d]]
  OBVIOUS
<1>2. \A u \in Users, p \in Threads : <<u, p>> \in S /\ f[<<u, p>>] = handles[u][p][d]
  BY <1>1
<1>3. \A x \in S : x[1] \in Users /\ x[2] \in Threads /\ f[x] = handles[x[1]][x[2]][d]
  BY <1>1
<1>4. DOMAIN f = S /\ \A x \in S : f[x] \in Nat
  BY <1>1, <1>3, HandleIsNat
<1>5. HandlesOn(d) = SumFunction(f)
  BY <1>1 DEF HandlesOn
<1> HIDE DEF S
<1>6. /\ HandlesOn(d) \in Nat /\ \A x \in S : f[x] <= HandlesOn(d)
      /\ (\A x \in S : f[x] = 0) => HandlesOn(d) = 0
  BY <1>4, <1>5, HoldersFinite, TotalOfNat DEF S
<1>7. \A u \in Users, p \in Threads :
        handles[u][p][d] \in Nat /\ handles[u][p][d] <= HandlesOn(d)
  BY <1>2, <1>6, HandleIsNat
<1>8. ASSUME ~Held(d) PROVE HandlesOn(d) = 0
  <2>1. \A u \in Users, p \in Threads : handles[u][p][d] = 0
    BY <1>7, <1>8 DEF Held
  <2> QED BY <1>3, <1>6, <2>1
<1>9. ASSUME HandlesOn(d) = 0 PROVE ~Held(d)
  BY <1>7, <1>9 DEF Held
<1> QED BY <1>6, <1>7, <1>8, <1>9

LEMMA HandlesOnChanged ==
  ASSUME Typed, Typed', NEW u \in Users, NEW p \in Threads, NEW d \in Datasets,
         \A v \in Users, q \in Threads :
           v # u \/ q # p => handles'[v][q][d] = handles[v][q][d]
  PROVE  HandlesOn(d)' = HandlesOn(d) + handles'[u][p][d] - handles[u][p][d]
<1> DEFINE S == Users \X Threads
<1>1. PICK f, e : /\ f = [x \in S |-> handles[x[1]][x[2]][d]]
                  /\ e = [x \in S |-> handles'[x[1]][x[2]][d]]
  OBVIOUS
<1>2. \A x \in S : x[1] \in Users /\ x[2] \in Threads /\ x = <<x[1], x[2]>>
  OBVIOUS
<1>3. \A v \in Users, q \in Threads : handles[v][q][d] \in Nat /\ handles'[v][q][d] \in Nat
  BY DEF Typed, HandlesType
<1>4. DOMAIN f = S /\ DOMAIN e = S /\ \A x \in S : f[x] \in Int /\ e[x] \in Int
  BY <1>1, <1>2, <1>3
<1>5. /\ <<u, p>> \in S
      /\ f[<<u, p>>] = handles[u][p][d] /\ e[<<u, p>>] = handles'[u][p][d]
  BY <1>1
<1>6. \A x \in S \ {<<u, p>>} : e[x] = f[x]
  BY <1>1, <1>2
<1>7. HandlesOn(d) = SumFunction(f) /\ HandlesOn(d)' = SumFunction(e)
  BY <1>1 DEF HandlesOn
<1>8. IsFiniteSet(S)
  BY HoldersFinite
<1> HIDE DEF S
<1>9. PICK z : z = <<u, p>>
  OBVIOUS
<1>10. SumFunction(e) = SumFunction(f) + e[z] - f[z]
  BY <1>4, <1>5, <1>6, <1>8, <1>9, TotalChanged
<1> QED BY <1>5, <1>7, <1>9, <1>10

LEMMA HandlesOnStill ==
  ASSUME Typed, Typed', NEW d \in Datasets,
         \A v \in Users, q \in Threads : handles'[v][q][d] = handles[v][q][d]
  PROVE  HandlesOn(d)' = HandlesOn(d) /\ (Held(d)' <=> Held(d))
<1> DEFINE S == Users \X Threads
<1>1. PICK f, e : /\ f = [x \in S |-> handles[x[1]][x[2]][d]]
                  /\ e = [x \in S |-> handles'[x[1]][x[2]][d]]
  OBVIOUS
<1>2. f = e
  BY <1>1
<1>3. HandlesOn(d) = SumFunction(f) /\ HandlesOn(d)' = SumFunction(e)
  BY <1>1 DEF HandlesOn
<1> QED BY <1>2, <1>3 DEF Held

\* A step of t that leaves j of its call, and is about no dataset but d.
StepOn(t, d, j) ==
  /\ job' = [job EXCEPT ![t] = j] /\ {job[t].ds, j.ds} \subseteq {d, None}
  /\ \A g \in Datasets \ {d} :
       /\ ds'[g] = ds[g]
       /\ \A u \in Users, p \in Threads : handles'[u][p][g] = handles[u][p][g]

\* The datasets that a step is not about keep their counts.
LEMMA OthersCounted ==
  ASSUME CountInv, SharedInv', NEW t \in Threads, NEW d, NEW j, StepOn(t, d, j),
         d \in Datasets => Counted(d)'
  PROVE  CountInv'
<1>1. Typed /\ Typed'
  BY DEF CountInv, SharedInv
<1>2. \A x \in Threads : job'[x] = IF x = t THEN j ELSE job[x]
  BY <1>1 DEF Typed, StepOn
<1>2a. {job[t].ds, j.ds} \subseteq {d, None}
  BY DEF StepOn
<1>3. ASSUME NEW g \in Datasets, g # d PROVE Counted(g)'
  <2>1. ds'[g] = ds[g] /\ HandlesOn(g)' = HandlesOn(g) /\ (Held(g)' <=> Held(g))
    BY <1>1, <1>3, HandlesOnStill DEF StepOn
  <2>2. \A x \in Threads : /\ job'[x].ds = g <=> job[x].ds = g
                           /\ job'[x].ds = g => job'[x] = job[x]
    BY <1>2, <1>2a, <1>3, Constants
  <2>3. Counted(g) /\ (Ended(g)' <=> Ended(g)) /\ (NotUsed(g)' <=> NotUsed(g))
    BY <2>2 DEF CountInv, Ended, NotUsed
  <2>4. CountRight(g)'
    BY <2>1, <2>3 DEF Counted, CountRight, Open
  <2>5. CountKnown(g)'
    BY <2>1, <2>2, <2>3 DEF Counted, CountKnown
  <2> QED BY <2>4, <2>5 DEF Counted
<1> QED BY <1>3 DEF CountInv

\* Nobody uses d any more.
LEMMA CountedAlone ==
  ASSUME NEW d \in Datasets, NotUsed(d)',
         Open(d)' => /\ ds'[d].refs = HandlesOn(d)'
                     /\ ds'[d].shared => ds'[d].refs > 0,
         ~Open(d)' => ~Held(d)'
  PROVE  Counted(d)'
BY DEF NotUsed, Counted, CountRight, CountKnown, Ended

\* A dataset that somebody holds is open, and its count is right.
LEMMA HeldIsCounted ==
  ASSUME CountInv, NEW u \in Users, NEW p \in Threads, NEW d \in Datasets,
         handles[u][p][d] > 0
  PROVE  /\ Open(d) /\ ~Ended(d) /\ ds[d].refs = HandlesOn(d) /\ ds[d].refs > 0
         /\ HandlesOn(d) \in Nat /\ handles[u][p][d] <= HandlesOn(d)
         /\ handles[u][p][d] \in Nat
<1>1. Held(d) /\ CountRight(d) /\ Typed
  BY DEF Held, CountInv, Counted, SharedInv
<1> QED BY <1>1, HandlesOnIs, HandleIsNat DEF CountRight
----------------------------------------------------------------------------
LEMMA FoundCounts ==
  ASSUME CountInv, SharedInv', Impersonated \cap Unlocked = {},
         NEW t \in Threads, NEW u \in Users, NEW p \in Threads,
         NEW f \in Files, NEW a \in Accesses, Found(t, u, p, f, a)
  PROVE  CountInv'
<1>1. Typed /\ Typed' /\ SharedInv /\ job[t] = Idle /\ job' = job
  BY DEF CountInv, SharedInv, Found, Request
<1>2. PICK e \in Matches(p, f, a) :
        ds' = [ds EXCEPT ![e.ds].refs = @ + 1] /\ handles' = Got(u, p, e.ds)
  BY DEF Found
<1>3. e \in sharedSet /\ e.pid = p
  BY <1>2 DEF Matches, Entries
<1>4. PICK d \in Datasets : d = e.ds
  BY <1>1, <1>3 DEF Typed, EntryType
<1>5. Open(d) /\ ds[d].creator = p /\ ds[d].shared /\ Consistent(d) /\ Counted(d)
  BY <1>1, <1>3, <1>4 DEF CountInv, SharedInv, Consistent, Entered
<1>6. NotUsed(d)
  <2> SUFFICES ASSUME NEW x \in Threads, job[x].ds = d PROVE FALSE
    BY DEF NotUsed
  <2>1. job[x].step # "mark"
    BY <1>5, Constants DEF Consistent, OpenedByOne
  <2>2. x \in Unlocked /\ x = p
    BY <1>5, <2>1, Constants DEF Counted, CountKnown
  <2>3. x # t
    BY <1>1, IdleIs, Constants
  <2>4. p \in Impersonated
    BY <2>2, <2>3 DEF Found, Request
  <2> QED BY <2>2, <2>4
<1>7. ds[d].refs = HandlesOn(d) /\ ds[d].refs > 0 /\ ds[d].refs \in Int
  BY <1>1, <1>5, <1>6 DEF Counted, CountRight, Ended, NotUsed, Typed, DatasetType
<1>8. /\ ds'[d].refs = ds[d].refs + 1 /\ Open(d)'
      /\ \A g \in Datasets \ {d} : ds'[g] = ds[g]
  BY <1>1, <1>2, <1>4, <1>5 DEF Typed, DatasetType, Open
<1>9. \A v \in Users, q \in Threads, g \in Datasets :
        handles'[v][q][g] = IF v = u /\ q = p /\ g = d THEN handles[u][p][d] + 1
                            ELSE handles[v][q][g]
  BY <1>1, <1>2, <1>4, GotIs
<1>10. HandlesOn(d)' = HandlesOn(d) + 1
  <2>1. HandlesOn(d)' = HandlesOn(d) + handles'[u][p][d] - handles[u][p][d]
    BY <1>1, <1>9, HandlesOnChanged
  <2>2. handles'[u][p][d] = handles[u][p][d] + 1 /\ handles[u][p][d] \in Nat
    BY <1>1, <1>9, HandleIsNat
  <2>3. HandlesOn(d) \in Nat
    BY <1>1, HandlesOnIs
  <2> QED BY <2>1, <2>2, <2>3
<1>11. Counted(d)'
  <2>1. NotUsed(d)'
    BY <1>1, <1>6 DEF NotUsed
  <2> QED BY <1>7, <1>8, <1>10, <2>1, CountedAlone
<1>12. StepOn(t, d, Idle)
  BY <1>1, <1>8, <1>9, IdleIs DEF StepOn, Typed
<1> QED BY <1>11, <1>12, OthersCounted

\* A call that opens a file, until it has a dataset or fails.
LEMMA NothingCounts ==
  ASSUME CountInv, SharedInv', NEW t \in Threads, NEW j, j.ds = None, job[t].ds = None,
         job' = [job EXCEPT ![t] = j], UNCHANGED <<ds, handles>>
  PROVE  CountInv'
<1>1. StepOn(t, None, j)
  BY DEF StepOn
<1> QED BY <1>1, OthersCounted, Constants

LEMMA NotFoundCounts ==
  ASSUME CountInv, SharedInv', NEW t \in Threads, NEW u \in Users, NEW p \in Threads,
         NEW f \in Files, NEW a \in Accesses, NotFound(t, u, p, f, a)
  PROVE  CountInv'
<1>1. a \in Modes /\ job[t].ds = None
  BY Constants, IdleIs DEF NotFound, Request
<1> QED BY <1>1, OpeningIs, NothingCounts DEF NotFound

LEMMA OpenFailsCounts ==
  ASSUME CountInv, SharedInv', NEW t \in Threads, OpenFails(t) PROVE CountInv'
<1>1. job[t].ds = None
  BY DEF OpenFails, CountInv, SharedInv, Typed, JobTyped
<1> QED BY <1>1, IdleIs, NothingCounts DEF OpenFails, Return
----------------------------------------------------------------------------
\* A dataset that is being created is nobody's.
LEMMA BornUnused ==
  ASSUME SharedInv, NEW d \in Datasets, ds[d] = Unborn
  PROVE  /\ ~Held(d) /\ NotUsed(d) /\ HandlesOn(d) = 0
         /\ \A u \in Users, p \in Threads : handles[u][p][d] = 0
<1>1. Typed /\ ~Held(d) /\ NotUsed(d)
  BY UnbornIs DEF SharedInv, Consistent, Unknown, NotUsed
<1>2. \A u \in Users, p \in Threads : handles[u][p][d] \in Nat
  BY <1>1, HandleIsNat
<1> QED BY <1>1, <1>2, HandlesOnIs DEF Held

LEMMA NewDatasetCounts ==
  ASSUME NEW f \in Files, NEW access \in Modes
  PROVE  NewDataset(f, access).refs = 1
<1>1. PICK r \in DatasetType : r = Unborn
  BY UnbornIs
<1>2. NewDataset(f, access) =
        [r EXCEPT !.state = "open", !.file = f, !.access = access, !.refs = 1]
  BY <1>1 DEF NewDataset
<1> QED BY <1>2 DEF DatasetType

\* The object that GDALOpen makes has one reference.
LEMMA OpenedCounts ==
  ASSUME SharedInv, NEW t \in Threads, NEW d \in Datasets, NEW access \in Modes,
         Opened(t, d, access)
  PROVE  /\ ds[d] = Unborn /\ Open(d)' /\ ds'[d].refs = 1
         /\ \A g \in Datasets \ {d} : ds'[g] = ds[g]
         /\ job[t].ds = None /\ job[t].step = "open"
         /\ job[t].user \in Users /\ job[t].pid \in Threads /\ job[t] \in JobType
<1>1. Typed /\ job[t].step = "open" /\ JobTyped(job[t])
  BY DEF SharedInv, Typed, Opened
<1>2. job[t].file \in Files /\ job[t].ds = None
      /\ job[t].user \in Users /\ job[t].pid \in Threads /\ job[t] \in JobType
  BY <1>1 DEF JobTyped, JobType
<1>3. PICK f \in Files : f = job[t].file
  BY <1>2
<1>4. ds' = [ds EXCEPT ![d] = NewDataset(f, access)] /\ ds[d] = Unborn
  BY <1>3 DEF Opened
<1>5. ds'[d] = NewDataset(f, access) /\ \A g \in Datasets \ {d} : ds'[g] = ds[g]
  BY <1>1, <1>4 DEF Typed
<1> QED BY <1>1, <1>2, <1>4, <1>5, NewDatasetIs, NewDatasetCounts DEF Open

LEMMA OpenNamedCounts ==
  ASSUME CountInv, SharedInv', NEW t \in Threads, NEW d \in Datasets, NEW access \in Modes,
         OpenNamed(t, d, access)
  PROVE  CountInv'
<1>1. /\ Typed /\ Typed' /\ SharedInv /\ Opened(t, d, access) /\ handles' = handles
      /\ job' = [job EXCEPT ![t].step = "mark", ![t].ds = d]
  BY DEF CountInv, SharedInv, OpenNamed
<1>2. /\ Open(d)' /\ ds'[d].refs = 1 /\ \A g \in Datasets \ {d} : ds'[g] = ds[g]
      /\ job[t].ds = None /\ job[t] \in JobType /\ ds[d] = Unborn
  BY <1>1, OpenedCounts
<1>3. PICK j : j = [job[t] EXCEPT !.step = "mark", !.ds = d]
  OBVIOUS
<1>4. j.step = "mark" /\ j.ds = d
  BY <1>2, <1>3 DEF JobType
<1>5. job' = [job EXCEPT ![t] = j]
  BY <1>1, <1>3 DEF Typed
<1>6. \A x \in Threads : job'[x] = IF x = t THEN j ELSE job[x]
  BY <1>1, <1>5 DEF Typed
<1>7. ~Held(d) /\ NotUsed(d)
  BY <1>1, <1>2, BornUnused
<1>8. ~Held(d)' /\ \A x \in Threads : job'[x].ds = d => x = t
  BY <1>1, <1>6, <1>7 DEF Held, NotUsed
<1>9. CountRight(d)'
  BY <1>2, <1>4, <1>6, <1>8 DEF CountRight, Ended, Ending
<1>10. CountKnown(d)'
  BY <1>2, <1>4, <1>6, <1>8 DEF CountKnown
<1>11. StepOn(t, d, j)
  BY <1>1, <1>2, <1>4, <1>5 DEF StepOn
<1> QED BY <1>9, <1>10, <1>11, OthersCounted DEF Counted

\* One more handle on d.
LEMMA GotCounts ==
  ASSUME Typed, Typed', NEW u \in Users, NEW p \in Threads, NEW d \in Datasets,
         handles' = Got(u, p, d)
  PROVE  /\ HandlesOn(d)' = HandlesOn(d) + 1 /\ HandlesOn(d) \in Nat
         /\ \A g \in Datasets \ {d}, v \in Users, q \in Threads :
              handles'[v][q][g] = handles[v][q][g]
<1>1. \A v \in Users, q \in Threads, g \in Datasets :
        handles'[v][q][g] = IF v = u /\ q = p /\ g = d THEN handles[u][p][d] + 1
                            ELSE handles[v][q][g]
  BY GotIs
<1>2. HandlesOn(d)' = HandlesOn(d) + handles'[u][p][d] - handles[u][p][d]
  BY <1>1, HandlesOnChanged
<1>3. /\ handles'[u][p][d] = handles[u][p][d] + 1 /\ handles[u][p][d] \in Nat
      /\ HandlesOn(d) \in Nat
  BY <1>1, HandleIsNat, HandlesOnIs
<1> QED BY <1>1, <1>2, <1>3

\* One handle on d less.
LEMMA GaveBackCounts ==
  ASSUME Typed, Typed', NEW u \in Users, NEW p \in Threads, NEW d \in Datasets,
         handles[u][p][d] > 0, handles' = GaveBack(u, p, d)
  PROVE  /\ HandlesOn(d)' = HandlesOn(d) - 1 /\ HandlesOn(d) \in Nat
         /\ \A g \in Datasets \ {d}, v \in Users, q \in Threads :
              handles'[v][q][g] = handles[v][q][g]
<1>1. \A v \in Users, q \in Threads, g \in Datasets :
        handles'[v][q][g] = IF v = u /\ q = p /\ g = d THEN handles[u][p][d] - 1
                            ELSE handles[v][q][g]
  BY GaveBackIs
<1>2. HandlesOn(d)' = HandlesOn(d) + handles'[u][p][d] - handles[u][p][d]
  BY <1>1, HandlesOnChanged
<1>3. /\ handles'[u][p][d] = handles[u][p][d] - 1 /\ handles[u][p][d] \in Nat
      /\ HandlesOn(d) \in Nat
  BY <1>1, HandleIsNat, HandlesOnIs
<1> QED BY <1>1, <1>2, <1>3

\* The first handle on a dataset that only t uses, which ends its call.
LEMMA OnlyHandle ==
  ASSUME CountInv, SharedInv', NEW t \in Threads, NEW d \in Datasets,
         NEW u \in Users, NEW p \in Threads, handles' = Got(u, p, d),
         StepOn(t, d, Idle), ~Held(d), \A x \in Threads : job[x].ds = d => x = t,
         ds'[d].refs = 1, Open(d)'
  PROVE  Counted(d)'
<1>1. Typed /\ Typed'
  BY DEF CountInv, SharedInv
<1>2. HandlesOn(d)' = 1
  BY <1>1, HandlesOnIs, GotCounts
<1>3. NotUsed(d)'
  <2>1. \A x \in Threads : job'[x] = IF x = t THEN Idle ELSE job[x]
    BY <1>1 DEF Typed, StepOn
  <2> QED BY <2>1, IdleIs, Constants DEF NotUsed
<1> QED BY <1>2, <1>3, CountedAlone DEF Open

LEMMA OpenRenamedCounts ==
  ASSUME CountInv, SharedInv', NEW t \in Threads, NEW d \in Datasets, NEW access \in Modes,
         OpenRenamed(t, d, access)
  PROVE  CountInv'
<1>1. /\ SharedInv /\ Opened(t, d, access) /\ handles' = Got(job[t].user, job[t].pid, d)
      /\ job' = [job EXCEPT ![t] = Idle]
  BY DEF CountInv, OpenRenamed, Return
<1>2. /\ Open(d)' /\ ds'[d].refs = 1 /\ \A g \in Datasets \ {d} : ds'[g] = ds[g]
      /\ job[t].ds = None /\ ds[d] = Unborn
  BY <1>1, OpenedCounts
<1>3. PICK u \in Users, p \in Threads : u = job[t].user /\ p = job[t].pid
  BY <1>1, OpenedCounts
<1>4. ~Held(d) /\ \A x \in Threads : job[x].ds = d => x = t
  BY <1>1, <1>2, BornUnused DEF NotUsed
<1>5. handles' = Got(u, p, d)
  BY <1>1, <1>3
<1>6. StepOn(t, d, Idle)
  <2>1. Typed /\ Typed'
    BY DEF CountInv, SharedInv
  <2> QED BY <1>1, <1>2, <1>5, <2>1, GotCounts, IdleIs DEF StepOn
<1>7. Counted(d)'
  BY <1>2, <1>4, <1>5, <1>6, OnlyHandle DEF Open
<1> QED BY <1>6, <1>7, OthersCounted

LEMMA MarkAsSharedCounts ==
  ASSUME CountInv, SharedInv', NEW t \in Threads, MarkAsShared(t) PROVE CountInv'
<1>1. /\ Typed /\ job[t].step = "mark" /\ JobTyped(job[t]) /\ Marked(t)
      /\ handles' = Got(job[t].user, job[t].pid, job[t].ds)
      /\ job' = [job EXCEPT ![t] = Idle]
  BY DEF CountInv, SharedInv, Typed, MarkAsShared, Return
<1>2. PICK d \in Datasets, u \in Users, p \in Threads :
        d = job[t].ds /\ u = job[t].user /\ p = job[t].pid
  BY <1>1 DEF JobTyped, JobType
<1>3. /\ Open(d) /\ ~Held(d) /\ ds[d].refs = 1
      /\ \A x \in Threads : job[x].ds = d => x = t
  BY <1>1, <1>2 DEF CountInv, SharedInv, Consistent, OpenedByOne, Counted, CountKnown
<1>4. PICK c : ds' = [ds EXCEPT ![d].shared = TRUE, ![d].creator = c]
  BY <1>1, <1>2 DEF Marked
<1>5. Open(d)' /\ ds'[d].refs = 1 /\ \A g \in Datasets \ {d} : ds'[g] = ds[g]
  BY <1>1, <1>3, <1>4 DEF Typed, DatasetType, Open
<1>6. handles' = Got(u, p, d)
  BY <1>1, <1>2
<1>7. StepOn(t, d, Idle)
  <2>1. Typed /\ Typed'
    BY DEF CountInv, SharedInv
  <2>2. \A g \in Datasets \ {d}, v \in Users, q \in Threads :
          handles'[v][q][g] = handles[v][q][g]
    BY <1>6, <2>1, GotCounts
  <2>3. {job[t].ds, Idle.ds} \subseteq {d, None}
    BY <1>2, IdleIs
  <2> QED BY <1>1, <1>5, <2>2, <2>3 DEF StepOn
<1>8. Counted(d)'
  BY <1>3, <1>5, <1>6, <1>7, OnlyHandle DEF Open
<1> QED BY <1>7, <1>8, OthersCounted
----------------------------------------------------------------------------
\* GDALClose takes one reference away, or destroys the dataset.
LEMMA GDALCloseIs ==
  ASSUME Typed, NEW d \in Datasets, GDALClose(d)
  PROVE  /\ \A g \in Datasets \ {d} : ds'[g] = ds[g]
         /\ IF ds[d].shared /\ ds[d].refs - 1 > 0
            THEN ds'[d].refs = ds[d].refs - 1 /\ ds'[d].state = ds[d].state
            ELSE ds'[d].state = "deleted"
<1>1. CASE ds[d].shared /\ ds[d].refs - 1 > 0
  <2>1. ds' = [ds EXCEPT ![d].refs = ds[d].refs - 1]
    BY <1>1 DEF GDALClose
  <2> QED BY <1>1, <2>1 DEF Typed, DatasetType
<1>2. CASE ~(ds[d].shared /\ ds[d].refs - 1 > 0)
  <2>1. PICK r : r = [Unborn EXCEPT !.state = "deleted"]
    OBVIOUS
  <2>2. r.state = "deleted"
    BY <2>1, UnbornIs DEF DatasetType
  <2>3. ds' = [ds EXCEPT ![d] = r]
    BY <1>2, <2>1 DEF GDALClose, Destroy
  <2> QED BY <1>2, <2>2, <2>3 DEF Typed
<1> QED BY <1>1, <1>2

\* With the last handle nobody holds a dataset.
NoneHeld == \A d \in Datasets : HandlesOn(d) = 0 => ~Held(d)

LEMMA NoneHeldIs == Typed => NoneHeld
BY HandlesOnIs DEF NoneHeld

LEMMA NoneHeldAfter == Typed' => NoneHeld'
BY NoneHeldIs, PTL

LEMMA CloseCounts ==
  ASSUME CountInv, SharedInv', NEW t \in Threads, NEW u \in Users, NEW p \in Threads,
         NEW d \in Datasets, Close(t, u, p, d)
  PROVE  CountInv'
<1>1. /\ Typed /\ Typed' /\ job[t] = Idle /\ job' = job /\ NotInUse(d, t)
      /\ handles[u][p][d] > 0 /\ GDALClose(d)
      /\ ds[d].shared \/ HandlesOn(d) = 1
      /\ handles' = GaveBack(u, p, d)
  BY DEF CountInv, SharedInv, Close
<1>2. NotUsed(d)'
  BY <1>1, IdleIs, Constants DEF NotInUse, NotUsed
<1>3. /\ HandlesOn(d)' = HandlesOn(d) - 1
      /\ \A g \in Datasets \ {d}, v \in Users, q \in Threads :
           handles'[v][q][g] = handles[v][q][g]
  BY <1>1, GaveBackCounts
<1>4. /\ Open(d) /\ ds[d].refs = HandlesOn(d) /\ HandlesOn(d) \in Nat /\ HandlesOn(d) > 0
  BY <1>1, HeldIsCounted
<1>5. /\ \A g \in Datasets \ {d} : ds'[g] = ds[g]
      /\ IF ds[d].shared /\ ds[d].refs - 1 > 0
         THEN ds'[d].refs = ds[d].refs - 1 /\ ds'[d].state = ds[d].state
         ELSE ds'[d].state = "deleted"
  BY <1>1, GDALCloseIs
<1>6. StepOn(t, d, Idle)
  BY <1>1, <1>3, <1>5, IdleIs DEF StepOn, Typed
<1>7. CASE ds[d].shared /\ ds[d].refs - 1 > 0
  <2>1. Open(d)' /\ ds'[d].refs = HandlesOn(d)' /\ ds'[d].refs > 0
    BY <1>3, <1>4, <1>5, <1>7 DEF Open
  <2>2. Counted(d)'
    BY <1>2, <2>1, CountedAlone
  <2> QED BY <1>6, <2>2, OthersCounted
<1>8. CASE ~(ds[d].shared /\ ds[d].refs - 1 > 0)
  <2>1. HandlesOn(d)' = 0 /\ ~Open(d)'
    BY <1>1, <1>3, <1>4, <1>5, <1>8 DEF Open
  <2>3. ~Held(d)'
    BY <1>1, <2>1, NoneHeldAfter DEF NoneHeld
  <2>4. Counted(d)'
    BY <1>2, <2>1, <2>3, CountedAlone
  <2> QED BY <1>6, <2>4, OthersCounted
<1> QED BY <1>7, <1>8

\* Who is about to change the count of a dataset is the only one to do so.
LEMMA LoadCounts ==
  ASSUME CountInv, SharedInv', NEW t \in Threads, NEW d \in Datasets,
         NEW step \in {"reference", "dereference"}, NEW drop \in Drops,
         Load(t, d, step, drop),
         step = "dereference" /\ drop = "source" => ~ds[d].shared
  PROVE  CountInv'
<1>1. /\ Typed /\ Typed' /\ SharedInv /\ t \in Unlocked /\ job[t] = Idle
      /\ handles["own"][t][d] > 0 /\ ds' = ds /\ handles' = handles
  BY DEF CountInv, SharedInv, Load
<1>2. PICK i \in JobType : i = Idle
  BY IdleIs DEF JobTyped
<1>3. PICK j : j = [i EXCEPT !.step = step, !.ds = d, !.count = ds[d].refs, !.drop = drop]
  OBVIOUS
<1>4. job' = [job EXCEPT ![t] = j] /\ \A x \in Threads : job'[x] = IF x = t THEN j ELSE job[x]
  BY <1>1, <1>2, <1>3 DEF Load, Typed
<1>5. j.step = step /\ j.ds = d /\ j.count = ds[d].refs /\ j.drop = drop
  BY <1>3 DEF JobType
<1>6. StepOn(t, d, j)
  BY <1>1, <1>4, <1>5, IdleIs DEF StepOn
<1>7. /\ Open(d) /\ ~Ended(d) /\ ds[d].refs = HandlesOn(d) /\ ds[d].refs > 0
      /\ HandlesOn(d)' = HandlesOn(d)
  BY <1>1, HeldIsCounted, HandlesOnStill DEF Users
<1>8. Consistent(d) /\ Counted(d) /\ ds[d].creator \in {None, t}
  BY <1>1 DEF CountInv, SharedInv, Consistent, HeldForOne, Users
<1>9. NotUsed(d)
  <2> SUFFICES ASSUME NEW x \in Threads, job[x].ds = d PROVE FALSE
    BY DEF NotUsed
  <2>1. job[x].step \in {"reference", "dereference"}
    <3>1. JobTyped(job[x]) /\ job[x].step \in Steps
      BY <1>1 DEF Typed, JobTyped, JobType
    <3>2. job[x].step \notin Ending /\ job[x].step \notin {"idle", "open"}
      BY <1>7, <3>1, Constants DEF Ended, JobTyped
    <3> QED BY <3>1, <3>2 DEF Steps, Ending
  <2>2. handles["own"][x][d] > 0
    BY <1>8, <2>1 DEF Consistent, CountedByHolder
  <2>3. x = t
    BY <1>1, <1>8, <2>2 DEF Consistent, HeldForOne, Users
  <2> QED BY <1>1, <2>3, IdleIs, Constants
<1>10. \A x \in Threads : job'[x].ds = d => x = t
  BY <1>4, <1>9 DEF NotUsed
<1>11. CountRight(d)'
  <2>1. ~Ended(d)' /\ Open(d)'
    BY <1>1, <1>4, <1>5, <1>7, <1>10 DEF Ended, Ending, Open
  <2> QED BY <1>1, <1>7, <2>1 DEF CountRight
<1>12. CountKnown(d)'
  BY <1>1, <1>4, <1>5, <1>7, <1>8, <1>10 DEF CountKnown
<1> QED BY <1>6, <1>11, <1>12, OthersCounted DEF Counted

\* What is known of the dataset that a call is about.
LEMMA CountOf ==
  ASSUME CountInv, NEW t \in Threads,
         job[t].step \in {"reference", "dereference", "warped", "geoloc"}
  PROVE  \E d \in Datasets :
           /\ d = job[t].ds /\ Open(d) /\ Consistent(d) /\ CountRight(d) /\ CountKnown(d)
           /\ \A x \in Threads : job[x].ds = d => x = t
<1>1. PICK d \in Datasets : d = job[t].ds
  BY JobOf DEF CountInv
<1>2. Consistent(d) /\ CountRight(d) /\ CountKnown(d)
  BY DEF CountInv, SharedInv, Counted
<1>3. Open(d) /\ \A x \in Threads : job[x].ds = d => x = t
  BY <1>1, <1>2 DEF CountRight, CountKnown, NotUsed
<1> QED BY <1>1, <1>2, <1>3

LEMMA StoreReferenceCounts ==
  ASSUME CountInv, SharedInv', NEW t \in Threads, StoreReference(t) PROVE CountInv'
<1>1. /\ Typed /\ Typed' /\ job[t].step = "reference" /\ job' = [job EXCEPT ![t] = Idle]
      /\ job[t].count + 1 \in Int
  BY DEF CountInv, SharedInv, StoreReference, Typed, JobType
<1>2. PICK d \in Datasets :
        /\ d = job[t].ds /\ Open(d) /\ Consistent(d) /\ CountRight(d) /\ CountKnown(d)
        /\ \A x \in Threads : job[x].ds = d => x = t
  BY <1>1, CountOf
<1>3. ds' = [ds EXCEPT ![d].refs = job[t].count + 1] /\ handles' = Got("own", t, d)
  BY <1>2 DEF StoreReference
<1>4. ds'[d].refs = job[t].count + 1 /\ Open(d)' /\ \A g \in Datasets \ {d} : ds'[g] = ds[g]
  BY <1>1, <1>2, <1>3 DEF Typed, DatasetType, Open
<1>5. /\ HandlesOn(d)' = HandlesOn(d) + 1 /\ HandlesOn(d) \in Nat
      /\ \A g \in Datasets \ {d}, v \in Users, q \in Threads :
           handles'[v][q][g] = handles[v][q][g]
  BY <1>1, <1>3, GotCounts DEF Users
<1>6. StepOn(t, d, Idle)
  BY <1>1, <1>2, <1>4, <1>5, IdleIs DEF StepOn
<1>7. job[t].count = HandlesOn(d)
  BY <1>1, <1>2 DEF CountKnown, CountRight, Ended, Ending
<1>8. NotUsed(d)'
  <2>1. \A x \in Threads : job'[x] = IF x = t THEN Idle ELSE job[x]
    BY <1>1 DEF Typed
  <2> QED BY <1>2, <2>1, IdleIs, Constants DEF NotUsed
<1>9. Counted(d)'
  BY <1>4, <1>5, <1>7, <1>8, CountedAlone
<1> QED BY <1>6, <1>9, OthersCounted

LEMMA StoreDereferenceCounts ==
  ASSUME CountInv, SharedInv', NEW t \in Threads, StoreDereference(t) PROVE CountInv'
<1>1. /\ Typed /\ Typed' /\ job[t].step = "dereference" /\ job[t] \in JobType
      /\ job[t].count - 1 \in Int
  BY DEF CountInv, SharedInv, StoreDereference, Typed, JobType
<1>2. PICK d \in Datasets :
        /\ d = job[t].ds /\ Open(d) /\ Consistent(d) /\ CountRight(d) /\ CountKnown(d)
        /\ \A x \in Threads : job[x].ds = d => x = t
  BY <1>1, CountOf
<1>3. /\ ds' = [ds EXCEPT ![d].refs = job[t].count - 1] /\ handles' = GaveBack("own", t, d)
      /\ handles["own"][t][d] > 0
  BY <1>1, <1>2 DEF StoreDereference, Consistent, CountedByHolder
<1>4. /\ ds'[d].refs = job[t].count - 1 /\ Open(d)' /\ ds'[d].creator = ds[d].creator
      /\ ds'[d].shared = ds[d].shared /\ \A g \in Datasets \ {d} : ds'[g] = ds[g]
  BY <1>1, <1>2, <1>3 DEF Typed, DatasetType, Open
<1>5. /\ HandlesOn(d)' = HandlesOn(d) - 1 /\ HandlesOn(d) \in Nat
      /\ \A g \in Datasets \ {d}, v \in Users, q \in Threads :
           handles'[v][q][g] = handles[v][q][g]
  BY <1>1, <1>3, GaveBackCounts DEF Users
<1>6. /\ job[t].count = HandlesOn(d) /\ HandlesOn(d) > 0
      /\ job[t].drop = "source" => ~ds[d].shared
  <2>1. handles["own"][t][d] \in Nat /\ handles["own"][t][d] <= HandlesOn(d)
    BY <1>1, HandlesOnIs, HandleIsNat DEF Users
  <2>2. HandlesOn(d) \in Nat /\ HandlesOn(d) > 0
    BY <1>3, <1>5, <2>1
  <2> QED BY <1>1, <1>2, <2>2 DEF CountKnown, CountRight, Ended, Ending
<1>7. CASE job[t].count - 1 > 0 \/ job[t].drop = "source"
  <2>1. job' = [job EXCEPT ![t] = Idle]
    BY <1>7 DEF StoreDereference
  <2>2. StepOn(t, d, Idle)
    BY <1>2, <1>4, <1>5, <2>1, IdleIs DEF StepOn
  <2>3. NotUsed(d)'
    <3>1. \A x \in Threads : job'[x] = IF x = t THEN Idle ELSE job[x]
      BY <1>1, <2>1 DEF Typed
    <3> QED BY <1>2, <3>1, IdleIs, Constants DEF NotUsed
  <2>4. Counted(d)'
    BY <1>4, <1>5, <1>6, <1>7, <2>3, CountedAlone
  <2> QED BY <2>2, <2>4, OthersCounted
<1>8. CASE ~(job[t].count - 1 > 0 \/ job[t].drop = "source")
  <2>1. job[t].count - 1 = 0 /\ HandlesOn(d)' = 0 /\ job[t].drop # "source"
    BY <1>5, <1>6, <1>8
  <2>2. PICK j : j = [job[t] EXCEPT !.step = job[t].drop]
    OBVIOUS
  <2>3. job' = [job EXCEPT ![t] = j]
    BY <1>8, <2>1, <2>2 DEF StoreDereference
  <2>4. j.step \in {"warped", "geoloc"} /\ j.ds = d
    BY <1>1, <1>2, <2>1, <2>2 DEF JobType, Drops
  <2>5. \A x \in Threads : job'[x] = IF x = t THEN j ELSE job[x]
    BY <1>1, <2>3 DEF Typed
  <2>6. StepOn(t, d, j)
    BY <1>2, <1>4, <1>5, <2>3, <2>4 DEF StepOn
  <2>7. ~Held(d)'
    BY <1>1, <2>1, NoneHeldAfter DEF NoneHeld
  <2>8. CountRight(d)'
    BY <1>4, <2>4, <2>5, <2>7 DEF CountRight, Ended, Ending
  <2>9. CountKnown(d)'
    <3>1. t \in Unlocked /\ ds[d].creator \in {None, t}
      BY <1>1, <1>2 DEF CountKnown
    <3>2. \A x \in Threads : job'[x].ds = d => x = t
      BY <1>2, <2>5
    <3> QED BY <1>4, <2>1, <2>4, <2>5, <3>1, <3>2 DEF CountKnown
  <2> QED BY <2>6, <2>8, <2>9, OthersCounted DEF Counted
<1> QED BY <1>7, <1>8

LEMMA ReopenCounts ==
  ASSUME CountInv, SharedInv', NEW t \in Threads, Reopen(t) PROVE CountInv'
<1>1. /\ Typed /\ Typed' /\ job[t].step = "warped" /\ job[t] \in JobType
      /\ UNCHANGED handles
  BY DEF CountInv, SharedInv, Reopen, Typed
<1>2. PICK d \in Datasets :
        /\ d = job[t].ds /\ Open(d) /\ Consistent(d) /\ CountRight(d) /\ CountKnown(d)
        /\ \A x \in Threads : job[x].ds = d => x = t
  BY <1>1, CountOf
<1>3. ds[d].refs = 0 /\ ~Held(d) /\ t \in Unlocked /\ ds[d].creator \in {None, t}
  BY <1>1, <1>2 DEF CountKnown, CountRight, Ended, Ending
<1>4. ds' = [ds EXCEPT ![d].refs = ds[d].refs + 1]
  BY <1>2 DEF Reopen
<1>5. /\ ds'[d].refs = 1 /\ Open(d)' /\ ds'[d].creator = ds[d].creator
      /\ \A g \in Datasets \ {d} : ds'[g] = ds[g]
  BY <1>1, <1>2, <1>3, <1>4 DEF Typed, DatasetType, Open
<1>6. PICK j : j = [job[t] EXCEPT !.step = "geoloc"]
  OBVIOUS
<1>7. j.step = "geoloc" /\ j.ds = d /\ job' = [job EXCEPT ![t] = j]
  BY <1>1, <1>2, <1>6 DEF JobType, Reopen, Typed
<1>8. \A x \in Threads : job'[x] = IF x = t THEN j ELSE job[x]
  BY <1>1, <1>7 DEF Typed
<1>9. StepOn(t, d, j)
  BY <1>1, <1>2, <1>5, <1>7 DEF StepOn
<1>10. CountRight(d)'
  BY <1>1, <1>3, <1>5, <1>7, <1>8 DEF CountRight, Ended, Ending, Held
<1>11. CountKnown(d)'
  BY <1>2, <1>3, <1>5, <1>7, <1>8 DEF CountKnown
<1> QED BY <1>9, <1>10, <1>11, OthersCounted DEF Counted

LEMMA CloseDroppedCounts ==
  ASSUME CountInv, SharedInv', NEW t \in Threads, CloseDropped(t) PROVE CountInv'
<1>1. /\ Typed /\ Typed' /\ job[t].step = "geoloc" /\ handles' = handles
      /\ job' = [job EXCEPT ![t] = Idle]
  BY DEF CountInv, SharedInv, CloseDropped
<1>2. PICK d \in Datasets :
        /\ d = job[t].ds /\ Open(d) /\ Consistent(d) /\ CountRight(d) /\ CountKnown(d)
        /\ \A x \in Threads : job[x].ds = d => x = t
  BY <1>1, CountOf
<1>3. ds[d].refs <= 1 /\ ~Held(d) /\ ds[d].refs \in Int
  BY <1>1, <1>2 DEF CountKnown, CountRight, Ended, Ending, Typed, DatasetType
<1>4. GDALClose(d)
  BY <1>2 DEF CloseDropped
<1>5. ~(ds[d].refs - 1 > 0)
  BY <1>3
<1>6. ~Open(d)' /\ \A g \in Datasets \ {d} : ds'[g] = ds[g]
  BY <1>1, <1>4, <1>5, GDALCloseIs DEF Open
<1>7. StepOn(t, d, Idle)
  BY <1>1, <1>2, <1>6, IdleIs DEF StepOn
<1>8. NotUsed(d)'
  <2>1. \A x \in Threads : job'[x] = IF x = t THEN Idle ELSE job[x]
    BY <1>1 DEF Typed
  <2> QED BY <1>2, <2>1, IdleIs, Constants DEF NotUsed
<1>9. ~Held(d)'
  BY <1>1, <1>3 DEF Held
<1>10. Counted(d)'
  BY <1>6, <1>8, <1>9, CountedAlone
<1> QED BY <1>7, <1>10, OthersCounted
----------------------------------------------------------------------------
LEMMA InitCounts == Init => CountInv
<1> SUFFICES ASSUME Init PROVE CountInv
  OBVIOUS
<1>1. SharedInv
  BY InitInv
<1>2. ASSUME NEW d \in Datasets PROVE Counted(d)
  <2>1. ~Held(d) /\ ~Open(d)
    BY UnbornIs DEF Init, Held, Open
  <2>2. NotUsed(d)
    BY IdleIs, Constants DEF Init, NotUsed
  <2> QED BY <2>1, <2>2 DEF Counted, CountRight, CountKnown, NotUsed
<1> QED BY <1>1, <1>2 DEF CountInv

LEMMA NextCounts ==
  ASSUME CountInv, [Next]_vars, Impersonated \cap Unlocked = {} PROVE CountInv'
<1>1. SharedInv'
  BY NextInv DEF CountInv
<1>2. CASE Next
  <2>1. PICK t \in Threads :
          \/ \E u \in Users, p \in Threads, f \in Files, a \in Accesses :
               Found(t, u, p, f, a) \/ NotFound(t, u, p, f, a)
          \/ OpenFails(t) \/ MarkAsShared(t)
          \/ \E d \in Datasets, access \in Modes :
               OpenNamed(t, d, access) \/ OpenRenamed(t, d, access)
          \/ \E u \in Users, p \in Threads, d \in Datasets : Close(t, u, p, d)
          \/ \E d \in Datasets : AddReference(t, d)
          \/ \E d \in Datasets, drop \in Drops : Drop(t, d, drop)
          \/ StoreReference(t) \/ StoreDereference(t)
          \/ Reopen(t) \/ CloseDropped(t)
    BY <1>2 DEF Next
  <2>2. ASSUME NEW u \in Users, NEW p \in Threads, NEW f \in Files, NEW a \in Accesses,
               Found(t, u, p, f, a) \/ NotFound(t, u, p, f, a)
        PROVE  CountInv'
    BY <1>1, <2>2, FoundCounts, NotFoundCounts
  <2>3. CASE OpenFails(t) \/ MarkAsShared(t)
    BY <1>1, <2>3, OpenFailsCounts, MarkAsSharedCounts
  <2>4. ASSUME NEW d \in Datasets, NEW access \in Modes,
               OpenNamed(t, d, access) \/ OpenRenamed(t, d, access)
        PROVE  CountInv'
    BY <1>1, <2>4, OpenNamedCounts, OpenRenamedCounts
  <2>5. ASSUME NEW u \in Users, NEW p \in Threads, NEW d \in Datasets, Close(t, u, p, d)
        PROVE  CountInv'
    BY <1>1, <2>5, CloseCounts
  <2>6. ASSUME NEW d \in Datasets, AddReference(t, d) PROVE CountInv'
    BY <1>1, <2>6, LoadCounts DEF AddReference, Drops
  <2>7. ASSUME NEW d \in Datasets, NEW drop \in Drops, Drop(t, d, drop) PROVE CountInv'
    BY <1>1, <2>7, LoadCounts DEF Drop
  <2>8. CASE StoreReference(t) \/ StoreDereference(t)
    BY <1>1, <2>8, StoreReferenceCounts, StoreDereferenceCounts
  <2>9. CASE Reopen(t) \/ CloseDropped(t)
    BY <1>1, <2>9, ReopenCounts, CloseDroppedCounts
  <2> QED BY <2>1, <2>2, <2>3, <2>4, <2>5, <2>6, <2>7, <2>8, <2>9
<1>3. CASE UNCHANGED vars
  <2>1. Typed /\ Typed' /\ ds' = ds /\ handles' = handles /\ job' = job
    BY <1>1, <1>3 DEF CountInv, SharedInv, vars
  <2>2. ASSUME NEW d \in Datasets PROVE Counted(d)'
    <3>1. HandlesOn(d)' = HandlesOn(d) /\ (Held(d)' <=> Held(d))
      BY <2>1, HandlesOnStill
    <3>2. Counted(d) /\ (Open(d)' <=> Open(d))
          /\ (Ended(d)' <=> Ended(d)) /\ (NotUsed(d)' <=> NotUsed(d))
      BY <2>1 DEF CountInv, Open, Ended, NotUsed
    <3>3. CountRight(d)'
      BY <2>1, <3>1, <3>2 DEF Counted, CountRight
    <3>4. CountKnown(d)'
      BY <2>1, <3>2 DEF Counted, CountKnown
    <3> QED BY <3>3, <3>4 DEF Counted
  <2> QED BY <1>1, <2>2 DEF CountInv
<1> QED BY <1>2, <1>3

LEMMA CountInvariance == Impersonated \cap Unlocked = {} => (Spec => []CountInv)
<1> SUFFICES ASSUME Impersonated \cap Unlocked = {} PROVE Spec => []CountInv
  OBVIOUS
<1>1. CountInv /\ [Next]_vars => CountInv'
  BY NextCounts
<1> QED BY <1>1, InitCounts, PTL DEF Spec

\* Whoever was given a dataset can use it until it is given back, as long as
\* no thread that the pool opens files for counts references without hDLMutex.
THEOREM HeldIsOpenHolds == Impersonated \cap Unlocked = {} => (Spec => []HeldIsOpen)
<1>1. CountInv => HeldIsOpen
  BY DEF CountInv, Counted, CountRight, Held, HeldIsOpen
<1> QED BY <1>1, CountInvariance, PTL

\* Under the same condition nRefCount is the number of handles, although
\* Reference and Dereference load and store it without a lock: the last handle
\* closes the dataset and no shared one is left open with nobody to close it.
THEOREM RefsMatchHandlesHolds ==
  Impersonated \cap Unlocked = {} => (Spec => []RefsMatchHandles)
<1>1. CountInv => RefsMatchHandles
  <2> SUFFICES ASSUME CountInv PROVE RefsMatchHandles
    OBVIOUS
  <2>1. ASSUME NEW d \in Datasets, Open(d)
        PROVE  IF \E t \in Threads : job[t].ds = d /\ job[t].step \in {"mark"} \cup Drops
               THEN HandlesOn(d) = 0
               ELSE ds[d].refs = HandlesOn(d) /\ (ds[d].shared => ds[d].refs > 0)
    <3>1. CountRight(d) /\ Typed
      BY DEF CountInv, Counted, SharedInv
    <3>2. \A t \in Threads : job[t].step \in Ending <=> job[t].step \in {"mark"} \cup Drops
      BY <3>1 DEF Typed, JobType, Steps, Ending, Drops
    <3> QED BY <2>1, <3>1, <3>2, HandlesOnIs DEF CountRight, Ended
  <2> QED BY <2>1 DEF RefsMatchHandles
<1> QED BY <1>1, CountInvariance, PTL
=============================================================================
