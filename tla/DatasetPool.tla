---------------------------- MODULE DatasetPool ----------------------------
(***************************************************************************)
(* The pool of opened datasets behind the proxy datasets of                *)
(* gcore/gdalproxypool.cpp.  A proxy stands for a file; every call made on *)
(* it references a pool entry (RefUnderlyingDataset), uses the dataset the *)
(* entry holds and drops the reference.  The pool holds at most MaxSize    *)
(* datasets and recycles the least recently used entry nobody references.  *)
(*                                                                         *)
(* RefDataset, UnrefDataset, Ref and Unref hold the recursive mutex        *)
(* hDLMutex from end to end, the nested GDALOpen and GDALClose included,   *)
(* so each is one step.  An entry is keyed by file name and by the thread  *)
(* that CREATED the proxy: RefUnderlyingDataset impersonates that thread.  *)
(*                                                                         *)
(* A VRT makes a proxy for each of its sources.  One that is opened inside *)
(* _RefDataset, with refCountOfDisableRefCount above 0, makes "inner"      *)
(* proxies, which take no reference on the pool and live as long as the    *)
(* dataset of the entry; the others are "toplevel", and are counted.       *)
(***************************************************************************)
EXTENDS LruSeq, FiniteSets

CONSTANTS
  Threads,       \* threads, that is to say the values of CPLGetPID()
  Files,         \* file names
  FilesWithBand, \* the files in which the proxied band exists
  Sources,       \* Sources[f]: the files the VRT f makes proxies for
  Proxies,       \* the GDALProxyPoolDataset objects
  MaxSize,       \* GDAL_MAX_DATASET_POOL_SIZE
  MaxLeaks,      \* bound: references BandMissing may lose on one entry
  NoKey,         \* stands for the NULL description of an unused entry or proxy
  Depth          \* how many calls one thread nests (VRTs made of VRTs)

ASSUME PoolAssumption ==
  /\ MaxSize \in Nat /\ MaxSize >= 2
  /\ Depth \in Nat \ {0} /\ MaxLeaks \in Nat
  /\ FilesWithBand \subseteq Files
  /\ Sources \in [Files -> SUBSET Files]
  /\ IsFiniteSet(Threads) /\ IsFiniteSet(Proxies)

Entries == 1 .. MaxSize
Keys == [file : Files, pid : Threads]
NoEntry == 0
Outside == 0 \* who keeps a toplevel proxy: a VRT that no entry holds

ASSUME NoKeyAssumption == NoKey \notin Keys

VARIABLES
  poolRefCount, \* singleton->refCount; 0 when there is no singleton
  order,        \* the linked list of entries, firstEntry first
  key,          \* key[e]: pszFileName and responsiblePID
  isOpen,       \* isOpen[e]: poDS is not NULL
  refCount,     \* refCount[e]
  proxy,        \* proxy[p]: description and responsiblePID, NoKey when deleted
  keptBy,       \* keptBy[p]: who holds the VRT p is a source of, {} when deleted
  cacheEntry,   \* cacheEntry[p]: the member of the proxy, shared by threads
  calls         \* calls[t]: the proxies t is in calls on, the innermost one last

vars == <<poolRefCount, order, key, isOpen, refCount, proxy, keptBy, cacheEntry, calls>>
----------------------------------------------------------------------------
Last(s) == s[Len(s)]
Front(s) == SubSeq(s, 1, Len(s) - 1)

\* t is between RefUnderlyingDataset and UnrefUnderlyingDataset of p.
held == {h \in Threads \X Proxies : h[2] \in Elements(calls[h[1]])}
Holders(e) == {h \in held : cacheEntry[h[2]] = e}
LiveProxies == {p \in Proxies : proxy[p] # NoKey}
TopProxies == {p \in Proxies : Outside \in keptBy[p]}
\* Mutant: entries in use are candidates for recycling too.
IdleOrBusy(e) == e \in Elements(order)

Idle(e) == e \in Elements(order) /\ refCount[e] = 0
Spare == {e \in Entries : Idle(e)}
Full == Len(order) = MaxSize
\* Mutant: an entry whose dataset could not be opened is not found again.
FoundOpen(k) == {e \in Elements(order) : key[e] = k /\ isOpen[e]}

Found(k) == {e \in Elements(order) : key[e] = k}

\* The proxies that come into being while the VRT f is opened in an entry, one
\* or more for a source.  A file that is not a VRT has no sources and makes none.
MadeBy(f) == UNION {[S -> Sources[f]] : S \in SUBSET (Proxies \ LiveProxies)}

\* t may call into p: p is toplevel, or a source of a dataset t is in a call
\* on.  A thread nests at most Depth calls, on distinct proxies, and a call that
\* found no dataset makes none.
MayCall(t, p) ==
  /\ proxy[p] # NoKey
  /\ \/ Outside \in keptBy[p]
     \/ \E q \in Elements(calls[t]) : cacheEntry[q] \in keptBy[p]
  /\ p \notin Elements(calls[t])
  /\ Len(calls[t]) < Depth
  /\ calls[t] # <<>> => isOpen[cacheEntry[Last(calls[t])]]
----------------------------------------------------------------------------
NewProxy(t, p, f) ==
  /\ proxy[p] = NoKey
  /\ poolRefCount' = poolRefCount + 1
  /\ proxy' = [proxy EXCEPT ![p] = [file |-> f, pid |-> t]]
  /\ keptBy' = [keptBy EXCEPT ![p] = {Outside}]
  /\ UNCHANGED <<order, key, isOpen, refCount, cacheEntry, calls>>

\* The toplevel proxy that brings the count to 0 destroys the pool, its
\* datasets and with them the inner proxies.
DeleteProxy(p) ==
  /\ keptBy[p] = {Outside}
  /\ \A t \in Threads : p \notin Elements(calls[t])
  /\ poolRefCount' = poolRefCount - 1
  /\ IF poolRefCount = 1
     THEN /\ order' = <<>>
          /\ key' = [e \in Entries |-> NoKey]
          /\ isOpen' = [e \in Entries |-> FALSE]
          /\ refCount' = [e \in Entries |-> 0]
          /\ keptBy' = [q \in Proxies |-> IF q = p THEN {} ELSE keptBy[q] \ Entries]
     ELSE /\ keptBy' = [keptBy EXCEPT ![p] = {}]
          /\ UNCHANGED <<order, key, isOpen, refCount>>
  /\ proxy' = [q \in Proxies |-> IF keptBy'[q] = {} THEN NoKey ELSE proxy[q]]
  /\ cacheEntry' = [q \in Proxies |-> IF keptBy'[q] = {} THEN NoEntry ELSE cacheEntry[q]]
  /\ UNCHANGED calls

\* The entry found is the newest now, and t is in a call on it.
Enter(t, p, e) ==
  /\ MayCall(t, p)
  /\ e \in Found(proxy[p])
  /\ order' = MoveToFront(order, e)
  /\ cacheEntry' = [cacheEntry EXCEPT ![p] = e]
  /\ calls' = [calls EXCEPT ![t] = Append(@, p)]
  /\ UNCHANGED <<poolRefCount, key, isOpen, proxy, keptBy>>

\* Mutant: finding the dataset in the pool does not count the new reference.
RefHitUncounted(t, p, e) == Enter(t, p, e) /\ UNCHANGED refCount

RefHit(t, p, e) == Enter(t, p, e) /\ refCount' = [refCount EXCEPT ![e] = @ + 1]

\* e now caches proxy p's file; opened says whether GDALOpen succeeded.  A
\* failure is cached too: the entry stays in the list with a NULL poDS.  The
\* dataset e held before is closed, its inner proxies with it; a VRT makes new
\* ones, for the thread that is impersonated.
Refill(t, p, e, opened, made) ==
  /\ ~opened => DOMAIN made = {}
  /\ order' = MoveToFront(order, e)
  /\ key' = [key EXCEPT ![e] = proxy[p]]
  /\ isOpen' = [isOpen EXCEPT ![e] = opened]
  /\ refCount' = [refCount EXCEPT ![e] = 1]
  /\ keptBy' = [q \in Proxies |-> IF q \in DOMAIN made THEN {e} ELSE keptBy[q] \ {e}]
  /\ proxy' = [q \in Proxies |->
                 IF q \in DOMAIN made THEN [file |-> made[q], pid |-> proxy[p].pid]
                 ELSE IF keptBy'[q] = {} THEN NoKey ELSE proxy[q]]
  /\ cacheEntry' = [q \in Proxies |->
                      IF q = p THEN e
                      ELSE IF q \in DOMAIN made \/ keptBy'[q] = {} THEN NoEntry
                      ELSE cacheEntry[q]]
  /\ calls' = [calls EXCEPT ![t] = Append(@, p)]

\* Mutant: inner proxies take a reference on the pool too.
OpenIntoCounting(t, p, e, opened, made) ==
  /\ Refill(t, p, e, opened, made)
  /\ poolRefCount' = poolRefCount + Cardinality(DOMAIN made)

\* Neither opening nor closing below refCountOfDisableRefCount counts.
OpenInto(t, p, e, opened, made) ==
  /\ Refill(t, p, e, opened, made)
  /\ UNCHANGED poolRefCount

RefPrepend(t, p, opened, made) ==
  /\ MayCall(t, p)
  /\ Found(proxy[p]) = {}
  /\ ~Full
  /\ OpenInto(t, p, Len(order) + 1, opened, made)

RefRecycle(t, p, opened, made) ==
  /\ MayCall(t, p)
  /\ Found(proxy[p]) = {}
  /\ Full
  /\ Spare # {}
  /\ OpenInto(t, p, OldestIn(order, Spare), opened, made)

\* "Too many threads are running for the current value of the pool size".
RefExhausted(t, p) ==
  /\ MayCall(t, p)
  /\ Found(proxy[p]) = {}
  /\ Full
  /\ Spare = {}
  /\ cacheEntry' = [cacheEntry EXCEPT ![p] = NoEntry]
  /\ UNCHANGED <<poolRefCount, order, key, isOpen, refCount, proxy, keptBy, calls>>

\* UnrefUnderlyingDataset at the end of the innermost call, or the immediate
\* UnrefDataset of RefUnderlyingDataset when the dataset could not be opened.
Unref(t) ==
  /\ calls[t] # <<>>
  /\ refCount' = [refCount EXCEPT ![cacheEntry[Last(calls[t])]] = @ - 1]
  /\ calls' = [calls EXCEPT ![t] = Front(@)]
  /\ UNCHANGED <<poolRefCount, order, key, isOpen, proxy, keptBy, cacheEntry>>

\* RefUnderlyingRasterBand: GetRasterBand answers NULL, the caller returns at
\* once and the reference on the dataset is never dropped.
BandMissing(t) ==
  /\ calls[t] # <<>>
  /\ LET p == Last(calls[t])
         e == cacheEntry[p]
     IN  /\ isOpen[e]
         /\ proxy[p].file \notin FilesWithBand
         /\ refCount[e] - Cardinality(Holders(e)) < MaxLeaks
  /\ calls' = [calls EXCEPT ![t] = Front(@)]
  /\ UNCHANGED <<poolRefCount, order, key, isOpen, refCount, proxy, keptBy, cacheEntry>>
----------------------------------------------------------------------------
Init ==
  /\ poolRefCount = 0
  /\ order = <<>>
  /\ key = [e \in Entries |-> NoKey]
  /\ isOpen = [e \in Entries |-> FALSE]
  /\ refCount = [e \in Entries |-> 0]
  /\ proxy = [p \in Proxies |-> NoKey]
  /\ keptBy = [p \in Proxies |-> {}]
  /\ cacheEntry = [p \in Proxies |-> NoEntry]
  /\ calls = [t \in Threads |-> <<>>]

Next ==
  \/ \E p \in Proxies : DeleteProxy(p)
  \/ \E t \in Threads : Unref(t) \/ BandMissing(t)
  \/ \E t \in Threads, p \in Proxies, f \in Files : NewProxy(t, p, f)
  \/ \E t \in Threads, p \in LiveProxies :
       \/ \E e \in Entries : RefHit(t, p, e)
       \/ \E opened \in BOOLEAN : \E made \in MadeBy(proxy[p].file) :
            RefPrepend(t, p, opened, made) \/ RefRecycle(t, p, opened, made)
       \/ RefExhausted(t, p)

Spec == Init /\ [][Next]_vars
----------------------------------------------------------------------------
\* A source of a pooled VRT was opened with GDALOpenShared and is a VRT with
\* proxies of its own, and a VRT outside of the pool opens it too, in the
\* thread it was opened for.  From here on the two share its proxies.
Share(p) ==
  /\ keptBy[p] # {} /\ Outside \notin keptBy[p]
  /\ keptBy' = [keptBy EXCEPT ![p] = @ \cup {Outside}]
  /\ UNCHANGED <<poolRefCount, order, key, isOpen, refCount, proxy, cacheEntry, calls>>

SharingNext == Next \/ \E p \in Proxies : Share(p)

\* The specification without the restriction that what the pool opens is its own.
SharingSpec == Init /\ [][SharingNext]_vars
----------------------------------------------------------------------------
TypeOK ==
  /\ poolRefCount \in Nat
  /\ order \in Seq(Entries)
  /\ key \in [Entries -> Keys \cup {NoKey}]
  /\ isOpen \in [Entries -> BOOLEAN]
  /\ refCount \in [Entries -> Nat]
  /\ proxy \in [Proxies -> Keys \cup {NoKey}]
  /\ keptBy \in [Proxies -> SUBSET (Entries \cup {Outside})]
  /\ cacheEntry \in [Proxies -> Entries \cup {NoEntry}]
  /\ calls \in [Threads -> Seq(Proxies)]

\* The count of an entry is the number of calls in progress on it: no call
\* path of the proxies drops a reference twice, and none forgets to drop one
\* but those that ask for a band the file does not have.
RefsMatchHolders ==
  \A e \in Entries :
    \/ refCount[e] = Cardinality(Holders(e))
    \/ /\ refCount[e] > Cardinality(Holders(e))
       /\ key[e] # NoKey /\ key[e].file \notin FilesWithBand

\* A proxy is toplevel, or made by the dataset of one entry of the list, for as
\* long as it exists.
ProxiesKept ==
  \A p \in Proxies :
    /\ proxy[p] = NoKey <=> keptBy[p] = {}
    /\ \/ keptBy[p] \in {{}, {Outside}}
       \/ \E e \in Elements(order) : keptBy[p] = {e}

\* A thread calls a proxy from the outside, or from inside of a call on the
\* entry whose dataset the proxy is a source of.
CallsNested ==
  \A t \in Threads :
    /\ NoDuplicates(calls[t])
    /\ \A i \in 1 .. Len(calls[t]) :
         \/ keptBy[calls[t][i]] = {Outside}
         \/ \E j \in 1 .. i - 1 : keptBy[calls[t][i]] = {cacheEntry[calls[t][j]]}

\* The inductive invariant behind the theorems: every entry in use is in the
\* list, under the key of the proxies that use it, and is counted at least
\* once per user (BandMissing may leave it counted more often).
PoolInv ==
  /\ TypeOK
  /\ NoDuplicates(order)
  /\ Elements(order) = 1 .. Len(order)
  /\ \A e \in Elements(order) : key[e] \in Keys
  /\ \A d, e \in Elements(order) : key[d] = key[e] => d = e
  /\ \A h \in held : /\ proxy[h[2]] # NoKey
                     /\ cacheEntry[h[2]] \in Elements(order)
                     /\ key[cacheEntry[h[2]]] = proxy[h[2]]
  /\ \A e \in Entries : Cardinality(Holders(e)) <= refCount[e]
  /\ poolRefCount = Cardinality(TopProxies)
  /\ ProxiesKept
  /\ CallsNested

\* A file is never opened twice for the same creating thread: two entries
\* of the list never have the same key.
OneEntryPerKey ==
  \A d, e \in Elements(order) : key[d] = key[e] => d = e

\* The dataset under a call in progress is neither closed, nor recycled for
\* another file, nor swapped by another thread that refreshes the member
\* cacheEntry of the same proxy; the proxy itself is not deleted under the
\* call, which for an inner one would be by closing the VRT it is a source of.
DatasetStaysWhileHeld ==
  [][\A h \in held \cap held' :
       LET e == cacheEntry[h[2]] IN
         /\ cacheEntry'[h[2]] = e
         /\ proxy'[h[2]] = proxy[h[2]]
         /\ key'[e] = proxy[h[2]]
         /\ isOpen'[e] = isOpen[e]]_vars

\* The singleton is counted once per toplevel proxy and not for the inner ones
\* it makes itself: they neither keep it alive nor destroy it.  When the last
\* toplevel proxy goes, no dataset stays open and no inner proxy is left.
PoolOutlivesProxies ==
  /\ poolRefCount = Cardinality(TopProxies)
  /\ TopProxies = {} => LiveProxies = {} /\ \A e \in Entries : ~isOpen[e]

\* "Taken by toplevel GDALProxyPoolDataset in its constructor and released in
\* its destructor": there is a pool as long as there is a toplevel proxy.
PoolTaken == TopProxies # {} => poolRefCount > 0

=============================================================================
