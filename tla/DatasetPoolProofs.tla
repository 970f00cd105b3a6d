------------------------- MODULE DatasetPoolProofs -------------------------
(***************************************************************************)
(* For any threads, files, proxies, pool size and nesting depth: the pool  *)
(* never opens a file twice for one thread, a dataset never changes under  *)
(* a call in progress, and the singleton goes with the last toplevel       *)
(* proxy.  PoolInv is inductive; OneEntryPerKey makes every reference      *)
(* through a shared proxy meet the same entry, the count of an entry,      *)
(* never below its number of users, keeps it from being recycled, and      *)
(* CallsNested keeps the inner proxies: whoever calls one is in a call on  *)
(* the entry that made it.  The second half is about DatasetPoolLinks: the *)
(* pointers of the doubly linked list always are the sequence of the pool, *)
(* until its first entry is recycled, which never happens when there is an *)
(* entry more than calls and lost references can occupy.                   *)
(***************************************************************************)
EXTENDS DatasetPoolLinks, ListsAndSums

\* held, entry by entry and call by call.
LEMMA HeldIs ==
  ASSUME TypeOK
  PROVE  /\ held \subseteq Threads \X Proxies
         /\ \A t \in Threads, p \in Proxies : <<t, p>> \in held <=> p \in Elements(calls[t])
         /\ \A t \in Threads, i \in Nat : i \in 1 .. Len(calls[t]) =>
              calls[t][i] \in Proxies /\ <<t, calls[t][i]>> \in held
         /\ \A h \in held : \E i \in 1 .. Len(calls[h[1]]) : calls[h[1]][i] = h[2]
<1>1. calls \in [Threads -> Seq(Proxies)]
  BY DEF TypeOK
<1>2. \A t \in Threads : DOMAIN calls[t] = 1 .. Len(calls[t])
  BY <1>1
<1>3. /\ held \subseteq Threads \X Proxies
      /\ \A t \in Threads, p \in Proxies : <<t, p>> \in held <=> p \in Elements(calls[t])
  BY DEF held
<1>4. \A t \in Threads, i \in Nat : i \in 1 .. Len(calls[t]) =>
        calls[t][i] \in Proxies /\ calls[t][i] \in Elements(calls[t])
  BY <1>1, <1>2 DEF Elements
<1>5. \A h \in held : \E i \in 1 .. Len(calls[h[1]]) : calls[h[1]][i] = h[2]
  BY <1>2 DEF held, Elements
<1> QED BY <1>3, <1>4, <1>5

\* The calls in progress are finitely many.
LEMMA HeldFinite ==
  ASSUME PoolInv
  PROVE  IsFiniteSet(held) /\ \A e \in Entries : IsFiniteSet(Holders(e))
<1>1. IsFiniteSet(Threads \X Proxies)
  BY FS_Product, PoolAssumption
<1>2. IsFiniteSet(held)
  BY <1>1, FS_Subset DEF held
<1>3. \A e \in Entries : Holders(e) \subseteq held
  BY DEF Holders
<1> QED BY <1>2, <1>3, FS_Subset

\* A call that begins is the innermost one.
LEMMA CallBegins ==
  ASSUME TypeOK, NEW t \in Threads, NEW p \in Proxies, p \notin Elements(calls[t]),
         calls' = [calls EXCEPT ![t] = Append(calls[t], p)]
  PROVE  /\ calls' \in [Threads -> Seq(Proxies)]
         /\ held' = held \cup {<<t, p>>} /\ <<t, p>> \notin held
         /\ Len(calls'[t]) = Len(calls[t]) + 1 /\ Len(calls[t]) \in Nat
         /\ calls'[t][Len(calls[t]) + 1] = p
         /\ \A i \in 1 .. Len(calls[t]) : calls'[t][i] = calls[t][i]
         /\ \A x \in Threads \ {t} : calls'[x] = calls[x]
<1>1. calls \in [Threads -> Seq(Proxies)] /\ calls[t] \in Seq(Proxies)
  BY DEF TypeOK
<1>2. PICK s \in Seq(Proxies) : s = calls[t]
  BY <1>1
<1>3. PICK r : r = Append(s, p)
  OBVIOUS
<1>4. /\ r \in Seq(Proxies) /\ Len(r) = Len(s) + 1 /\ Len(s) \in Nat /\ r[Len(s) + 1] = p
      /\ \A i \in 1 .. Len(s) : r[i] = s[i]
  BY <1>3
<1>5. calls' = [calls EXCEPT ![t] = r]
  BY <1>2, <1>3
<1>6. calls'[t] = r /\ \A x \in Threads \ {t} : calls'[x] = calls[x]
  BY <1>1, <1>5
<1>7. Elements(r) = Elements(s) \cup {p}
  <2>1. DOMAIN r = 1 .. Len(s) + 1 /\ DOMAIN s = 1 .. Len(s)
    BY <1>4
  <2> QED BY <2>1, <1>4 DEF Elements
<1>8. held' = {h \in Threads \X Proxies : h[2] \in Elements(calls'[h[1]])}
  BY DEF held
<1>9. held' = held \cup {<<t, p>>}
  <2>1. ASSUME NEW x \in Threads, NEW q \in Proxies
        PROVE  <<x, q>> \in held' <=> <<x, q>> \in held \/ <<x, q>> = <<t, p>>
    <3>1. <<x, q>> \in held' <=> q \in Elements(calls'[x])
      BY <1>8
    <3>2. <<x, q>> \in held <=> q \in Elements(calls[x])
      BY DEF held
    <3> QED BY <3>1, <3>2, <1>2, <1>6, <1>7
  <2>2. held' \subseteq Threads \X Proxies /\ held \subseteq Threads \X Proxies
    BY <1>8 DEF held
  <2> QED BY <2>1, <2>2
<1>10. <<t, p>> \notin held
  BY DEF held
<1>11. calls' \in [Threads -> Seq(Proxies)]
  BY <1>1, <1>4, <1>5
<1> QED BY <1>2, <1>4, <1>6, <1>9, <1>10, <1>11

\* The innermost call ends.
LEMMA CallEnds ==
  ASSUME TypeOK, NEW t \in Threads, NoDuplicates(calls[t]), calls[t] # <<>>,
         calls' = [calls EXCEPT ![t] = Front(calls[t])]
  PROVE  /\ calls' \in [Threads -> Seq(Proxies)]
         /\ Last(calls[t]) \in Proxies /\ <<t, Last(calls[t])>> \in held
         /\ held' = held \ {<<t, Last(calls[t])>>}
         /\ Len(calls'[t]) = Len(calls[t]) - 1 /\ Len(calls[t]) \in Nat
         /\ \A i \in 1 .. Len(calls[t]) - 1 : calls'[t][i] = calls[t][i]
         /\ \A x \in Threads \ {t} : calls'[x] = calls[x]
<1>1. calls \in [Threads -> Seq(Proxies)] /\ calls[t] \in Seq(Proxies)
  BY DEF TypeOK
<1>2. PICK s \in Seq(Proxies) : s = calls[t]
  BY <1>1
<1>3. PICK r : r = SubSeq(s, 1, Len(s) - 1)
  OBVIOUS
<1>4. Len(s) \in Nat /\ Len(s) # 0
  BY <1>2
<1>5. /\ r \in Seq(Proxies) /\ Len(r) = Len(s) - 1
      /\ \A i \in 1 .. Len(s) - 1 : r[i] = s[i]
  <2>1. PICK n \in Nat : n = Len(s) - 1
    BY <1>4
  <2>2. \A i \in 1 .. n : s[i] \in Proxies
    BY <1>4, <2>1
  <2>3. /\ r \in Seq(Proxies) /\ Len(r) = IF 1 <= n THEN n - 1 + 1 ELSE 0
        /\ \A i \in 1 .. n - 1 + 1 : r[i] = s[1 + i - 1]
    BY <1>3, <2>1, <2>2, SubSeqProperties
  <2> QED BY <1>4, <2>1, <2>3
<1>6. calls' = [calls EXCEPT ![t] = r]
  BY <1>2, <1>3 DEF Front
<1>7. calls'[t] = r /\ \A x \in Threads \ {t} : calls'[x] = calls[x]
  BY <1>1, <1>6
<1>8. PICK p : p = s[Len(s)]
  OBVIOUS
<1>9. p \in Proxies /\ p \in Elements(s) /\ Elements(r) = Elements(s) \ {p}
  <2>1. /\ DOMAIN r = 1 .. Len(s) - 1 /\ DOMAIN s = 1 .. Len(s)
        /\ \A i, j \in 1 .. Len(s) : s[i] = s[j] => i = j
    BY <1>2, <1>4, <1>5 DEF NoDuplicates
  <2>2. Len(s) \in 1 .. Len(s) /\ p \in Proxies
    BY <1>4, <1>8
  <2>3. p \in Elements(s)
    BY <1>8, <2>1, <2>2 DEF Elements
  <2>4. ASSUME NEW q \in Elements(r) PROVE q \in Elements(s) \ {p}
    <3>1. PICK i \in 1 .. Len(s) - 1 : r[i] = q
      BY <2>1 DEF Elements
    <3>2. i \in 1 .. Len(s) /\ i # Len(s) /\ s[i] = q
      BY <1>4, <1>5, <3>1
    <3> QED BY <1>8, <2>1, <2>2, <3>2 DEF Elements
  <2>5. ASSUME NEW q \in Elements(s), q # p PROVE q \in Elements(r)
    <3>1. PICK i \in 1 .. Len(s) : s[i] = q
      BY <2>1 DEF Elements
    <3>2. i \in 1 .. Len(s) - 1
      BY <1>4, <1>8, <2>5, <3>1
    <3> QED BY <1>5, <2>1, <3>1, <3>2 DEF Elements
  <2> QED BY <2>2, <2>3, <2>4, <2>5
<1>10. held' = {h \in Threads \X Proxies : h[2] \in Elements(calls'[h[1]])}
  BY DEF held
<1>11. held' = held \ {<<t, p>>}
  <2>1. ASSUME NEW x \in Threads, NEW q \in Proxies
        PROVE  <<x, q>> \in held' <=> <<x, q>> \in held /\ <<x, q>> # <<t, p>>
    <3>1. <<x, q>> \in held' <=> q \in Elements(calls'[x])
      BY <1>10
    <3>2. <<x, q>> \in held <=> q \in Elements(calls[x])
      BY DEF held
    <3> QED BY <3>1, <3>2, <1>2, <1>7, <1>9
  <2>2. held' \subseteq Threads \X Proxies /\ held \subseteq Threads \X Proxies
    BY <1>10 DEF held
  <2> QED BY <2>1, <2>2
<1>12. <<t, p>> \in held
  BY <1>2, <1>9 DEF held
<1>13. calls' \in [Threads -> Seq(Proxies)]
  BY <1>1, <1>5, <1>6
<1>14. p = Last(calls[t])
  BY <1>2, <1>8 DEF Last
<1> QED BY <1>2, <1>4, <1>5, <1>7, <1>9, <1>11, <1>12, <1>13, <1>14

\* CallsNested, call by call.
LEMMA NestedIs ==
  ASSUME CallsNested, NEW t \in Threads, NEW i \in 1 .. Len(calls[t])
  PROVE  \/ keptBy[calls[t][i]] = {Outside}
         \/ \E j \in 1 .. i - 1 : keptBy[calls[t][i]] = {cacheEntry[calls[t][j]]}
<1>1. \A k \in 1 .. Len(calls[t]) :
        \/ keptBy[calls[t][k]] = {Outside}
        \/ \E j \in 1 .. k - 1 : keptBy[calls[t][k]] = {cacheEntry[calls[t][j]]}
  BY DEF CallsNested
<1> QED BY <1>1

\* An entry whose count is zero has no user.
LEMMA IdleUnused ==
  ASSUME PoolInv, NEW e \in Entries, refCount[e] = 0
  PROVE  Holders(e) = {}
<1>1. Cardinality(Holders(e)) <= 0
  BY DEF PoolInv
<1>2. IsFiniteSet(Holders(e))
  BY HeldFinite
<1>3. Cardinality(Holders(e)) = 0
  BY <1>1, <1>2, FS_CardinalityType
<1> QED BY <1>2, <1>3, FS_EmptySet

\* Granting e to a call on p adds this call to the users of e and leaves the
\* users of every other entry alone.
LEMMA GrantHolders ==
  ASSUME NEW t \in Threads, NEW p \in Proxies, NEW e \in Entries,
         held' = held \cup {<<t, p>>}, cacheEntry'[p] = e,
         \A h \in held : cacheEntry'[h[2]] = cacheEntry[h[2]]
  PROVE  /\ Holders(e)' = Holders(e) \cup {<<t, p>>}
         /\ \A d \in Entries \ {e} : Holders(d)' = Holders(d)
<1>1. <<t, p>>[2] = p
  OBVIOUS
<1>2. \A d \in Entries : Holders(d)' = {h \in held' : cacheEntry'[h[2]] = d}
  BY DEF Holders
<1>3. Holders(e)' = Holders(e) \cup {<<t, p>>}
  BY <1>1, <1>2 DEF Holders
<1>4. \A d \in Entries \ {e} : Holders(d)' = Holders(d)
  BY <1>1, <1>2 DEF Holders
<1> QED BY <1>3, <1>4

\* An entry is not the outside.
LEMMA EntriesInside ==
  ASSUME PoolInv
  PROVE  Outside \notin Entries /\ Elements(order) \subseteq Entries
<1>1. order \in Seq(Entries)
  BY DEF PoolInv, TypeOK
<1> QED BY <1>1, ElementsType, PoolAssumption DEF Outside, Entries

\* Whoever calls an inner proxy is in a call on the entry that made it.
LEMMA CalledFromWithin ==
  ASSUME PoolInv, NEW h \in held
  PROVE  /\ h[2] \in Proxies /\ keptBy[h[2]] # {}
         /\ \/ keptBy[h[2]] = {Outside}
            \/ \E e \in Elements(order) : keptBy[h[2]] = {e} /\ Holders(e) # {}
<1>1. TypeOK /\ CallsNested /\ ProxiesKept
  BY DEF PoolInv
<1>2. h[1] \in Threads /\ h[2] \in Proxies
  BY DEF held
<1>3. PICK i \in 1 .. Len(calls[h[1]]) : calls[h[1]][i] = h[2]
  BY <1>1, HeldIs
<1>4. proxy[h[2]] # NoKey
  BY DEF PoolInv
<1>5. keptBy[h[2]] # {}
  BY <1>1, <1>2, <1>4 DEF ProxiesKept
<1>6. CASE keptBy[h[2]] # {Outside}
  <2>1. PICK j \in 1 .. i - 1 : keptBy[h[2]] = {cacheEntry[calls[h[1]][j]]}
    <3>1. \/ keptBy[calls[h[1]][i]] = {Outside}
          \/ \E j \in 1 .. i - 1 : keptBy[calls[h[1]][i]] = {cacheEntry[calls[h[1]][j]]}
      BY <1>1, <1>2, NestedIs
    <3> QED BY <1>3, <1>6, <3>1
  <2>2. calls[h[1]] \in Seq(Proxies)
    BY <1>1, <1>2 DEF TypeOK
  <2>3. j \in 1 .. Len(calls[h[1]])
    BY <2>2
  <2>4. PICK g : g = <<h[1], calls[h[1]][j]>>
    OBVIOUS
  <2>5. g \in held /\ cacheEntry[g[2]] = cacheEntry[calls[h[1]][j]]
    BY <1>1, <1>2, <2>3, <2>4, HeldIs
  <2>6. cacheEntry[g[2]] \in Elements(order) /\ g \in Holders(cacheEntry[g[2]])
    BY <2>5 DEF PoolInv, Holders
  <2> QED BY <1>2, <1>5, <2>1, <2>5, <2>6
<1> QED BY <1>2, <1>5, <1>6

\* The calls below an inner proxy lead to a toplevel one.
LEMMA CallsFromTop ==
  ASSUME PoolInv, NEW h \in held
  PROVE  \E q \in TopProxies : <<h[1], q>> \in held
<1>1. TypeOK /\ CallsNested
  BY DEF PoolInv
<1>2. h[1] \in Threads
  BY DEF held
<1>3. calls[h[1]] \in Seq(Proxies)
  BY <1>1, <1>2 DEF TypeOK
<1>4. 1 \in 1 .. Len(calls[h[1]])
  <2>1. \E i \in 1 .. Len(calls[h[1]]) : calls[h[1]][i] = h[2]
    BY <1>1, HeldIs
  <2> QED BY <1>3, <2>1
<1>5. PICK q : q = calls[h[1]][1]
  OBVIOUS
<1>6. q \in Proxies /\ <<h[1], q>> \in held
  BY <1>1, <1>2, <1>4, <1>5, HeldIs
<1>7. keptBy[q] = {Outside}
  <2>1. \/ keptBy[calls[h[1]][1]] = {Outside}
        \/ \E j \in 1 .. 1 - 1 : keptBy[calls[h[1]][1]] = {cacheEntry[calls[h[1]][j]]}
    BY <1>1, <1>2, <1>4, NestedIs
  <2> QED BY <1>5, <2>1
<1> QED BY <1>6, <1>7 DEF TopProxies

LEMMA CallerHasTop ==
  ASSUME PoolInv, NEW t \in Threads, NEW p \in Proxies, MayCall(t, p)
  PROVE  TopProxies # {}
<1>1. CASE Outside \in keptBy[p]
  BY <1>1 DEF TopProxies
<1>2. CASE Outside \notin keptBy[p]
  <2>1. PICK q \in Elements(calls[t]) : TRUE
    BY <1>2 DEF MayCall
  <2>2. q \in Proxies
    <3>1. calls[t] \in Seq(Proxies)
      BY DEF PoolInv, TypeOK
    <3> QED BY <3>1, ElementsType
  <2>3. <<t, q>> \in held
    BY <2>1, <2>2 DEF held
  <2> QED BY <2>3, CallsFromTop
<1> QED BY <1>1, <1>2

\* A call that begins is nested in one on the entry that keeps its proxy.
LEMMA MayCallKept ==
  ASSUME PoolInv, NEW t \in Threads, NEW p \in Proxies, MayCall(t, p)
  PROVE  /\ keptBy[p] # {} /\ p \notin Elements(calls[t])
         /\ \/ keptBy[p] = {Outside}
            \/ \E e \in Elements(order) : keptBy[p] = {e} /\ Holders(e) # {}
         /\ \/ keptBy[p] = {Outside}
            \/ \E j \in 1 .. Len(calls[t]) : keptBy[p] = {cacheEntry[calls[t][j]]}
<1>1. TypeOK /\ ProxiesKept /\ proxy[p] # NoKey /\ p \notin Elements(calls[t])
  BY DEF PoolInv, MayCall
<1>2. /\ keptBy[p] # {}
      /\ keptBy[p] = {Outside} \/ \E e \in Elements(order) : keptBy[p] = {e}
  BY <1>1 DEF ProxiesKept
<1>3. CASE keptBy[p] # {Outside}
  <2>1. PICK e \in Elements(order) : keptBy[p] = {e}
    BY <1>2, <1>3
  <2>2. Outside \notin keptBy[p]
    BY <2>1, EntriesInside
  <2>3. PICK q \in Elements(calls[t]) : cacheEntry[q] \in keptBy[p]
    BY <2>2 DEF MayCall
  <2>4. calls[t] \in Seq(Proxies)
    BY <1>1 DEF TypeOK
  <2>5. PICK j \in 1 .. Len(calls[t]) : calls[t][j] = q
    BY <2>4, ElementsType
  <2>6. keptBy[p] = {cacheEntry[calls[t][j]]} /\ e = cacheEntry[q]
    BY <2>1, <2>3, <2>5
  <2>7. PICK h : h = <<t, q>>
    OBVIOUS
  <2>8. h \in Holders(e)
    <3>1. q \in Proxies
      BY <2>4, ElementsType
    <3> QED BY <2>6, <2>7, <3>1 DEF held, Holders
  <2> QED BY <1>1, <1>2, <2>1, <2>6, <2>8
<1> QED BY <1>1, <1>2, <1>3

LEMMA NestedAfterCall ==
  ASSUME PoolInv, NEW t \in Threads, NEW p \in Proxies, MayCall(t, p),
         calls' = [calls EXCEPT ![t] = Append(calls[t], p)], keptBy'[p] = keptBy[p],
         \A h \in held : /\ keptBy'[h[2]] = keptBy[h[2]]
                         /\ cacheEntry'[h[2]] = cacheEntry[h[2]]
  PROVE  CallsNested'
<1>1. TypeOK /\ CallsNested
  BY DEF PoolInv
<1>2. p \notin Elements(calls[t])
  BY DEF MayCall
<1>3. PICK n \in Nat : n = Len(calls[t])
  BY <1>1, <1>2, CallBegins
<1>4. /\ calls' \in [Threads -> Seq(Proxies)] /\ Len(calls'[t]) = n + 1
      /\ calls'[t][n + 1] = p
      /\ \A i \in 1 .. n : calls'[t][i] = calls[t][i]
      /\ \A x \in Threads \ {t} : calls'[x] = calls[x]
  BY <1>1, <1>2, <1>3, CallBegins
<1>5. \A x \in Threads, i \in Nat : i \in 1 .. Len(calls[x]) =>
        /\ keptBy'[calls[x][i]] = keptBy[calls[x][i]]
        /\ cacheEntry'[calls[x][i]] = cacheEntry[calls[x][i]]
  <2> SUFFICES ASSUME NEW x \in Threads, NEW i \in Nat, i \in 1 .. Len(calls[x])
               PROVE  /\ keptBy'[calls[x][i]] = keptBy[calls[x][i]]
                      /\ cacheEntry'[calls[x][i]] = cacheEntry[calls[x][i]]
    OBVIOUS
  <2>1. PICK h : h = <<x, calls[x][i]>>
    OBVIOUS
  <2>2. h \in held /\ h[2] = calls[x][i]
    BY <1>1, <2>1, HeldIs
  <2> QED BY <2>2
<1>6. ASSUME NEW x \in Threads \ {t}
      PROVE  /\ NoDuplicates(calls'[x])
             /\ \A i \in 1 .. Len(calls'[x]) :
                  \/ keptBy'[calls'[x][i]] = {Outside}
                  \/ \E j \in 1 .. i - 1 : keptBy'[calls'[x][i]] = {cacheEntry'[calls'[x][j]]}
  <2>1. calls'[x] = calls[x] /\ calls[x] \in Seq(Proxies) /\ NoDuplicates(calls[x])
    BY <1>1, <1>4, <1>6 DEF CallsNested, TypeOK
  <2>2. ASSUME NEW i \in 1 .. Len(calls[x])
        PROVE  \/ keptBy'[calls[x][i]] = {Outside}
               \/ \E j \in 1 .. i - 1 : keptBy'[calls[x][i]] = {cacheEntry'[calls[x][j]]}
    <3>1. keptBy'[calls[x][i]] = keptBy[calls[x][i]]
      BY <1>5, <1>6, <2>1
    <3>2. CASE keptBy[calls[x][i]] = {Outside}
      BY <3>1, <3>2
    <3>3. CASE \E j \in 1 .. i - 1 : keptBy[calls[x][i]] = {cacheEntry[calls[x][j]]}
      <4>1. PICK j \in 1 .. i - 1 : keptBy[calls[x][i]] = {cacheEntry[calls[x][j]]}
        BY <3>3
      <4>2. j \in Nat /\ j \in 1 .. Len(calls[x])
        BY <2>1
      <4> QED BY <1>5, <1>6, <3>1, <4>1, <4>2
    <3> QED BY <1>1, <1>6, <3>2, <3>3 DEF CallsNested
  <2> QED BY <2>1, <2>2
<1>7. NoDuplicates(calls'[t])
  <2>1. /\ calls[t] \in Seq(Proxies) /\ NoDuplicates(calls[t])
        /\ calls'[t] \in Seq(Proxies)
    BY <1>1, <1>4 DEF CallsNested, TypeOK
  <2>2. \A i \in 1 .. n : calls[t][i] # p
    BY <1>2, <1>3, <2>1, ElementsType
  <2>3. ASSUME NEW i \in 1 .. n + 1, NEW j \in 1 .. n + 1, calls'[t][i] = calls'[t][j]
        PROVE  i = j
    <3>1. CASE i = n + 1 /\ j # n + 1
      BY <1>4, <2>2, <2>3, <3>1
    <3>2. CASE i # n + 1 /\ j = n + 1
      BY <1>4, <2>2, <2>3, <3>2
    <3>3. CASE i # n + 1 /\ j # n + 1
      BY <1>3, <1>4, <2>1, <2>3, <3>3 DEF NoDuplicates
    <3> QED BY <3>1, <3>2, <3>3
  <2> QED BY <1>4, <2>1, <2>3 DEF NoDuplicates
<1>8. ASSUME NEW i \in 1 .. n + 1
      PROVE  \/ keptBy'[calls'[t][i]] = {Outside}
             \/ \E j \in 1 .. i - 1 : keptBy'[calls'[t][i]] = {cacheEntry'[calls'[t][j]]}
  <2>1. CASE i = n + 1
    <3>1. keptBy'[calls'[t][i]] = keptBy[p]
      BY <1>4, <2>1
    <3>2. CASE keptBy[p] = {Outside}
      BY <3>1, <3>2
    <3>3. CASE \E j \in 1 .. n : keptBy[p] = {cacheEntry[calls[t][j]]}
      <4>1. PICK j \in 1 .. n : keptBy[p] = {cacheEntry[calls[t][j]]}
        BY <3>3
      <4>2. j \in 1 .. i - 1 /\ cacheEntry'[calls'[t][j]] = cacheEntry[calls[t][j]]
        BY <1>3, <1>4, <1>5, <2>1, <4>1
      <4> QED BY <3>1, <4>1, <4>2
    <3> QED BY <1>3, <3>2, <3>3, MayCallKept
  <2>2. CASE i # n + 1
    <3>1. i \in 1 .. n /\ calls'[t][i] = calls[t][i]
      BY <1>4, <2>2
    <3>2. keptBy'[calls[t][i]] = keptBy[calls[t][i]]
      BY <1>3, <1>5, <3>1
    <3>3. CASE keptBy[calls[t][i]] = {Outside}
      BY <3>1, <3>2, <3>3
    <3>4. CASE \E j \in 1 .. i - 1 : keptBy[calls[t][i]] = {cacheEntry[calls[t][j]]}
      <4>1. PICK j \in 1 .. i - 1 : keptBy[calls[t][i]] = {cacheEntry[calls[t][j]]}
        BY <3>4
      <4>2. j \in 1 .. n /\ cacheEntry'[calls'[t][j]] = cacheEntry[calls[t][j]]
        BY <1>3, <1>4, <1>5, <3>1
      <4> QED BY <3>1, <3>2, <4>1, <4>2
    <3> QED BY <1>1, <1>3, <3>1, <3>3, <3>4 DEF CallsNested
  <2> QED BY <2>1, <2>2
<1>9. \A x \in Threads : NoDuplicates(calls'[x])
  BY <1>4, <1>6, <1>7
<1>10. ASSUME NEW x \in Threads, NEW i \in 1 .. Len(calls'[x])
       PROVE  \/ keptBy'[calls'[x][i]] = {Outside}
              \/ \E j \in 1 .. i - 1 : keptBy'[calls'[x][i]] = {cacheEntry'[calls'[x][j]]}
  <2>1. CASE x = t
    <3>1. i \in 1 .. n + 1
      BY <1>4, <2>1
    <3>2. \/ keptBy'[calls'[t][i]] = {Outside}
          \/ \E j \in 1 .. i - 1 : keptBy'[calls'[t][i]] = {cacheEntry'[calls'[t][j]]}
      BY <1>8, <3>1
    <3> QED BY <2>1, <3>2
  <2>2. CASE x # t
    BY <1>6, <2>2
  <2> QED BY <2>1, <2>2
<1> QED BY <1>9, <1>10 DEF CallsNested

\* Nothing changes for the calls in progress, and none begins.
LEMMA NestedStill ==
  ASSUME PoolInv, calls' = calls,
         \A h \in held : /\ keptBy'[h[2]] = keptBy[h[2]]
                         /\ cacheEntry'[h[2]] = cacheEntry[h[2]]
  PROVE  CallsNested'
<1>1. TypeOK /\ CallsNested
  BY DEF PoolInv
<1>2. ASSUME NEW x \in Threads, NEW i \in Nat, i \in 1 .. Len(calls[x])
      PROVE  /\ keptBy'[calls[x][i]] = keptBy[calls[x][i]]
             /\ cacheEntry'[calls[x][i]] = cacheEntry[calls[x][i]]
  <2>1. PICK h : h = <<x, calls[x][i]>>
    OBVIOUS
  <2>2. h \in held /\ h[2] = calls[x][i]
    BY <1>1, <1>2, <2>1, HeldIs
  <2> QED BY <2>2
<1>3. ASSUME NEW x \in Threads, NEW i \in 1 .. Len(calls[x])
      PROVE  \/ keptBy'[calls[x][i]] = {Outside}
             \/ \E j \in 1 .. i - 1 : keptBy'[calls[x][i]] = {cacheEntry'[calls[x][j]]}
  <2>1. calls[x] \in Seq(Proxies)
    BY <1>1 DEF TypeOK
  <2>1a. i \in Nat /\ keptBy'[calls[x][i]] = keptBy[calls[x][i]]
    BY <1>2, <2>1
  <2>2. CASE keptBy[calls[x][i]] = {Outside}
    BY <2>1a, <2>2
  <2>3. CASE \E j \in 1 .. i - 1 : keptBy[calls[x][i]] = {cacheEntry[calls[x][j]]}
    <3>1. PICK j \in 1 .. i - 1 : keptBy[calls[x][i]] = {cacheEntry[calls[x][j]]}
      BY <2>3
    <3>2. j \in Nat /\ j \in 1 .. Len(calls[x])
      BY <2>1
    <3> QED BY <1>2, <2>1, <3>1, <3>2
  <2> QED BY <1>1, <2>2, <2>3, NestedIs
<1> QED BY <1>1, <1>3 DEF CallsNested

\* Every call in progress on p found its entry under p's key.
LEMMA UsersFound ==
  ASSUME PoolInv, NEW h \in held
  PROVE  cacheEntry[h[2]] \in Found(proxy[h[2]])
  BY DEF PoolInv, Found

\* Initially there is no pool.
LEMMA InitInv == Init => PoolInv
<1> SUFFICES ASSUME Init PROVE PoolInv
  OBVIOUS
<1>1. Elements(<<>>) = {} /\ Len(<<>>) = 0 /\ <<>> \in Seq(Entries) /\ <<>> \in Seq(Proxies)
  BY DEF Elements
<1>2. TypeOK
  BY <1>1 DEF Init, TypeOK
<1>3. held = {}
  BY <1>1 DEF Init, held
<1>4. \A e \in Entries : Holders(e) = {}
  BY <1>3 DEF Holders
<1>5. TopProxies = {}
  BY DEF Init, TopProxies
<1>6. Cardinality({}) = 0
  BY FS_EmptySet
<1>7. NoDuplicates(<<>>)
  BY DEF NoDuplicates
<1>8. Elements(order) = {} /\ 1 .. Len(order) = {} /\ poolRefCount = 0
  BY <1>1 DEF Init
<1>9. \A e \in Entries : refCount[e] = 0 /\ Cardinality(Holders(e)) = 0
  BY <1>4, <1>6 DEF Init
<1>10. ProxiesKept
  BY DEF Init, ProxiesKept
<1>11. CallsNested
  BY <1>1, <1>7 DEF Init, CallsNested
<1> QED BY <1>2, <1>3, <1>5, <1>6, <1>7, <1>8, <1>9, <1>10, <1>11 DEF Init, PoolInv

\* What every step guarantees to the calls in progress before and after it.
Steady ==
  \A h \in held \cap held' :
    LET e == cacheEntry[h[2]] IN
      /\ cacheEntry'[h[2]] = e
      /\ proxy'[h[2]] = proxy[h[2]]
      /\ key'[e] = proxy[h[2]]
      /\ isOpen'[e] = isOpen[e]

\* References are only lost on entries of files without the band, if at all.
Lost(e) == refCount[e] # Cardinality(Holders(e))
LosableKeys == {k \in Keys : MaxLeaks # 0 /\ k.file \notin FilesWithBand}
LossesExplained == \A e \in Entries : Lost(e) => key[e] \in LosableKeys

\* What every step does for that: an entry keeps its key as long as it is
\* counted too often.
LossesKept ==
  \A e \in Entries :
    Lost(e)' => key'[e] = key[e] /\ (Lost(e) \/ key[e] \in LosableKeys)

\* Neither the calls in progress nor the proxy that makes a new one notice that
\* an entry nobody uses is given to another file.
LEMMA RefillSpares ==
  ASSUME PoolInv, NEW t \in Threads, NEW p \in Proxies, NEW e \in Entries,
         NEW opened \in BOOLEAN, NEW made \in MadeBy(proxy[p].file),
         MayCall(t, p), Found(proxy[p]) = {}, Holders(e) = {},
         OpenInto(t, p, e, opened, made)
  PROVE  /\ \A h \in held : /\ h[2] \in Proxies /\ h[2] # p
                            /\ keptBy'[h[2]] = keptBy[h[2]] /\ proxy'[h[2]] = proxy[h[2]]
                            /\ cacheEntry'[h[2]] = cacheEntry[h[2]]
         /\ keptBy'[p] = keptBy[p] /\ proxy'[p] = proxy[p] /\ cacheEntry'[p] = e
         /\ DOMAIN made \subseteq Proxies
         /\ \A q \in DOMAIN made : made[q] \in Files /\ keptBy[q] = {}
<1>1. /\ TypeOK /\ ProxiesKept
      /\ keptBy' = [q \in Proxies |-> IF q \in DOMAIN made THEN {e} ELSE keptBy[q] \ {e}]
      /\ proxy' = [q \in Proxies |->
                     IF q \in DOMAIN made THEN [file |-> made[q], pid |-> proxy[p].pid]
                     ELSE IF keptBy'[q] = {} THEN NoKey ELSE proxy[q]]
      /\ cacheEntry' = [q \in Proxies |->
                          IF q = p THEN e
                          ELSE IF q \in DOMAIN made \/ keptBy'[q] = {} THEN NoEntry
                          ELSE cacheEntry[q]]
  BY DEF PoolInv, OpenInto, Refill
<1>2. Outside \notin Entries /\ Elements(order) \subseteq Entries
  BY EntriesInside
<1>3. /\ DOMAIN made \subseteq Proxies \ LiveProxies
      /\ \A q \in DOMAIN made : made[q] \in Sources[proxy[p].file]
  <2>1. PICK S \in SUBSET (Proxies \ LiveProxies) : made \in [S -> Sources[proxy[p].file]]
    BY DEF MadeBy
  <2> QED BY <2>1
<1>4. proxy[p] \in Keys
  BY <1>1 DEF MayCall, TypeOK
<1>5. Sources[proxy[p].file] \subseteq Files
  BY <1>4, PoolAssumption DEF Keys
<1>6. \A q \in DOMAIN made : q \in Proxies /\ made[q] \in Files /\ keptBy[q] = {}
  BY <1>1, <1>3, <1>5 DEF LiveProxies, ProxiesKept
<1>7. ASSUME NEW q \in Proxies, keptBy[q] # {},
             \/ keptBy[q] = {Outside}
             \/ \E d \in Elements(order) : keptBy[q] = {d} /\ Holders(d) # {}
      PROVE  keptBy'[q] = keptBy[q] /\ proxy'[q] = proxy[q] /\ q \notin DOMAIN made
  <2>1. q \notin DOMAIN made
    BY <1>6, <1>7
  <2>2. e \notin keptBy[q]
    BY <1>2, <1>7
  <2>3. keptBy[q] \ {e} = keptBy[q]
    BY <2>2
  <2> QED BY <1>1, <1>7, <2>1, <2>3
<1>8. \A h \in held : h[2] \in Proxies /\ h[2] # p
  BY UsersFound, CalledFromWithin
<1>9. \A h \in held : /\ keptBy'[h[2]] = keptBy[h[2]] /\ proxy'[h[2]] = proxy[h[2]]
                      /\ h[2] \notin DOMAIN made /\ keptBy[h[2]] # {}
  BY <1>7, CalledFromWithin
<1>10. \A h \in held : cacheEntry'[h[2]] = cacheEntry[h[2]]
  BY <1>1, <1>8, <1>9
<1>11. keptBy'[p] = keptBy[p] /\ proxy'[p] = proxy[p]
  BY <1>7, MayCallKept
<1>12. cacheEntry'[p] = e
  BY <1>1
<1> QED BY <1>6, <1>8, <1>9, <1>10, <1>11, <1>12

\* The proxies before and after an entry is given to another file.
LEMMA RefillProxies ==
  ASSUME PoolInv, NEW t \in Threads, NEW p \in Proxies, NEW e \in Entries,
         NEW opened \in BOOLEAN, NEW made \in MadeBy(proxy[p].file),
         MayCall(t, p), Found(proxy[p]) = {}, Holders(e) = {},
         OpenInto(t, p, e, opened, made), Elements(order') = Elements(order) \cup {e}
  PROVE  /\ keptBy' \in [Proxies -> SUBSET (Entries \cup {Outside})]
         /\ proxy' \in [Proxies -> Keys \cup {NoKey}]
         /\ cacheEntry' \in [Proxies -> Entries \cup {NoEntry}]
         /\ ProxiesKept'
         /\ TopProxies' = TopProxies
<1>1. /\ TypeOK /\ ProxiesKept
      /\ keptBy' = [q \in Proxies |-> IF q \in DOMAIN made THEN {e} ELSE keptBy[q] \ {e}]
      /\ proxy' = [q \in Proxies |->
                     IF q \in DOMAIN made THEN [file |-> made[q], pid |-> proxy[p].pid]
                     ELSE IF keptBy'[q] = {} THEN NoKey ELSE proxy[q]]
      /\ cacheEntry' = [q \in Proxies |->
                          IF q = p THEN e
                          ELSE IF q \in DOMAIN made \/ keptBy'[q] = {} THEN NoEntry
                          ELSE cacheEntry[q]]
  BY DEF PoolInv, OpenInto, Refill
<1>2. Outside \notin Entries /\ Elements(order) \subseteq Entries
  BY EntriesInside
<1>3. \A q \in DOMAIN made : made[q] \in Files /\ keptBy[q] = {}
  BY RefillSpares
<1>4. proxy[p] \in Keys
  BY <1>1 DEF MayCall, TypeOK
<1>5. keptBy' \in [Proxies -> SUBSET (Entries \cup {Outside})]
  BY <1>1 DEF TypeOK
<1>6. \A q \in DOMAIN made : [file |-> made[q], pid |-> proxy[p].pid] \in Keys
  BY <1>3, <1>4 DEF Keys
<1>7. proxy' \in [Proxies -> Keys \cup {NoKey}]
  BY <1>1, <1>6 DEF TypeOK
<1>8. cacheEntry' \in [Proxies -> Entries \cup {NoEntry}]
  BY <1>1 DEF TypeOK
<1>9. ASSUME NEW q \in Proxies
      PROVE  /\ proxy'[q] = NoKey <=> keptBy'[q] = {}
             /\ \/ keptBy'[q] \in {{}, {Outside}}
                \/ \E d \in Elements(order') : keptBy'[q] = {d}
             /\ Outside \in keptBy'[q] <=> Outside \in keptBy[q]
  <2>1. CASE q \in DOMAIN made
    <3>1. keptBy'[q] = {e} /\ proxy'[q] \in Keys
      BY <1>1, <1>6, <2>1
    <3>2. Outside # e /\ keptBy[q] = {}
      BY <1>2, <1>3, <2>1
    <3> QED BY <3>1, <3>2, NoKeyAssumption
  <2>2. CASE q \notin DOMAIN made
    <3>1. keptBy'[q] = keptBy[q] \ {e} /\ proxy'[q] = IF keptBy'[q] = {} THEN NoKey ELSE proxy[q]
      BY <1>1, <2>2
    <3>2. /\ proxy[q] = NoKey <=> keptBy[q] = {}
          /\ keptBy[q] \in {{}, {Outside}} \/ \E d \in Elements(order) : keptBy[q] = {d}
      BY <1>1 DEF ProxiesKept
    <3>3. CASE keptBy[q] \in {{}, {Outside}}
      <4>1. keptBy'[q] = keptBy[q]
        BY <1>2, <3>1, <3>3
      <4> QED BY <3>1, <3>2, <3>3, <4>1
    <3>4. CASE \E d \in Elements(order) : keptBy[q] = {d}
      <4>1. PICK d \in Elements(order) : keptBy[q] = {d}
        BY <3>4
      <4>2. keptBy'[q] = IF d = e THEN {} ELSE {d}
        BY <3>1, <4>1
      <4>3. d # Outside /\ proxy[q] # NoKey
        BY <1>2, <3>2, <4>1
      <4> QED BY <3>1, <4>1, <4>2, <4>3
    <3> QED BY <3>2, <3>3, <3>4
  <2> QED BY <2>1, <2>2
<1>10. ProxiesKept'
  BY <1>9 DEF ProxiesKept
<1>11. TopProxies' = TopProxies
  BY <1>9 DEF TopProxies
<1> QED BY <1>5, <1>7, <1>8, <1>10, <1>11

\* The step that opens proxy p's file in an entry nobody uses.
LEMMA OpenIntoInv ==
  ASSUME PoolInv, NEW t \in Threads, NEW p \in Proxies, NEW e \in Entries,
         NEW opened \in BOOLEAN, NEW made \in MadeBy(proxy[p].file),
         MayCall(t, p), Found(proxy[p]) = {},
         \/ e \in Elements(order) /\ refCount[e] = 0
         \/ e = Len(order) + 1,
         OpenInto(t, p, e, opened, made)
  PROVE  PoolInv' /\ Steady /\ LossesKept
<1>1. /\ order \in Seq(Entries) /\ NoDuplicates(order)
      /\ Elements(order) = 1 .. Len(order) /\ Len(order) \in Nat
  BY DEF PoolInv, TypeOK
<1>1a. /\ order' = MoveToFront(order, e)
       /\ key' = [key EXCEPT ![e] = proxy[p]]
       /\ isOpen' = [isOpen EXCEPT ![e] = opened]
       /\ refCount' = [refCount EXCEPT ![e] = 1]
       /\ calls' = [calls EXCEPT ![t] = Append(calls[t], p)]
       /\ poolRefCount' = poolRefCount
  BY DEF OpenInto, Refill
<1>2. /\ order' \in Seq(Entries) /\ NoDuplicates(order')
      /\ Elements(order') = Elements(order) \cup {e}
      /\ Len(order') = IF e \in Elements(order) THEN Len(order) ELSE Len(order) + 1
  BY <1>1, <1>1a, MoveToFrontProperties
<1>3. Elements(order') = 1 .. Len(order')
  BY <1>1, <1>2
<1>4. Holders(e) = {}
  <2>1. CASE e \in Elements(order) /\ refCount[e] = 0
    BY <2>1, IdleUnused
  <2>2. CASE e = Len(order) + 1
    <3>1. e \notin Elements(order)
      BY <2>2, <1>1
    <3> QED BY <3>1 DEF PoolInv, Holders
  <2> QED BY <2>1, <2>2
<1>5. /\ \A h \in held : /\ h[2] \in Proxies /\ h[2] # p
                         /\ keptBy'[h[2]] = keptBy[h[2]] /\ proxy'[h[2]] = proxy[h[2]]
                         /\ cacheEntry'[h[2]] = cacheEntry[h[2]]
      /\ keptBy'[p] = keptBy[p] /\ proxy'[p] = proxy[p] /\ cacheEntry'[p] = e
  BY <1>4, RefillSpares
<1>6. /\ keptBy' \in [Proxies -> SUBSET (Entries \cup {Outside})]
      /\ proxy' \in [Proxies -> Keys \cup {NoKey}]
      /\ cacheEntry' \in [Proxies -> Entries \cup {NoEntry}]
      /\ ProxiesKept' /\ TopProxies' = TopProxies
  BY <1>2, <1>4, RefillProxies
<1>6a. /\ calls' \in [Threads -> Seq(Proxies)]
       /\ held' = held \cup {<<t, p>>}
  <2>1. TypeOK /\ p \notin Elements(calls[t])
    BY DEF PoolInv, MayCall
  <2> QED BY <1>1a, <2>1, CallBegins
<1>6b. CallsNested'
  BY <1>1a, <1>5, NestedAfterCall
<1>6c. /\ Holders(e)' = Holders(e) \cup {<<t, p>>}
       /\ \A d \in Entries \ {e} : Holders(d)' = Holders(d)
  BY <1>5, <1>6a, GrantHolders
<1>7. \A h \in held : cacheEntry[h[2]] \in Entries \ {e}
  <2>1. Elements(order) \subseteq Entries
    BY <1>1, ElementsType
  <2>2. \A h \in held : cacheEntry[h[2]] \in Elements(order)
    BY DEF PoolInv
  <2>3. \A h \in held : cacheEntry[h[2]] # e
    BY <1>4 DEF Holders
  <2> QED BY <2>1, <2>2, <2>3
<1>8. proxy[p] \in Keys
  BY DEF MayCall, PoolInv, TypeOK
<1>9. /\ key' \in [Entries -> Keys \cup {NoKey}] /\ key'[e] = proxy[p]
      /\ \A d \in Entries \ {e} : key'[d] = key[d]
  BY <1>1a, <1>8 DEF PoolInv, TypeOK
<1>10. /\ refCount' \in [Entries -> Nat] /\ refCount'[e] = 1
       /\ \A d \in Entries \ {e} : refCount'[d] = refCount[d]
  BY <1>1a DEF PoolInv, TypeOK
<1>11. /\ isOpen' \in [Entries -> BOOLEAN]
       /\ \A d \in Entries \ {e} : isOpen'[d] = isOpen[d]
  BY <1>1a DEF PoolInv, TypeOK
<1>13. TypeOK'
  BY <1>1a, <1>2, <1>6, <1>6a, <1>9, <1>10, <1>11 DEF PoolInv, TypeOK
<1>14. \A d \in Elements(order') : key'[d] \in Keys
  <2>1. Elements(order) \subseteq Entries
    BY <1>1, ElementsType
  <2>2. \A d \in Elements(order) : key[d] \in Keys
    BY DEF PoolInv
  <2> QED BY <2>1, <2>2, <1>2, <1>8, <1>9
<1>15. \A d \in Elements(order) \ {e} : key'[d] = key[d] /\ key[d] # proxy[p]
  <2>1. Elements(order) \subseteq Entries
    BY <1>1, ElementsType
  <2> QED BY <2>1, <1>9 DEF Found
<1>16. \A c, d \in Elements(order') : key'[c] = key'[d] => c = d
  <2> SUFFICES ASSUME NEW c \in Elements(order'), NEW d \in Elements(order'),
                      key'[c] = key'[d]
               PROVE  c = d
    OBVIOUS
  <2>1. CASE c = e \/ d = e
    BY <2>1, <1>2, <1>9, <1>15
  <2>2. CASE c # e /\ d # e
    BY <2>2, <1>2, <1>15 DEF PoolInv
  <2> QED BY <2>1, <2>2
<1>17. \A h \in held' : /\ proxy'[h[2]] # NoKey
                        /\ cacheEntry'[h[2]] \in Elements(order')
                        /\ key'[cacheEntry'[h[2]]] = proxy'[h[2]]
  <2>1. ASSUME NEW h \in held
        PROVE  /\ proxy'[h[2]] # NoKey
               /\ cacheEntry'[h[2]] \in Elements(order')
               /\ key'[cacheEntry'[h[2]]] = proxy'[h[2]]
    <3>1. /\ proxy[h[2]] # NoKey /\ cacheEntry[h[2]] \in Elements(order)
          /\ key[cacheEntry[h[2]]] = proxy[h[2]]
      BY DEF PoolInv
    <3> QED BY <1>2, <1>5, <1>7, <1>9, <3>1
  <2>2. <<t, p>>[2] = p /\ e \in Elements(order') /\ proxy[p] # NoKey
    BY <1>2 DEF MayCall
  <2> QED BY <2>1, <2>2, <1>5, <1>6a, <1>9
<1>17a. Cardinality(Holders(e)') = 1
  <2>1. Holders(e)' = {<<t, p>>}
    BY <1>4, <1>6c
  <2>2. Cardinality({<<t, p>>}) = 1
    BY FS_Singleton
  <2> QED BY <2>1, <2>2
<1>18. \A d \in Entries : Cardinality(Holders(d)') <= refCount'[d]
  <2>2. \A d \in Entries \ {e} : Cardinality(Holders(d)') <= refCount'[d]
    BY <1>6c, <1>10 DEF PoolInv
  <2> QED BY <1>17a, <2>2, <1>10
<1>19. poolRefCount' = Cardinality(TopProxies')
  BY <1>1a, <1>6 DEF PoolInv
<1>20. PoolInv'
  BY <1>2, <1>3, <1>6, <1>6b, <1>13, <1>14, <1>16, <1>17, <1>18, <1>19 DEF PoolInv
<1>21. Steady
  <2>1. \A h \in held : key[cacheEntry[h[2]]] = proxy[h[2]]
    BY DEF PoolInv
  <2> QED BY <1>5, <1>7, <1>9, <1>11, <2>1 DEF Steady
<1>22. LossesKept
  BY <1>6c, <1>9, <1>10, <1>17a DEF LossesKept, Lost
<1> QED BY <1>20, <1>21, <1>22

\* A new toplevel proxy counts itself in the pool.
LEMMA NewProxyInv ==
  ASSUME PoolInv, NEW t \in Threads, NEW p \in Proxies, NEW f \in Files,
         NewProxy(t, p, f)
  PROVE  PoolInv' /\ Steady /\ LossesKept /\ TopProxies' # {}
<1> DEFINE k == [file |-> f, pid |-> t]
<1>1. k \in Keys /\ k # NoKey
  BY NoKeyAssumption DEF Keys
<1> HIDE DEF k
<1>2. /\ proxy' = [proxy EXCEPT ![p] = k]
      /\ keptBy' = [keptBy EXCEPT ![p] = {Outside}]
      /\ UNCHANGED <<order, key, isOpen, refCount, cacheEntry, calls>>
      /\ poolRefCount' = poolRefCount + 1 /\ proxy[p] = NoKey
  BY DEF NewProxy, k
<1>3. \A h \in held : h[2] \in Proxies /\ h[2] # p
  BY <1>2 DEF PoolInv, held
<1>4. TypeOK /\ ProxiesKept
  BY DEF PoolInv
<1>5. /\ proxy'[p] = k /\ \A q \in Proxies \ {p} : proxy'[q] = proxy[q]
      /\ keptBy'[p] = {Outside} /\ \A q \in Proxies \ {p} : keptBy'[q] = keptBy[q]
  BY <1>2, <1>4 DEF TypeOK
<1>5a. held' = held
  BY <1>2 DEF held
<1>6. \A e \in Entries : Holders(e)' = Holders(e)
  BY <1>2, <1>5a DEF Holders
<1>7. TypeOK'
  <2>1. proxy' \in [Proxies -> Keys \cup {NoKey}]
    BY <1>1, <1>2, <1>4 DEF TypeOK
  <2>2. keptBy' \in [Proxies -> SUBSET (Entries \cup {Outside})]
    BY <1>2, <1>4 DEF TypeOK
  <2> QED BY <1>2, <1>4, <2>1, <2>2 DEF TypeOK
<1>8. keptBy[p] = {}
  BY <1>2, <1>4 DEF ProxiesKept
<1>9. TopProxies' = TopProxies \cup {p} /\ p \notin TopProxies
  BY <1>5, <1>8 DEF TopProxies
<1>10. IsFiniteSet(TopProxies)
  BY PoolAssumption, FS_Subset DEF TopProxies
<1>11. poolRefCount' = Cardinality(TopProxies')
  BY <1>2, <1>9, <1>10, FS_AddElement DEF PoolInv
<1>12. ProxiesKept'
  <2> SUFFICES ASSUME NEW q \in Proxies
               PROVE  /\ proxy'[q] = NoKey <=> keptBy'[q] = {}
                      /\ \/ keptBy'[q] \in {{}, {Outside}}
                         \/ \E e \in Elements(order') : keptBy'[q] = {e}
    BY DEF ProxiesKept
  <2>1. CASE q = p
    BY <1>1, <1>5, <2>1
  <2>2. CASE q # p
    BY <1>2, <1>4, <1>5, <2>2 DEF ProxiesKept
  <2> QED BY <2>1, <2>2
<1>13. CallsNested'
  BY <1>2, <1>3, <1>5, NestedStill
<1>14. PoolInv'
  <2>1. \A h \in held' : /\ proxy'[h[2]] # NoKey
                         /\ cacheEntry'[h[2]] \in Elements(order')
                         /\ key'[cacheEntry'[h[2]]] = proxy'[h[2]]
    BY <1>2, <1>3, <1>5, <1>5a DEF PoolInv
  <2> QED BY <1>2, <1>6, <1>7, <1>11, <1>12, <1>13, <2>1 DEF PoolInv
<1>15. Steady
  BY <1>2, <1>3, <1>5 DEF Steady, PoolInv
<1>16. LossesKept
  BY <1>2, <1>6 DEF LossesKept, Lost
<1> QED BY <1>9, <1>14, <1>15, <1>16

\* A toplevel proxy without calls leaves; the last one deletes the pool.
LEMMA DeleteProxyInv ==
  ASSUME PoolInv, NEW p \in Proxies, DeleteProxy(p)
  PROVE  /\ PoolInv' /\ Steady /\ LossesKept
         /\ \/ TopProxies' # {}
            \/ LiveProxies' = {} /\ \A e \in Entries : ~isOpen'[e]
<1>1. /\ keptBy[p] = {Outside} /\ \A t \in Threads : p \notin Elements(calls[t])
      /\ poolRefCount' = poolRefCount - 1
      /\ proxy' = [q \in Proxies |-> IF keptBy'[q] = {} THEN NoKey ELSE proxy[q]]
      /\ cacheEntry' = [q \in Proxies |-> IF keptBy'[q] = {} THEN NoEntry ELSE cacheEntry[q]]
      /\ UNCHANGED calls
  BY DEF DeleteProxy
<1>2. TypeOK /\ ProxiesKept
  BY DEF PoolInv
<1>3. \A h \in held : h[2] \in Proxies /\ h[2] # p
  BY <1>1 DEF held
<1>4. Outside \notin Entries /\ Elements(order) \subseteq Entries
  BY EntriesInside
<1>5. \/ keptBy' = [q \in Proxies |-> IF q = p THEN {} ELSE keptBy[q] \ Entries]
      \/ keptBy' = [keptBy EXCEPT ![p] = {}]
  BY DEF DeleteProxy
<1>6. keptBy' \in [Proxies -> SUBSET (Entries \cup {Outside})]
  <2>1. \A q \in Proxies : keptBy[q] \in SUBSET (Entries \cup {Outside})
    BY <1>2 DEF TypeOK
  <2>2. keptBy \in [Proxies -> SUBSET (Entries \cup {Outside})]
    BY <1>2 DEF TypeOK
  <2>3. CASE keptBy' = [q \in Proxies |-> IF q = p THEN {} ELSE keptBy[q] \ Entries]
    BY <2>1, <2>3
  <2>4. CASE keptBy' = [keptBy EXCEPT ![p] = {}]
    BY <2>2, <2>4
  <2> QED BY <1>5, <2>3, <2>4
<1>7. keptBy'[p] = {} /\ \A q \in Proxies \ {p} : Outside \in keptBy'[q] <=> Outside \in keptBy[q]
  BY <1>2, <1>4, <1>5 DEF TypeOK
<1>8. TopProxies' = TopProxies \ {p} /\ p \in TopProxies
  BY <1>1, <1>7 DEF TopProxies
<1>9. IsFiniteSet(TopProxies) /\ poolRefCount = Cardinality(TopProxies)
  BY PoolAssumption, FS_Subset DEF TopProxies, PoolInv
<1>10. Cardinality(TopProxies') = Cardinality(TopProxies) - 1
  BY <1>8, <1>9, FS_RemoveElement
<1>11. IsFiniteSet(TopProxies') /\ Cardinality(TopProxies') \in Nat
  BY <1>8, <1>9, FS_RemoveElement, FS_CardinalityType
<1>12. poolRefCount' = Cardinality(TopProxies') /\ poolRefCount' \in Nat
  BY <1>1, <1>9, <1>10, <1>11
<1>13. held' = held
  BY <1>1 DEF held
<1>14. /\ proxy' \in [Proxies -> Keys \cup {NoKey}]
       /\ cacheEntry' \in [Proxies -> Entries \cup {NoEntry}]
       /\ calls' \in [Threads -> Seq(Proxies)]
  BY <1>1, <1>2 DEF TypeOK
<1>15. CASE poolRefCount = 1
  <2>1. Cardinality(TopProxies') = 0
    BY <1>15, <1>9, <1>10
  <2>2. TopProxies' = {}
    BY <2>1, <1>11, FS_EmptySet
  <2>3. held = {}
    <3> SUFFICES ASSUME NEW h \in held PROVE FALSE
      OBVIOUS
    <3>1. PICK q \in TopProxies : <<h[1], q>> \in held
      BY CallsFromTop
    <3>2. q = p
      BY <1>8, <2>2, <3>1
    <3>3. PICK g : g = <<h[1], q>>
      OBVIOUS
    <3> QED BY <1>3, <3>1, <3>2, <3>3
  <2>4. /\ order' = <<>>
        /\ key' = [e \in Entries |-> NoKey]
        /\ isOpen' = [e \in Entries |-> FALSE]
        /\ refCount' = [e \in Entries |-> 0]
        /\ keptBy' = [q \in Proxies |-> IF q = p THEN {} ELSE keptBy[q] \ Entries]
    BY <1>15 DEF DeleteProxy
  <2>5. Elements(order') = {} /\ 1 .. Len(order') = {} /\ NoDuplicates(order')
    BY <2>4 DEF Elements, NoDuplicates
  <2>6. \A e \in Entries : Holders(e)' = {} /\ Cardinality(Holders(e)') = 0
    <3>1. \A e \in Entries : Holders(e)' = {}
      BY <1>13, <2>3 DEF Holders
    <3> QED BY <3>1, FS_EmptySet
  <2>7. TypeOK'
    <3>1. order' \in Seq(Entries)
      BY <2>4
    <3> QED BY <2>4, <3>1, <1>6, <1>12, <1>14 DEF TypeOK
  <2>8. \A q \in Proxies : keptBy'[q] = {} /\ proxy'[q] = NoKey
    <3> SUFFICES ASSUME NEW q \in Proxies PROVE keptBy'[q] = {}
      BY <1>1
    <3>1. Outside \notin keptBy'[q]
      BY <2>2 DEF TopProxies
    <3> QED BY <1>2, <2>4, <3>1 DEF TypeOK
  <2>9. ProxiesKept' /\ LiveProxies' = {}
    BY <2>8 DEF ProxiesKept, LiveProxies
  <2>10. CallsNested'
    BY <1>1, <2>3, NestedStill
  <2>11. PoolInv'
    BY <1>12, <1>13, <2>3, <2>4, <2>5, <2>6, <2>7, <2>9, <2>10 DEF PoolInv
  <2>12. LossesKept
    BY <2>4, <2>6 DEF LossesKept, Lost
  <2>13. \A e \in Entries : ~isOpen'[e]
    BY <2>4
  <2> QED BY <2>3, <2>9, <2>11, <2>12, <2>13 DEF Steady
<1>16. CASE poolRefCount # 1
  <2>1. UNCHANGED <<order, key, isOpen, refCount>> /\ keptBy' = [keptBy EXCEPT ![p] = {}]
    BY <1>16 DEF DeleteProxy
  <2>2. \A q \in Proxies \ {p} : keptBy'[q] = keptBy[q]
    BY <1>2, <2>1 DEF TypeOK
  <2>3. \A h \in held : /\ keptBy'[h[2]] = keptBy[h[2]] /\ proxy'[h[2]] = proxy[h[2]]
                        /\ cacheEntry'[h[2]] = cacheEntry[h[2]]
    BY <1>1, <1>3, <2>2, CalledFromWithin
  <2>4. TypeOK'
    BY <2>1, <1>2, <1>6, <1>12, <1>14 DEF TypeOK
  <2>5. ProxiesKept'
    <3> SUFFICES ASSUME NEW q \in Proxies
                 PROVE  /\ proxy'[q] = NoKey <=> keptBy'[q] = {}
                        /\ \/ keptBy'[q] \in {{}, {Outside}}
                           \/ \E e \in Elements(order') : keptBy'[q] = {e}
      BY DEF ProxiesKept
    <3>1. proxy'[q] = IF keptBy'[q] = {} THEN NoKey ELSE proxy[q]
      BY <1>1
    <3>2. CASE q = p
      BY <1>7, <3>1, <3>2
    <3>3. CASE q # p
      BY <1>2, <2>1, <2>2, <3>1, <3>3 DEF ProxiesKept
    <3> QED BY <3>2, <3>3
  <2>6. CallsNested'
    BY <1>1, <2>3, NestedStill
  <2>7. \A e \in Entries : Holders(e)' = Holders(e)
    BY <1>13, <2>3 DEF Holders
  <2>8. \A h \in held' : /\ proxy'[h[2]] # NoKey
                         /\ cacheEntry'[h[2]] \in Elements(order')
                         /\ key'[cacheEntry'[h[2]]] = proxy'[h[2]]
    BY <1>13, <2>1, <2>3 DEF PoolInv
  <2>9. PoolInv'
    BY <2>1, <2>4, <2>5, <2>6, <2>7, <2>8, <1>12 DEF PoolInv
  <2>10. LossesKept
    BY <2>1, <2>7 DEF LossesKept, Lost
  <2>11. TopProxies' # {}
    <3>1. Cardinality(TopProxies') # 0
      BY <1>16, <1>9, <1>12, <1>1, <1>11
    <3> QED BY <3>1, FS_EmptySet
  <2> QED BY <2>1, <2>3, <2>9, <2>10, <2>11 DEF Steady, PoolInv
<1> QED BY <1>15, <1>16

\* A hit counts one more reference on the entry found.
LEMMA RefHitInv ==
  ASSUME PoolInv, NEW t \in Threads, NEW p \in Proxies, NEW e \in Entries,
         RefHit(t, p, e)
  PROVE  PoolInv' /\ Steady /\ LossesKept
<1>1. /\ order \in Seq(Entries) /\ NoDuplicates(order)
      /\ Elements(order) = 1 .. Len(order)
  BY DEF PoolInv, TypeOK
<1>2. /\ proxy[p] # NoKey /\ MayCall(t, p) /\ p \notin Elements(calls[t])
      /\ e \in Elements(order) /\ key[e] = proxy[p]
      /\ order' = MoveToFront(order, e)
      /\ refCount' = [refCount EXCEPT ![e] = refCount[e] + 1]
      /\ cacheEntry' = [cacheEntry EXCEPT ![p] = e]
      /\ calls' = [calls EXCEPT ![t] = Append(calls[t], p)]
      /\ UNCHANGED <<poolRefCount, key, isOpen, proxy, keptBy>>
  BY DEF RefHit, Enter, MayCall, Found
<1>3. /\ order' \in Seq(Entries) /\ NoDuplicates(order')
      /\ Elements(order') = Elements(order) /\ Len(order') = Len(order)
  <2>1. /\ order' \in Seq(Entries) /\ NoDuplicates(order')
        /\ Elements(order') = Elements(order) \cup {e}
        /\ Len(order') = IF e \in Elements(order) THEN Len(order) ELSE Len(order) + 1
    BY <1>1, <1>2, MoveToFrontProperties
  <2> QED BY <2>1, <1>2
<1>4. TypeOK
  BY DEF PoolInv
<1>4a. \A h \in held : h[2] = p => cacheEntry[h[2]] = e
  BY <1>2 DEF PoolInv
<1>5. /\ cacheEntry' \in [Proxies -> Entries \cup {NoEntry}] /\ cacheEntry'[p] = e
      /\ \A h \in held : h[2] \in Proxies /\ cacheEntry'[h[2]] = cacheEntry[h[2]]
  <2>1. \A h \in held : h[2] \in Proxies
    BY DEF held
  <2> QED BY <1>2, <1>4, <1>4a, <2>1 DEF TypeOK
<1>6. /\ calls' \in [Threads -> Seq(Proxies)]
      /\ held' = held \cup {<<t, p>>} /\ <<t, p>> \notin held
  BY <1>2, <1>4, CallBegins
<1>6a. /\ Holders(e)' = Holders(e) \cup {<<t, p>>}
       /\ \A d \in Entries \ {e} : Holders(d)' = Holders(d)
  BY <1>5, <1>6, GrantHolders
<1>6b. CallsNested'
  BY <1>2, <1>5, NestedAfterCall
<1>6c. ProxiesKept' /\ TopProxies' = TopProxies
  <2>1. ProxiesKept
    BY DEF PoolInv
  <2> QED BY <1>2, <1>3, <2>1 DEF ProxiesKept, TopProxies
<1>7. /\ refCount' \in [Entries -> Nat] /\ refCount'[e] = refCount[e] + 1
      /\ \A d \in Entries \ {e} : refCount'[d] = refCount[d]
      /\ refCount[e] \in Nat
  BY <1>2 DEF PoolInv, TypeOK
<1>8. TypeOK'
  BY <1>2, <1>3, <1>4, <1>5, <1>6, <1>7 DEF TypeOK
<1>9. \A h \in held' : /\ proxy'[h[2]] # NoKey
                       /\ cacheEntry'[h[2]] \in Elements(order')
                       /\ key'[cacheEntry'[h[2]]] = proxy'[h[2]]
  <2>1. \A h \in held : /\ proxy'[h[2]] # NoKey
                        /\ cacheEntry'[h[2]] \in Elements(order')
                        /\ key'[cacheEntry'[h[2]]] = proxy'[h[2]]
    BY <1>2, <1>3, <1>5 DEF PoolInv
  <2>2. <<t, p>>[2] = p
    OBVIOUS
  <2> QED BY <2>1, <2>2, <1>2, <1>3, <1>5, <1>6
<1>9a. /\ Cardinality(Holders(e)') = Cardinality(Holders(e)) + 1
       /\ Cardinality(Holders(e)) \in Nat
  <2>1. IsFiniteSet(Holders(e)) /\ <<t, p>> \notin Holders(e)
    BY <1>6, HeldFinite DEF Holders
  <2>2. Cardinality(Holders(e) \cup {<<t, p>>}) = Cardinality(Holders(e)) + 1
    BY <2>1, FS_AddElement, Zenon
  <2> QED BY <1>6a, <2>1, <2>2, FS_CardinalityType
<1>10. \A d \in Entries : Cardinality(Holders(d)') <= refCount'[d]
  <2>1. Cardinality(Holders(e)') <= refCount'[e]
    BY <1>7, <1>9a DEF PoolInv
  <2>2. \A d \in Entries \ {e} : Cardinality(Holders(d)') <= refCount'[d]
    BY <1>6a, <1>7 DEF PoolInv
  <2> QED BY <2>1, <2>2
<1>11. poolRefCount' = Cardinality(TopProxies')
  BY <1>2, <1>6c DEF PoolInv
<1>12. PoolInv'
  BY <1>1, <1>2, <1>3, <1>6b, <1>6c, <1>8, <1>9, <1>10, <1>11 DEF PoolInv
<1>13. Steady
  BY <1>2, <1>5 DEF Steady, PoolInv
<1>14. LossesKept
  BY <1>2, <1>6a, <1>7, <1>9a DEF LossesKept, Lost
<1> QED BY <1>12, <1>13, <1>14

\* A new entry has a key no other entry has.
LEMMA RefPrependInv ==
  ASSUME PoolInv, NEW t \in Threads, NEW p \in Proxies, NEW opened \in BOOLEAN,
         NEW made \in MadeBy(proxy[p].file), RefPrepend(t, p, opened, made)
  PROVE  PoolInv' /\ Steady /\ LossesKept
<1>1. Len(order) + 1 \in Entries
  <2>1. order \in Seq(Entries) /\ Elements(order) = 1 .. Len(order)
    BY DEF PoolInv, TypeOK
  <2>2. 1 .. Len(order) \subseteq 1 .. MaxSize /\ Len(order) \in Nat
    <3>1. Elements(order) \subseteq Entries /\ Len(order) \in Nat
      BY <2>1, ElementsType
    <3> QED BY <3>1, <2>1 DEF Entries
  <2>3. Len(order) <= MaxSize
    BY <2>2, PoolAssumption
  <2>4. Len(order) # MaxSize
    BY DEF RefPrepend, Full
  <2> QED BY <2>2, <2>3, <2>4, PoolAssumption DEF Entries
<1>2. /\ MayCall(t, p) /\ Found(proxy[p]) = {}
      /\ OpenInto(t, p, Len(order) + 1, opened, made)
  BY DEF RefPrepend
<1> QED BY <1>1, <1>2, OpenIntoInv

\* An entry without references is closed and given a new key.
LEMMA RefRecycleInv ==
  ASSUME PoolInv, NEW t \in Threads, NEW p \in Proxies, NEW opened \in BOOLEAN,
         NEW made \in MadeBy(proxy[p].file), RefRecycle(t, p, opened, made)
  PROVE  PoolInv' /\ Steady /\ LossesKept
<1>1. Spare \subseteq Entries /\ \A e \in Spare : e \in Elements(order) /\ refCount[e] = 0
  BY DEF Spare, Idle
<1>2. order \in Seq(Entries) /\ Elements(order) \cap Spare # {}
  BY <1>1 DEF RefRecycle, PoolInv, TypeOK
<1>3. OldestIn(order, Spare) \in Spare
  BY <1>2, OldestInProperties
<1>4. /\ MayCall(t, p) /\ Found(proxy[p]) = {}
      /\ OpenInto(t, p, OldestIn(order, Spare), opened, made)
  BY DEF RefRecycle
<1> QED BY <1>1, <1>3, <1>4, OpenIntoInv

\* A refused call changes nothing.
LEMMA RefExhaustedInv ==
  ASSUME PoolInv, NEW t \in Threads, NEW p \in Proxies, RefExhausted(t, p)
  PROVE  PoolInv' /\ Steady /\ LossesKept
<1>1. /\ Found(proxy[p]) = {}
      /\ cacheEntry' = [cacheEntry EXCEPT ![p] = NoEntry]
      /\ UNCHANGED <<poolRefCount, order, key, isOpen, refCount, proxy, keptBy, calls>>
  BY DEF RefExhausted
<1>2. \A h \in held : h[2] \in Proxies /\ h[2] # p
  BY <1>1, UsersFound, CalledFromWithin
<1>3. \A h \in held : cacheEntry'[h[2]] = cacheEntry[h[2]]
  BY <1>1, <1>2 DEF PoolInv, TypeOK
<1>3a. held' = held
  BY <1>1 DEF held
<1>4. \A e \in Entries : Holders(e)' = Holders(e)
  BY <1>3, <1>3a DEF Holders
<1>5. TypeOK'
  BY <1>1 DEF PoolInv, TypeOK
<1>5a. ProxiesKept' /\ TopProxies' = TopProxies
  BY <1>1 DEF PoolInv, ProxiesKept, TopProxies
<1>5b. CallsNested'
  BY <1>1, <1>3, NestedStill
<1>6. PoolInv'
  BY <1>1, <1>3, <1>3a, <1>4, <1>5, <1>5a, <1>5b DEF PoolInv
<1>7. LossesKept
  BY <1>1, <1>4 DEF LossesKept, Lost
<1> QED BY <1>1, <1>3, <1>6, <1>7 DEF Steady, PoolInv

\* A step that ends the innermost call <<t, p>> and lets only the count of its
\* entry drop, by at most one, keeps the invariant.
LEMMA ReleaseInv ==
  ASSUME PoolInv, NEW t \in Threads, calls[t] # <<>>, NEW p, p = Last(calls[t]),
         calls' = [calls EXCEPT ![t] = Front(calls[t])],
         \/ refCount' = [refCount EXCEPT ![cacheEntry[p]] = @ - 1]
         \/ refCount' = refCount,
         UNCHANGED <<poolRefCount, order, key, isOpen, proxy, keptBy, cacheEntry>>
  PROVE  /\ PoolInv' /\ Steady
         /\ p \in Proxies /\ <<t, p>> \in held /\ held' \subseteq held
         /\ \A d \in Entries : Lost(d)' =>
              Lost(d) \/ (d = cacheEntry[p] /\ refCount' = refCount)
<1>0. TypeOK /\ CallsNested /\ ProxiesKept
  BY DEF PoolInv
<1>0a. NoDuplicates(calls[t])
  BY <1>0 DEF CallsNested
<1>0b. PICK n \in Nat : n = Len(calls[t])
  BY <1>0, <1>0a, CallEnds
<1>0c. /\ calls' \in [Threads -> Seq(Proxies)]
       /\ p \in Proxies /\ <<t, p>> \in held /\ held' = held \ {<<t, p>>}
       /\ Len(calls'[t]) = n - 1 /\ \A i \in 1 .. n - 1 : calls'[t][i] = calls[t][i]
       /\ \A x \in Threads \ {t} : calls'[x] = calls[x]
  BY <1>0, <1>0a, <1>0b, CallEnds
<1>1. PICK e \in Entries : e = cacheEntry[p]
  <2>1. order \in Seq(Entries)
    BY DEF PoolInv, TypeOK
  <2>2. <<t, p>>[2] = p
    OBVIOUS
  <2>3. cacheEntry[p] \in Elements(order)
    BY <1>0c, <2>2 DEF PoolInv
  <2> QED BY <2>1, <2>3, ElementsType
<1>2. /\ Holders(e)' = Holders(e) \ {<<t, p>>} /\ <<t, p>> \in Holders(e)
      /\ \A d \in Entries \ {e} : Holders(d)' = Holders(d)
  <2>0. cacheEntry[<<t, p>>[2]] = e
    BY <1>1
  <2>1. PICK h : h = <<t, p>> /\ cacheEntry[h[2]] = e
    BY <2>0
  <2>2. h \in held /\ held' = held \ {h} /\ cacheEntry' = cacheEntry
    BY <1>0c, <2>1
  <2> QED BY <2>1, <2>2 DEF Holders
<1>3. /\ IsFiniteSet(Holders(e)) /\ Cardinality(Holders(e)) \in Nat
      /\ Cardinality(Holders(e)) <= refCount[e]
  BY <1>1, HeldFinite, FS_CardinalityType DEF PoolInv
<1>4. Cardinality(Holders(e)') = Cardinality(Holders(e)) - 1 /\ Cardinality(Holders(e)) >= 1
  <2>1. Cardinality(Holders(e)') = Cardinality(Holders(e)) - 1
    <3>1. PICK h, H : h = <<t, p>> /\ H = Holders(e)
      OBVIOUS
    <3>2. IsFiniteSet(H) /\ h \in H /\ Holders(e)' = H \ {h}
      BY <1>2, <1>3, <3>1
    <3>3. Cardinality(H \ {h}) = Cardinality(H) - 1
      BY ONLY <3>2, FS_RemoveElement
    <3> QED BY <3>1, <3>2, <3>3
  <2>2. Cardinality(Holders(e)) # 0
    BY <1>2, <1>3, FS_EmptySet
  <2> QED BY <2>1, <2>2, <1>3
<1>5. /\ refCount' \in [Entries -> Nat]
      /\ refCount'[e] >= refCount[e] - 1
      /\ \A d \in Entries \ {e} : refCount'[d] = refCount[d]
  <2>1. refCount \in [Entries -> Nat] /\ refCount[e] >= 1
    BY <1>1, <1>3, <1>4 DEF PoolInv, TypeOK
  <2> QED BY <2>1, <1>1
<1>6. TypeOK'
  BY <1>0c, <1>5 DEF PoolInv, TypeOK
<1>7. \A d \in Entries : Cardinality(Holders(d)') <= refCount'[d]
  <2>1. Cardinality(Holders(e)') <= refCount'[e]
    BY <1>1, <1>3, <1>4, <1>5 DEF PoolInv, TypeOK
  <2>2. \A d \in Entries \ {e} : Cardinality(Holders(d)') <= refCount'[d]
    BY <1>2, <1>5 DEF PoolInv
  <2> QED BY <2>1, <2>2
<1>7a. ProxiesKept' /\ TopProxies' = TopProxies
  BY <1>0 DEF ProxiesKept, TopProxies
<1>7b. CallsNested'
  <2> SUFFICES ASSUME NEW x \in Threads
               PROVE  /\ NoDuplicates(calls'[x])
                      /\ \A i \in 1 .. Len(calls'[x]) :
                           \/ keptBy'[calls'[x][i]] = {Outside}
                           \/ \E j \in 1 .. i - 1 :
                                keptBy'[calls'[x][i]] = {cacheEntry'[calls'[x][j]]}
    BY DEF CallsNested
  <2>1. CASE x # t
    <3>1. calls'[x] = calls[x] /\ keptBy' = keptBy /\ cacheEntry' = cacheEntry
      BY <1>0c, <2>1
    <3>2. NoDuplicates(calls[x])
      BY <1>0 DEF CallsNested
    <3>3. ASSUME NEW i \in 1 .. Len(calls[x])
          PROVE  \/ keptBy'[calls[x][i]] = {Outside}
                 \/ \E j \in 1 .. i - 1 : keptBy'[calls[x][i]] = {cacheEntry'[calls[x][j]]}
      BY <1>0, <3>1, NestedIs
    <3>4. NoDuplicates(calls'[x])
      BY <3>1, <3>2
    <3>5. ASSUME NEW i \in 1 .. Len(calls'[x])
          PROVE  \/ keptBy'[calls'[x][i]] = {Outside}
                 \/ \E j \in 1 .. i - 1 : keptBy'[calls'[x][i]] = {cacheEntry'[calls'[x][j]]}
      BY <3>1, <3>3
    <3> QED BY <3>4, <3>5
  <2>2. CASE x = t
    <3>1. calls[t] \in Seq(Proxies) /\ calls'[t] \in Seq(Proxies)
      BY <1>0, <1>0c DEF TypeOK
    <3>2. NoDuplicates(calls'[t])
      <4>1. \A i, j \in 1 .. n : calls[t][i] = calls[t][j] => i = j
        BY <1>0a, <1>0b, <3>1 DEF NoDuplicates
      <4>2. DOMAIN calls'[t] = 1 .. n - 1
        BY <1>0c, <3>1
      <4>3. \A i \in 1 .. n - 1 : i \in 1 .. n
        OBVIOUS
      <4> QED BY <1>0c, <4>1, <4>2, <4>3 DEF NoDuplicates
    <3>3. ASSUME NEW i \in 1 .. n - 1
          PROVE  \/ keptBy'[calls'[t][i]] = {Outside}
                 \/ \E j \in 1 .. i - 1 : keptBy'[calls'[t][i]] = {cacheEntry'[calls'[t][j]]}
      <4>1. i \in 1 .. n /\ \A j \in 1 .. i - 1 : j \in 1 .. n - 1
        OBVIOUS
      <4>2. \/ keptBy[calls[t][i]] = {Outside}
            \/ \E j \in 1 .. i - 1 : keptBy[calls[t][i]] = {cacheEntry[calls[t][j]]}
        BY <1>0, <1>0b, <4>1 DEF CallsNested
      <4> QED BY <1>0c, <4>1, <4>2
    <3> QED BY <1>0c, <2>2, <3>2, <3>3
  <2> QED BY <2>1, <2>2
<1>8. PoolInv'
  <2>1. \A h \in held' : /\ proxy'[h[2]] # NoKey
                         /\ cacheEntry'[h[2]] \in Elements(order')
                         /\ key'[cacheEntry'[h[2]]] = proxy'[h[2]]
    BY <1>0c DEF PoolInv
  <2> QED BY <1>6, <1>7, <1>7a, <1>7b, <2>1 DEF PoolInv
<1>9. ASSUME NEW d \in Entries, Lost(d)', ~Lost(d)
      PROVE  d = e /\ refCount' = refCount
  <2>1. d = e
    BY <1>2, <1>5, <1>9 DEF Lost
  <2>2. CASE refCount' = [refCount EXCEPT ![cacheEntry[p]] = @ - 1]
    <3>1. refCount'[e] = refCount[e] - 1
      BY <1>1, <2>2 DEF PoolInv, TypeOK
    <3> QED BY <1>3, <1>4, <1>9, <2>1, <3>1 DEF Lost
  <2> QED BY <2>1, <2>2
<1> QED BY <1>0c, <1>1, <1>8, <1>9 DEF Steady, PoolInv

\* Every step of the pool keeps the invariant and serves the calls in
\* progress with the dataset they started on.
LEMMA StepInv ==
  PoolInv /\ [Next]_vars => PoolInv' /\ Steady /\ LossesKept
<1> SUFFICES ASSUME PoolInv, [Next]_vars
             PROVE  PoolInv' /\ Steady /\ LossesKept
  OBVIOUS
<1>1. ASSUME NEW p \in Proxies, DeleteProxy(p) PROVE PoolInv' /\ Steady /\ LossesKept
  BY <1>1, DeleteProxyInv
<1>2. ASSUME NEW p \in Proxies, NEW t \in Threads, NEW f \in Files, NewProxy(t, p, f)
      PROVE  PoolInv' /\ Steady /\ LossesKept
  BY <1>2, NewProxyInv
<1>3. ASSUME NEW p \in Proxies, NEW t \in Threads, NEW e \in Entries, RefHit(t, p, e)
      PROVE  PoolInv' /\ Steady /\ LossesKept
  BY <1>3, RefHitInv
<1>4. ASSUME NEW p \in Proxies, NEW t \in Threads, NEW opened \in BOOLEAN,
             NEW made \in MadeBy(proxy[p].file), RefPrepend(t, p, opened, made)
      PROVE  PoolInv' /\ Steady /\ LossesKept
  BY <1>4, RefPrependInv
<1>5. ASSUME NEW p \in Proxies, NEW t \in Threads, NEW opened \in BOOLEAN,
             NEW made \in MadeBy(proxy[p].file), RefRecycle(t, p, opened, made)
      PROVE  PoolInv' /\ Steady /\ LossesKept
  BY <1>5, RefRecycleInv
<1>6. ASSUME NEW p \in Proxies, NEW t \in Threads, RefExhausted(t, p)
      PROVE  PoolInv' /\ Steady /\ LossesKept
  BY <1>6, RefExhaustedInv
<1>7. ASSUME NEW t \in Threads, Unref(t)
      PROVE  PoolInv' /\ Steady /\ LossesKept
  <2>0. PICK p : p = Last(calls[t])
    OBVIOUS
  <2>1. /\ calls[t] # <<>> /\ calls' = [calls EXCEPT ![t] = Front(calls[t])]
        /\ refCount' = [refCount EXCEPT ![cacheEntry[p]] = @ - 1]
        /\ UNCHANGED <<poolRefCount, order, key, isOpen, proxy, keptBy, cacheEntry>>
    BY <1>7, <2>0 DEF Unref
  <2>3. /\ PoolInv' /\ Steady /\ <<t, p>> \in held
        /\ \A d \in Entries : Lost(d)' =>
             Lost(d) \/ (d = cacheEntry[p] /\ refCount' = refCount)
    BY <2>0, <2>1, ReleaseInv
  <2>2. refCount' # refCount
    <3>z. <<t, p>>[2] = p
      OBVIOUS
    <3>0. PICK h : h = <<t, p>> /\ h[2] = p
      BY <3>z
    <3>1. /\ order \in Seq(Entries) /\ cacheEntry[p] \in Elements(order)
          /\ refCount \in [Entries -> Nat]
      BY <2>3, <3>0 DEF PoolInv, TypeOK
    <3>2. PICK e \in Entries : e = cacheEntry[p]
      BY <3>1, ElementsType
    <3>3. refCount'[e] = refCount[e] - 1 /\ refCount[e] \in Nat
      BY <2>1, <3>1, <3>2
    <3> QED BY <3>3
  <2> QED BY <2>1, <2>2, <2>3 DEF LossesKept
<1>8. ASSUME NEW t \in Threads, BandMissing(t)
      PROVE  PoolInv' /\ Steady /\ LossesKept
  <2>0. PICK p : p = Last(calls[t])
    OBVIOUS
  <2>1. /\ calls[t] # <<>> /\ calls' = [calls EXCEPT ![t] = Front(calls[t])]
        /\ refCount' = refCount
        /\ UNCHANGED <<poolRefCount, order, key, isOpen, proxy, keptBy, cacheEntry>>
        /\ proxy[p].file \notin FilesWithBand
        /\ refCount[cacheEntry[p]] - Cardinality(Holders(cacheEntry[p])) < MaxLeaks
    BY <1>8, <2>0 DEF BandMissing
  <2>2. /\ PoolInv' /\ Steady /\ p \in Proxies /\ <<t, p>> \in held
        /\ \A d \in Entries : Lost(d)' =>
             Lost(d) \/ (d = cacheEntry[p] /\ refCount' = refCount)
    BY <2>0, <2>1, ReleaseInv
  <2>2b. <<t, p>>[2] = p
    OBVIOUS
  <2>2a. PICK h : h = <<t, p>> /\ h[2] = p
    BY <2>2b
  <2>3. PICK e \in Entries : e = cacheEntry[p]
    <3>1. order \in Seq(Entries) /\ cacheEntry[p] \in Elements(order)
      BY <2>2, <2>2a DEF PoolInv, TypeOK
    <3> QED BY <3>1, ElementsType
  <2>4. /\ refCount[e] \in Nat /\ Cardinality(Holders(e)) \in Nat
        /\ Cardinality(Holders(e)) <= refCount[e]
    BY HeldFinite, FS_CardinalityType DEF PoolInv, TypeOK
  <2>5. MaxLeaks # 0
    BY <2>1, <2>3, <2>4
  <2>6. key[e] = proxy[p] /\ proxy[p] \in Keys
    BY <2>2, <2>2a, <2>3 DEF PoolInv, TypeOK
  <2>7. key[e] \in LosableKeys
    BY <2>1, <2>5, <2>6 DEF LosableKeys
  <2> QED BY <2>1, <2>2, <2>3, <2>7 DEF LossesKept
<1>9. CASE UNCHANGED vars
  <2>0. held' = held /\ calls' = calls
    BY <1>9 DEF vars, held
  <2>1. \A e \in Entries : Holders(e)' = Holders(e)
    BY <1>9, <2>0 DEF vars, Holders
  <2>2. LossesKept
    BY <2>1, <1>9 DEF vars, LossesKept, Lost
  <2>3. TypeOK' /\ ProxiesKept' /\ TopProxies' = TopProxies
    BY <1>9 DEF vars, PoolInv, TypeOK, ProxiesKept, TopProxies
  <2>4. CallsNested'
    BY <1>9, <2>0, NestedStill DEF vars
  <2>5. PoolInv'
    BY <1>9, <2>0, <2>1, <2>3, <2>4 DEF vars, PoolInv
  <2>6. Steady
    BY <1>9 DEF vars, Steady, PoolInv
  <2> QED BY <2>2, <2>5, <2>6
<1>10. LiveProxies \subseteq Proxies
  BY DEF LiveProxies
<1> QED BY <1>1, <1>2, <1>3, <1>4, <1>5, <1>6, <1>7, <1>8, <1>9, <1>10 DEF Next

LEMMA LossesStep == PoolInv /\ LossesExplained /\ [Next]_vars => LossesExplained'
<1> SUFFICES ASSUME PoolInv, LossesExplained, [Next]_vars, NEW e \in Entries, Lost(e)'
             PROVE  key'[e] \in LosableKeys
  BY DEF LossesExplained
<1>1. LossesKept
  BY StepInv
<1> QED BY <1>1 DEF LossesKept, LossesExplained

\* PoolInv holds in every reachable state of the pool.
THEOREM PoolInvariant == Spec => []PoolInv
  BY InitInv, StepInv, PTL DEF Spec

\* The variables keep their types; in particular no reference count and no
\* proxy count ever becomes negative.
THEOREM TypeCorrect == Spec => []TypeOK
<1>1. PoolInv => TypeOK
  BY DEF PoolInv
<1> QED BY <1>1, PoolInvariant, PTL

\* A file is never opened twice for the same creating thread.
THEOREM KeysUnique == Spec => []OneEntryPerKey
<1>1. PoolInv => OneEntryPerKey
  BY DEF PoolInv, OneEntryPerKey
<1> QED BY <1>1, PoolInvariant, PTL

\* The dataset under a call in progress is neither closed, nor recycled, nor
\* swapped, whatever the other threads do and even when references leak.
THEOREM HeldDatasetSteady == Spec => DatasetStaysWhileHeld
<1>1. PoolInv /\ [Next]_vars => [Steady]_vars
  BY StepInv
<1>2. Spec => [][Steady]_vars
  BY <1>1, PoolInvariant, PTL DEF Spec
<1> QED BY <1>2 DEF DatasetStaysWhileHeld, Steady

\* References are lost on nothing but entries of files that lack the band.
THEOREM LossesInvariant == Spec => []LossesExplained
<1>1. Init => LossesExplained
  <2> SUFFICES ASSUME Init, NEW e \in Entries PROVE ~Lost(e)
    BY DEF LossesExplained
  <2>1. Elements(<<>>) = {}
    BY DEF Elements
  <2>2. Holders(e) = {} /\ refCount[e] = 0
    BY <2>1 DEF Init, Holders, held
  <2> QED BY <2>2, FS_EmptySet DEF Lost
<1>2. PoolInv /\ LossesExplained /\ [Next]_vars => LossesExplained'
  BY LossesStep
<1> QED BY <1>1, <1>2, PoolInvariant, PTL DEF Spec

\* The references on an entry are the calls in progress on it, no more and no
\* fewer, nested calls and failed openings included, but for the ones that
\* RefUnderlyingRasterBand loses of a band that the file does not have.
THEOREM RefsExactHolds == Spec => []RefsMatchHolders
<1>1. PoolInv /\ LossesExplained => RefsMatchHolders
  <2> SUFFICES ASSUME PoolInv, LossesExplained, NEW e \in Entries, Lost(e)
               PROVE  /\ refCount[e] > Cardinality(Holders(e))
                      /\ key[e] # NoKey /\ key[e].file \notin FilesWithBand
    BY DEF RefsMatchHolders, Lost
  <2>1. key[e] \in LosableKeys
    BY DEF LossesExplained
  <2>2. key[e] # NoKey /\ key[e].file \notin FilesWithBand
    BY <2>1, NoKeyAssumption DEF LosableKeys
  <2>3. /\ refCount[e] \in Nat /\ Cardinality(Holders(e)) \in Nat
        /\ Cardinality(Holders(e)) <= refCount[e]
    BY HeldFinite, FS_CardinalityType DEF PoolInv, TypeOK
  <2> QED BY <2>2, <2>3 DEF Lost
<1> QED BY <1>1, PoolInvariant, LossesInvariant, PTL

\* Without a toplevel proxy there is no proxy, and no dataset is open.
AllClosed == TopProxies = {} => LiveProxies = {} /\ \A e \in Entries : ~isOpen[e]

LEMMA ClosedStep == ASSUME PoolInv, PoolInv', AllClosed, [Next]_vars PROVE AllClosed'
<1>1. ASSUME NEW p \in Proxies, DeleteProxy(p) PROVE AllClosed'
  BY <1>1, DeleteProxyInv DEF AllClosed
<1>2. ASSUME NEW p \in Proxies, NEW t \in Threads, NEW f \in Files, NewProxy(t, p, f)
      PROVE  AllClosed'
  BY <1>2, NewProxyInv DEF AllClosed
<1>3. ASSUME TopProxies # {}, poolRefCount' = poolRefCount PROVE AllClosed'
  <2>1. /\ poolRefCount = Cardinality(TopProxies) /\ poolRefCount' = Cardinality(TopProxies')
        /\ IsFiniteSet(TopProxies) /\ IsFiniteSet(TopProxies')
    BY PoolAssumption, FS_Subset DEF PoolInv, TopProxies
  <2>2. TopProxies' # {}
    BY <1>3, <2>1, FS_EmptySet
  <2> QED BY <2>2 DEF AllClosed
<1>4. ASSUME NEW p \in Proxies, NEW t \in Threads,
             \/ \E e \in Entries : RefHit(t, p, e)
             \/ \E opened \in BOOLEAN : \E made \in MadeBy(proxy[p].file) :
                  RefPrepend(t, p, opened, made) \/ RefRecycle(t, p, opened, made)
             \/ RefExhausted(t, p)
      PROVE  AllClosed'
  <2>1. MayCall(t, p) /\ poolRefCount' = poolRefCount
    BY <1>4 DEF RefHit, Enter, RefPrepend, RefRecycle, RefExhausted, OpenInto
  <2> QED BY <1>3, <2>1, CallerHasTop
<1>5. ASSUME UNCHANGED <<proxy, keptBy, isOpen>> PROVE AllClosed'
  BY <1>5 DEF AllClosed, LiveProxies, TopProxies
<1>6. ASSUME NEW t \in Threads, Unref(t) \/ BandMissing(t) PROVE AllClosed'
  BY <1>5, <1>6 DEF Unref, BandMissing
<1>7. CASE UNCHANGED vars
  BY <1>5, <1>7 DEF vars
<1>8. LiveProxies \subseteq Proxies
  BY DEF LiveProxies
<1> QED BY <1>1, <1>2, <1>4, <1>6, <1>7, <1>8 DEF Next

\* The singleton is counted once per toplevel proxy and not for the inner ones
\* that come and go with the entries, and the last toplevel one leaves no
\* dataset open and no inner proxy behind.
THEOREM PoolCounted == Spec => []PoolOutlivesProxies
<1>1. Init => AllClosed
  BY DEF Init, AllClosed, LiveProxies
<1>2. PoolInv /\ PoolInv' /\ AllClosed /\ [Next]_vars => AllClosed'
  BY ClosedStep
<1>3. Spec => []AllClosed
  BY <1>1, <1>2, PoolInvariant, PTL DEF Spec
<1>4. PoolInv /\ AllClosed => PoolOutlivesProxies
  BY DEF PoolInv, AllClosed, PoolOutlivesProxies
<1> QED BY <1>3, <1>4, PoolInvariant, PTL
----------------------------------------------------------------------------
(* The pointers.  Recycling the first entry of the list links it in front  *)
(* of itself; with more entries than the threads can reference at a time   *)
(* there are always two that nobody references, and the older is taken.    *)

\* In terms of positions: the entry at position k is now the first.
LEMMA MovedFrom ==
  ASSUME NEW S, NEW s \in Seq(S), NoDuplicates(s), NEW k \in 1 .. Len(s)
  PROVE  /\ MoveToFront(s, s[k]) \in Seq(S) /\ Len(MoveToFront(s, s[k])) = Len(s)
         /\ MoveToFront(s, s[k])[1] = s[k]
         /\ \A i \in 2 .. Len(s) :
              MoveToFront(s, s[k])[i] = IF i <= k THEN s[i - 1] ELSE s[i]
<1>1. PICK e : e = s[k]
  OBVIOUS
<1>2. e \in Elements(s) /\ e \in S
  BY <1>1, ElementsType
<1>3. PICK n \in 1 .. Len(s) :
        /\ s[n] = e
        /\ Without(s, e) \in Seq(S) /\ Len(Without(s, e)) = Len(s) - 1
        /\ \A j \in 1 .. Len(s) - 1 :
             Without(s, e)[j] = IF j < n THEN s[j] ELSE s[j + 1]
  BY <1>2, WithoutAt
<1>4. n = k
  BY <1>1, <1>3 DEF NoDuplicates
<1>5. PICK w \in Seq(S) : w = Without(s, e)
  BY <1>3
<1>6. PICK m : m = <<e>> \o w
  OBVIOUS
<1>7. m \in Seq(S) /\ Len(m) = Len(s) /\ m[1] = e
  BY <1>2, <1>3, <1>5, <1>6
<1>8. \A i \in 2 .. Len(s) : m[i] = w[i - 1]
  BY <1>2, <1>3, <1>5, <1>6
<1>9. \A i \in 2 .. Len(s) : m[i] = IF i <= k THEN s[i - 1] ELSE s[i]
  BY <1>3, <1>4, <1>5, <1>8
<1>10. m = MoveToFront(s, s[k])
  BY <1>1, <1>5, <1>6 DEF MoveToFront
<1> QED BY <1>1, <1>7, <1>9, <1>10

\* A new element is put in front of the others.
LEMMA PutInFront ==
  ASSUME NEW S, NEW s \in Seq(S), NEW e \in S, e \notin Elements(s)
  PROVE  /\ MoveToFront(s, e) \in Seq(S) /\ Len(MoveToFront(s, e)) = Len(s) + 1
         /\ MoveToFront(s, e)[1] = e
         /\ \A i \in 2 .. Len(s) + 1 : MoveToFront(s, e)[i] = s[i - 1]
<1>1. MoveToFront(s, e) = <<e>> \o s
  BY DEF MoveToFront, Without
<1> QED BY <1>1

\* Walking along next from "first" visits s, and prev walks back.
Linked(s, first, last, n, p) ==
  /\ first = IF Len(s) = 0 THEN NoEntry ELSE s[1]
  /\ last = IF Len(s) = 0 THEN NoEntry ELSE s[Len(s)]
  /\ \A i \in 1 .. Len(s) :
       /\ n[s[i]] = IF i = Len(s) THEN NoEntry ELSE s[i + 1]
       /\ p[s[i]] = IF i = 1 THEN NoEntry ELSE s[i - 1]

Ends == Entries \cup {NoEntry}
Pointers == [Entries -> Ends]

LinkType ==
  /\ firstEntry \in Ends /\ lastEntry \in Ends
  /\ prev \in Pointers /\ next \in Pointers

LEMMA NoEntryIsNone == NoEntry \notin Entries
BY PoolAssumption DEF NoEntry, Entries

LEMMA EndsAre == NoEntry \in Ends /\ \A e \in Entries : e \in Ends
BY DEF Ends

LEMMA StoreIs ==
  ASSUME NEW f \in Pointers, NEW a \in Ends, NEW v \in Ends,
         NEW g, g = Store(f, a, v)
  PROVE  /\ g \in Pointers
         /\ \A x \in Entries : g[x] = IF x = a THEN v ELSE f[x]
BY NoEntryIsNone DEF Store, Pointers, Ends

\* Unlinking an entry that is not the first and putting it first.
LEMMA LinkMoveLinks ==
  ASSUME NEW s \in Seq(Entries), NoDuplicates(s), NEW k \in 2 .. Len(s), LinkType,
         Linked(s, firstEntry, lastEntry, next, prev), LinkMove(s[k])
  PROVE  /\ LinkType'
         /\ Linked(MoveToFront(s, s[k]), firstEntry', lastEntry', next', prev')
<1>1. PICK e \in Entries : e = s[k]
  OBVIOUS
<1>2. PICK z \in Nat : z = Len(s)
  OBVIOUS
<1>3. /\ k \in 2 .. z /\ \A i \in 1 .. z : s[i] \in Entries
      /\ \A i, j \in 1 .. z : s[i] = s[j] => i = j
  BY <1>2 DEF NoDuplicates
<1>4. /\ firstEntry = s[1] /\ lastEntry = s[z]
      /\ \A i \in 1 .. z : /\ next[s[i]] = IF i = z THEN NoEntry ELSE s[i + 1]
                           /\ prev[s[i]] = IF i = 1 THEN NoEntry ELSE s[i - 1]
  BY <1>2 DEF Linked
<1>5. PICK m : m = MoveToFront(s, s[k])
  OBVIOUS
<1>6. /\ m \in Seq(Entries) /\ Len(m) = z /\ m[1] = e
      /\ \A i \in 2 .. z : m[i] = IF i <= k THEN s[i - 1] ELSE s[i]
  <2>1. k \in 1 .. Len(s)
    BY <1>2, <1>3
  <2> QED BY <1>1, <1>2, <1>5, <2>1, MovedFrom
<1>7. PICK a, b : a = s[k - 1] /\ b = IF k = z THEN NoEntry ELSE s[k + 1]
  OBVIOUS
<1>8. /\ prev[e] = a /\ next[e] = b /\ a \in Entries /\ a \in Ends /\ b \in Ends
      /\ a # NoEntry /\ firstEntry \in Entries
  BY <1>1, <1>3, <1>4, <1>7, NoEntryIsNone DEF Ends
<1>9. /\ lastEntry' = IF b = NoEntry THEN a ELSE lastEntry
      /\ prev' = [Store(prev, b, a) EXCEPT ![e] = NoEntry, ![firstEntry] = e]
      /\ next' = [Store(next, a, b) EXCEPT ![e] = firstEntry]
      /\ firstEntry' = e
  BY <1>1, <1>8 DEF LinkMove
<1>10. /\ next' \in Pointers
       /\ \A x \in Entries : next'[x] = IF x = e THEN firstEntry ELSE IF x = a THEN b ELSE next[x]
  <2>1. PICK g : g = Store(next, a, b)
    OBVIOUS
  <2>1a. g \in Pointers /\ \A x \in Entries : g[x] = IF x = a THEN b ELSE next[x]
    <3>1. next \in Pointers /\ a \in Ends /\ b \in Ends
      BY <1>8 DEF LinkType
    <3> QED BY <2>1, <3>1, StoreIs
  <2>2. next' = [g EXCEPT ![e] = firstEntry]
    BY <1>9, <2>1
  <2> QED BY <1>8, <2>1a, <2>2, EndsAre DEF Pointers
<1>11. /\ prev' \in Pointers
       /\ \A x \in Entries : prev'[x] = IF x = firstEntry THEN e ELSE IF x = e THEN NoEntry
                                        ELSE IF x = b THEN a ELSE prev[x]
  <2>1. PICK g : g = Store(prev, b, a)
    OBVIOUS
  <2>1a. g \in Pointers /\ \A x \in Entries : g[x] = IF x = b THEN a ELSE prev[x]
    <3>1. prev \in Pointers /\ a \in Ends /\ b \in Ends
      BY <1>8 DEF LinkType
    <3> QED BY <2>1, <3>1, StoreIs
  <2>2. prev' = [g EXCEPT ![e] = NoEntry, ![firstEntry] = e]
    BY <1>9, <2>1
  <2> QED BY <1>8, <2>1a, <2>2, EndsAre DEF Pointers
<1>12. LinkType'
  BY <1>8, <1>9, <1>10, <1>11, EndsAre DEF LinkType
<1>13. \A i \in 1 .. z : m[i] \in Entries
  BY <1>6
<1>14. ASSUME NEW i \in 1 .. z
       PROVE  next'[m[i]] = IF i = z THEN NoEntry ELSE m[i + 1]
  <2>1. CASE i = 1
    BY <1>1, <1>3, <1>4, <1>6, <1>10, <2>1
  <2>2. CASE i > 1 /\ i < k
    <3>1. /\ i \in 2 .. z /\ i + 1 \in 2 .. z /\ i - 1 \in 1 .. z /\ k - 1 \in 1 .. z
          /\ k \in 1 .. z /\ i - 1 # k - 1 /\ i - 1 # k /\ i - 1 # z /\ i + 1 <= k /\ i <= k
          /\ (i - 1) + 1 = i /\ (i + 1) - 1 = i
      BY <1>3, <2>2
    <3>2. m[i] = s[i - 1] /\ m[i + 1] = s[i]
      BY <1>6, <3>1
    <3>3. m[i] # a /\ m[i] # e
      BY <1>1, <1>3, <1>7, <3>1, <3>2
    <3>4. next[m[i]] = s[i]
      BY <1>4, <3>1, <3>2
    <3> QED BY <1>10, <1>13, <3>1, <3>2, <3>3, <3>4
  <2>3. CASE i = k
    <3>1. m[i] = a /\ a # e
      BY <1>1, <1>3, <1>6, <1>7, <2>3
    <3>2. next'[m[i]] = b
      BY <1>10, <1>13, <3>1
    <3>3. i # z => m[i + 1] = s[i + 1]
      <4>1. i # z => i + 1 \in 2 .. z /\ ~(i + 1 <= k)
        BY <1>3, <2>3
      <4> QED BY <1>6, <4>1
    <3>4. b = IF i = z THEN NoEntry ELSE s[i + 1]
      BY <1>7, <2>3
    <3> QED BY <3>2, <3>3, <3>4
  <2>4. CASE i > k
    <3>0. /\ i \in 2 .. z /\ ~(i <= k) /\ k \in 1 .. z /\ k - 1 \in 1 .. z /\ i # k /\ i # k - 1
          /\ i # z => i + 1 \in 2 .. z /\ ~(i + 1 <= k)
      BY <1>3, <2>4
    <3>0a. m[i] = s[i] /\ (i # z => m[i + 1] = s[i + 1])
      BY <1>6, <3>0
    <3>1. m[i] = s[i] /\ m[i] # a /\ m[i] # e /\ (i # z => m[i + 1] = s[i + 1])
      BY <1>1, <1>3, <1>7, <3>0, <3>0a
    <3>2. m[i] \in Entries
      BY <1>13
    <3>3. next'[m[i]] = next[s[i]]
      BY <1>10, <3>1, <3>2
    <3>4. next[s[i]] = IF i = z THEN NoEntry ELSE s[i + 1]
      BY <1>4
    <3> QED BY <3>1, <3>3, <3>4
  <2> QED BY <2>1, <2>2, <2>3, <2>4
<1>15. ASSUME NEW i \in 1 .. z
       PROVE  prev'[m[i]] = IF i = 1 THEN NoEntry ELSE m[i - 1]
  <2>1. CASE i = 1
    <3>1. e # firstEntry
      BY <1>1, <1>3, <1>4
    <3> QED BY <1>6, <1>11, <2>1, <3>1
  <2>2. CASE i = 2
    BY <1>3, <1>4, <1>6, <1>8, <1>11, <2>2
  <2>3. CASE i > 2 /\ i <= k
    <3>1. /\ m[i] = s[i - 1] /\ m[i] # firstEntry /\ m[i] # e /\ m[i - 1] = s[i - 2]
          /\ prev[m[i]] = s[i - 2]
      <4>1. /\ i \in 2 .. z /\ i - 1 \in 2 .. z /\ i - 1 \in 1 .. z /\ i - 1 # 1 /\ i - 1 # k
            /\ k \in 1 .. z /\ 1 \in 1 .. z /\ i - 1 <= k /\ (i - 1) - 1 = i - 2
        BY <1>3, <2>3
      <4>2. m[i] = s[i - 1] /\ m[i - 1] = s[i - 2]
        BY <1>6, <2>3, <4>1
      <4>3. m[i] # firstEntry /\ m[i] # e
        BY <1>1, <1>3, <1>4, <4>1, <4>2
      <4>4. prev[m[i]] = s[i - 2]
        BY <1>4, <4>1, <4>2
      <4> QED BY <4>2, <4>3, <4>4
    <3>2. m[i] # b
      BY <1>3, <1>7, <2>3, <3>1, NoEntryIsNone
    <3> QED BY <1>11, <1>13, <2>3, <3>1, <3>2
  <2>4. CASE i > 2 /\ i = k + 1
    <3>1. m[i] = s[i] /\ m[i] # firstEntry /\ m[i] # e /\ m[i] = b /\ m[i - 1] = a
      BY <1>1, <1>3, <1>4, <1>6, <1>7, <2>4
    <3> QED BY <1>11, <1>13, <2>4, <3>1
  <2>5. CASE i > k + 1
    <3>1. /\ i \in 2 .. z /\ i - 1 \in 2 .. z /\ k \in 1 .. z /\ 1 \in 1 .. z /\ i \in 1 .. z
          /\ i # 1 /\ i # k /\ ~(i <= k) /\ ~(i - 1 <= k) /\ (k # z => k + 1 \in 1 .. z)
          /\ i # k + 1
      BY <1>3, <2>5
    <3>2. m[i] = s[i] /\ m[i - 1] = s[i - 1]
      BY <1>6, <3>1
    <3>3. m[i] # firstEntry /\ m[i] # e
      BY <1>1, <1>3, <1>4, <3>1, <3>2
    <3>4. m[i] # b
      BY <1>3, <1>7, <3>1, <3>2, NoEntryIsNone
    <3>5. prev[m[i]] = s[i - 1]
      BY <1>4, <3>1, <3>2
    <3> QED BY <1>11, <1>13, <3>1, <3>2, <3>3, <3>4, <3>5
  <2> QED BY <2>1, <2>2, <2>3, <2>4, <2>5
<1>16. /\ z >= 2 /\ firstEntry' = m[1] /\ lastEntry' = m[z]
  <2>1. CASE k = z
    BY <1>3, <1>6, <1>7, <1>9, <2>1
  <2>2. CASE k # z
    BY <1>3, <1>4, <1>6, <1>7, <1>9, <2>2, NoEntryIsNone
  <2> QED BY <1>3, <1>6, <1>9, <2>1, <2>2
<1>17. Linked(m, firstEntry', lastEntry', next', prev')
  BY <1>6, <1>14, <1>15, <1>16 DEF Linked
<1> QED BY <1>5, <1>12, <1>17

\* Putting a new entry in front of the list.
LEMMA LinkPrependLinks ==
  ASSUME NEW s \in Seq(Entries), NEW e \in Entries, e \notin Elements(s), LinkType,
         Linked(s, firstEntry, lastEntry, next, prev), LinkPrepend(e)
  PROVE  LinkType' /\ Linked(MoveToFront(s, e), firstEntry', lastEntry', next', prev')
<1>1. PICK z \in Nat : z = Len(s)
  OBVIOUS
<1>2. \A i \in 1 .. z : s[i] \in Entries /\ s[i] # e
  BY <1>1 DEF Elements
<1>3. /\ firstEntry = (IF z = 0 THEN NoEntry ELSE s[1])
      /\ lastEntry = (IF z = 0 THEN NoEntry ELSE s[z])
      /\ \A i \in 1 .. z : /\ next[s[i]] = IF i = z THEN NoEntry ELSE s[i + 1]
                           /\ prev[s[i]] = IF i = 1 THEN NoEntry ELSE s[i - 1]
  BY <1>1 DEF Linked
<1>4. PICK m : m = MoveToFront(s, e)
  OBVIOUS
<1>5. /\ m \in Seq(Entries) /\ Len(m) = z + 1 /\ m[1] = e
      /\ \A i \in 2 .. z + 1 : m[i] = s[i - 1]
  BY <1>1, <1>4, PutInFront
<1>6. \A i \in 1 .. z + 1 : m[i] \in Entries
  BY <1>5
<1>7. /\ lastEntry' = IF lastEntry = NoEntry THEN e ELSE lastEntry
      /\ prev' = Store([prev EXCEPT ![e] = NoEntry], firstEntry, e)
      /\ next' = [next EXCEPT ![e] = firstEntry]
      /\ firstEntry' = e
  BY DEF LinkPrepend
<1>8. /\ next' \in Pointers
      /\ \A x \in Entries : next'[x] = IF x = e THEN firstEntry ELSE next[x]
  BY <1>7 DEF LinkType, Pointers
<1>9. /\ prev' \in Pointers
      /\ \A x \in Entries : prev'[x] = IF x = firstEntry THEN e ELSE IF x = e THEN NoEntry
                                       ELSE prev[x]
  <2>1. PICK g \in Pointers : /\ g = [prev EXCEPT ![e] = NoEntry]
                              /\ \A x \in Entries : g[x] = IF x = e THEN NoEntry ELSE prev[x]
    <3>1. PICK r : r = [prev EXCEPT ![e] = NoEntry]
      OBVIOUS
    <3>2. r \in Pointers /\ \A x \in Entries : r[x] = IF x = e THEN NoEntry ELSE prev[x]
      BY <3>1, EndsAre DEF LinkType, Pointers
    <3> QED BY <3>1, <3>2
  <2>2. prev' = Store(g, firstEntry, e) /\ firstEntry \in Ends
    BY <1>7, <2>1 DEF LinkType
  <2>3. /\ prev' \in Pointers
        /\ \A x \in Entries : prev'[x] = IF x = firstEntry THEN e ELSE g[x]
    <3>1. e \in Ends /\ g \in Pointers
      BY <2>1, EndsAre
    <3> QED BY <2>2, <3>1, StoreIs
  <2> QED BY <2>1, <2>3
<1>10. LinkType'
  BY <1>7, <1>8, <1>9, EndsAre DEF LinkType
<1>11. ASSUME NEW i \in 1 .. z + 1
       PROVE  next'[m[i]] = IF i = z + 1 THEN NoEntry ELSE m[i + 1]
  <2>1. CASE i = 1
    BY <1>3, <1>5, <1>8, <2>1
  <2>2. CASE i > 1
    <3>1. m[i] = s[i - 1] /\ m[i] # e /\ (i # z + 1 => m[i + 1] = s[i])
      BY <1>2, <1>5, <2>2
    <3> QED BY <1>3, <1>6, <1>8, <2>2, <3>1
  <2> QED BY <2>1, <2>2
<1>12. ASSUME NEW i \in 1 .. z + 1
       PROVE  prev'[m[i]] = IF i = 1 THEN NoEntry ELSE m[i - 1]
  <2>1. CASE i = 1
    <3>1. e # firstEntry
      BY <1>2, <1>3, NoEntryIsNone
    <3> QED BY <1>5, <1>9, <2>1, <3>1
  <2>2. CASE i = 2
    BY <1>3, <1>5, <1>6, <1>9, <2>2
  <2>3. CASE i > 2
    <3>1. m[i] = s[i - 1] /\ m[i] # e /\ m[i - 1] = s[i - 2] /\ prev[m[i]] = s[i - 2]
      BY <1>2, <1>3, <1>5, <2>3
    <3>2. CASE m[i] = firstEntry
      <4>1. Linked(s, firstEntry, lastEntry, next, prev) /\ prev[firstEntry] = NoEntry
        BY <1>1, <1>3, <2>3
      <4>2. s[i - 2] \in Entries
        BY <1>2, <2>3
      <4> QED BY <3>1, <3>2, <4>1, <4>2, NoEntryIsNone
    <3> QED BY <1>6, <1>9, <2>3, <3>1, <3>2
  <2> QED BY <2>1, <2>2, <2>3
<1>13. firstEntry' = m[1] /\ lastEntry' = m[z + 1]
  <2>1. CASE z = 0
    BY <1>3, <1>5, <1>7, <2>1
  <2>2. CASE z > 0
    BY <1>2, <1>3, <1>5, <1>7, <2>2, NoEntryIsNone
  <2> QED BY <2>1, <2>2
<1>14. Linked(m, firstEntry', lastEntry', next', prev')
  <2>1. Len(m) # 0 /\ Len(m) = z + 1
    BY <1>5
  <2> QED BY <2>1, <1>11, <1>12, <1>13 DEF Linked
<1> QED BY <1>4, <1>10, <1>14

\* A thread nests at most Depth calls.
CallsBounded == \A t \in Threads : Len(calls[t]) <= Depth

\* The calls that the threads can have in progress on proxies at a time.
LEMMA FewCalls ==
  ASSUME NEW s \in [Threads -> Seq(Proxies)], \A t \in Threads : Len(s[t]) <= Depth,
         NEW H \in SUBSET (Threads \X Proxies), \A h \in H : h[2] \in Elements(s[h[1]])
  PROVE  IsFiniteSet(H) /\ Cardinality(H) <= Cardinality(Threads) * Depth
<1>1. PICK D \in Nat : D = Depth
  BY PoolAssumption
<1>5. \A h \in H : \E i \in 1 .. D : s[h[1]][i] = h[2]
  <2> SUFFICES ASSUME NEW h \in H PROVE \E i \in 1 .. D : s[h[1]][i] = h[2]
    OBVIOUS
  <2>1. h[1] \in Threads /\ h[2] \in Elements(s[h[1]])
    OBVIOUS
  <2>2. s[h[1]] \in Seq(Proxies) /\ Len(s[h[1]]) <= D
    BY <1>1, <2>1
  <2>3. PICK i \in 1 .. Len(s[h[1]]) : s[h[1]][i] = h[2]
    BY <2>1, <2>2, ElementsType
  <2> QED BY <2>2, <2>3
<1>6. PICK m : m = [h \in H |-> <<h[1], CHOOSE i \in 1 .. D : s[h[1]][i] = h[2]>>]
  OBVIOUS
<1>7. \A h \in H : h[1] \in Threads /\ h = <<h[1], h[2]>>
  OBVIOUS
<1>8. ASSUME NEW h \in H
      PROVE  \E i \in 1 .. D : m[h] = <<h[1], i>> /\ s[h[1]][i] = h[2]
  <2>1. \E i \in 1 .. D : s[h[1]][i] = h[2]
    BY <1>5
  <2>2. PICK i \in 1 .. D : i = (CHOOSE j \in 1 .. D : s[h[1]][j] = h[2]) /\ s[h[1]][i] = h[2]
    BY <2>1
  <2> QED BY <1>6, <2>2
<1>9. PICK T : T = Threads \X (1 .. D)
  OBVIOUS
<1>10. m \in Injection(H, T)
  <2>1. DOMAIN m = H /\ m = [h \in H |-> m[h]] /\ \A h \in H : m[h] \in T
    BY <1>6, <1>7, <1>8, <1>9
  <2>2. m \in [H -> T]
    BY <2>1
  <2>3. ASSUME NEW g \in H, NEW h \in H, m[g] = m[h] PROVE g = h
    <3>1. PICK i \in 1 .. D : m[g] = <<g[1], i>> /\ s[g[1]][i] = g[2]
      BY <1>8
    <3>2. PICK j \in 1 .. D : m[h] = <<h[1], j>> /\ s[h[1]][j] = h[2]
      BY <1>8
    <3>3. <<g[1], i>> = <<h[1], j>>
      BY <2>3, <3>1, <3>2
    <3>4. g[1] = h[1] /\ i = j
      BY <3>3
    <3>5. g[2] = h[2]
      BY <3>1, <3>2, <3>4
    <3> QED BY <1>7, <3>4, <3>5
  <2> QED BY <2>2, <2>3 DEF Injection, IsInjective
<1>11. IsFiniteSet(T) /\ Cardinality(T) = Cardinality(Threads) * D
  <2>1. IsFiniteSet(1 .. D) /\ Cardinality(1 .. D) = D
    BY FS_Interval
  <2> QED BY <1>9, <2>1, PoolAssumption, FS_Product
<1> QED BY <1>1, <1>10, <1>11, FS_Injection

\* With more entries than calls in progress and files to lose references on,
\* two are spare when one has to be recycled, and the walk from the end does
\* not come to the first.
LEMMA RecycledIsOld ==
  ASSUME PoolInv, LossesExplained, Full, Spare # {}, IsFiniteSet(LosableKeys),
         Cardinality(held) + Cardinality(LosableKeys) + 1 < MaxSize
  PROVE  \E k \in 2 .. Len(order) : OldestIn(order, Spare) = order[k]
<1>1. /\ order \in Seq(Entries) /\ Elements(order) = 1 .. Len(order) /\ NoDuplicates(order)
      /\ held \subseteq Threads \X Proxies
  BY DEF PoolInv, TypeOK, held
<1>2. Elements(order) = Entries /\ Len(order) = MaxSize
  BY <1>1 DEF Full, Entries
<1>3. Elements(order) \cap Spare # {}
  BY <1>2 DEF Spare
<1>4. PICK i \in 1 .. Len(order) :
        /\ OldestIn(order, Spare) = order[i]
        /\ \A j \in 1 .. Len(order) : j > i => order[j] \notin Spare
  BY <1>1, <1>3, OldestInAt
<1>5. SUFFICES ASSUME i = 1 PROVE FALSE
  BY <1>4
<1>6. PICK U : U = {e \in Entries : refCount[e] > 0}
  OBVIOUS
<1>7. IsFiniteSet(U) /\ Cardinality(U) <= Cardinality(held) + Cardinality(LosableKeys)
  <2>1. PICK I, L : I = {e \in Entries : Holders(e) # {}} /\ L = {e \in Entries : Lost(e)}
    OBVIOUS
  <2>2. IsFiniteSet(I) /\ Cardinality(I) <= Cardinality(held)
    <3>1. PICK f : f = [h \in held |-> cacheEntry[h[2]]]
      OBVIOUS
    <3>2. \A h \in held : cacheEntry[h[2]] \in Entries
      BY <1>2 DEF PoolInv
    <3>3. \A h \in held : f[h] \in I
      BY <2>1, <3>1, <3>2 DEF Holders
    <3>4. \A e \in I : \E h \in held : f[h] = e
      BY <2>1, <3>1 DEF Holders
    <3>5. f \in Surjection(held, I)
      <4>1. f \in [held -> I]
        BY <3>1, <3>3
      <4> QED BY <3>4, <4>1 DEF Surjection
    <3> QED BY <3>5, HeldFinite, FS_Surjection
  <2>3. IsFiniteSet(L) /\ Cardinality(L) <= Cardinality(LosableKeys)
    <3>1. PICK f : f = [e \in L |-> key[e]]
      OBVIOUS
    <3>2. \A e \in L : f[e] \in LosableKeys
      BY <2>1, <3>1 DEF LossesExplained
    <3>3. \A d, e \in L : f[d] = f[e] => d = e
      BY <1>2, <2>1, <3>1 DEF PoolInv
    <3>4. f \in Injection(L, LosableKeys)
      <4>1. f \in [L -> LosableKeys]
        BY <3>1, <3>2
      <4> QED BY <3>3, <4>1 DEF Injection, IsInjective
    <3> QED BY <3>4, FS_Injection
  <2>4. U \subseteq I \cup L
    <3> SUFFICES ASSUME NEW e \in Entries, refCount[e] > 0, Holders(e) = {} PROVE Lost(e)
      BY <1>6, <2>1
    <3>1. Cardinality(Holders(e)) = 0
      BY FS_EmptySet
    <3> QED BY <3>1 DEF Lost, PoolInv, TypeOK
  <2>5. /\ IsFiniteSet(I \cup L) /\ Cardinality(I \cap L) \in Nat
        /\ Cardinality(I \cup L) = Cardinality(I) + Cardinality(L) - Cardinality(I \cap L)
    <3>1. IsFiniteSet(I \cap L)
      BY <2>2, FS_Intersection
    <3> QED BY <2>2, <2>3, <3>1, FS_Union, FS_CardinalityType
  <2>6. IsFiniteSet(U) /\ Cardinality(U) <= Cardinality(I \cup L)
    BY <2>4, <2>5, FS_Subset
  <2>7. PICK u, w, a, l, x, h, k \in Nat :
          /\ u = Cardinality(U) /\ w = Cardinality(I \cup L) /\ a = Cardinality(I)
          /\ l = Cardinality(L) /\ x = Cardinality(I \cap L) /\ h = Cardinality(held)
          /\ k = Cardinality(LosableKeys)
    BY <2>2, <2>3, <2>5, <2>6, HeldFinite, FS_CardinalityType
  <2>8. u <= w /\ w = a + l - x /\ a <= h /\ l <= k
    BY <2>2, <2>3, <2>5, <2>6, <2>7
  <2>9. u <= h + k
    BY <2>8
  <2> QED BY <2>6, <2>7, <2>9
<1>8. Entries \subseteq U \cup {order[1]}
  <2> SUFFICES ASSUME NEW e \in Entries, e # order[1] PROVE e \in U
    OBVIOUS
  <2>1. PICK j \in 1 .. Len(order) : order[j] = e
    BY <1>1, <1>2, ElementsType
  <2>2. e \notin Spare
    BY <1>4, <1>5, <2>1
  <2>3. refCount[e] # 0 /\ refCount[e] \in Nat
    BY <1>2, <2>2 DEF Spare, Idle, PoolInv, TypeOK
  <2> QED BY <1>6, <2>3
<1>9. IsFiniteSet(Entries) /\ Cardinality(Entries) = MaxSize
  BY FS_Interval, PoolAssumption DEF Entries
<1>10. /\ IsFiniteSet(U \cup {order[1]}) /\ Cardinality(U) \in Nat
       /\ Cardinality(U \cup {order[1]}) <= Cardinality(U) + 1
  <2>1. IsFiniteSet(U) /\ Cardinality(U) \in Nat
    BY <1>7, FS_CardinalityType
  <2>2. CASE order[1] \in U
    <3>1. U \cup {order[1]} = U
      BY <2>2
    <3>2. Cardinality(U) <= Cardinality(U) + 1
      BY <2>1
    <3>3. PICK V : V = U \cup {order[1]}
      OBVIOUS
    <3>4. V = U
      BY <3>1, <3>3
    <3> QED BY <2>1, <3>2, <3>3, <3>4
  <2>3. CASE order[1] \notin U
    <3>1. /\ IsFiniteSet(U \cup {order[1]})
          /\ Cardinality(U \cup {order[1]}) = Cardinality(U) + 1
      BY <2>1, <2>3, FS_AddElement
    <3>2. Cardinality(U) + 1 <= Cardinality(U) + 1
      BY <2>1
    <3> QED BY <2>1, <3>1, <3>2
  <2> QED BY <2>2, <2>3
<1>11. Cardinality(Entries) <= Cardinality(U \cup {order[1]})
  BY <1>8, <1>10, FS_Subset
<1>12. PICK n, l, c, u, x \in Int :
         n = Cardinality(held) /\ l = Cardinality(LosableKeys) /\ c = MaxSize /\ u = Cardinality(U)
         /\ x = Cardinality(U \cup {order[1]})
  BY <1>10, HeldFinite, FS_CardinalityType, PoolAssumption
<1>13. n + l + 1 < c /\ u <= n + l /\ x <= u + 1 /\ c <= x
  BY <1>7, <1>9, <1>10, <1>11, <1>12
<1> QED BY <1>13
----------------------------------------------------------------------------
\* More entries than references in progress and entries to lose some on.
Roomy ==
  /\ IsFiniteSet(LosableKeys)
  /\ Cardinality(Threads) * Depth + Cardinality(LosableKeys) < MaxSize

\* The invariant of the pool together with its list.
LinkInv ==
  /\ PoolInv /\ LossesExplained /\ CallsBounded
  /\ LinkType /\ CheckLinks

\* What a step keeps of it; with room, the list never becomes a loop.
ListKept ==
  CallsBounded' /\ LinkType' /\ CheckLinks' /\ (Roomy => LinksFollowOrder')

\* LinksFollowOrder, as a formula about any sequence and pointers.
LEMMA FollowsIs == LinksFollowOrder <=> Linked(order, firstEntry, lastEntry, next, prev)
BY DEF LinksFollowOrder, Linked

LEMMA FollowsAfter ==
  LinksFollowOrder' <=> Linked(order', firstEntry', lastEntry', next', prev')
BY DEF LinksFollowOrder, Linked

LEMMA ListKeptBy ==
  ASSUME CallsBounded', LinkType', Linked(order', firstEntry', lastEntry', next', prev')
  PROVE  ListKept
BY FollowsAfter DEF ListKept, CheckLinks

\* A call that ends.
LEMMA FewerCalls ==
  ASSUME PoolInv, CallsBounded, NEW t \in Threads, calls[t] # <<>>,
         calls' = [calls EXCEPT ![t] = Front(calls[t])]
  PROVE  CallsBounded'
<1>1. TypeOK /\ NoDuplicates(calls[t])
  BY DEF PoolInv, CallsNested
<1>2. /\ calls' \in [Threads -> Seq(Proxies)]
      /\ Len(calls'[t]) = Len(calls[t]) - 1 /\ Len(calls[t]) \in Nat
      /\ \A x \in Threads \ {t} : calls'[x] = calls[x]
  BY <1>1, CallEnds
<1>3. \A x \in Threads : Len(calls[x]) <= Depth /\ Depth \in Nat
  BY PoolAssumption DEF CallsBounded
<1> SUFFICES ASSUME NEW x \in Threads PROVE Len(calls'[x]) <= Depth
  BY DEF CallsBounded
<1> QED BY <1>2, <1>3

\* A call that begins.
LEMMA MoreCalls ==
  ASSUME PoolInv, CallsBounded, NEW t \in Threads, NEW p \in Proxies, MayCall(t, p),
         calls' = [calls EXCEPT ![t] = Append(calls[t], p)]
  PROVE  CallsBounded' /\ Cardinality(held) < Cardinality(Threads) * Depth
<1>1. TypeOK /\ p \notin Elements(calls[t]) /\ Len(calls[t]) < Depth
  BY DEF PoolInv, MayCall
<1>2. /\ calls' \in [Threads -> Seq(Proxies)]
      /\ held' = held \cup {<<t, p>>} /\ <<t, p>> \notin held
      /\ Len(calls'[t]) = Len(calls[t]) + 1 /\ Len(calls[t]) \in Nat
      /\ \A x \in Threads \ {t} : calls'[x] = calls[x]
  BY <1>1, CallBegins
<1>3. \A x \in Threads : Len(calls[x]) <= Depth /\ Depth \in Nat
  BY PoolAssumption DEF CallsBounded
<1>4. \A x \in Threads : Len(calls'[x]) <= Depth
  BY <1>1, <1>2, <1>3
<1>5. /\ held' \in SUBSET (Threads \X Proxies)
      /\ \A h \in held' : h[2] \in Elements(calls'[h[1]])
  BY DEF held
<1>6. IsFiniteSet(held') /\ Cardinality(held') <= Cardinality(Threads) * Depth
  <2>1. PICK s, H : s = calls' /\ H = held'
    OBVIOUS
  <2>2. IsFiniteSet(H) /\ Cardinality(H) <= Cardinality(Threads) * Depth
    BY <1>2, <1>4, <1>5, <2>1, FewCalls
  <2> QED BY <2>1, <2>2
<1>7. Cardinality(held') = Cardinality(held) + 1 /\ Cardinality(held) \in Nat
  BY <1>2, HeldFinite, FS_AddElement, FS_CardinalityType
<1>8. Cardinality(Threads) * Depth \in Nat
  BY PoolAssumption, FS_CardinalityType
<1>9. PICK n, k, c \in Nat : /\ n = Cardinality(held) /\ k = Cardinality(Threads) * Depth
                             /\ c = Cardinality(held')
  BY <1>7, <1>8
<1>10. n < k
  BY <1>6, <1>7, <1>9
<1> QED BY <1>4, <1>9, <1>10 DEF CallsBounded

\* The three steps that relink an entry.
LEMMA LinkHitInv ==
  ASSUME LinkInv, LinksFollowOrder, NEW t \in Threads, NEW p \in Proxies, NEW e \in Entries,
         RefHit(t, p, e), LinkHit(e)
  PROVE  ListKept
<1>1. /\ PoolInv /\ CallsBounded /\ MayCall(t, p) /\ e \in Elements(order)
      /\ order' = MoveToFront(order, e)
      /\ calls' = [calls EXCEPT ![t] = Append(calls[t], p)]
  BY DEF LinkInv, RefHit, Found, Enter
<1>2. order \in Seq(Entries) /\ NoDuplicates(order) /\ CallsBounded'
  BY <1>1, MoreCalls DEF PoolInv, TypeOK
<1>3. PICK k \in 1 .. Len(order) : e = order[k]
  BY <1>1, <1>2, ElementsType
<1>4. /\ LinkType /\ Linked(order, firstEntry, lastEntry, next, prev)
  BY FollowsIs DEF LinkInv
<1>5. firstEntry = order[1]
  BY <1>2, <1>3, <1>4 DEF Linked
<1>6. CASE k = 1
  <2>1. UNCHANGED linkVars
    BY <1>3, <1>5, <1>6 DEF LinkHit
  <2>2. PICK m : m = MoveToFront(order, order[k])
    OBVIOUS
  <2>3. /\ m \in Seq(Entries) /\ Len(m) = Len(order) /\ m[1] = order[1]
        /\ \A i \in 2 .. Len(order) : m[i] = order[i]
    <3>1. /\ m \in Seq(Entries) /\ Len(m) = Len(order) /\ m[1] = order[k]
          /\ \A i \in 2 .. Len(order) : m[i] = IF i <= k THEN order[i - 1] ELSE order[i]
      BY <1>2, <2>2, MovedFrom
    <3>2. \A i \in 2 .. Len(order) : ~(i <= k)
      BY <1>6
    <3> QED BY <1>6, <3>1, <3>2
  <2>4. m = order
    <3>1. \A i \in 1 .. Len(order) : m[i] = order[i]
      BY <2>3
    <3> QED BY <1>2, <2>3, <3>1, SeqEqual
  <2>5. order' = order
    BY <1>1, <1>3, <2>2, <2>4
  <2>6. LinkType' /\ Linked(order', firstEntry', lastEntry', next', prev')
    BY <1>4, <2>1, <2>5 DEF linkVars, LinkType
  <2> QED BY <1>2, <2>6, ListKeptBy
<1>7. CASE k # 1
  <2>1. k \in 2 .. Len(order) /\ e # firstEntry
    BY <1>2, <1>3, <1>5, <1>7 DEF NoDuplicates
  <2>2. LinkMove(order[k])
    BY <1>3, <2>1 DEF LinkHit
  <2>3. LinkType' /\ Linked(order', firstEntry', lastEntry', next', prev')
    BY <1>1, <1>2, <1>3, <1>4, <2>1, <2>2, LinkMoveLinks
  <2> QED BY <1>2, <2>3, ListKeptBy
<1> QED BY <1>6, <1>7

LEMMA LinkPrependInv ==
  ASSUME LinkInv, LinksFollowOrder, PoolInv', NEW t \in Threads, NEW p \in Proxies,
         NEW opened \in BOOLEAN, NEW made, RefPrepend(t, p, opened, made),
         LinkPrepend(Len(order) + 1)
  PROVE  ListKept
<1>1. PICK e : e = Len(order) + 1
  OBVIOUS
<1>2. /\ PoolInv /\ CallsBounded /\ MayCall(t, p) /\ LinkPrepend(e)
      /\ order' = MoveToFront(order, e)
      /\ calls' = [calls EXCEPT ![t] = Append(calls[t], p)]
  BY <1>1 DEF LinkInv, RefPrepend, OpenInto, Refill
<1>3. order \in Seq(Entries) /\ Elements(order) = 1 .. Len(order) /\ CallsBounded'
  BY <1>2, MoreCalls DEF PoolInv, TypeOK
<1>4. e \notin Elements(order)
  BY <1>1, <1>3
<1>5. e \in Entries
  <2>1. order' \in Seq(Entries)
    BY DEF PoolInv, TypeOK
  <2>2. order' = <<e>> \o order
    BY <1>2, <1>4 DEF MoveToFront, Without
  <2>3. order'[1] = e /\ 1 \in 1 .. Len(order')
    BY <1>3, <2>2
  <2> QED BY <2>1, <2>3
<1>6. LinkType /\ Linked(order, firstEntry, lastEntry, next, prev)
  BY FollowsIs DEF LinkInv
<1>7. LinkType' /\ Linked(order', firstEntry', lastEntry', next', prev')
  BY <1>2, <1>3, <1>4, <1>5, <1>6, LinkPrependLinks
<1> QED BY <1>3, <1>7, ListKeptBy

\* The entry recycled is not the first, or the list becomes a loop.
LEMMA LinkRecycleInv ==
  ASSUME LinkInv, LinksFollowOrder, NEW t \in Threads, NEW p \in Proxies,
         NEW opened \in BOOLEAN, NEW made, RefRecycle(t, p, opened, made),
         LinkRecycle(OldestIn(order, Spare))
  PROVE  ListKept
<1>1. PICK e : e = OldestIn(order, Spare)
  OBVIOUS
<1>2. /\ PoolInv /\ LossesExplained /\ CallsBounded /\ MayCall(t, p) /\ LinkRecycle(e)
      /\ Full /\ Spare # {} /\ order' = MoveToFront(order, e)
      /\ calls' = [calls EXCEPT ![t] = Append(calls[t], p)]
  BY <1>1 DEF LinkInv, RefRecycle, OpenInto, Refill
<1>3. order \in Seq(Entries) /\ NoDuplicates(order) /\ Len(order) = MaxSize
  BY <1>2 DEF PoolInv, TypeOK, Full
<1>4. CallsBounded' /\ Cardinality(held) < Cardinality(Threads) * Depth
  BY <1>2, MoreCalls
<1>5. LinkType /\ Linked(order, firstEntry, lastEntry, next, prev)
  BY FollowsIs DEF LinkInv
<1>6. PICK k \in 1 .. Len(order) : e = order[k] /\ e \in Entries
  <2>1. Elements(order) \cap Spare # {}
    BY <1>2 DEF Spare, Idle
  <2>2. e \in Elements(order)
    BY <1>1, <1>3, <2>1, OldestInProperties
  <2> QED BY <1>3, <2>2, ElementsType
<1>7. CASE k # 1
  <2>1. k \in 2 .. Len(order)
    BY <1>3, <1>6, <1>7
  <2>2. LinkMove(order[k])
    <3>1. k \in 1 .. Len(order) /\ k # 1 /\ k - 1 \in 1 .. Len(order)
      BY <1>3, <2>1
    <3>2. prev[order[k]] = order[k - 1]
      BY <1>5, <3>1 DEF Linked
    <3>3. order[k - 1] \in Entries
      BY <1>3, <3>1
    <3>4. prev[e] # NoEntry
      BY <1>6, <3>2, <3>3, NoEntryIsNone
    <3> QED BY <1>2, <1>6, <3>4 DEF LinkRecycle
  <2>3. LinkType' /\ Linked(order', firstEntry', lastEntry', next', prev')
    BY <1>2, <1>3, <1>5, <1>6, <2>1, <2>2, LinkMoveLinks
  <2> QED BY <1>4, <2>3, ListKeptBy
<1>8. CASE k = 1
  <2>1. firstEntry = e /\ prev[e] = NoEntry /\ lastEntry \in Entries
    <3>1. Len(order) # 0 /\ Len(order) \in 1 .. Len(order) /\ 1 \in 1 .. Len(order)
      BY <1>3, <1>6
    <3>2. firstEntry = order[1] /\ lastEntry = order[Len(order)] /\ prev[order[1]] = NoEntry
      BY <1>5, <3>1 DEF Linked
    <3> QED BY <1>3, <1>6, <1>8, <3>1, <3>2
  <2>2. /\ lastEntry' = IF next[e] = NoEntry THEN prev[lastEntry] ELSE lastEntry
        /\ prev' = [Store(prev, next[e], NoEntry) EXCEPT ![firstEntry] = e]
        /\ next' = [next EXCEPT ![e] = firstEntry]
        /\ firstEntry' = e
    BY <1>2, <2>1 DEF LinkRecycle
  <2>3. LinkType'
    <3>1. PICK g : g = Store(prev, next[e], NoEntry)
      OBVIOUS
    <3>2. next[e] \in Ends /\ prev \in Pointers /\ next \in Pointers
      BY <1>5, <1>6 DEF LinkType, Pointers
    <3>3. g \in Pointers
      <4>1. NoEntry \in Ends
        BY EndsAre
      <4> QED BY <3>1, <3>2, <4>1, StoreIs
    <3>4. prev' = [g EXCEPT ![firstEntry] = e]
      BY <2>2, <3>1
    <3>5. prev' \in Pointers /\ next' \in Pointers /\ firstEntry' \in Ends
      BY <1>6, <2>1, <2>2, <3>2, <3>3, <3>4, EndsAre DEF Pointers
    <3>6. lastEntry' \in Ends
      BY <2>1, <2>2, <3>2, EndsAre DEF Pointers
    <3> QED BY <3>5, <3>6 DEF LinkType
  <2>4. Looped'
    <3>1. next'[e] = e
      BY <1>5, <1>6, <2>1, <2>2 DEF LinkType, Pointers
    <3>2. e \in Elements(order')
      BY <1>2, <1>3, <1>6, MoveToFrontProperties
    <3> QED BY <3>1, <3>2 DEF Looped
  <2>5. ~Roomy
    <3>1. SUFFICES ASSUME Roomy PROVE FALSE
      OBVIOUS
    <3>2. IsFiniteSet(LosableKeys) /\ Cardinality(held) + Cardinality(LosableKeys) + 1 < MaxSize
      <4>1. /\ Cardinality(held) \in Nat /\ Cardinality(Threads) * Depth \in Nat
            /\ IsFiniteSet(LosableKeys) /\ Cardinality(LosableKeys) \in Nat
            /\ Cardinality(Threads) * Depth + Cardinality(LosableKeys) < MaxSize
            /\ MaxSize \in Nat
        BY <1>2, <3>1, HeldFinite, FS_CardinalityType, PoolAssumption DEF Roomy
      <4>2. PICK n, m, l \in Nat : n = Cardinality(held) /\ m = Cardinality(Threads) * Depth
                                   /\ l = Cardinality(LosableKeys)
        BY <4>1
      <4>3. n < m /\ m + l < MaxSize
        BY <1>4, <4>1, <4>2
      <4>4. n + l + 1 < MaxSize
        BY <4>1, <4>3
      <4> QED BY <4>1, <4>2, <4>4
    <3>3. PICK j \in 2 .. Len(order) : e = order[j]
      BY <1>1, <1>2, <3>2, RecycledIsOld
    <3>4. j \in 1 .. Len(order) /\ j # 1 /\ order[j] = order[k]
      BY <1>3, <1>6, <3>3
    <3> QED BY <1>3, <1>8, <3>4 DEF NoDuplicates
  <2> QED BY <1>4, <2>3, <2>4, <2>5 DEF ListKept, CheckLinks
<1> QED BY <1>7, <1>8

\* Initially the list is empty.
LEMMA InitLinks == LinksInit => LinkInv /\ LinksFollowOrder
<1> SUFFICES ASSUME LinksInit PROVE LinkInv /\ LinksFollowOrder
  OBVIOUS
<1>1. Init /\ order = <<>> /\ \A t \in Threads : calls[t] = <<>>
  BY DEF LinksInit, Init
<1>2. PoolInv
  BY <1>1, InitInv
<1>3. LossesExplained
  <2> SUFFICES ASSUME NEW e \in Entries PROVE ~Lost(e)
    BY DEF LossesExplained
  <2>1. Elements(<<>>) = {}
    BY DEF Elements
  <2>2. Holders(e) = {} /\ refCount[e] = 0
    BY <1>1, <2>1 DEF Init, Holders, held
  <2> QED BY <2>2, FS_EmptySet DEF Lost
<1>4. CallsBounded
  BY <1>1, PoolAssumption DEF CallsBounded
<1>5. LinkType
  BY DEF LinksInit, LinkType, Pointers, Ends
<1>6. LinksFollowOrder
  BY <1>1, FollowsIs DEF Linked, LinksInit
<1> QED BY <1>2, <1>3, <1>4, <1>5, <1>6 DEF LinkInv, CheckLinks

\* A step that leaves the list and its pointers alone.
LEMMA LinksUntouched ==
  ASSUME LinkInv, LinksFollowOrder, UNCHANGED linkVars, UNCHANGED order, CallsBounded'
  PROVE  ListKept
<1>1. LinkType'
  BY DEF LinkInv, LinkType, linkVars
<1>2. Linked(order, firstEntry, lastEntry, next, prev)
  BY FollowsIs
<1>3. Linked(order', firstEntry', lastEntry', next', prev')
  BY <1>2 DEF linkVars
<1> QED BY <1>1, <1>3, ListKeptBy

\* Every joined step is a step of the pool.
LEMMA LinksStepPool == [LinksNext]_allVars => [Next]_vars
BY DEF LinksNext, Next, allVars, vars, linkVars

\* Every joined step keeps the list linked.
LEMMA LinksStepInv ==
  ASSUME LinkInv, LinksNext PROVE LinkInv' /\ (Roomy => LinksFollowOrder')
<1>1. PoolInv' /\ LossesExplained'
  BY LinksStepPool, StepInv, LossesStep DEF LinkInv
<1>2. LinksFollowOrder /\ PoolInv /\ CallsBounded
  BY DEF LinkInv, CheckLinks, LinksNext
<1> SUFFICES ListKept
  BY <1>1 DEF LinkInv, ListKept
<1>3. ASSUME calls' = calls PROVE CallsBounded'
  BY <1>2, <1>3 DEF CallsBounded
<1>4. ASSUME NEW p \in Proxies, DeleteProxy(p),
             IF poolRefCount = 1 THEN LinksFreed ELSE UNCHANGED linkVars
      PROVE  ListKept
  <2>1. CallsBounded'
    BY <1>3, <1>4 DEF DeleteProxy
  <2>2. CASE poolRefCount = 1
    <3>1. LinksFreed /\ order' = <<>>
      BY <1>4, <2>2 DEF DeleteProxy
    <3>2. LinkType'
      BY <3>1 DEF LinksFreed, LinkType, Pointers, Ends
    <3>3. Linked(order', firstEntry', lastEntry', next', prev')
      BY <3>1 DEF LinksFreed, Linked
    <3> QED BY <2>1, <3>2, <3>3, ListKeptBy
  <2>3. CASE poolRefCount # 1
    <3>1. UNCHANGED linkVars /\ UNCHANGED order
      BY <1>4, <2>3 DEF DeleteProxy
    <3> QED BY <1>2, <2>1, <3>1, LinksUntouched
  <2> QED BY <2>2, <2>3
<1>5. ASSUME NEW p \in Proxies, NEW t \in Threads, NEW e \in Entries,
             RefHit(t, p, e), LinkHit(e)
      PROVE  ListKept
  BY <1>2, <1>5, LinkHitInv
<1>6. ASSUME NEW p \in Proxies, NEW t \in Threads, NEW opened \in BOOLEAN, NEW made,
             RefPrepend(t, p, opened, made), LinkPrepend(Len(order) + 1)
      PROVE  ListKept
  BY <1>1, <1>2, <1>6, LinkPrependInv
<1>7. ASSUME NEW p \in Proxies, NEW t \in Threads, NEW opened \in BOOLEAN, NEW made,
             RefRecycle(t, p, opened, made), LinkRecycle(OldestIn(order, Spare))
      PROVE  ListKept
  BY <1>2, <1>7, LinkRecycleInv
<1>8. ASSUME NEW p \in Proxies, NEW t \in Threads, UNCHANGED linkVars,
             \/ \E f \in Files : NewProxy(t, p, f)
             \/ RefExhausted(t, p)
      PROVE  ListKept
  <2>1. UNCHANGED order /\ calls' = calls
    BY <1>8 DEF NewProxy, RefExhausted
  <2> QED BY <1>2, <1>3, <1>8, <2>1, LinksUntouched
<1>9. ASSUME NEW t \in Threads, UNCHANGED linkVars, Unref(t) \/ BandMissing(t)
      PROVE  ListKept
  <2>1. UNCHANGED order /\ calls[t] # <<>> /\ calls' = [calls EXCEPT ![t] = Front(calls[t])]
    BY <1>9 DEF Unref, BandMissing
  <2> QED BY <1>2, <1>9, <2>1, FewerCalls, LinksUntouched
<1>10. LiveProxies \subseteq Proxies
  BY DEF LiveProxies
<1> QED BY <1>4, <1>5, <1>6, <1>7, <1>8, <1>9, <1>10 DEF LinksNext

LEMMA LinksStutter ==
  ASSUME LinkInv, UNCHANGED allVars
  PROVE  LinkInv' /\ (LinksFollowOrder => LinksFollowOrder')
<1>1. UNCHANGED vars /\ UNCHANGED linkVars
  BY DEF allVars
<1>2. PoolInv' /\ LossesExplained'
  BY <1>1, StepInv, LossesStep DEF LinkInv
<1>3. CallsBounded' /\ LinkType' /\ (Looped => Looped')
  BY <1>1 DEF LinkInv, CallsBounded, LinkType, Looped, vars, linkVars
<1>4. LinksFollowOrder => LinksFollowOrder'
  BY <1>1, FollowsIs, FollowsAfter DEF vars, linkVars
<1> QED BY <1>2, <1>3, <1>4 DEF LinkInv, CheckLinks

\* The doubly linked list: firstEntry, lastEntry, next and prev are at every
\* moment the sequence of the pool, as CheckLinks asserts in a debug build,
\* whatever is referenced, nested, refused and recycled, until the first entry
\* of the list is the one recycled, which makes the list a loop.
THEOREM CheckLinksHolds == LinksSpec => []CheckLinks
<1>1. LinksInit => LinkInv
  BY InitLinks
<1>2. LinkInv /\ [LinksNext]_allVars => LinkInv'
  BY LinksStepInv, LinksStutter
<1>3. LinkInv => CheckLinks
  BY DEF LinkInv
<1> QED BY <1>1, <1>2, <1>3, PTL DEF LinksSpec

\* It never becomes one with more entries than the threads can reference at a
\* time and the files without the band can take for good, one for each thread
\* that makes proxies of one: the pointers are the list for ever.
THEOREM NeverLooped == Roomy => (LinksSpec => []LinksFollowOrder)
<1> SUFFICES ASSUME Roomy PROVE LinksSpec => []LinksFollowOrder
  OBVIOUS
<1>1. LinkInv /\ LinksFollowOrder /\ [LinksNext]_allVars => LinkInv' /\ LinksFollowOrder'
  BY LinksStepInv, LinksStutter
<1> QED BY <1>1, InitLinks, PTL DEF LinksSpec
=============================================================================
