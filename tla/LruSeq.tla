------------------------------- MODULE LruSeq -------------------------------
(***************************************************************************)
(* A most-recently-used list as a sequence: the head is the newest         *)
(* element, the last one the oldest.  GDAL keeps two such lists, the       *)
(* raster blocks of gdalrasterblock.cpp and the pooled datasets of         *)
(* gdalproxypool.cpp; both are doubly linked in the code, and the modules  *)
(* BlockList and DatasetPoolLinks show that the pointers realise these     *)
(* operators.                                                              *)
(***************************************************************************)
EXTENDS Integers, Sequences

Elements(s) == {s[i] : i \in DOMAIN s}

\* s with the (only) occurrence of e unlinked; s itself when e is not there.
Without(s, e) ==
  IF e \in Elements(s)
  THEN LET i == CHOOSE i \in DOMAIN s : s[i] = e
       IN  SubSeq(s, 1, i - 1) \o SubSeq(s, i + 1, Len(s))
  ELSE s

\* e becomes the newest element, whether or not it was in the list.
MoveToFront(s, e) == <<e>> \o Without(s, e)

\* The element of S met first when walking from the oldest end.
OldestIn(s, S) ==
  s[CHOOSE i \in DOMAIN s : /\ s[i] \in S
                            /\ \A j \in DOMAIN s : j > i => s[j] \notin S]

NoDuplicates(s) == \A i, j \in DOMAIN s : s[i] = s[j] => i = j
=============================================================================
