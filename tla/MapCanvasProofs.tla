-------------------------- MODULE MapCanvasProofs --------------------------
(***************************************************************************)
(* For any number of files and any raster bands: whatever fails while maps *)
(* are opened, a loaded map has what the handlers of the mouse use, it is  *)
(* zoomed by its own sizes, no dataset of a map that was opened without an *)
(* error stays open behind another one, and no band is drawn twice.        *)
(* CanvasInv is inductive; what a procedure leaves behind is stated once   *)
(* per procedure.  What the band loop has drawn is an invariant of its     *)
(* turns, shown by the least turn that would break it.                     *)
(***************************************************************************)
EXTENDS MapCanvas, ListsAndSums, TLAPS

Results == {"ok", "error", "exit"}
Handle(kinds) == (kinds \cup {"none"}) \X Nat

Canvas ==
  [n : Nat, result : Results, loaded : BOOLEAN, type : {"", "Vector", "Raster"},
   Dataset : Handle({"Dataset"}),
   projected : Handle({"proj", "projected"}),
   geographic : Handle({"proj", "clone", "geographic"}),
   proj2geo : Handle({"proj2geo"}), geo2proj : Handle({"geo2proj"}),
   live : SUBSET (Kinds \X Nat),
   drawn : BOOLEAN, sized : Nat, shown : BOOLEAN, bands : Seq(Bands)]

\* The numbers of the datasets that are open.
OpenDatasets(m) == {k \in Nat : <<"Dataset", k>> \in m.live}

Transforming(m) == {m.proj2geo, m.geo2proj} \subseteq m.live
Usable(m) == m.loaded => m.type # "" /\ m.Dataset \in m.live /\ Transforming(m)

\* a came from m by a procedure that is about projections only.
Kept(m, a) ==
  /\ a \in Canvas
  /\ a.n = m.n /\ a.loaded = m.loaded /\ a.type = m.type /\ a.Dataset = m.Dataset
  /\ a.drawn = m.drawn /\ a.sized = m.sized /\ a.shown = m.shown

\* Making a command, and deleting commands in silence.
LEMMA NewIs ==
  ASSUME NEW m \in Canvas, NEW kind \in Kinds
  PROVE  /\ Kept(m, New(m, kind)) /\ New(m, kind).result = m.result
         /\ New(m, kind).live = m.live \cup {<<kind, m.n>>}
         /\ New(m, kind).proj2geo = m.proj2geo /\ New(m, kind).geo2proj = m.geo2proj
         /\ New(m, kind).projected = m.projected /\ New(m, kind).geographic = m.geographic
<1>1. PICK L \in SUBSET (Kinds \X Nat) : L = m.live \cup {<<kind, m.n>>}
  <2>1. m.live \subseteq Kinds \X Nat /\ <<kind, m.n>> \in Kinds \X Nat
    BY DEF Canvas
  <2> QED BY <2>1
<1>2. New(m, kind) = [m EXCEPT !.live = L]
  BY <1>1 DEF New
<1> QED BY <1>1, <1>2 DEF Kept, Canvas

LEMMA FailIs ==
  ASSUME NEW m \in Canvas, NEW a \in Fail(m)
  PROVE  /\ Kept(m, a) /\ a.result = "error" /\ a.live = m.live
BY DEF Fail, Kept, Canvas, Results

\* "-delete" of the command in a variable.
LEMMA DeleteIs ==
  ASSUME NEW m \in Canvas, m.result = "ok",
         NEW var \in {"Dataset", "projected", "geographic", "proj2geo", "geo2proj"},
         NEW a \in Delete(m, var)
  PROVE  /\ Kept(m, a) /\ a.result \in {"ok", "error"} /\ a.live = m.live \ {m[var]}
<1>1. CASE m[var] \in m.live
  <2>1. PICK L \in SUBSET (Kinds \X Nat) : L = m.live \ {m[var]}
    BY DEF Canvas
  <2>2. a = [m EXCEPT !.live = L]
    BY <1>1, <2>1 DEF Delete
  <2> QED BY <2>1, <2>2 DEF Kept, Canvas
<1>2. CASE m[var] \notin m.live
  BY <1>2, FailIs DEF Delete
<1> QED BY <1>1, <1>2

\* a came from m by deleting commands.
Quieter(m, a) == Kept(m, a) /\ a.live \subseteq m.live /\ a.result \in {"ok", "error"}

LEMMA QuieterStays ==
  ASSUME NEW m, NEW a, NEW b, Quieter(m, a), Quieter(a, b)
  PROVE  Quieter(m, b)
BY DEF Quieter, Kept

\* closeMap: the map is gone, and its dataset with it, wherever it stops.
LEMMA CloseMapIs ==
  ASSUME NEW m \in Canvas, m.result = "ok", NEW a \in CloseMap(m)
  PROVE  /\ a \in Canvas /\ a.result \in {"ok", "error"}
         /\ a.n = m.n /\ ~a.loaded /\ ~a.shown /\ a.Dataset = m.Dataset
         /\ a.drawn = m.drawn /\ a.sized = m.sized
         /\ a.live \subseteq m.live \ {m.Dataset}
<1>1. PICK g : g = Gone(m)
  OBVIOUS
<1>2. /\ g \in Canvas /\ g.result = "ok" /\ g.n = m.n /\ ~g.loaded /\ ~g.shown
      /\ g.Dataset = m.Dataset /\ g.drawn = m.drawn /\ g.sized = m.sized /\ g.live = m.live
  <2>1. PICK none : none = <<>> /\ none \in Seq(Bands)
    <3>1. <<>> \in Seq(Bands)
      OBVIOUS
    <3> QED BY <3>1
  <2>2. g = [m EXCEPT !.shown = FALSE, !.loaded = FALSE, !.bands = none]
    BY <1>1, <2>1 DEF Gone
  <2>3. g \in Canvas
    BY <2>1, <2>2 DEF Canvas
  <2> QED BY <2>2, <2>3 DEF Canvas
<1>3. PICK D1 : D1 = Delete(g, "Dataset")
  OBVIOUS
<1>4. \A x \in D1 : Quieter(g, x) /\ x.live \subseteq m.live \ {m.Dataset}
  BY <1>2, <1>3, DeleteIs DEF Quieter
<1>5. PICK D2 : D2 = Then(D1, LAMBDA x : Delete(x, "projected"))
  OBVIOUS
<1>6. \A x \in D2 : Quieter(g, x) /\ x.live \subseteq m.live \ {m.Dataset}
  <2> SUFFICES ASSUME NEW y \in D1, y.result = "ok", NEW x \in Delete(y, "projected")
               PROVE  Quieter(g, x) /\ x.live \subseteq m.live \ {m.Dataset}
    BY <1>4, <1>5 DEF Then
  <2>1. Quieter(y, x)
    BY <1>4, DeleteIs DEF Quieter, Kept
  <2> QED BY <1>4, <2>1, QuieterStays DEF Quieter
<1>7. PICK D3 : D3 = Then(D2, LAMBDA x : Delete(x, "geographic"))
  OBVIOUS
<1>8. \A x \in D3 : Quieter(g, x) /\ x.live \subseteq m.live \ {m.Dataset}
  <2> SUFFICES ASSUME NEW y \in D2, y.result = "ok", NEW x \in Delete(y, "geographic")
               PROVE  Quieter(g, x) /\ x.live \subseteq m.live \ {m.Dataset}
    BY <1>6, <1>7 DEF Then
  <2>1. Quieter(y, x)
    BY <1>6, DeleteIs DEF Quieter, Kept
  <2> QED BY <1>6, <2>1, QuieterStays DEF Quieter
<1>9. PICK D4 : D4 = Then(D3, LAMBDA x : Delete(x, "proj2geo"))
  OBVIOUS
<1>10. \A x \in D4 : Quieter(g, x) /\ x.live \subseteq m.live \ {m.Dataset}
  <2> SUFFICES ASSUME NEW y \in D3, y.result = "ok", NEW x \in Delete(y, "proj2geo")
               PROVE  Quieter(g, x) /\ x.live \subseteq m.live \ {m.Dataset}
    BY <1>8, <1>9 DEF Then
  <2>1. Quieter(y, x)
    BY <1>8, DeleteIs DEF Quieter, Kept
  <2> QED BY <1>8, <2>1, QuieterStays DEF Quieter
<1>11. PICK D5 : D5 = Then(D4, LAMBDA x : Delete(x, "geo2proj"))
  OBVIOUS
<1>12. \A x \in D5 : Quieter(g, x) /\ x.live \subseteq m.live \ {m.Dataset}
  <2> SUFFICES ASSUME NEW y \in D4, y.result = "ok", NEW x \in Delete(y, "geo2proj")
               PROVE  Quieter(g, x) /\ x.live \subseteq m.live \ {m.Dataset}
    BY <1>10, <1>11 DEF Then
  <2>1. Quieter(y, x)
    BY <1>10, DeleteIs DEF Quieter, Kept
  <2> QED BY <1>10, <2>1, QuieterStays DEF Quieter
<1>13. a \in D5
  BY <1>1, <1>3, <1>5, <1>7, <1>9, <1>11 DEF CloseMap
<1> QED BY <1>2, <1>12, <1>13 DEF Quieter, Kept

LEMMA DeleteQuietlyIs ==
  ASSUME NEW m \in Canvas,
         NEW vs \in SUBSET {"Dataset", "projected", "geographic", "proj2geo", "geo2proj"}
  PROVE  /\ Kept(m, DeleteQuietly(m, vs)) /\ DeleteQuietly(m, vs).result = m.result
         /\ DeleteQuietly(m, vs).live = m.live \ {m[v] : v \in vs}
<1>1. PICK L \in SUBSET (Kinds \X Nat) : L = m.live \ {m[v] : v \in vs}
  <2>1. m.live \subseteq Kinds \X Nat
    BY DEF Canvas
  <2> QED BY <2>1
<1>2. DeleteQuietly(m, vs) = [m EXCEPT !.live = L]
  BY <1>1 DEF DeleteQuietly
<1> QED BY <1>1, <1>2 DEF Kept, Canvas

\* a came from m by asking for projections: no dataset is opened, and the
\* one of this file is closed by "exit" and by nothing else.
Asked(m, a) ==
  /\ Kept(m, a) /\ OpenDatasets(a) \subseteq OpenDatasets(m)
  /\ a.result = "exit" => a.Dataset \notin a.live
  /\ a.result # "exit" /\ m.Dataset \in m.live => a.Dataset \in a.live

LEMMA AskedStays ==
  ASSUME NEW m, NEW a, NEW b, Asked(m, a), Asked(a, b), a.result # "exit"
  PROVE  Asked(m, b)
BY DEF Asked, Kept

LEMMA SameLive ==
  ASSUME NEW m, NEW a, Kept(m, a), a.result # "exit", a.live = m.live
  PROVE  Asked(m, a)
BY DEF Asked, Kept, OpenDatasets

\* Commands of other kinds come and go.
LEMMA SameDatasets ==
  ASSUME NEW m \in Canvas, NEW a, Kept(m, a), a.result # "exit",
         NEW Q, "Dataset" \notin Q, NEW L \in SUBSET Handle(Q),
         a.live \subseteq m.live \cup L, m.live \ L \subseteq a.live
  PROVE  Asked(m, a)
<1>1. /\ m.Dataset \in Handle({"Dataset"}) /\ m.live \subseteq Kinds \X Nat /\ a.Dataset = m.Dataset
  BY DEF Canvas, Kept
<1>2. \A k \in Nat : <<"Dataset", k>> \notin L
  BY DEF Handle
<1>3. m.Dataset \in m.live => m.Dataset \notin L
  BY <1>1, <1>2 DEF Handle, Kinds
<1> QED BY <1>1, <1>2, <1>3 DEF Asked, OpenDatasets

LEMMA AskIs ==
  ASSUME NEW m \in Canvas, m.result = "ok", NEW var \in {"projected", "geographic"},
         NEW a \in Ask(m, var)
  PROVE  Asked(m, a) /\ a.result \in Results
<1>1. CASE a = m
  BY <1>1 DEF Asked, Kept, Results
<1>2. CASE a = [DeleteQuietly(m, {"Dataset"}) EXCEPT !.result = "exit"]
  <2>1. PICK d : d = DeleteQuietly(m, {"Dataset"})
    OBVIOUS
  <2>2. Kept(m, d) /\ d.live = m.live \ {m.Dataset}
    BY <2>1, DeleteQuietlyIs
  <2>3. Kept(m, a) /\ a.live = m.live \ {m.Dataset} /\ a.result = "exit"
    BY <1>2, <2>1, <2>2 DEF Kept, Canvas, Results
  <2> QED BY <2>3 DEF Asked, OpenDatasets, Kept, Results
<1>3. ASSUME NEW b \in Make(m, var, var)
      PROVE  Asked(m, b) /\ b.result = "ok"
  <2>1. PICK x : x = New(m, var)
    OBVIOUS
  <2>2. var \in Kinds
    BY DEF Kinds
  <2>3. Kept(m, x) /\ x.result = "ok" /\ x.live = m.live \cup {<<var, m.n>>}
    BY <2>1, <2>2, NewIs
  <2>4. b = [x EXCEPT ![var] = <<var, m.n>>] /\ m.n \in Nat
    BY <2>1 DEF Make, Canvas
  <2>5. PICK c \in {var} \X Nat : c = <<var, m.n>>
    BY <2>4
  <2>6. Kept(x, b) /\ b.result = "ok" /\ b.live = x.live
    <3>1. CASE var = "projected"
      <4>1. c \in Handle({"proj", "projected"})
        BY <2>5, <3>1 DEF Handle
      <4> QED BY <2>3, <2>4, <2>5, <3>1, <4>1 DEF Kept, Canvas
    <3>2. CASE var = "geographic"
      <4>1. c \in Handle({"proj", "clone", "geographic"})
        BY <2>5, <3>2 DEF Handle
      <4> QED BY <2>3, <2>4, <2>5, <3>2, <4>1 DEF Kept, Canvas
    <3> QED BY <3>1, <3>2
  <2>7. {<<var, m.n>>} \in SUBSET Handle({var})
    BY <2>4 DEF Handle
  <2>8. Kept(m, b) /\ b.live = m.live \cup {<<var, m.n>>}
    BY <2>3, <2>6 DEF Kept
  <2> QED BY <2>6, <2>7, <2>8, SameDatasets
<1>4. CASE a \in UNION {Fail(b) : b \in Make(m, var, var)}
  <2>1. PICK b \in Make(m, var, var) : a \in Fail(b)
    BY <1>4
  <2>2. Asked(m, b) /\ b.result = "ok"
    BY <1>3
  <2>3. Kept(b, a) /\ a.result = "error" /\ a.live = b.live
    BY <2>1, <2>2, FailIs DEF Asked, Kept
  <2> QED BY <2>2, <2>3 DEF Asked, Kept, OpenDatasets, Results
<1> QED BY <1>1, <1>2, <1>3, <1>4 DEF Ask, Results

LEMMA SourcesIs ==
  ASSUME NEW m \in Canvas, m.result = "ok", NEW sref \in {"projected", "geographic", "none", "other"},
         NEW a \in Sources(m, sref)
  PROVE  Asked(m, a) /\ a.result \in {"ok", "error"}
<1>1. PICK none, proj : /\ none = [m EXCEPT !.projected = None, !.geographic = None]
                        /\ proj = <<"proj", m.n>>
  OBVIOUS
<1>2. /\ None \in Handle({"proj", "projected"}) /\ None \in Handle({"proj", "clone", "geographic"})
      /\ proj \in Handle({"proj", "projected"}) /\ proj \in Handle({"proj", "clone", "geographic"})
      /\ m.n \in Nat
  BY <1>1 DEF None, Handle, Canvas
<1>3. /\ Kept(m, none) /\ none.result = "ok" /\ none.live = m.live
  BY <1>1, <1>2 DEF Kept, Canvas
<1>4. Asked(m, none)
  BY <1>3 DEF Asked, Kept, OpenDatasets
<1>5. CASE sref = "projected"
  <2>1. PICK c \in Handle({"proj", "clone", "geographic"}) : c = <<"clone", m.n>>
    BY <1>2 DEF Handle
  <2>2. PICK x : x = New(none, "clone")
    OBVIOUS
  <2>3. /\ Kept(none, x) /\ x.result = "ok" /\ x.live = m.live \cup {<<"clone", m.n>>}
    BY <1>3, <2>2, NewIs DEF Kept, Kinds
  <2>4. a = [x EXCEPT !.projected = proj, !.geographic = c]
    BY <1>1, <1>5, <2>1, <2>2 DEF Sources
  <2>5. Kept(x, a) /\ a.result = "ok" /\ a.live = x.live
    BY <1>2, <2>1, <2>3, <2>4 DEF Kept, Canvas
  <2>6. Kept(m, a)
    BY <1>3, <2>3, <2>5 DEF Kept
  <2>7. {<<"clone", m.n>>} \in SUBSET Handle({"clone"})
    BY <1>2 DEF Handle
  <2> QED BY <2>3, <2>5, <2>6, <2>7, SameDatasets
<1>6. CASE sref = "geographic"
  <2>1. a = [none EXCEPT !.geographic = proj]
    BY <1>1, <1>6 DEF Sources
  <2>2. Kept(none, a) /\ a.result = "ok" /\ a.live = none.live
    BY <1>2, <1>3, <2>1 DEF Kept, Canvas
  <2> QED BY <1>3, <1>4, <2>2, SameLive, AskedStays
<1>7. CASE sref = "none"
  <2>1. a = none
    BY <1>1, <1>7 DEF Sources
  <2> QED BY <1>3, <1>4, <2>1
<1>8. CASE sref = "other"
  <2>1. a \in Fail(none)
    BY <1>1, <1>8 DEF Sources
  <2>2. Kept(none, a) /\ a.result = "error" /\ a.live = none.live
    BY <1>3, <2>1, FailIs DEF Kept
  <2> QED BY <1>3, <1>4, <2>2, SameLive, AskedStays
<1> QED BY <1>5, <1>6, <1>7, <1>8

\* What Transformations does when the one transformation can be made or not,
\* and the other.
Transformed(m, there, back) ==
  LET x == IF there THEN [New(m, "proj2geo") EXCEPT !.proj2geo = <<"proj2geo", m.n>>]
                    ELSE [m EXCEPT !.proj2geo = None]
      b == IF back THEN [New(x, "geo2proj") EXCEPT !.geo2proj = <<"geo2proj", m.n>>]
                   ELSE [x EXCEPT !.geo2proj = None]
  IN IF there /\ back THEN {b}
     ELSE Fail(DeleteQuietly(b, {"projected", "geographic"}))

\* "set proj2geo [...]" and back, each of which may fail.
LEMMA TransformationsIs ==
  ASSUME NEW m \in Canvas, m.result = "ok", NEW a \in Transformations(m)
  PROVE  /\ Asked(m, a) /\ a.result \in {"ok", "error"}
         /\ a.result = "ok" => Transforming(a)
<1>1. PICK there, back \in BOOLEAN : a \in Transformed(m, there, back)
  <2>1. Transformations(m) = UNION {Transformed(m, there, back) : there, back \in BOOLEAN}
    BY DEF Transformations, Transformed
  <2> QED BY <2>1
<1>2. PICK x : x = IF there THEN [New(m, "proj2geo") EXCEPT !.proj2geo = <<"proj2geo", m.n>>]
                            ELSE [m EXCEPT !.proj2geo = None]
  OBVIOUS
<1>3. PICK b : b = IF back THEN [New(x, "geo2proj") EXCEPT !.geo2proj = <<"geo2proj", m.n>>]
                           ELSE [x EXCEPT !.geo2proj = None]
  OBVIOUS
<1>4. PICK p \in Handle({"proj2geo"}), q \in Handle({"geo2proj"}) :
        p = <<"proj2geo", m.n>> /\ q = <<"geo2proj", m.n>>
  BY DEF Handle, Canvas
<1>5. None \in Handle({"proj2geo"}) /\ None \in Handle({"geo2proj"})
  BY DEF None, Handle
<1>6. /\ Kept(m, x) /\ x.result = "ok" /\ x.live \subseteq m.live \cup {p} /\ m.live \subseteq x.live
      /\ there => x.proj2geo = p /\ p \in x.live
  <2>1. CASE there
    <3>1. PICK y : y = New(m, "proj2geo")
      OBVIOUS
    <3>2. Kept(m, y) /\ y.result = "ok" /\ y.live = m.live \cup {p}
      BY <1>4, <3>1, NewIs DEF Kinds
    <3>3. x = [y EXCEPT !.proj2geo = p]
      BY <1>2, <1>4, <2>1, <3>1
    <3> QED BY <3>2, <3>3 DEF Kept, Canvas
  <2>2. CASE ~there
    <3>1. x = [m EXCEPT !.proj2geo = None]
      BY <1>2, <2>2
    <3> QED BY <1>5, <2>2, <3>1 DEF Kept, Canvas
  <2> QED BY <2>1, <2>2
<1>7. /\ Kept(x, b) /\ b.result = "ok" /\ b.live \subseteq x.live \cup {q} /\ x.live \subseteq b.live
      /\ b.proj2geo = x.proj2geo
      /\ back => b.geo2proj = q /\ q \in b.live
  <2>1. CASE back
    <3>1. PICK y : y = New(x, "geo2proj")
      OBVIOUS
    <3>2. x \in Canvas /\ x.n = m.n
      BY <1>6 DEF Kept
    <3>3. /\ Kept(x, y) /\ y.result = "ok" /\ y.live = x.live \cup {q}
          /\ y.proj2geo = x.proj2geo
      BY <1>4, <1>6, <3>1, <3>2, NewIs DEF Kinds
    <3>4. b = [y EXCEPT !.geo2proj = q]
      BY <1>3, <1>4, <2>1, <3>1, <3>2
    <3> QED BY <3>3, <3>4 DEF Kept, Canvas
  <2>2. CASE ~back
    <3>1. b = [x EXCEPT !.geo2proj = None] /\ x \in Canvas
      BY <1>3, <1>6, <2>2 DEF Kept
    <3> QED BY <1>5, <1>6, <2>2, <3>1 DEF Kept, Canvas
  <2> QED BY <2>1, <2>2
<1>8. Kept(m, b) /\ b.live \subseteq m.live \cup {p, q} /\ m.live \subseteq b.live
  BY <1>6, <1>7 DEF Kept
<1>9. PICK Q : Q = {"proj2geo", "geo2proj", "proj", "projected", "clone", "geographic"}
  OBVIOUS
<1>10. CASE there /\ back
  <2>1. a = b
    BY <1>1, <1>2, <1>3, <1>10 DEF Transformed
  <2>2. {p, q} \in SUBSET Handle(Q)
    BY <1>9 DEF Handle
  <2>3. Asked(m, a)
    BY <1>7, <1>8, <1>9, <2>1, <2>2, SameDatasets
  <2>4. a.proj2geo = p /\ p \in a.live /\ a.geo2proj = q /\ q \in a.live
    <3>1. x.proj2geo = p /\ p \in x.live
      BY <1>6, <1>10
    <3>2. b.proj2geo = x.proj2geo /\ x.live \subseteq b.live /\ b.geo2proj = q /\ q \in b.live
      BY <1>7, <1>10
    <3> QED BY <2>1, <3>1, <3>2
  <2>5. a.result = "ok"
    BY <1>7, <2>1
  <2> QED BY <2>3, <2>4, <2>5 DEF Transforming
<1>11. CASE ~(there /\ back)
  <2>1. PICK d : d = DeleteQuietly(b, {"projected", "geographic"})
    OBVIOUS
  <2>2. a \in Fail(d)
    BY <1>1, <1>2, <1>3, <1>11, <2>1 DEF Transformed
  <2>3. Kept(b, d) /\ d.live = b.live \ {b[v] : v \in {"projected", "geographic"}} /\ b \in Canvas
    BY <1>8, <2>1, DeleteQuietlyIs DEF Kept
  <2>4. Kept(d, a) /\ a.result = "error" /\ a.live = d.live
    BY <2>2, <2>3, FailIs DEF Kept
  <2>5. PICK L : L = {p, q, b.projected, b.geographic}
    OBVIOUS
  <2>6. L \in SUBSET Handle(Q)
    <3>1. b.projected \in Handle({"proj", "projected"})
          /\ b.geographic \in Handle({"proj", "clone", "geographic"})
      BY <2>3 DEF Canvas
    <3>2. /\ Handle({"proj", "projected"}) \subseteq Handle(Q)
          /\ Handle({"proj", "clone", "geographic"}) \subseteq Handle(Q)
          /\ Handle({"proj2geo"}) \subseteq Handle(Q) /\ Handle({"geo2proj"}) \subseteq Handle(Q)
      BY ONLY <1>9 DEF Handle
    <3>3. p \in Handle(Q) /\ q \in Handle(Q) /\ b.projected \in Handle(Q)
          /\ b.geographic \in Handle(Q)
      BY <3>1, <3>2
    <3> QED BY ONLY <2>5, <3>3
  <2>7. a.live \subseteq m.live \cup L /\ m.live \ L \subseteq a.live
    BY <1>8, <2>3, <2>4, <2>5
  <2>8. Kept(m, a)
    BY <1>8, <2>3, <2>4 DEF Kept
  <2>9. Asked(m, a)
    <3>1. "Dataset" \notin Q /\ a.result # "exit"
      BY <1>9, <2>4
    <3> QED BY <2>6, <2>7, <2>8, <3>1, SameDatasets
  <2> QED BY <2>4, <2>9
<1> QED BY <1>10, <1>11

\* What GetProjections leaves, and what the callers of it make of an error.
LEMMA GetProjectionsIs ==
  ASSUME NEW m \in Canvas, m.result = "ok", NEW sref \in {"projected", "geographic", "none", "other"},
         NEW a \in GetProjections(m, sref)
  PROVE  Asked(m, a) /\ (a.result = "ok" => Transforming(a))
<1>1. PICK S1 : S1 = Sources(m, sref)
  OBVIOUS
<1>2. \A x \in S1 : Asked(m, x) /\ x.result \in {"ok", "error"}
  BY <1>1, SourcesIs
<1>3. PICK S2 : S2 = Then(S1, LAMBDA x : Ask(x, "projected"))
  OBVIOUS
<1>4. \A x \in S2 : Asked(m, x)
  <2> SUFFICES ASSUME NEW y \in S1, y.result = "ok", NEW x \in Ask(y, "projected")
               PROVE  Asked(m, x)
    BY <1>2, <1>3 DEF Then
  <2>1. Asked(m, y) /\ y \in Canvas
    BY <1>2 DEF Asked, Kept
  <2> QED BY <2>1, AskIs, AskedStays
<1>5. PICK S3 : S3 = Then(S2, LAMBDA x : Ask(x, "geographic"))
  OBVIOUS
<1>6. \A x \in S3 : Asked(m, x)
  <2> SUFFICES ASSUME NEW y \in S2, y.result = "ok", NEW x \in Ask(y, "geographic")
               PROVE  Asked(m, x)
    BY <1>4, <1>5 DEF Then
  <2>1. Asked(m, y) /\ y \in Canvas
    BY <1>4 DEF Asked, Kept
  <2> QED BY <2>1, AskIs, AskedStays
<1>7. a \in Then(S3, LAMBDA x : Transformations(x))
  BY <1>1, <1>3, <1>5 DEF GetProjections
<1>8. CASE a \in S3 /\ a.result # "ok"
  BY <1>6, <1>8
<1>9. CASE \E y \in S3 : y.result = "ok" /\ a \in Transformations(y)
  <2>1. PICK y \in S3 : y.result = "ok" /\ a \in Transformations(y)
    BY <1>9
  <2>2. Asked(m, y) /\ y \in Canvas
    BY <1>6 DEF Asked, Kept
  <2>3. Asked(y, a) /\ (a.result = "ok" => Transforming(a))
    BY <2>1, <2>2, TransformationsIs
  <2> QED BY <2>1, <2>2, <2>3, AskedStays
<1> QED BY <1>7, <1>8, <1>9 DEF Then

LEMMA WithProjectionsIs ==
  ASSUME NEW m \in Canvas, m.result = "ok", m.Dataset \in m.live,
         NEW sref \in {"projected", "geographic", "none", "other"},
         NEW a \in WithProjections(m, sref)
  PROVE  /\ Kept(m, a) /\ OpenDatasets(a) \subseteq OpenDatasets(m)
         /\ a.result = "exit" => a.Dataset \notin a.live
         /\ a.result = "ok" => a.Dataset \in a.live /\ Transforming(a)
<1>1. PICK b \in GetProjections(m, sref) :
        a = IF b.result = "error" THEN DeleteQuietly(b, {"Dataset"}) ELSE b
  BY DEF WithProjections
<1>2. Asked(m, b) /\ (b.result = "ok" => Transforming(b)) /\ b \in Canvas
  <2>1. Asked(m, b) /\ (b.result = "ok" => Transforming(b))
    BY GetProjectionsIs
  <2> QED BY <2>1 DEF Asked, Kept
<1>3. CASE b.result = "error"
  <2>1. Kept(b, a) /\ a.result = "error" /\ a.live = b.live \ {b.Dataset}
    BY <1>1, <1>2, <1>3, DeleteQuietlyIs
  <2> QED BY <1>2, <2>1 DEF Asked, Kept, OpenDatasets
<1>4. CASE b.result # "error"
  BY <1>1, <1>2, <1>4 DEF Asked
<1> QED BY <1>3, <1>4

----------------------------------------------------------------------------
\* The band loop.  Before its first turn nothing is drawn.
LoopStart == [bandNo |-> 1, layers |-> <<>>, how |-> "done"]
Turns(g, bands, n) ==
  g = [k \in 0 .. n |-> IF k = 0 THEN LoopStart ELSE Turn(bands, g[k - 1])]

\* There is a function that counts its turns: were there none for some number,
\* the least such number would have one.
LEMMA TurnsExist ==
  ASSUME NEW bands, NEW n \in Nat
  PROVE  \E g : Turns(g, bands, n)
<1> DEFINE T == {m \in Nat : ~ \E g : Turns(g, bands, m)}
<1> SUFFICES ASSUME T # {} PROVE FALSE
  OBVIOUS
<1>1. PICK m \in Nat : m \in T /\ \A l \in T : m <= l
  <2>1. T \in SUBSET Nat
    OBVIOUS
  <2> HIDE DEF T
  <2> QED BY <2>1, LeastOf
<1>2. CASE m = 0
  <2> DEFINE z == [k \in 0 .. 0 |-> LoopStart]
  <2>1. Turns(z, bands, 0)
    BY DEF Turns
  <2> QED BY <1>1, <1>2, <2>1
<1>3. CASE m # 0
  <2>1. m - 1 \in Nat /\ m - 1 \notin T
    <3> HIDE DEF T
    <3> QED BY <1>1, <1>3
  <2>2. PICK g : Turns(g, bands, m - 1)
    BY <2>1
  <2>3. \A k \in 0 .. m - 1 : g[k] = IF k = 0 THEN LoopStart ELSE Turn(bands, g[k - 1])
    BY <2>2 DEF Turns
  <2> DEFINE h == [k \in 0 .. m |-> IF k < m THEN g[k] ELSE Turn(bands, g[m - 1])]
  <2>4. ASSUME NEW k \in 0 .. m
        PROVE  h[k] = IF k = 0 THEN LoopStart ELSE Turn(bands, h[k - 1])
    <3>1. CASE k = 0
      BY <1>3, <2>1, <2>3, <3>1
    <3>2. CASE k # 0 /\ k < m
      <4>1. k \in 0 .. m - 1 /\ k - 1 \in 0 .. m /\ k - 1 < m
        BY <3>2
      <4> QED BY <2>3, <3>2, <4>1
    <3>3. CASE k = m
      <4>1. m - 1 \in 0 .. m /\ m - 1 < m /\ ~(m < m)
        BY <2>1
      <4> QED BY <1>3, <3>3, <4>1
    <3> QED BY <3>1, <3>2, <3>3
  <2>5. h = [k \in 0 .. m |-> h[k]]
    OBVIOUS
  <2> HIDE DEF h
  <2>6. Turns(h, bands, m)
    BY <2>4, <2>5 DEF Turns
  <2> QED BY <1>1, <2>6
<1> QED BY <1>2, <1>3

\* Rendering is such a function's last value.
LEMMA RenderingIs ==
  ASSUME NEW bands \in Seq(Bands)
  PROVE  \E g : Turns(g, bands, Len(bands)) /\ Rendering(bands) = g[Len(bands)]
<1> DEFINE it == CHOOSE g : g = [n \in 0 .. Len(bands) |->
                   IF n = 0 THEN [bandNo |-> 1, layers |-> <<>>, how |-> "done"]
                   ELSE Turn(bands, g[n - 1])]
<1>1. Rendering(bands) = it[Len(bands)]
  BY DEF Rendering
<1>2. PICK g : Turns(g, bands, Len(bands))
  BY TurnsExist
<1>3. g = [n \in 0 .. Len(bands) |->
             IF n = 0 THEN [bandNo |-> 1, layers |-> <<>>, how |-> "done"]
             ELSE Turn(bands, g[n - 1])]
  BY <1>2 DEF Turns, LoopStart
<1>4. it = [n \in 0 .. Len(bands) |->
              IF n = 0 THEN [bandNo |-> 1, layers |-> <<>>, how |-> "done"]
              ELSE Turn(bands, it[n - 1])]
  BY <1>3
<1> HIDE DEF it
<1>5. Turns(it, bands, Len(bands))
  BY <1>4 DEF Turns, LoopStart
<1> QED BY <1>1, <1>5

\* What the turns keep: the layers have bands before the next one, no band is in
\* two of them, and an alpha channel is in the layer of the band before it.
Loops == [bandNo : Nat \ {0}, layers : Seq(SUBSET Nat), how : {"done", "error", "close"}]
AlphaIn(bands, layer) ==
  \A i \in layer, j \in 1 .. Len(bands) - 1 :
    j = i + 1 /\ bands[j] = "Alpha" /\ bands[i] # "Alpha" => j \in layer
Apart(bands, r) ==
  /\ r \in Loops
  /\ \A k \in DOMAIN r.layers :
       /\ r.layers[k] \subseteq 1 .. r.bandNo - 1
       /\ AlphaIn(bands, r.layers[k])
       /\ \A l \in DOMAIN r.layers : k # l => r.layers[k] \cap r.layers[l] = {}

\* A group ends before a band that is no alpha channel, or behind one.
LEMMA GroupAlpha ==
  ASSUME NEW bands \in Seq(Bands), NEW i \in 1 .. Len(bands), bands[i] \in {"Gray", "Red"},
         i + Group(bands[i]) - 1 <= Len(bands)
  PROVE  /\ AfterGroup(bands, i) \in Nat /\ i < AfterGroup(bands, i)
         /\ AlphaIn(bands, i .. AfterGroup(bands, i) - 1)
<1>1. PICK next : next = i + Group(bands[i])
  OBVIOUS
<1>2. next \in Nat /\ i < next
  BY <1>1 DEF Group
<1>3. PICK a : a = AfterGroup(bands, i)
  OBVIOUS
<1>4. \/ a = next + 1 /\ Len(bands) > next /\ bands[next] = "Alpha"
      \/ a = next /\ ~(Len(bands) > next /\ bands[next] = "Alpha")
  BY <1>1, <1>3 DEF AfterGroup, UsesAlpha
<1>5. a \in Nat /\ i < a
  BY <1>2, <1>4
<1>6. ASSUME NEW x \in i .. a - 1, x + 1 \in 1 .. Len(bands) - 1,
             bands[x + 1] = "Alpha", bands[x] # "Alpha"
      PROVE  x + 1 \in i .. a - 1
  <2>1. Len(bands) \in Nat /\ x \in Nat
    BY <1>6
  <2>2. CASE a = next + 1 /\ bands[next] = "Alpha"
    <3>1. x # next
      BY <1>6, <2>2
    <3> QED BY <1>2, <1>6, <2>1, <2>2, <3>1
  <2>3. CASE a = next /\ ~(Len(bands) > next /\ bands[next] = "Alpha")
    <3>1. x + 1 # next
      BY <1>2, <1>6, <2>1, <2>3
    <3> QED BY <1>2, <1>6, <2>1, <2>3, <3>1
  <2> QED BY <1>4, <2>2, <2>3
<1>7. AlphaIn(bands, i .. a - 1)
  BY <1>6 DEF AlphaIn
<1> QED BY <1>3, <1>5, <1>7

LEMMA StartApart ==
  ASSUME NEW bands \in Seq(Bands)
  PROVE  Apart(bands, LoopStart)
<1>1. PICK none \in Seq(SUBSET Nat) : none = <<>>
  BY EmptySeq
<1>2. LoopStart = [bandNo |-> 1, layers |-> none, how |-> "done"]
  BY <1>1 DEF LoopStart
<1>3. LoopStart \in Loops
  BY <1>2 DEF Loops
<1>4. LoopStart.layers = <<>>
  BY DEF LoopStart
<1> QED BY <1>3, <1>4 DEF Apart

\* A turn that draws a layer: its bands are from the next one on.
Drawn(r, a) == [r EXCEPT !.layers = Append(@, r.bandNo .. a - 1), !.bandNo = a + 1]

LEMMA LayerKeeps ==
  ASSUME NEW bands \in Seq(Bands), NEW r, Apart(bands, r),
         NEW a \in Nat, r.bandNo < a, AlphaIn(bands, r.bandNo .. a - 1)
  PROVE  Apart(bands, Drawn(r, a)) /\ Drawn(r, a).bandNo = a + 1
<1>1. PICK i \in Nat \ {0}, s \in Seq(SUBSET Nat), h \in {"done", "error", "close"} :
        i = r.bandNo /\ s = r.layers /\ h = r.how
  BY DEF Apart, Loops
<1>2. r \in Loops
  BY DEF Apart
<1>3. PICK new \in SUBSET Nat : new = i .. a - 1
  BY <1>1
<1>4. PICK t \in Seq(SUBSET Nat) : t = Append(s, new)
  BY AppendProperties
<1>5. PICK q : q = [r EXCEPT !.layers = t, !.bandNo = a + 1]
  OBVIOUS
<1>6. q = Drawn(r, a)
  BY <1>1, <1>2, <1>3, <1>4, <1>5 DEF Drawn, Loops
<1>7. q \in Loops /\ q.layers = t /\ q.bandNo = a + 1
  <2>1. a + 1 \in Nat \ {0}
    OBVIOUS
  <2> QED BY <1>2, <1>5, <2>1 DEF Loops
<1>8. /\ DOMAIN s = 1 .. Len(s) /\ DOMAIN t = 1 .. Len(s) + 1 /\ t[Len(s) + 1] = new
      /\ \A k \in 1 .. Len(s) : t[k] = s[k]
  BY <1>1, <1>3, <1>4
<1>9. \A k \in DOMAIN s : s[k] \subseteq 1 .. i - 1 /\ AlphaIn(bands, s[k])
  BY <1>1 DEF Apart
<1>10. \A k, l \in DOMAIN s : k # l => s[k] \cap s[l] = {}
  BY <1>1 DEF Apart
<1>11. i < a /\ AlphaIn(bands, new)
  BY <1>1, <1>3
<1>12. ASSUME NEW k \in DOMAIN t
       PROVE  t[k] \subseteq 1 .. (a + 1) - 1 /\ AlphaIn(bands, t[k])
  <2>1. CASE k \in DOMAIN s
    <3>1. t[k] = s[k]
      BY <1>8, <2>1
    <3>2. 1 .. i - 1 \subseteq 1 .. (a + 1) - 1
      BY <1>11
    <3> QED BY <1>9, <2>1, <3>1, <3>2
  <2>2. CASE k \notin DOMAIN s
    <3>1. t[k] = new
      BY <1>8, <2>2
    <3>2. i .. a - 1 \subseteq 1 .. (a + 1) - 1
      BY <1>11
    <3> QED BY <1>3, <1>11, <3>1, <3>2
  <2> QED BY <2>1, <2>2
<1>13. \A k \in DOMAIN s : s[k] \cap new = {}
  <2>1. (1 .. i - 1) \cap (i .. a - 1) = {}
    OBVIOUS
  <2> QED BY <1>3, <1>9, <2>1
<1>14. ASSUME NEW k \in DOMAIN t, NEW l \in DOMAIN t, k # l
       PROVE  t[k] \cap t[l] = {}
  <2>1. CASE k \in DOMAIN s /\ l \in DOMAIN s
    BY <1>8, <1>10, <1>14, <2>1
  <2>2. CASE k \in DOMAIN s /\ l \notin DOMAIN s
    <3>1. t[k] = s[k] /\ t[l] = new
      BY <1>8, <2>2
    <3> QED BY <1>13, <2>2, <3>1
  <2>3. CASE k \notin DOMAIN s /\ l \in DOMAIN s
    <3>1. t[k] = new /\ t[l] = s[l]
      BY <1>8, <2>3
    <3> QED BY <1>13, <2>3, <3>1
  <2>4. CASE k \notin DOMAIN s /\ l \notin DOMAIN s
    BY <1>8, <1>14, <2>4
  <2> QED BY <2>1, <2>2, <2>3, <2>4
<1>15. Apart(bands, q)
  BY <1>7, <1>12, <1>14 DEF Apart
<1> QED BY <1>6, <1>7, <1>15

\* What a turn keeps, and that it goes on to a later band or ends the loop.
Advanced(r, q) == q.bandNo > r.bandNo \/ q.how # "done"

LEMMA TurnKeeps ==
  ASSUME NEW bands \in Seq(Bands), NEW r, Apart(bands, r)
  PROVE  /\ Apart(bands, Turn(bands, r))
         /\ r.how = "done" /\ r.bandNo <= Len(bands) => Advanced(r, Turn(bands, r))
<1>1. PICK i \in Nat \ {0} : i = r.bandNo
  BY DEF Apart, Loops
<1>2. r \in Loops
  BY DEF Apart
<1>3. ASSUME NEW how \in {"error", "close"}
      PROVE  Apart(bands, [r EXCEPT !.how = how]) /\ Advanced(r, [r EXCEPT !.how = how])
  <2>1. PICK q : q = [r EXCEPT !.how = how]
    OBVIOUS
  <2>2. q \in Loops /\ q.how = how /\ q.layers = r.layers /\ q.bandNo = r.bandNo
    BY <1>2, <2>1 DEF Loops
  <2>3. Apart(bands, q) /\ Advanced(r, q)
    BY <2>2 DEF Apart, Advanced
  <2> QED BY <2>1, <2>3
<1>4. CASE r.how # "done" \/ i > Len(bands)
  <2>1. Turn(bands, r) = r
    BY <1>1, <1>4 DEF Turn
  <2> QED BY <1>1, <1>4, <2>1
<1>5. CASE r.how = "done" /\ i <= Len(bands) /\ bands[i] \in {"Gray", "Red"}
  <2>1. CASE i + Group(bands[i]) - 1 > Len(bands)
    <3>1. Turn(bands, r) = [r EXCEPT !.how = "error"]
      BY <1>1, <1>5, <2>1 DEF Turn
    <3> QED BY <1>3, <3>1
  <2>2. CASE i + Group(bands[i]) - 1 <= Len(bands)
    <3> DEFINE a == AfterGroup(bands, r.bandNo)
    <3>1. a = AfterGroup(bands, i)
      BY <1>1
    <3>2. a \in Nat /\ i < a /\ AlphaIn(bands, i .. a - 1)
      BY <1>5, <2>2, <3>1, GroupAlpha
    <3>3. Turn(bands, r) = Drawn(r, a)
      <4>1. ~(r.how # "done" \/ r.bandNo > Len(bands)) /\ bands[r.bandNo] \in {"Gray", "Red"}
        BY <1>1, <1>5
      <4>2. ~(r.bandNo + Group(bands[r.bandNo]) - 1 > Len(bands))
        <5>1. Group(bands[i]) \in Int
          BY DEF Group
        <5> QED BY <1>1, <2>2, <5>1
      <4> QED BY <4>1, <4>2 DEF Turn, Drawn
    <3> HIDE DEF a
    <3>4. Apart(bands, Turn(bands, r)) /\ Turn(bands, r).bandNo = a + 1
      BY <1>1, <3>2, <3>3, LayerKeeps
    <3> QED BY <1>1, <3>2, <3>4 DEF Advanced
  <2>3. i + Group(bands[i]) - 1 \in Int /\ Len(bands) \in Int
    BY DEF Group
  <2> QED BY <2>1, <2>2, <2>3
<1>6. CASE r.how = "done" /\ i <= Len(bands) /\ bands[i] \notin {"Gray", "Red"}
  <2>1. CASE bands[i] = "Cyan"
    <3>1. Turn(bands, r) = [r EXCEPT !.how = "close"]
      BY <1>1, <1>6, <2>1 DEF Turn
    <3> QED BY <1>3, <3>1
  <2>2. CASE bands[i] # "Cyan" /\ r.layers = <<>>
    <3>1. Turn(bands, r) = [r EXCEPT !.how = "error"]
      BY <1>1, <1>6, <2>2 DEF Turn
    <3> QED BY <1>3, <3>1
  <2>3. CASE bands[i] # "Cyan" /\ r.layers # <<>>
    <3>1. PICK q : q = [r EXCEPT !.bandNo = i + 1]
      OBVIOUS
    <3>2. Turn(bands, r) = q
      BY <1>1, <1>6, <2>3, <3>1 DEF Turn
    <3>3. q \in Loops /\ q.how = r.how /\ q.layers = r.layers /\ q.bandNo = i + 1
      BY <1>1, <1>2, <3>1 DEF Loops
    <3>4. \A k \in DOMAIN q.layers : q.layers[k] \subseteq 1 .. q.bandNo - 1
      <4>1. \A k \in DOMAIN r.layers : r.layers[k] \subseteq 1 .. i - 1
        BY <1>1 DEF Apart
      <4>2. 1 .. i - 1 \subseteq 1 .. (i + 1) - 1
        OBVIOUS
      <4> QED BY <3>3, <4>1, <4>2
    <3>5. Apart(bands, q)
      BY <3>3, <3>4 DEF Apart
    <3> QED BY <1>1, <3>2, <3>3, <3>5 DEF Advanced
  <2> QED BY <2>1, <2>2, <2>3
<1>7. i \in Int /\ Len(bands) \in Int /\ (r.how = "done" \/ r.how # "done")
  OBVIOUS
<1> QED BY <1>4, <1>5, <1>6, <1>7

\* Each turn of a loop that goes on is at a band that no turn before was at, so
\* a turn for each band is enough: counted by the least number that is not so.
LEMMA RenderingApart ==
  ASSUME NEW bands \in Seq(Bands)
  PROVE  /\ Apart(bands, Rendering(bands))
         /\ Rendering(bands).how = "done" => Rendering(bands).bandNo > Len(bands)
<1>1. PICK g : Turns(g, bands, Len(bands)) /\ Rendering(bands) = g[Len(bands)]
  BY RenderingIs
<1>2. PICK N \in Nat : N = Len(bands)
  OBVIOUS
<1>3. \A k \in 0 .. N : g[k] = IF k = 0 THEN LoopStart ELSE Turn(bands, g[k - 1])
  BY <1>1, <1>2 DEF Turns
<1> DEFINE Good(k) == /\ Apart(bands, g[k])
                      /\ g[k].how = "done" => g[k].bandNo > k \/ g[k].bandNo > N
           T == {k \in Nat : k <= N /\ ~ Good(k)}
<1>4. Good(0)
  <2>1. g[0] = LoopStart
    BY <1>2, <1>3
  <2>2. LoopStart.bandNo = 1
    BY DEF LoopStart
  <2> QED BY <2>1, <2>2, StartApart
<1>5. ASSUME NEW k \in Nat, k + 1 <= N, Good(k)
      PROVE  Good(k + 1)
  <2>1. g[k + 1] = Turn(bands, g[k])
    <3>1. k + 1 \in 0 .. N /\ k + 1 # 0 /\ (k + 1) - 1 = k
      BY <1>5
    <3> QED BY <1>3, <3>1
  <2>2. Apart(bands, g[k]) /\ Apart(bands, g[k + 1])
    BY <1>5, <2>1, TurnKeeps
  <2>3. g[k].bandNo \in Nat /\ g[k + 1].bandNo \in Nat
    BY <2>2 DEF Apart, Loops
  <2>4. CASE g[k].how = "done" /\ g[k].bandNo <= N
    <3>1. Advanced(g[k], g[k + 1])
      BY <1>2, <1>5, <2>1, <2>4, TurnKeeps
    <3>2. g[k].bandNo > k
      BY <1>5, <2>3, <2>4
    <3> QED BY <2>2, <2>3, <3>1, <3>2 DEF Advanced
  <2>5. CASE g[k].how # "done" \/ g[k].bandNo > N
    <3>1. g[k + 1] = g[k]
      BY <1>2, <2>1, <2>5 DEF Turn
    <3> QED BY <2>2, <2>5, <3>1
  <2> QED BY <1>2, <2>3, <2>4, <2>5
<1>6. \A k \in Nat : k <= N => Good(k)
  <2> HIDE DEF Good
  <2> SUFFICES ASSUME T # {} PROVE FALSE
    OBVIOUS
  <2>1. T \in SUBSET Nat
    OBVIOUS
  <2>2. PICK k \in T : \A l \in T : k <= l
    <3> HIDE DEF T
    <3> QED BY <2>1, LeastOf
  <2>3. k \in Nat /\ k # 0 /\ k <= N
    BY <1>4, <2>2
  <2>4. k - 1 \in Nat /\ k - 1 \notin T /\ k - 1 <= N /\ (k - 1) + 1 = k
    <3>1. k - 1 \in Nat /\ ~(k <= k - 1)
      BY <2>3
    <3>2. k - 1 \notin T
      <4> HIDE DEF T
      <4> QED BY <2>2, <3>1
    <3> QED BY <1>2, <2>3, <3>1, <3>2
  <2>5. Good(k - 1)
    BY <2>4
  <2>6. Good(k)
    <3>1. Good((k - 1) + 1)
      BY <1>5, <2>3, <2>4, <2>5
    <3> QED BY <2>4, <3>1
  <2> QED BY <2>2, <2>6
<1>7. Good(N)
  <2> HIDE DEF Good
  <2> QED BY <1>2, <1>6
<1> QED BY <1>1, <1>2, <1>7
----------------------------------------------------------------------------
\* The map of file a.n has its sizes; but for a vector map, after an error.
Sized(a) ==
  a.loaded => /\ a.Dataset = <<"Dataset", a.n>>
              /\ a.type = "Raster" \/ a.result # "error" => a.sized = a.n

\* What opening a file number m.n leaves of a canvas without a map.
Opened(m, a) ==
  /\ a \in Canvas /\ a.n = m.n
  /\ Usable(a) /\ Sized(a)
  /\ OpenDatasets(a) \subseteq OpenDatasets(m) \cup {m.n}
  /\ a.result # "error" /\ <<"Dataset", m.n>> \in a.live =>
       a.loaded /\ a.Dataset = <<"Dataset", m.n>>

\* "set Dataset [...]": the dataset of this file.
LEMMA DatasetIs ==
  ASSUME NEW m \in Canvas, m.result = "ok", ~m.loaded
  PROVE  LET o == [m EXCEPT !.Dataset = <<"Dataset", m.n>>]
             d == New(o, "Dataset")
         IN /\ o \in Canvas /\ d \in Canvas /\ New(d, "proj") \in Canvas
            /\ \A a \in {o, d, New(d, "proj")} :
                 /\ a.result = "ok" /\ a.n = m.n /\ ~a.loaded
                 /\ a.Dataset = <<"Dataset", m.n>>
                 /\ OpenDatasets(a) \subseteq OpenDatasets(m) \cup {m.n}
            /\ \A a \in {d, New(d, "proj")} : a.Dataset \in a.live
<1>1. PICK c \in Handle({"Dataset"}) : c = <<"Dataset", m.n>>
  BY DEF Handle, Canvas
<1>2. PICK o : o = [m EXCEPT !.Dataset = c]
  OBVIOUS
<1>3. /\ o \in Canvas /\ o.result = "ok" /\ o.n = m.n /\ ~o.loaded /\ o.Dataset = c
      /\ o.live = m.live
  BY <1>2 DEF Canvas
<1>4. PICK d : d = New(o, "Dataset")
  OBVIOUS
<1>5. Kept(o, d) /\ d.result = "ok" /\ d.live = m.live \cup {c}
  BY <1>1, <1>3, <1>4, NewIs DEF Kinds
<1>6. PICK e : e = New(d, "proj")
  OBVIOUS
<1>7. Kept(d, e) /\ e.result = "ok" /\ e.live = d.live \cup {<<"proj", m.n>>}
  BY <1>3, <1>5, <1>6, NewIs DEF Kinds, Kept
<1>8. \A a \in {o, d, e} : OpenDatasets(a) \subseteq OpenDatasets(m) \cup {m.n}
  BY <1>1, <1>3, <1>5, <1>7 DEF OpenDatasets
<1> QED BY <1>1, <1>2, <1>3, <1>4, <1>5, <1>6, <1>7, <1>8 DEF Kept

\* A map that is not loaded, and an error or an exit.
LEMMA NotOpened ==
  ASSUME NEW m \in Canvas, NEW o \in Canvas, NEW a, Kept(o, a), ~o.loaded, o.n = m.n,
         OpenDatasets(a) \subseteq OpenDatasets(m) \cup {m.n},
         a.result = "error" \/ <<"Dataset", m.n>> \notin a.live
  PROVE  Opened(m, a)
BY DEF Opened, Kept, Usable, Sized

\* "set Dataset [...]" to NULL.
LEMMA NullIs ==
  ASSUME NEW m \in Canvas, m.result = "ok", ~m.loaded,
         NEW a \in Fail(m) \cup Fail(Null(m)) \cup Fail(New(Null(m), "proj"))
  PROVE  Opened(m, a)
<1>1. PICK z : z = Null(m)
  OBVIOUS
<1>2. /\ z \in Canvas /\ z.n = m.n /\ ~z.loaded /\ z.live = m.live
  <2>1. None \in Handle({"Dataset"})
    BY DEF None, Handle
  <2> QED BY <1>1, <2>1 DEF Null, Canvas
<1>3. PICK y : y = New(z, "proj")
  OBVIOUS
<1>4. /\ y \in Canvas /\ y.n = m.n /\ ~y.loaded /\ y.live = m.live \cup {<<"proj", m.n>>}
  BY <1>2, <1>3, NewIs DEF Kinds, Kept
<1>5. PICK o \in {m, z, y} : a \in Fail(o)
  BY <1>1, <1>3
<1>6. /\ o \in Canvas /\ o.n = m.n /\ ~o.loaded /\ OpenDatasets(o) \subseteq OpenDatasets(m)
  BY <1>2, <1>4, <1>5 DEF OpenDatasets
<1>7. Kept(o, a) /\ a.result = "error" /\ a.live = o.live
  BY <1>5, <1>6, FailIs
<1>8. OpenDatasets(a) = OpenDatasets(o)
  BY <1>7 DEF OpenDatasets
<1> QED BY <1>6, <1>7, <1>8, NotOpened

\* a came from m by drawing: what the handlers use stays.
DrawnOn(m, a) ==
  /\ a \in Canvas
  /\ a.n = m.n /\ a.loaded = m.loaded /\ a.type = m.type /\ a.Dataset = m.Dataset
  /\ a.proj2geo = m.proj2geo /\ a.geo2proj = m.geo2proj
  /\ a.live \subseteq m.live /\ m.live \ {<<"proj", m.n>>} \subseteq a.live
  /\ a.result \in {"ok", "error"}

LEMMA FailDrawn ==
  ASSUME NEW m, NEW b, DrawnOn(m, b), NEW a \in Fail(b)
  PROVE  DrawnOn(m, a)
<1>1. b \in Canvas /\ a = [b EXCEPT !.result = "error"]
  BY DEF Fail, DrawnOn
<1>2. a \in Canvas
  BY <1>1 DEF Canvas, Results
<1> QED BY <1>1, <1>2 DEF DrawnOn, Canvas

LEMMA LayersIs ==
  ASSUME NEW m \in Canvas, m.result = "ok", NEW sref, NEW features \in BOOLEAN,
         NEW a \in Layers(m, sref, features)
  PROVE  DrawnOn(m, a) /\ (a.result # "error" => a.sized = a.n)
<1>1. DrawnOn(m, m)
  BY DEF DrawnOn
<1>2. PICK L \in SUBSET (Kinds \X Nat) : L = m.live \ {<<"proj", m.n>>}
  BY DEF Canvas
<1>3. PICK first : first = IF sref = "none" THEN Fail(m)
                           ELSE {[m EXCEPT !.live = @ \ {<<"proj", m.n>>}]}
  OBVIOUS
<1>4. ASSUME NEW x \in first PROVE DrawnOn(m, x)
  <2>1. CASE sref = "none"
    BY <1>1, <1>3, <2>1, FailDrawn
  <2>2. CASE sref # "none"
    <3>1. x = [m EXCEPT !.live = L]
      BY <1>2, <1>3, <1>4, <2>2
    <3>2. x \in Canvas
      BY <3>1 DEF Canvas
    <3> QED BY <1>2, <3>1, <3>2 DEF DrawnOn, Canvas
  <2> QED BY <2>1, <2>2
<1>5. CASE a \in first /\ a.result # "ok"
  BY <1>4, <1>5 DEF DrawnOn
<1>6. ASSUME NEW x \in first, x.result = "ok", NEW b, b = [x EXCEPT !.drawn = @ \/ features],
             NEW c, c = [b EXCEPT !.sized = b.n],
             a \in Fail(b) \cup IF b.drawn THEN {c} \cup Fail(c) ELSE {}
      PROVE  DrawnOn(m, a) /\ (a.result # "error" => a.sized = a.n)
  <2>1. DrawnOn(m, x) /\ x \in Canvas
    BY <1>4 DEF DrawnOn
  <2>2. PICK y \in BOOLEAN : y = (x.drawn \/ features)
    BY <2>1 DEF Canvas
  <2>3. b = [x EXCEPT !.drawn = y]
    BY <1>6, <2>2
  <2>4. b \in Canvas
    BY <2>1, <2>3 DEF Canvas
  <2>5. DrawnOn(m, b)
    <3>1. /\ b.n = x.n /\ b.loaded = x.loaded /\ b.type = x.type /\ b.Dataset = x.Dataset
          /\ b.proj2geo = x.proj2geo /\ b.geo2proj = x.geo2proj
          /\ b.live = x.live /\ b.result = x.result
      BY <2>1, <2>3 DEF Canvas
    <3> QED BY <2>1, <2>4, <3>1 DEF DrawnOn
  <2>6. DrawnOn(m, c) /\ c.sized = c.n
    <3>1. PICK k \in Nat : k = b.n
      BY <2>4 DEF Canvas
    <3>2. c = [b EXCEPT !.sized = k]
      BY <1>6, <3>1
    <3>3. c \in Canvas
      BY <2>4, <3>2 DEF Canvas
    <3>4. /\ c.sized = k /\ c.n = k /\ c.n = b.n /\ c.loaded = b.loaded /\ c.type = b.type /\ c.Dataset = b.Dataset
          /\ c.proj2geo = b.proj2geo /\ c.geo2proj = b.geo2proj
          /\ c.live = b.live /\ c.result = b.result
      BY <2>4, <3>1, <3>2 DEF Canvas
    <3> QED BY <2>5, <3>3, <3>4 DEF DrawnOn
  <2>7. ASSUME NEW d, DrawnOn(m, d), a \in Fail(d)
        PROVE  DrawnOn(m, a) /\ a.result = "error"
    <3>1. d \in Canvas
      BY <2>7 DEF DrawnOn
    <3> QED BY <2>7, <3>1, FailDrawn, FailIs
  <2> QED BY <1>6, <2>5, <2>6, <2>7
<1> QED BY <1>3, <1>5, <1>6 DEF Layers, Then

\* A map that is loaded and drawn, or not entirely.
LEMMA DrawnOpened ==
  ASSUME NEW m \in Canvas, NEW x \in Canvas, NEW a, DrawnOn(x, a),
         x.n = m.n, x.loaded, x.type # "", x.Dataset \in x.live, Transforming(x),
         x.Dataset = <<"Dataset", m.n>>,
         a.type = "Raster" \/ a.result # "error" => a.sized = a.n,
         OpenDatasets(x) \subseteq OpenDatasets(m) \cup {m.n}
  PROVE  Opened(m, a)
<1>1. PICK p : p = <<"proj", m.n>>
  OBVIOUS
<1>2. x.Dataset # p /\ x.proj2geo # p /\ x.geo2proj # p
  <2>1. x.proj2geo \in Handle({"proj2geo"}) /\ x.geo2proj \in Handle({"geo2proj"})
    BY DEF Canvas
  <2>2. x.proj2geo[1] # "proj" /\ x.geo2proj[1] # "proj"
    BY <2>1 DEF Handle
  <2>3. x.Dataset[1] = "Dataset" /\ p[1] = "proj"
    <3>1. x.Dataset = <<"Dataset", m.n>>
      OBVIOUS
    <3>2. x.Dataset[1] = "Dataset"
      BY ONLY <3>1
    <3>3. p[1] = "proj"
      BY ONLY <1>1
    <3> QED BY <3>2, <3>3
  <2> QED BY <2>2, <2>3
<1>3. Usable(a)
  BY <1>1, <1>2 DEF Usable, Transforming, DrawnOn
<1>4. OpenDatasets(a) \subseteq OpenDatasets(m) \cup {m.n}
  BY DEF OpenDatasets, DrawnOn
<1>5. Sized(a)
  BY DEF Sized, DrawnOn
<1> QED BY <1>3, <1>4, <1>5 DEF Opened, DrawnOn

\* openVector.
LEMMA OpenVectorIs ==
  ASSUME NEW m \in Canvas, m.result = "ok", ~m.loaded, NEW a \in OpenVector(m)
  PROVE  Opened(m, a)
<1>1. PICK o : o = [m EXCEPT !.Dataset = <<"Dataset", m.n>>]
  OBVIOUS
<1>2. PICK d, e : d = New(o, "Dataset") /\ e = New(d, "proj")
  OBVIOUS
<1>3. /\ o \in Canvas /\ d \in Canvas /\ e \in Canvas
      /\ \A x \in {o, d, e} :
           /\ x.result = "ok" /\ x.n = m.n /\ ~x.loaded
           /\ x.Dataset = <<"Dataset", m.n>>
           /\ OpenDatasets(x) \subseteq OpenDatasets(m) \cup {m.n}
      /\ \A x \in {d, e} : x.Dataset \in x.live
  BY <1>1, <1>2, DatasetIs
<1>4. CASE a \in Fail(d)
  <2>1. Kept(d, a) /\ a.result = "error" /\ a.live = d.live
    BY <1>3, <1>4, FailIs
  <2>2. OpenDatasets(a) = OpenDatasets(d)
    BY <2>1 DEF OpenDatasets
  <2> QED BY <1>3, <2>1, <2>2, NotOpened
<1>5. ASSUME NEW sref \in {"projected", "geographic", "none", "other"}, NEW features \in BOOLEAN,
             a \in Then(WithProjections(Vector(o, sref), sref), LAMBDA x :
                     Layers([x EXCEPT !.loaded = TRUE, !.type = "Vector"], sref, features))
      PROVE  Opened(m, a)
  <2>1. PICK v : v = Vector(o, sref)
    OBVIOUS
  <2>2. v \in {d, e} /\ v \in Canvas
    BY <1>2, <1>3, <2>1 DEF Vector
  <2>3. /\ v.result = "ok" /\ v.n = m.n /\ ~v.loaded /\ v.Dataset = <<"Dataset", m.n>>
        /\ OpenDatasets(v) \subseteq OpenDatasets(m) \cup {m.n} /\ v.Dataset \in v.live
    BY <1>3, <2>2
  <2>4. \A x \in WithProjections(v, sref) :
          /\ Kept(v, x) /\ OpenDatasets(x) \subseteq OpenDatasets(v)
          /\ x.result = "exit" => x.Dataset \notin x.live
          /\ x.result = "ok" => x.Dataset \in x.live /\ Transforming(x)
    BY <2>2, <2>3, WithProjectionsIs
  <2>5. CASE a \in WithProjections(v, sref) /\ a.result # "ok"
    <3>1. /\ Kept(v, a) /\ OpenDatasets(a) \subseteq OpenDatasets(v)
          /\ a.result = "exit" => a.Dataset \notin a.live
      BY <2>4, <2>5
    <3>2. a.result \in Results /\ a.Dataset = <<"Dataset", m.n>>
      BY <2>3, <3>1 DEF Kept, Canvas
    <3> QED BY <2>2, <2>3, <2>5, <3>1, <3>2, NotOpened DEF Results
  <2>6. ASSUME NEW x \in WithProjections(v, sref), x.result = "ok",
               a \in Layers([x EXCEPT !.loaded = TRUE, !.type = "Vector"], sref, features)
        PROVE  Opened(m, a)
    <3>1. PICK y : y = [x EXCEPT !.loaded = TRUE, !.type = "Vector"]
      OBVIOUS
    <3>2. /\ Kept(v, x) /\ OpenDatasets(x) \subseteq OpenDatasets(v)
          /\ x.Dataset \in x.live /\ Transforming(x) /\ x \in Canvas
      BY <2>4, <2>6 DEF Kept
    <3>3. y \in Canvas
      BY <3>1, <3>2 DEF Canvas
    <3>4. /\ y.result = "ok" /\ y.n = x.n /\ y.loaded /\ y.type = "Vector" /\ y.Dataset = x.Dataset
          /\ y.live = x.live /\ y.proj2geo = x.proj2geo /\ y.geo2proj = x.geo2proj
      BY <2>6, <3>1, <3>2 DEF Canvas
    <3>5. DrawnOn(y, a) /\ (a.result # "error" => a.sized = a.n) /\ a.type # "Raster"
      <4>1. DrawnOn(y, a) /\ (a.result # "error" => a.sized = a.n)
        BY <2>6, <3>1, <3>3, <3>4, LayersIs
      <4> QED BY <3>4, <4>1 DEF DrawnOn
    <3>6. Transforming(y) /\ OpenDatasets(y) \subseteq OpenDatasets(m) \cup {m.n}
      BY <2>3, <3>2, <3>4 DEF Transforming, OpenDatasets
    <3>7. /\ y.n = m.n /\ y.type # "" /\ y.Dataset \in y.live /\ y.Dataset = <<"Dataset", m.n>>
      BY <2>3, <3>2, <3>4 DEF Kept
    <3> QED BY <3>3, <3>4, <3>5, <3>6, <3>7, DrawnOpened
  <2> QED BY <1>5, <2>1, <2>5, <2>6 DEF Then
<1>6. ASSUME NEW sref \in {"projected", "geographic", "none", "other"}, NEW features \in BOOLEAN,
             a \in ReadVector(o, sref, features)
      PROVE  Opened(m, a)
  BY <1>5, <1>6 DEF ReadVector
<1>7. OpenVector(m) = Fail(m) \cup Fail(Null(m)) \cup Fail(d) \cup
        UNION {ReadVector(o, sref, features) :
                 sref \in {"projected", "geographic", "none", "other"}, features \in BOOLEAN}
  BY <1>1, <1>2 DEF OpenVector
<1> QED BY <1>4, <1>6, <1>7, NullIs

\* The end of openRaster: the map is loaded, drawn or not, or closed again.
LEMMA RenderIs ==
  ASSUME NEW m \in Canvas, m.result = "ok", NEW bands \in Rasters, NEW a \in Render(m, bands),
         m.loaded, m.Dataset \in m.live, Transforming(m), m.type # ""
  PROVE  /\ a \in Canvas /\ a.n = m.n /\ Usable(a) /\ a.Dataset = m.Dataset
         /\ a.sized = m.sized
         /\ a.live \subseteq m.live
         /\ a.loaded \/ m.Dataset \notin a.live
<1>1. PICK r : r = Rendering(bands)
  OBVIOUS
<1> DEFINE After(layers) == [m EXCEPT !.bands = bands, !.drawn = @ \/ layers # <<>>]
<1>2. PICK layers, x : /\ x = After(layers)
                       /\ \/ a = x \/ a \in Fail(x) \/ a \in CloseMap(x)
  <2>1. \/ a \in Fail(After(<<>>)) \/ a \in Fail(After(r.layers))
        \/ a \in CASE r.how = "done" -> {After(r.layers)}
                   [] r.how = "close" -> CloseMap(After(r.layers))
                   [] r.how = "error" -> {}
    BY <1>1 DEF Render
  <2>2. r.how \in {"done", "error", "close"}
    <3>1. bands \in Seq(Bands)
      BY MapAssumption
    <3> QED BY <1>1, <3>1, RenderingApart DEF Apart, Loops
  <2> HIDE DEF After
  <2> QED BY <2>1, <2>2
<1>3. /\ x \in Canvas /\ x.result = "ok" /\ x.n = m.n /\ x.Dataset = m.Dataset
      /\ x.live = m.live /\ x.loaded = m.loaded /\ x.sized = m.sized
      /\ x.proj2geo = m.proj2geo /\ x.geo2proj = m.geo2proj /\ x.type = m.type
  <2>1. PICK y \in BOOLEAN : y = (m.drawn \/ layers # <<>>)
    BY DEF Canvas
  <2>2. x = [m EXCEPT !.bands = bands, !.drawn = y] /\ bands \in Seq(Bands)
    BY <1>2, <2>1, MapAssumption
  <2>3. x \in Canvas
    BY <2>2 DEF Canvas
  <2> QED BY <2>1, <2>2, <2>3 DEF Canvas
<1>4. Usable(x)
  BY <1>3 DEF Usable, Transforming
<1>5. CASE a = x
  BY <1>3, <1>4, <1>5
<1>6. CASE a \in Fail(x)
  <2>1. a = [x EXCEPT !.result = "error"]
    BY <1>6 DEF Fail
  <2>2. a \in Canvas
    BY <1>3, <2>1 DEF Canvas, Results
  <2>3. /\ a.n = x.n /\ a.Dataset = x.Dataset /\ a.live = x.live
        /\ a.loaded = x.loaded /\ a.sized = x.sized /\ a.type = x.type
        /\ a.proj2geo = x.proj2geo /\ a.geo2proj = x.geo2proj
    BY <1>3, <2>1 DEF Canvas
  <2> QED BY <1>3, <1>4, <2>2, <2>3 DEF Usable, Transforming
<1>7. CASE a \in CloseMap(x)
  <2>1. /\ a \in Canvas /\ a.n = x.n /\ ~a.loaded /\ a.Dataset = x.Dataset
        /\ a.sized = x.sized /\ a.live \subseteq x.live \ {x.Dataset}
    BY <1>3, <1>7, CloseMapIs
  <2> QED BY <1>3, <2>1 DEF Usable
<1> HIDE DEF After
<1> QED BY <1>2, <1>5, <1>6, <1>7

\* openRaster.
LEMMA OpenRasterIs ==
  ASSUME NEW m \in Canvas, m.result = "ok", ~m.loaded, NEW a \in OpenRaster(m)
  PROVE  Opened(m, a)
<1>1. PICK o : o = [m EXCEPT !.Dataset = <<"Dataset", m.n>>]
  OBVIOUS
<1>2. PICK v : v = New(New(o, "Dataset"), "proj")
  OBVIOUS
<1>3. /\ v \in Canvas /\ v.result = "ok" /\ v.n = m.n /\ ~v.loaded
      /\ v.Dataset = <<"Dataset", m.n>>
      /\ OpenDatasets(v) \subseteq OpenDatasets(m) \cup {m.n}
      /\ v.Dataset \in v.live
  BY <1>1, <1>2, DatasetIs
<1>5. CASE a \in Fail(v)
  <2>1. Kept(v, a) /\ a.result = "error" /\ a.live = v.live
    BY <1>3, <1>5, FailIs
  <2>2. OpenDatasets(a) = OpenDatasets(v)
    BY <2>1 DEF OpenDatasets
  <2> QED BY <1>3, <2>1, <2>2, NotOpened
<1>6. ASSUME NEW sref \in {"projected", "geographic", "other"}, NEW bands \in Rasters,
             a \in ReadRaster(v, sref, bands)
      PROVE  Opened(m, a)
  <2>1. \A x \in WithProjections(v, sref) :
          /\ Kept(v, x) /\ OpenDatasets(x) \subseteq OpenDatasets(v)
          /\ x.result = "exit" => x.Dataset \notin x.live
          /\ x.result = "ok" => x.Dataset \in x.live /\ Transforming(x)
    BY <1>3, WithProjectionsIs
  <2>2. CASE a \in WithProjections(v, sref) /\ a.result # "ok"
    <3>1. /\ Kept(v, a) /\ OpenDatasets(a) \subseteq OpenDatasets(v)
          /\ a.result = "exit" => a.Dataset \notin a.live
      BY <2>1, <2>2
    <3>2. a.result \in Results /\ a.Dataset = <<"Dataset", m.n>>
      BY <1>3, <3>1 DEF Kept, Canvas
    <3> QED BY <1>3, <2>2, <3>1, <3>2, NotOpened DEF Results
  <2>3. ASSUME NEW x \in WithProjections(v, sref), x.result = "ok",
               a \in Render([x EXCEPT !.loaded = TRUE, !.type = "Raster", !.sized = x.n], bands)
        PROVE  Opened(m, a)
    <3>1. PICK y : y = [x EXCEPT !.loaded = TRUE, !.type = "Raster", !.sized = x.n]
      OBVIOUS
    <3>2. /\ Kept(v, x) /\ OpenDatasets(x) \subseteq OpenDatasets(v)
          /\ x.Dataset \in x.live /\ Transforming(x) /\ x \in Canvas
      BY <2>1, <2>3 DEF Kept
    <3>3. y \in Canvas
      BY <3>1, <3>2 DEF Canvas
    <3>4. /\ y.result = "ok" /\ y.n = x.n /\ y.loaded /\ y.type = "Raster" /\ y.Dataset = x.Dataset
          /\ y.live = x.live /\ y.proj2geo = x.proj2geo /\ y.geo2proj = x.geo2proj
          /\ y.sized = x.n
      BY <2>3, <3>1, <3>2 DEF Canvas
    <3>5. Transforming(y)
      BY <3>2, <3>4 DEF Transforming
    <3>6. y.Dataset \in y.live /\ y.type # "" /\ a \in Render(y, bands)
      BY <2>3, <3>1, <3>2, <3>4
    <3>7. /\ a \in Canvas /\ a.n = y.n /\ Usable(a) /\ a.Dataset = y.Dataset
          /\ a.sized = y.sized
          /\ a.live \subseteq y.live
          /\ a.loaded \/ y.Dataset \notin a.live
      BY <3>3, <3>4, <3>5, <3>6, RenderIs
    <3>8. OpenDatasets(a) \subseteq OpenDatasets(m) \cup {m.n}
      BY <1>3, <3>2, <3>4, <3>7 DEF OpenDatasets
    <3>9. y.n = m.n /\ y.Dataset = <<"Dataset", m.n>> /\ y.sized = m.n
      BY <1>3, <3>2, <3>4 DEF Kept
    <3> QED BY <3>4, <3>7, <3>8, <3>9 DEF Opened, Sized
  <2> QED BY <1>6, <2>2, <2>3 DEF ReadRaster, Then
<1>7. OpenRaster(m) = Fail(m) \cup Fail(Null(m)) \cup Fail(New(Null(m), "proj")) \cup Fail(v) \cup
        UNION {ReadRaster(v, sref, bands) :
                 sref \in {"projected", "geographic", "other"}, bands \in Rasters}
  BY <1>1, <1>2 DEF OpenRaster
<1> QED BY <1>5, <1>6, <1>7, NullIs

\* openMap: the map before is left as it is, or it is closed and its dataset
\* with it.
LEMMA OpenMapIs ==
  ASSUME NEW m \in Canvas, m.result = "ok", Usable(m), NEW a \in OpenMap(m)
  PROVE  \/ a = [m EXCEPT !.result = "error"]
         \/ \E c \in Canvas :
              /\ Opened(c, a) /\ c.n = m.n
              /\ OpenDatasets(c) \subseteq OpenDatasets(m)
              /\ m.loaded => m.Dataset \notin c.live
<1>1. PICK C : C = IF m.loaded THEN CloseMap(m) ELSE {m}
  OBVIOUS
<1>2. \A c \in C : /\ c \in Canvas /\ c.n = m.n /\ ~c.loaded /\ c.result \in {"ok", "error"}
                   /\ OpenDatasets(c) \subseteq OpenDatasets(m)
                   /\ m.loaded => m.Dataset \notin c.live
  <2>1. CASE m.loaded
    <3> SUFFICES ASSUME NEW c \in CloseMap(m)
                 PROVE  /\ c \in Canvas /\ c.n = m.n /\ ~c.loaded /\ c.result \in {"ok", "error"}
                        /\ OpenDatasets(c) \subseteq OpenDatasets(m)
                        /\ m.loaded => m.Dataset \notin c.live
      BY <1>1, <2>1
    <3> QED BY CloseMapIs DEF OpenDatasets
  <2>2. CASE ~m.loaded
    BY <1>1, <2>2
  <2> QED BY <2>1, <2>2
<1>3. ASSUME NEW c \in Canvas, ~c.loaded, NEW b, Kept(c, b), b.result = "error",
             b.live = c.live
      PROVE  Opened(c, b)
  <2>1. OpenDatasets(b) = OpenDatasets(c)
    BY <1>3 DEF OpenDatasets
  <2> QED BY <1>3, <2>1, NotOpened
<1>4. CASE a \in Fail(m)
  BY <1>4 DEF Fail
<1>5. CASE a \in C /\ a.result # "ok"
  <2>1. a \in Canvas /\ ~a.loaded /\ a.result = "error"
    BY <1>2, <1>5
  <2>2. Opened(a, a)
    BY <1>3, <2>1 DEF Kept
  <2> QED BY <1>2, <1>5, <2>1, <2>2
<1>6. ASSUME NEW c \in C, c.result = "ok", a \in OpenRaster(c) \cup OpenVector(c) \cup Fail(c)
      PROVE  Opened(c, a)
  <2>1. c \in Canvas /\ ~c.loaded
    BY <1>2
  <2>2. CASE a \in Fail(c)
    <3>1. Kept(c, a) /\ a.result = "error" /\ a.live = c.live
      BY <2>1, <2>2, FailIs
    <3> QED BY <1>3, <2>1, <3>1
  <2> QED BY <1>6, <2>1, <2>2, OpenRasterIs, OpenVectorIs
<1>7. CASE \E c \in C : c.result = "ok" /\ a \in OpenRaster(c) \cup OpenVector(c) \cup Fail(c)
  <2>1. PICK c \in C : c.result = "ok" /\ a \in OpenRaster(c) \cup OpenVector(c) \cup Fail(c)
    BY <1>7
  <2>2. Opened(c, a)
    BY <1>6, <2>1
  <2> QED BY <1>2, <2>1, <2>2
<1>8. OpenMap(m) = Fail(m) \cup {x \in C : x.result # "ok"} \cup
        UNION {OpenRaster(c) \cup OpenVector(c) \cup Fail(c) : c \in {x \in C : x.result = "ok"}}
  BY <1>1 DEF OpenMap, Then
<1> QED BY <1>4, <1>5, <1>7, <1>8

\* "zoom best", and the map on the screen.
LEMMA ZoomedIs ==
  ASSUME NEW a \in Canvas, NEW f \in Then(Zoom([a EXCEPT !.result = "ok"]), Show)
  PROVE  /\ f \in Canvas /\ f.n = a.n /\ f.loaded = a.loaded /\ f.type = a.type
         /\ f.Dataset = a.Dataset /\ f.proj2geo = a.proj2geo /\ f.geo2proj = a.geo2proj
         /\ f.live = a.live /\ f.sized = a.sized
<1>1. PICK x : x = [a EXCEPT !.result = "ok"]
  OBVIOUS
<1>2. x \in Canvas
  BY <1>1 DEF Canvas, Results
<1>3. /\ x.n = a.n /\ x.loaded = a.loaded /\ x.type = a.type /\ x.result = "ok"
      /\ x.Dataset = a.Dataset /\ x.proj2geo = a.proj2geo /\ x.geo2proj = a.geo2proj
      /\ x.live = a.live /\ x.sized = a.sized
  BY <1>1 DEF Canvas
<1>4. \/ f \in Fail(x)
      \/ f = [x EXCEPT !.shown = TRUE]
  <2>1. PICK Z : Z = Zoom(x)
    OBVIOUS
  <2>2. (f \in Z /\ f.result # "ok") \/ \E y \in Z : y.result = "ok" /\ f = [y EXCEPT !.shown = TRUE]
    BY <1>1, <2>1 DEF Then, Show
  <2>3. CASE x.drawn /\ x.sized # 0
    <3>1. Z = {x}
      BY <2>1, <2>3 DEF Zoom
    <3> QED BY <1>3, <2>2, <2>3, <3>1
  <2>4. CASE ~(x.drawn /\ x.sized # 0)
    <3>1. Z = Fail(x)
      BY <2>1, <2>4 DEF Zoom
    <3>2. \A y \in Z : y.result = "error"
      BY <1>2, <3>1, FailIs
    <3> QED BY <2>2, <3>1, <3>2
  <2> QED BY <2>3, <2>4
<1>5. CASE f \in Fail(x)
  <2>1. f = [x EXCEPT !.result = "error"]
    BY <1>5 DEF Fail
  <2>2. f \in Canvas
    BY <1>2, <2>1 DEF Canvas, Results
  <2> QED BY <1>2, <1>3, <2>1, <2>2 DEF Canvas
<1>6. CASE f = [x EXCEPT !.shown = TRUE]
  <2>1. f \in Canvas
    BY <1>2, <1>6 DEF Canvas
  <2> QED BY <1>2, <1>3, <1>6, <2>1 DEF Canvas
<1> QED BY <1>4, <1>5, <1>6

\* A map with its own sizes, whose dataset is the only one open but for those of
\* files that could not be opened.
OwnSizes(m, F) ==
  m.loaded /\ (m.type = "Raster" \/ m.Dataset[2] \notin F) => m.sized = m.Dataset[2]
OthersClosed(m, F) ==
  \A n \in Nat \ F :
    <<"Dataset", n>> \in m.live => m.loaded /\ m.Dataset = <<"Dataset", n>>

CanvasInv ==
  /\ opens \in Nat /\ map \in Canvas
  /\ Usable(map) /\ OwnSizes(map, failed) /\ OthersClosed(map, failed)

\* What openMap does to them; F are the files that failed before.
LEMMA OpenMapKeeps ==
  ASSUME NEW m \in Canvas, m.result = "ok", NEW F,
         Usable(m), OwnSizes(m, F), OthersClosed(m, F),
         NEW a \in OpenMap(m)
  PROVE  /\ a \in Canvas /\ a.n = m.n /\ Usable(a)
         /\ OwnSizes(a, IF a.result = "error" THEN F \cup {m.n} ELSE F)
         /\ OthersClosed(a, IF a.result = "error" THEN F \cup {m.n} ELSE F)
<1>1. CASE a = [m EXCEPT !.result = "error"]
  <2>1. a \in Canvas
    BY <1>1 DEF Canvas, Results
  <2>2. /\ a.n = m.n /\ a.result = "error" /\ a.live = m.live /\ a.loaded = m.loaded
        /\ a.type = m.type /\ a.Dataset = m.Dataset /\ a.proj2geo = m.proj2geo
        /\ a.geo2proj = m.geo2proj /\ a.sized = m.sized
    BY <1>1 DEF Canvas
  <2> QED BY <2>1, <2>2 DEF Usable, Transforming, OwnSizes, OthersClosed
<1>2. ASSUME NEW c \in Canvas, Opened(c, a), c.n = m.n,
             OpenDatasets(c) \subseteq OpenDatasets(m), m.loaded => m.Dataset \notin c.live
      PROVE  /\ a \in Canvas /\ a.n = m.n /\ Usable(a)
             /\ OwnSizes(a, IF a.result = "error" THEN F \cup {m.n} ELSE F)
             /\ OthersClosed(a, IF a.result = "error" THEN F \cup {m.n} ELSE F)
  <2>1. a \in Canvas /\ a.n = m.n /\ Usable(a)
    BY <1>2 DEF Opened
  <2>2. ASSUME NEW n \in Nat \ F, <<"Dataset", n>> \in a.live, n # m.n
        PROVE  FALSE
    <3>1. n \in OpenDatasets(a)
      BY <2>2 DEF OpenDatasets
    <3>2. n \in OpenDatasets(c)
      BY <1>2, <2>2, <3>1 DEF Opened
    <3>3. <<"Dataset", n>> \in m.live /\ <<"Dataset", n>> \in c.live
      BY <1>2, <3>2 DEF OpenDatasets
    <3>4. m.loaded /\ m.Dataset = <<"Dataset", n>>
      BY <2>2, <3>3 DEF OthersClosed
    <3> QED BY <1>2, <3>3, <3>4
  <2>3. a.result # "error" /\ <<"Dataset", m.n>> \in a.live =>
          a.loaded /\ a.Dataset = <<"Dataset", m.n>>
    BY <1>2 DEF Opened
  <2>4. OwnSizes(a, IF a.result = "error" THEN F \cup {m.n} ELSE F)
    <3> SUFFICES ASSUME a.loaded,
                        a.type = "Raster" \/ a.Dataset[2] \notin IF a.result = "error" THEN F \cup {m.n} ELSE F
                 PROVE  a.sized = a.Dataset[2]
      BY DEF OwnSizes
    <3>1. Sized(a) /\ a.n = m.n
      BY <1>2 DEF Opened
    <3>2. a.Dataset = <<"Dataset", m.n>>
      BY <3>1 DEF Sized
    <3>3. a.Dataset[2] = m.n
      BY <3>2
    <3>4. a.type = "Raster" \/ a.result # "error"
      BY <3>3
    <3> QED BY <3>1, <3>3, <3>4 DEF Sized
  <2> QED BY <2>1, <2>2, <2>3, <2>4 DEF OthersClosed
<1> QED BY <1>1, <1>2, OpenMapIs

LEMMA InitCanvas == Init => CanvasInv
<1> SUFFICES ASSUME Init PROVE CanvasInv
  OBVIOUS
<1>1. PICK none \in Nat, L \in SUBSET (Kinds \X Nat) : none = 0 /\ L = {}
  OBVIOUS
<1>2. /\ None \in Handle({"Dataset"}) /\ None \in Handle({"proj", "projected"})
      /\ None \in Handle({"proj", "clone", "geographic"}) /\ None \in Handle({"proj2geo"})
      /\ None \in Handle({"geo2proj"})
  BY DEF None, Handle
<1>3. <<>> \in Seq(Bands)
  OBVIOUS
<1>4. map \in Canvas
  BY <1>1, <1>2, <1>3 DEF Init, Canvas, Results
<1> QED BY <1>4 DEF Init, CanvasInv, Usable, OwnSizes, OthersClosed

LEMMA CanvasStep == CanvasInv /\ [FileOpen]_vars => CanvasInv'
<1> SUFFICES ASSUME CanvasInv, [FileOpen]_vars PROVE CanvasInv'
  OBVIOUS
<1>1. CASE UNCHANGED vars
  BY <1>1 DEF vars, CanvasInv, Usable, Transforming, OwnSizes, OthersClosed
<1>2. CASE FileOpen
  <2>1. PICK m : m = [map EXCEPT !.n = opens + 1, !.result = "ok"]
    OBVIOUS
  <2>2. m \in Canvas
    <3>1. PICK k \in Nat : k = opens + 1
      BY DEF CanvasInv
    <3>2. m = [map EXCEPT !.n = k, !.result = "ok"] /\ map \in Canvas
      BY <2>1, <3>1 DEF CanvasInv
    <3> QED BY <3>2 DEF Canvas, Results
  <2>3. /\ m.n = opens + 1 /\ m.result = "ok" /\ m.live = map.live /\ m.loaded = map.loaded
        /\ m.type = map.type /\ m.Dataset = map.Dataset /\ m.proj2geo = map.proj2geo
        /\ m.geo2proj = map.geo2proj /\ m.sized = map.sized
    BY <2>1 DEF CanvasInv, Canvas
  <2>4. Usable(m) /\ OwnSizes(m, failed) /\ OthersClosed(m, failed)
    BY <2>3 DEF CanvasInv, Usable, Transforming, OwnSizes, OthersClosed
  <2>5. PICK a \in OpenMap(m) :
          /\ failed' = IF a.result = "error" THEN failed \cup {opens + 1} ELSE failed
          /\ IF a.result = "exit" THEN map' = a
             ELSE map' \in Then(Zoom([a EXCEPT !.result = "ok"]), Show)
    BY <1>2, <2>1 DEF FileOpen
  <2>6. /\ a \in Canvas /\ Usable(a)
        /\ OwnSizes(a, IF a.result = "error" THEN failed \cup {m.n} ELSE failed)
        /\ OthersClosed(a, IF a.result = "error" THEN failed \cup {m.n} ELSE failed)
    BY <2>2, <2>3, <2>4, OpenMapKeeps
  <2>7. OwnSizes(a, failed') /\ OthersClosed(a, failed')
    BY <2>3, <2>5, <2>6
  <2>8. opens' \in Nat
    BY <1>2 DEF FileOpen, CanvasInv
  <2>9. CASE a.result = "exit"
    <3>1. map' = a
      BY <2>5, <2>9
    <3> QED BY <2>6, <2>7, <2>8, <3>1 DEF CanvasInv
  <2>10. CASE a.result # "exit"
    <3>1. PICK f : f = map'
      OBVIOUS
    <3>2. f \in Then(Zoom([a EXCEPT !.result = "ok"]), Show)
      BY <2>5, <2>10, <3>1
    <3>3. /\ f \in Canvas /\ f.n = a.n /\ f.loaded = a.loaded /\ f.type = a.type
          /\ f.Dataset = a.Dataset /\ f.proj2geo = a.proj2geo /\ f.geo2proj = a.geo2proj
          /\ f.live = a.live /\ f.sized = a.sized
      BY <2>6, <3>2, ZoomedIs
    <3>4. Usable(f) /\ OwnSizes(f, failed') /\ OthersClosed(f, failed')
      BY <2>6, <2>7, <3>3 DEF Usable, Transforming, OwnSizes, OthersClosed
    <3> QED BY <2>8, <3>1, <3>3, <3>4 DEF CanvasInv
  <2> QED BY <2>9, <2>10
<1> QED BY <1>1, <1>2

----------------------------------------------------------------------------
\* The invariant holds of whatever is opened, and fails to open, in turn.
THEOREM CanvasInvariant == Spec => []CanvasInv
  BY InitCanvas, CanvasStep, PTL DEF Spec

\* While a map is loaded, it has the type, the dataset and the transformations
\* that the handlers of the mouse use, however many files failed to open since.
THEOREM LoadedMapUsableHolds == Spec => []LoadedMapUsable
<1>1. CanvasInv => LoadedMapUsable
  BY DEF CanvasInv, LoadedMapUsable, Usable, Transforming
<1> QED BY <1>1, CanvasInvariant, PTL

\* A loaded map is zoomed by its own sizes, at whatever command the opening of
\* it stopped; but for a vector map that reported an error.
THEOREM SizesOwnHolds == Spec => []SizesOwn
<1>1. CanvasInv => SizesOwn
  BY DEF CanvasInv, SizesOwn, OwnSizes
<1> QED BY <1>1, CanvasInvariant, PTL

\* The dataset of a map that was opened without an error is closed when another
\* map takes its place, even when closeMap fails after that.
THEOREM ShownMapsClosedHolds == Spec => []ShownMapsClosed
<1>1. CanvasInv => ShownMapsClosed
  BY DEF CanvasInv, ShownMapsClosed, OthersClosed
<1> QED BY <1>1, CanvasInvariant, PTL

\* No band is drawn as part of two layers, and an alpha channel behind a group
\* is drawn with it unless it is the last band of the raster, which the code never
\* takes as an alpha channel.
THEOREM LayersApartHolds == Spec => []LayersApart
<1>1. CanvasInv => LayersApart
  <2> SUFFICES ASSUME CanvasInv PROVE LayersApart
    OBVIOUS
  <2>1. map.bands \in Seq(Bands)
    BY DEF CanvasInv, Canvas
  <2>2. Apart(map.bands, Rendering(map.bands))
    BY <2>1, RenderingApart
  <2> QED BY <2>2 DEF LayersApart, Apart, AlphaIn
<1> QED BY <1>1, CanvasInvariant, PTL
=============================================================================
