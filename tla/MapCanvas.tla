----------------------------- MODULE MapCanvas -----------------------------
(***************************************************************************)
(* The map of GISViewer: file_open (gisv.tcl) and the class GIScanvas      *)
(* (GIScanvas.tcl) with its handles on the GDAL, OGR and OSR objects of    *)
(* the map that is open.  Tcl runs one event handler at a time, and the    *)
(* dialogs that file_open waits for grab all input: a step is a file_open  *)
(* from end to end.                                                        *)
(*                                                                         *)
(* A procedure is an operator from the state m of the canvas to the set of *)
(* states it may leave, each with the way it ended in m.result: "ok",      *)
(* "error" for a Tcl error, which undoes nothing, or "exit".  The command  *)
(* of a SWIG object is <<kind, n>> when the n-th file_open made it; "-     *)
(* delete" of a command that is gone is an error.  For a layer, the        *)
(* wrapper of GetSpatialRef gives the same command each time it is asked.  *)
(* m.sized is the number of the file that Map(width) and Map(height) are   *)
(* the sizes of, 0 before there are any.                                   *)
(***************************************************************************)
EXTENDS Naturals, Sequences, FiniteSets

CONSTANTS
  MaxOpens, \* bound: how often file_open is called
  Rasters   \* the colour interpretations of the bands of the raster files

\* Hue is treated like Red, and "Other" is Palette and what is not known.
Bands == {"Gray", "Red", "Alpha", "Cyan", "Other"}

ASSUME MapAssumption == MaxOpens \in Nat /\ Rasters \subseteq Seq(Bands)

VARIABLES
  map,    \* the state of the canvas
  opens,  \* how often file_open was called
  failed  \* which of these calls reported an error

vars == <<map, opens, failed>>

Handles == <<"Dataset", "projected", "geographic", "proj2geo", "geo2proj">>
Kinds == {"Dataset", "proj", "clone", "projected", "geographic", "proj2geo",
          "geo2proj"}
Commands == Kinds \X (1 .. MaxOpens)
None == <<"none", 0>>          \* "" and "NULL"
----------------------------------------------------------------------------
Fail(m) == {[m EXCEPT !.result = "error"]}

\* The commands of a Tcl script run until one of them fails.
Then(ms, Op(_)) == UNION {IF m.result = "ok" THEN Op(m) ELSE {m} : m \in ms}

New(m, kind) == [m EXCEPT !.live = @ \cup {<<kind, m.n>>}]

\* "set var [...]", of a command that is made new, or may fail to be.
Make(m, var, kind) == {[New(m, kind) EXCEPT ![var] = <<kind, m.n>>]}

Delete(m, var) ==
  IF m[var] \in m.live THEN {[m EXCEPT !.live = @ \ {m[var]}]} ELSE Fail(m)

DeleteQuietly(m, vs) == [m EXCEPT !.live = @ \ {m[v] : v \in vs}]

Gone(m) == [m EXCEPT !.shown = FALSE, !.loaded = FALSE, !.bands = <<>>]

\* Mutant: the map counts as loaded until all of it is deleted.
CloseMapLate(m) ==
  Then(Then(Then(Then(Then(
    Delete([m EXCEPT !.shown = FALSE], "Dataset"),
    LAMBDA a : Delete(a, "projected")),
    LAMBDA a : Delete(a, "geographic")),
    LAMBDA a : Delete(a, "proj2geo")),
    LAMBDA a : Delete(a, "geo2proj")),
    LAMBDA a : {Gone(a)})

\* Mutant: the dataset is deleted after what was made from it.
CloseMapDatasetLast(m) ==
  Then(Then(Then(Then(
    Delete(Gone(m), "geo2proj"),
    LAMBDA a : Delete(a, "proj2geo")),
    LAMBDA a : Delete(a, "geographic")),
    LAMBDA a : Delete(a, "projected")),
    LAMBDA a : Delete(a, "Dataset"))

CloseMap(m) ==
  Then(Then(Then(Then(
    Delete(Gone(m), "Dataset"),
    LAMBDA a : Delete(a, "projected")),
    LAMBDA a : Delete(a, "geographic")),
    LAMBDA a : Delete(a, "proj2geo")),
    LAMBDA a : Delete(a, "geo2proj"))
----------------------------------------------------------------------------
\* The question for a projection: cancelled, or answered, perhaps wrongly.
Ask(m, var) ==
  IF m[var] # None THEN {m}
  ELSE {[DeleteQuietly(m, {"Dataset"}) EXCEPT !.result = "exit"]}
         \cup Make(m, var, var)
         \cup UNION {Fail(a) : a \in Make(m, var, var)}

\* GetProjections; sref is what the file says its coordinates are in.
Sources(m, sref) ==
  LET none == [m EXCEPT !.projected = None, !.geographic = None]
      proj == <<"proj", m.n>>
  IN CASE sref = "projected" ->
            {[New(none, "clone") EXCEPT !.projected = proj,
                                        !.geographic = <<"clone", m.n>>]}
       [] sref = "geographic" -> {[none EXCEPT !.geographic = proj]}
       [] sref = "none" -> {none}
       [] sref = "other" -> Fail(none)

Transformations(m) ==
  UNION {LET a == IF there THEN [New(m, "proj2geo") EXCEPT !.proj2geo = <<"proj2geo", m.n>>]
                           ELSE [m EXCEPT !.proj2geo = None]
             b == IF back THEN [New(a, "geo2proj") EXCEPT !.geo2proj = <<"geo2proj", m.n>>]
                          ELSE [a EXCEPT !.geo2proj = None]
         IN IF there /\ back THEN {b}
            ELSE Fail(DeleteQuietly(b, {"projected", "geographic"}))
         : there, back \in BOOLEAN}

GetProjections(m, sref) ==
  Then(Then(Then(Sources(m, sref),
    LAMBDA a : Ask(a, "projected")),
    LAMBDA a : Ask(a, "geographic")),
    LAMBDA a : Transformations(a))

\* "if {[catch {GetProjections ...}]} {$Dataset -delete; return -options ...}"
WithProjections(m, sref) ==
  {IF a.result = "error" THEN DeleteQuietly(a, {"Dataset"}) ELSE a :
     a \in GetProjections(m, sref)}
----------------------------------------------------------------------------
\* "set Dataset [...]" of an Open that gives NULL and no error.
Null(m) == [m EXCEPT !.Dataset = None]

\* openVector: the projection of layer 0 is borrowed from the layer.
Vector(m, sref) ==
  IF sref = "none" THEN New(m, "Dataset") ELSE New(New(m, "Dataset"), "proj")

\* The layers: "$sref -delete" takes the command that Map keeps, and NULL, of
\* the first layer or of another, is none; the features that are drawn make
\* the size of the map, and without any there is an error.
Layers(m, sref, features) ==
  LET first == IF sref = "none" THEN Fail(m)
               ELSE {[m EXCEPT !.live = @ \ {<<"proj", m.n>>}]}
  IN Then(first, LAMBDA a :
       LET b == [a EXCEPT !.drawn = @ \/ features]
           c == [b EXCEPT !.sized = b.n]
       IN Fail(b) \cup IF b.drawn THEN {c} \cup Fail(c) ELSE {})

\* From GetProjections on, once the dataset and its first layer are open.
ReadVector(m, sref, features) ==
  Then(WithProjections(Vector(m, sref), sref), LAMBDA a :
    Layers([a EXCEPT !.loaded = TRUE, !.type = "Vector"], sref, features))

OpenVector(m) ==
  LET opened == [m EXCEPT !.Dataset = <<"Dataset", m.n>>]
  IN Fail(m) \cup Fail(Null(m))                            \* ogr::Open
     \cup Fail(New(opened, "Dataset"))                     \* without layers
     \cup UNION {ReadVector(opened, sref, features)
                 : sref \in {"projected", "geographic", "none", "other"},
                   features \in BOOLEAN}
----------------------------------------------------------------------------
\* renderGray, renderRGB and renderHSV use a group of bands, from band i on,
\* and the one after it when that is an alpha channel; they leave bandNo after
\* what they used.
Group(colour) == IF colour = "Red" THEN 3 ELSE 1
UsesAlpha(bands, next) == Len(bands) > next /\ bands[next] = "Alpha"

\* Mutant: the band number that renderRGB advances is its own.
AfterGroupByOne(bands, i) == i + 1

AfterGroup(bands, i) ==
  LET next == i + Group(bands[i])
  IN IF UsesAlpha(bands, next) THEN next + 1 ELSE next

\* A turn of the band loop, which advances bandNo as well: the layers drawn so
\* far, each with its bands, the band that is next, and how the loop ends.  An
\* image is only there after the first layer.
Turn(bands, r) ==
  LET i == r.bandNo
      Ended(how) == [r EXCEPT !.how = how]
  IN IF r.how # "done" \/ i > Len(bands) THEN r
     ELSE IF bands[i] \in {"Gray", "Red"}
     THEN IF i + Group(bands[i]) - 1 > Len(bands) THEN Ended("error")
          ELSE [r EXCEPT !.layers = Append(@, i .. AfterGroup(bands, i) - 1),
                         !.bandNo = AfterGroup(bands, i) + 1]
     ELSE IF bands[i] = "Cyan" THEN Ended("close")
     ELSE IF r.layers = <<>> THEN Ended("error")
     ELSE [r EXCEPT !.bandNo = i + 1]

\* A turn for each band is enough, since each advances.
Rendering(bands) ==
  LET after[n \in 0 .. Len(bands)] ==
        IF n = 0 THEN [bandNo |-> 1, layers |-> <<>>, how |-> "done"]
        ELSE Turn(bands, after[n - 1])
  IN after[Len(bands)]

\* Reading a band or making an image may fail before any layer is drawn, or later.
Render(m, bands) ==
  LET r == Rendering(bands)
      After(layers) == [m EXCEPT !.bands = bands, !.drawn = @ \/ layers # <<>>]
  IN Fail(After(<<>>)) \cup Fail(After(r.layers))
     \cup CASE r.how = "done" -> {After(r.layers)}
            [] r.how = "close" -> CloseMap(After(r.layers))
            [] r.how = "error" -> {}

\* Mutant: the sizes are set when the bands are drawn.
ReadRasterSizesLast(m, sref, bands) ==
  Then(Then(WithProjections(m, sref), LAMBDA a :
    Render([a EXCEPT !.loaded = TRUE, !.type = "Raster"], bands)),
    LAMBDA a : {[a EXCEPT !.sized = a.n]})

ReadRaster(m, sref, bands) ==
  Then(WithProjections(m, sref), LAMBDA a :
    Render([a EXCEPT !.loaded = TRUE, !.type = "Raster", !.sized = a.n], bands))

OpenRaster(m) ==
  LET opened == New(New([m EXCEPT !.Dataset = <<"Dataset", m.n>>], "Dataset"), "proj")
  IN Fail(m) \cup Fail(Null(m)) \cup Fail(New(Null(m), "proj"))  \* gdal::Open
     \cup Fail(opened)                                     \* ImportFromWkt
     \cup UNION {ReadRaster(opened, sref, bands)
                 : sref \in {"projected", "geographic", "other"}, bands \in Rasters}
----------------------------------------------------------------------------
\* openMap of a file that can be read, or not.
OpenMap(m) ==
  Fail(m) \cup
  Then(IF m.loaded THEN CloseMap(m) ELSE {m}, LAMBDA a :
    OpenRaster(a) \cup OpenVector(a) \cup Fail(a))
----------------------------------------------------------------------------
\* "zoom best" needs something on the canvas, and the size of the map.
Zoom(m) == IF m.drawn /\ m.sized # 0 THEN {m} ELSE Fail(m)

Show(m) == {[m EXCEPT !.shown = TRUE]}

\* An error of openMap is reported and forgotten.
FileOpen ==
  /\ opens < MaxOpens /\ map.result # "exit"
  /\ opens' = opens + 1
  /\ \E m \in OpenMap([map EXCEPT !.n = opens', !.result = "ok"]) :
       /\ failed' = IF m.result = "error" THEN failed \cup {opens'} ELSE failed
       /\ IF m.result = "exit" THEN map' = m
          ELSE map' \in Then(Zoom([m EXCEPT !.result = "ok"]), Show)

Init ==
  /\ opens = 0 /\ failed = {}
  /\ map = [n |-> 0, result |-> "ok", loaded |-> FALSE, type |-> "",
            Dataset |-> None, projected |-> None, geographic |-> None,
            proj2geo |-> None, geo2proj |-> None, live |-> {},
            drawn |-> FALSE, sized |-> 0, shown |-> FALSE,
            bands |-> <<>>]

Spec == Init /\ [][FileOpen]_vars
----------------------------------------------------------------------------
\* While a map is loaded the handlers of the mouse find what they use: motion
\* a type to ask by, convert_xy2proj the dataset, convert_proj2geo and convert_geo2proj the
\* transformations, whatever failed while this map or one before was opened.
LoadedMapUsable ==
  map.loaded /\ map.result # "exit" =>
    /\ map.type # ""
    /\ {map.Dataset, map.proj2geo, map.geo2proj} \subseteq map.live

\* A loaded map is zoomed by its own sizes and not by those of a map before it,
\* at whatever command openMap stopped; but for a vector map that reported an
\* error, of which openVector may not have come to the sizes.
SizesOwn ==
  map.loaded /\ (map.type = "Raster" \/ map.Dataset[2] \notin failed) =>
    map.sized = map.Dataset[2]

\* A dataset that was opened without an error is closed with its map, even
\* when closeMap does not get to its end.
ShownMapsClosed ==
  \A n \in 1 .. opens \ failed :
    <<"Dataset", n>> \in map.live => map.loaded /\ map.Dataset = <<"Dataset", n>>

\* No band is drawn as part of two layers, although three procedures and the
\* loop advance one band number; and "if the next band type is Alpha, then
\* alpha channel is used", unless that is the last band of the raster, which
\* "RasterCount > bandno" never takes.
LayersApart ==
  LET bands == map.bands
      layers == Rendering(bands).layers
  IN \A k \in DOMAIN layers :
       /\ \A l \in DOMAIN layers : k # l => layers[k] \cap layers[l] = {}
       /\ \A i \in layers[k], j \in 1 .. Len(bands) - 1 :
            j = i + 1 /\ bands[j] = "Alpha" /\ bands[i] # "Alpha" => j \in layers[k]
=============================================================================
