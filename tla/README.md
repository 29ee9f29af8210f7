# Verification of SPLiteDemo3

SPLiteDemo3 is an iOS demonstration of SpatiaLite. The repository holds the
demonstration and the two libraries SpatiaLite stands on, GEOS 3.1.1 and
PROJ 4.6.1, in source; of SpatiaLite itself it holds only headers and build
files. The logic is in the two libraries, and so is this development.

## The system

```
 iOS demonstration -> SpatiaLite (headers only) -> GEOS C interface -> GEOS
                                               \-> pj_init, pj_transform -> PROJ
```

### PROJ (proj-4.6.1/src)

| component | state | operations | calls |
|---|---|---|---|
| initialisation, `pj_init.c`, `pj_param.c`, `pj_datum_set.c`, `pj_ell_set.c` | a list of parameters while it grows; the handle; `pj_errno`, `errno` | `pj_init`, `pj_init_plus`, `pj_free` | reads defaults and init files |
| transformation, `pj_transform.c`, `pj_fwd.c`, `pj_inv.c` | the caller's arrays, replaced in place stage by stage; `pj_errno` | `pj_transform`, `pj_datum_transform` | grid shift, geocentric conversion, projections |
| grid shift, `pj_apply_gridshift.c`, `pj_gridinfo.c`, `nad_cvt.c` | the caller's arrays; `ct->cvs` of each table, loaded on first use | shift an array of points, forward or inverse | asks the catalogue for tables |
| grid catalogue, `pj_gridlist.c` | `grid_list` of every grid or stub loaded; the last `+nadgrids` string with the array that answered it; `pj_errno` | request a list, merge a file, load it, deallocate all | reads headers through `pj_gridinfo_init` |
| projections, utilities | none | closed formulas; command line programs | - |

Hard to test here: every function keeps what it did so far when it fails
(partial lists, partial arrays, freed blocks whose pointer stays); errors
reach the caller through a global that later stages reset; answers are cached
across calls and files change in between; a transformation may succeed with
points that failed; a handle is built from four sources of parameters and torn
down on a dozen error paths. What must hold: the cached array never refers to a
freed grid nor outgrows its block, an answer is what the string asks for, a
point is shifted by the first table that can and nothing else, success means
that the points arrived in the frame of the destination, and a handle is what
its definition says or there is none and nothing is left of it.

### GEOS (geos-3.1.1/source)

| component | state | operations |
|---|---|---|
| STR tree, `index/strtree` | items; after the build a tree of nodes with cached bounds | insert, build on first use, query, remove, itemsTree |
| SIR tree, binary tree, quadtree, packed interval tree, sweep line, `index/*` | nodes made on demand or packed at the first query; the smallest extent seen; a list of events | insert, query, iterate, remove, compute overlaps |
| geometry graph, `geomgraph` | nodes, edges, directed edges, their labels and depths, links of rings | insert edges, merge labels, label a star, link, trace rings |
| overlay, `operation/overlay` | one geometry graph, the result's polygons, lines and points | intersection, union, difference, symmetric difference |
| binary operations and precision, `geom/BinaryOp.h`, `precision` | the common bits removed; the exception of the first try | retry a failed overlay on changed inputs |
| buffer, `operation/buffer` | the geometry and the exception saved; subgraphs with depths | retry with less precision; offset curves, depths |
| noding, `noding` | segment strings with the nodes found | find intersections, snap, repeat until none is left |
| union of many, `operation/union` | an STR tree of the polygons | union pairwise along the tree |
| planar graph, polygonizer, line merger, line sequencer | marks, labels and next pointers on a graph of edges | dangles, cut edges, rings; merged lines; sequences |
| relate and predicates, `operation/relate`, `geom/Geometry.cpp` | a graph of each geometry, the nodes of both, a matrix | compute a matrix; nine predicates with shortcuts |
| validity, `operation/valid` | the same graph; the first error found | check a geometry |
| simplification, `simplify` | sections still to do, two indexes of segments that all lines share | simplify a geometry's lines, by Douglas-Peucker or so that nothing new crosses |
| geometry model, algorithms, input and output, C interface | coordinates; handles | numbers, text, error codes |

Hard to test here: an overlay, a relation or a check of validity is a pipeline
of passes over a graph, each of which believes what the one before left in it
(labels that are null until a later pass, sides that must agree around a node,
links that must close to rings); coinciding edges that run either way;
degenerate inputs (collapsed edges, rings that touch themselves); marks that
outlive a call and meet the next one; indexes that are built lazily, whose
cached bounds survive removals; retries on changed inputs that must come back
from where they went. What must hold: the result is exactly the set operation,
the matrix the true one, no correctly noded input raises an exception, an index
finds exactly what meets the search envelope, a retry never hands out what is
not a result.

Both libraries are called by one thread at a time; PROJ keeps file-scope
statics without locks and documents no concurrent use, so no interleaving of
threads is modelled. What interleaves is the outside world: files that appear,
vanish and are cut short between two steps of a call, deallocation between
two calls, and callers that repeat, retry and mix calls.

Components, hazards and the map from definitions to source lines are in
`PROJECT.json`.

## Modules

```
 PROJ   GridList <- GridListProofs
        GridshiftContract <-(keeps)- GridShift <- GridShiftProofs
               ^(used by)
           Transform <- TransformProofs
               ^
           ProjInit <- ProjInitProofs   (LibrarySpec: pj_init, pj_transform, pj_free)

 GEOS   SpatialIndex (abstract) <-(refines)- STRtree <- STRtreeProofs
               ^(refined by)
           IndexState <- DyadicTree, IntervalIndexes <- Indexes

        Arrangement, TopologyLabel <- Overlay

        Plane <- Linework <- LineMerger, LineSequencer, Polygonizer <- LineworkTools

                 Plane <- BinaryOp, Simplifier (<- SimplifierProofs) \
                   BufferOp, IteratedNoder, CascadedUnion       <- RobustTools
                   (these and BinaryOp <- RobustProofs)        /

        Plane <- Geometries, TopologyLabel <- Relate <- Validity

 proofs Induction <- GridListProofs, GridShiftProofs, ProjInitProofs,
                     SimplifierProofs, STRtreeProofs, RobustProofs
        TransformProofs <- ProjInitProofs
```

An arrow points from what is extended or instantiated to what does so.

**GridList** - `pj_gridlist.c`. The statics are variables (`grid_list`, `last`,
`slots`, `count`, `max`), the locals of the request in progress too (`rest`,
`entry`, `cursor`, `got_match`). An action is one turn of a loop of the code,
so a file may change (`DiskChange`) between reading one grid and the next. An
array slot that `pj_malloc` returned and nobody wrote is `Junk`; `slots` has
exactly the slots that were allocated. A grid is a file name and its position
in that file; position 0 is the stub of a file that could not be read.

**GridShift** - `pj_apply_gridshift`, `pj_gridinfo_load`, the iteration of
`nad_cvt`. Points are places from a small set; which tables cover a place, give
it a value, and in how many rounds the inverse converges are constants. `cvs`
is the state of each table's data, with "freed" for a pointer that was not
nulled. A grid file is good, short or gone, and may change at every step.

**GridshiftContract** - what a caller of `pj_apply_gridshift` may rely on: the
arrays are shifted up to some point and untouched behind it, and the error
number says whether that is all of them. `GridShift` is checked to keep it
(`KeepsContract`), and `Transform` uses nothing else.

**Transform** - `pj_transform` and `pj_datum_transform`. A coordinate is the
frame it is expressed in (form, datum, meridian, unit). Each stage is an action
with the code's guards, error classes and early returns; a stage applied to a
coordinate in the wrong frame makes its datum `Lost`. Loops over points that
may be given up half way (`pj_inv`, `pj_fwd`) take one action per point.

**ProjInit** - `pj_init`, `pj_init_plus` and `pj_free`. The list of parameters
is a sequence of keys and values that remember who said them (the caller, an
init file, the defaults, a datum); `cells` are its places in memory, so that a
word that is freed while it is still on the list, or freed twice, shows. The
tables of ellipsoids, datums, units and meridians are those of the code, the
first three cut to the rows that the datums and the instance name. The handle
is a record of what each part was read from, and `SystemOf` turns it into the
coordinate system that `Transform` goes between. `LibrarySpec` composes the two
modules: a caller initialises, transforms and frees, one call at a time.

**SpatialIndex** - the abstract index: a set of entries with atomic queries and
removals. **STRtree** builds itself level by level, one action per level, and
sorts with any order its comparator allows; nodes cache bounds as the code
does. `Contract` is `SpatialIndex!Spec` under the refinement mapping "stored =
the items reachable from the root".

**IndexState** - what the smaller indexes share: intervals, entries, the
question being asked and its answer. **DyadicTree** is `Bintree` (one axis) and
`Quadtree` (two): the same recursion, root, keys, padding of thin envelopes and
pruning. **IntervalIndexes** has three that are made at the first question. `SIRtree`
packs levels as the STR tree does, with its two slips: the child that finds a
node full is added to the full node, and the copy of an interval leaves the new
one as the heap held it (`Leftovers`). `SortedPackedIntervalRTree` joins leaves
two by two; of no leaves it never ends. `SweepLineIndex` sorts insertions and
deletions once, by a flag that is not initialised. **Indexes** is one index of any kind; for the kinds that promise
it, `IndexContract` is again `SpatialIndex!Spec`.

**TopologyLabel** - locations, labels and depths with the operations of
`TopologyLocation`, `Label` and `Depth`.

**Arrangement** - the planar subdivision that coordinates define once noded:
edges, the cyclic order of directed edges around each node, the face on either
side. It answers what the code asks of coordinates (`isCCW`, point in area,
order around a node), and it is where the result of an overlay can be stated
without the overlay: as sets of faces, edges and nodes. The assumption
`EmbeddingAssumption` checks that stars and faces fit together.

**Overlay** - `OverlayOp::computeOverlay`, one action per pass: noding of equal
edges with flip and merge, labels from depths, labelling of stars and
propagation of sides, incomplete nodes, result edges, maximal rings, minimal
rings, holes, lines, points. An exception or a failed assertion leads to
"failed". A pass is atomic because nothing can observe the graph within one;
what is checked between passes are the labels they hand on.

**Plane** - orientation, quadrants, point in ring, envelopes and the distances
of points and segments on small integer coordinates, where double arithmetic is
exact.

**Linework** - the planar graph of lines: darts, their order around a node, the
path from a dart to the next. **LineMerger** keeps the marks on nodes and edges
that outlive a call; **LineSequencer** walks each part from its node of lowest
degree, inserts the lines left over, orients the sequence and tests it;
**Polygonizer** deletes dangles and cut edges, labels and traces rings, splits
them into minimal ones and gives holes to shells. Each states its result by a
reference that does not follow the code: maximal paths through nodes of degree
two, Eulerian paths, faces of the plane decided point by point.
**LineworkTools** lets a caller ask one of them, add a line and ask again.

**BinaryOp** - the template of that name: which operands a try is made on, what
is undone afterwards, which exception comes out at last; the overlay itself may
answer or throw anything. The operands of the later tries are made by the high
bits that numbers share (`CommonBits`) and by the snapping of vertices and
segments (`LineStringSnapper`). **BufferOp** is the same for the
buffer: the original precision, a fixed one or twelve digits downward, on an
object that may be used twice. **IteratedNoder** is the rule that ends repeated
noding. **CascadedUnion** is the union of many polygons along the tree that
`itemsTree` gives, with its shortcuts by envelopes; what tree a list gets is left
open (`ItemsTrees`), a sequence of nodes in which children come before their
parent. **Simplifier** is `TopologyPreservingSimplifier`, one
action per call of `simplifySection`, with the pending calls as a stack; the
lines come in any order, because the code takes them in the order of their
addresses. **RobustTools** composes the five.

**Geometries** - the intersection matrix with its nine tests, and areas, lines and point sets drawn along the edges of a planar mesh, with the
predicates of `Geometry` and their shortcuts by envelope and by rectangle.
**Relate** is `RelateComputer::computeIM`, one action per phase: nodes from
each geometry's own edges, crossings, bundles of edge ends, labels that spread
around a star, isolated edges and nodes, the matrix. **Validity** builds the
same graph of one geometry and makes the checks of `IsValidOp` in their order.
The true answers are computed from the cells of the mesh.

The MC modules give constants their values: `MCProj`, `MCIndexes` and `MCTools`
each for several specifications, of which a behaviour takes one, `MCOverlay` and
`MCRelate` for one system.

### Faults

Operators whose comment begins with "Fault" are deliberate errors, each a
plausible slip in the definition that follows it: a dropped guard, a missing
reset, a swapped order. They are not used by any specification; substituted
for the definition, each makes the property named in `PROJECT.json` fail,
which shows that the property depends on that line.

## Runs

| run | instance | shows |
|---|---|---|
| `proj` | `MCProj`, one of three parts at a time. Catalogue: two files with up to two grids, four strings. Shift: an NTv2 grid with two overlapping subgrids, an NTv1 grid, three places, two points. Transform: some six thousand definitions of up to four words; nine systems, one for each way through the stages, two points | the cached array is sound, in bounds, in order and complete, no grid twice; the contract of the shift, the right table, no read of data that is not there but that of an NTv1 file read short; `pj_init` leaves a handle that is what was said or nothing; success of `pj_transform` means arrival, failed points stay failed; every call returns |
| `indexes` | `MCIndexes`. Three or four entries of each of the five smaller indexes, on both sides of the origin, thin and wide; up to five items of an STR tree in three boxes, capacity two | tree invariants, packing, overlaps told once; exact or candidate index (refinement); a query is answered; STR trees balanced, filled and covered by their bounds (proved in `STRtreeProofs`) |
| `overlay` | `MCOverlay`. A lens of four edges with two loops and an isolated node; four nested loops; all areas, lines, points and areas with a spike; edges running the same or opposite ways; four operations | never fails; labels tell the truth; simple rings; areas, lines and points exactly the set operation, but for lost lines |
| `tools` | `MCTools`, one of two kits at a time. Linework: every network of up to eight lines of a block of two squares, one with its diagonal, two closed lines around it; asked twice with a line added between. Robust: lines and rings on a 4 x 3 grid at several places of the plane; buffers of two distances on an object used twice; up to four polygons in every order; paths, hooks and rings with bays, alone and in pairs | merged lines, sequences, dangles, cut edges and polygons against their references; the retries hand out results only of tries that served, moved back where they belong; the exception of the first try; the buffer's finest precision; the bound of noding; the union whole; what simplification puts in crosses nothing, within the tolerance, and goes no further than Douglas-Peucker |
| `relate` | `MCRelate`. Every ordered pair of 64 geometries at one point of a mesh; several hundred polygons, multi-polygons and collections on a 6 x 5 grid, with both settings for rings that touch themselves | the matrix is the true one but for two departures, predicates agree with it whichever shortcut answers; exactly the invalid geometries are refused, with a reason that is true of them |

Each of these composes specifications that share no variables: a behaviour
takes one of them and the others stay as they are. The other runs are of the
same instances and check one statement of a comment, a manual or a change log
that the code contradicts; `PROJECT.json` quotes each under "findings":

| run | property | shows |
|---|---|---|
| `proj_required` | `RequiredGrids` | a repeated request is answered with the partial list of the failed one (`pj_gridlist.c:203`) |
| `proj_served` | `ServedOnSuccess` | success with points left on the source datum (`pj_transform.c:662`) |
| `overlay_collapses` | `CollapsesKept` | a union loses the line along a collapsed edge of an area (`LineBuilder.cpp:169`) |
| `tools_sequenced` | `SequencedIffEulerian` | a part that has an Eulerian path is not sequenced, because the walk starts at a node of lower, even degree (`LineSequencer.cpp:325`) |
| `tools_buffer` | `BufferIsForItsDistance` | a second buffer on one `BufferOp` that fails hands out the first one's result, for another distance (`BufferOp.cpp:140`) |
| `relate_true` | `MatrixIsTrue` | a proper crossing of an area's edge is taken to touch its boundary with the line's interior where another line ends there (`RelateComputer.cpp:177`) |
| `relate_aborts` | `NeverAborts` | a hole all of whose coordinates lie on another ring fails an assertion (`QuadtreeNestedRingTester.cpp:98`, `IsValidOp.cpp:537`) |

The property of a passing run that stands beside each of the last five
(`ResultIsExact`, `SequencesSound`, `BufferServes`, `MatrixIsExact`,
`ValidExactly`) states exactly when the promise is broken, so that any other
departure is an error of that run.

**What the properties leave room for.** Where else the code departs from what
one would expect, the property states the departure exactly, so that any other
one is an error of the run; no text of the repository contradicts these, but for
the two that are named below:

- a short NTv1 file leaves a freed block that the next call takes for data
  (`pj_gridinfo.c:217`; `ReadBeforeUse`);
- `+lon_wrap` turns a longitude half way round (`pj_transform.c:372`), and z of
  geocentric coordinates is not scaled with x and y (`pj_transform.c:318`); the
  frames that `ArrivesOnSuccess` compares leave both out;
- `pj_init_plus` does not free its copy of a definition with too many words,
  and `init=~/...` without `$HOME` is an error without a number (`InitClean`);
  the form of an ellipsoid is chosen in the order es, e, rf, f, b whoever said
  it, so that a named ellipsoid's rf counts before the caller's b; a latitude
  for `R_lat_a` is never refused, since its sine is compared with a right angle
  (`pj_ell_set.c:80`);
- a query of an STR tree without items follows NULL bounds
  (`AbstractSTRtree.cpp:124`): trees are queried once they hold something;
- a SIR tree's bounds come from the heap (`Interval.cpp:32`), and the last child
  of a level may leave an empty node (`SIRtree.cpp:58`): it is held to
  `AnswersMeet` and `TreesSound`;
- `carthage` in the table of datums names an ellipsoid, `clark80`, that the
  table of ellipsoids does not have (`pj_datums.c:91`), so that `pj_init` refuses
  it with -9, although the comment above that table says its codes match; given b, no a and `R_A`, `R_V`
  or a latitude, the radius is not a number, which no check refuses (`pj_ell_set.c:102`; `Radius`);
- lines added to a `LineMerger` after an answer meet the marks of the first
  one; a second `getPolygons` polygonizes over the labels of the first
  (`Polygonizer.cpp:226`): `MergedExactly` and `PolygonizedExactly` speak of the
  first answer;
- snapping may open a ring, which ends that try (`LineStringSnapper.cpp:104`);
- simplification looks for crossings only: a closed line may become a point, two
  rings may come to share a segment, and a hole in a bay that its shell is
  flattened across is left outside (`TaggedLineStringSimplifier.cpp:149`; the
  `Tent` of `MCTools` is such a shell), although `TopologyPreservingSimplifier.h`
  promises a valid geometry; an empty line ends it with a `length_error`
  (`TaggedLineString.cpp:82`);
- of disjoint envelopes the boundary of lines that close on each other has
  dimension 0 in the matrix (`MultiLineString.cpp:55`);
- elements of a collection behind the first are never checked
  (`IsValidOp.cpp:131`), so that `ValidExactly` speaks of the first one only; shells nested in a
  polygon without holes are called nested holes, and misplaced rings that touch
  are called self-intersections, which is a true reason too.

**Bounds, and why they are enough.** Two files are enough for a required one
to fail behind an optional one that succeeded, and for a file to be named
twice; growing the array by two makes it grow in the middle of a file. Two
points are what it takes for a first to succeed and a second to fail, or the
reverse, and no stage looks at more than the current point. Two overlapping
subgrids make the order of children matter. Two words beside the projection,
or three about the earth, are what any two branches of `pj_init` need to meet;
four places for words make the fifth too many. Five items at capacity two give
three levels and an odd node out on each; `MCIndexes` restricts insertions to
growing centres, since the build sorts them, and to two items of one envelope.
Three or four entries make the smaller indexes grow beyond their first root,
split, prune, pad with two extents and pack an odd one out. The lens makes
every pair of parallel edges, a node of degree eight, rings that touch
themselves at a node, a hole that touches its shell and one that does not, and
the onion makes shells within holes twice; every phase of the overlay treats
nodes one at a time and faces in pairs, so larger maps repeat these cases.
Eight lines in a block have nodes of every degree up to four, odd parts,
bridges, nested faces and rings that touch at a node; the closed lines make
holes, and holes in a hole's polygon. Networks of few lines come in all
directions (`MaxFlipped`), larger ones in one; those of five lines or more come
with the closed lines around them (`MinEnclosed`). Up to four polygons come in one node, as the code's capacity of four has it, and
in trees of two levels as smaller nodes would make them. The
hooks to simplify reach into each other so that a segment put in early stands in
the way of a later one, in either order; rings start at each of their points, and
the tolerances lie on both sides of the bays' depths. The
mesh of `MCRelate` brings two edges together in every way at its middle
point: along each other, in part, crossing in the inside, at an end, on the
boundary of one or both. The rings of the validity checks include one within another within a
third, rings that touch others at one, two and three points, that cut an
interior in two, that turn inside out at a point, that cross themselves, and
that have spikes or no area; every pair and many triples of them are shells
and holes of one geometry. `MAX_PRECISION_DIGITS` and `MAX_ITER` are the code's.

**Fairness.** Each library call runs to its end in its caller's thread, so the
steps of a call in progress are weakly fair; callers, files and deallocation
are not fair. That is all the liveness properties need: `RequestReturns`,
`ShiftReturns`, `CallReturns`, `NodingEnds`, `HalvingEnds` (of the packed tree's build,
with at least one leaf), and the answers of the indexes in `IndexContract` and `Contract`.
`Overlay`, `LineworkTools` and `Relate` need none: their properties are about
what there is when the work is done, and its length is bounded by its passes;
that they get there shows in the final states their runs reach.

**Deadlock** is checked in `proj`, where the environment can always act. A full
tree, an overlay, a relation and the tools end, so their runs say that they may
stop.

## Proofs

Theorems are proved for every value of the constants that the named assumptions
allow; TLC evaluates those assumptions on the instances.

`GridListProofs` proves, for any set of files and strings and any growth of at
least two slots:

- `Typing`, `ArrayInBounds`, and with both `Sound`: every variable keeps its
  type, and grids and the NULL behind them lie in the allocated block
  (`CatalogueSound`);
- `NoDanglingGrids`: what the array holds is on the list of live grids and has
  a table;
- `LoadsOnce`: no grid is on the list twice;
- `InOrderAlways`: at every moment, also after a request that failed half way and
  after files have changed, the array is a prefix of what the grids on the list
  offer the string, in the string's order (`AnswerInOrder`);
- `CompleteAtTheEnd`: the step that ends a request built to its last entry
  (`Finish`) leaves an array with all they offer and a grid of every required
  file (`AnswerComplete`). It says nothing of requests that return otherwise, from
  the cached array above all, of which `proj_required` shows that they may not.

None of these is inductive. The array stays in bounds during a merge only
because the code grows it before it writes, so the invariant has to say where
in the loops a call stands: `InMerge` bounds the cursor of the scan and ties it
to the call. A grid is loaded once because the scan that ends without a match
has passed the whole list: `Unmatched` says that what lies before the cursor
does not carry the name of the entry while nothing has matched, and `LoadedOnce`
follows at the step that loads. `IInv` is the conjunction of these with the
three properties and the types; `Invariance` is proved from `InitIInv` and one
lemma for each conjunct, each by cases on the actions that touch its variables.
With a growth of one the code would be wrong: it writes a grid and a NULL
behind it.

What is offered is put together by two recursive functions, of a list for a name
(`TablesOf`) and of the entries of a string (`OfferedBy`). `BuildInv` says what a
request has of it at each turn: all for the entries that are done, and of the
entry it is at the tables before the cursor. A file that is read while the scan
runs puts grids at the end of the list; the answer so far must not change by it.
`OfferedExtend` shows, by induction over both functions, that it does not as long
as no entry that is done has the new file's name, and `Tried` says that this is
so, because an entry that is done has left a grid or a stub behind.

`GridShiftProofs` proves, for any grids, subgrids, table lists, places and
numbers of points, whatever becomes of the files:

- `Typing`, `HugeEndsCall`, and with both `Sound`: the variables keep their
  types, and a HUGE_VAL point and those behind it are not shifted (`ShiftSound`);
- `ContractKept`: between calls the arrays are a shifted prefix and an untouched
  rest, and the error number tells which (`KeepsContract`), so that what
  `Transform` is modelled against is what `GridShift` does;
- `FirstTable`: a point is shifted by the first table that gives it a value;
- `ReadsLoadedData`: only NTv1 tables are read without their data in memory.

Its `IInv` adds to the types what the two loops know: the points before `ipoint` are
the shifted ones and none of them is HUGE_VAL (`Served`), a call that returned
says in its error number whether it reached the end (`Stopped`), no table before
`itable` serves the current point (`Tried`), and only NTv1 data is freed and
still pointed at (`Freed`). `Tried` makes `FirstUsableTable` inductive: at the
step that shifts a point, `itable` is the least usable position.

`TransformProofs` proves, for any coordinate systems, any number of points and
any failures:

- `Arrives`: when a call returns success, every point that is not HUGE_VAL is
  in the destination's frame, unless a grid shift left points out
  (`ArrivesOnSuccess`);
- `Sound`: types, and that a call given up half way through a projection leaves
  a prefix in the next form and a rest in the previous one (`TransformSound`);
- `FailedForGood`: a HUGE_VAL point stays so until the call returns
  (`HugeStays`).

Arrival is a fact of the last stage only. The invariant therefore says of every
stage which frame it finds the points in: `Standing` gives the frame as a
function of where the call stands and of the two systems, and `Via` which datum
and ellipsoid it goes through. Each action is shown to take the frame before it
to the frame behind it; a stage that is skipped, because the datums are the same
or one is unknown, must leave a frame that is already right. The assumptions are
that systems are well formed (a WGS84 datum stands on the WGS84 ellipsoid, which
is what `pj_init` makes sure of: by `HandlesAsDefined` below, the handles it
returns satisfy the same predicate `IsSystem`) and that `Lost` is no datum.

`ProjInitProofs` proves of `pj_init` and `pj_free`, for any definitions, any init
files and any number of places for words:

- `InitLeavesNothing`: a handle and no error, or an error and nothing left of
  what was allocated; each block is freed once, on every error path, and none
  that the projection has freed (`InitClean`);
- `HandlesAsDefined`: a handle is well formed for `pj_transform`, no word of the
  caller is replaced by an init file, a default or a table, the default ellipsoid
  joins only those who said nothing of the earth, and a datum stands on its own
  ellipsoid unless a size was said (`HandleAsDefined`);
- `LibraryTransforms`: `LibrarySpec => Spec`. In the library, where initialising
  and freeing come between the calls, `pj_transform` does what it does alone, so
  that the theorems of `TransformProofs` hold there.

The invariant `PInv` has a part for each thing that is handed from step to step.
`Held`: the places in memory are those of the list and no others, PIN from one
step to its end, and after a return only what the caller then holds. `Errors`:
which numbers can be noted where; that of a flag is the only one that does not
end the call at once. `Listed`: the list begins with the caller's words, and what
the defaults add is one of three keys, the ellipsoid only where nobody spoke of
the earth. `Measured`: from the datum to the end, a datum whose size nobody said
has brought the only key of a size there is on the list (`Brought`), and from the
ellipsoid to the end the handle has its axes (`Fits`). `Formed`: only an
ellipsoid like that of WGS84 makes a handle of that datum type. `Fits` needs the
most: `EllipsoidMeasured` follows the search of an axis and of a flattening over
the list with the two words of its ellipsoid behind it, and for that the first
entry of a key has to be known before and after something is appended
(`FirstIs`, `FirstGiven`). The parameters an init file adds are a recursive
function of its words, and what holds of them is proved by induction
(`Induction`). The assumptions are those of the constants and
`SpellingAssumption`, that what is spelt out in the tables is a string, which the
provers do not know of a literal and TLC evaluates.

`Induction` holds what these proofs share: a set of naturals that has a member
has a least one, which is its `Min`; induction over naturals and over intervals,
stated for a set instead of a predicate, since the provers do not instantiate the
predicates of the library's own theorems; and that a function defined from the
value before exists and is what its definition says.

`SimplifierProofs` proves `SafelySimplified`, for any lines and rings in any
order and any tolerance: a segment that replaces a section crosses nothing that
stands, from the moment it is made; the indexes hold what stands; lines keep
their ends and rings four points; every point that goes was within the tolerance
of the segment that passes it; no point goes that Douglas-Peucker keeps, and
where nothing is in the way the two leave the same (`SimplifiedSafely`). The
crossings are nearly inductive by themselves, given that the indexes are current,
as the code asks both before it flattens. The rest needs the stack of calls.
`Sound`: the sections to do follow each other from the end of the result to the
last point, and a call is never deeper than the segments made and the calls left
together. That is why the code may weigh its depth against the number of points:
a ring of which something is flattened ends with three segments, one of which
nothing is ends with all. `Follows` and `Equals`: what Douglas-Peucker leaves of
the sections to do, with the result so far, is what it leaves of the line. It is a
recursive function of sections; `PeuckerUnfold` shows that it is defined, by
induction over their length, with `Furthest`: among the points between two there
is a first that is furthest, since fractions are ordered (`CloserOrder`). The
assumptions are that points have integer coordinates and that a line has two
points and a ring four, which the constructors of both require.

`RobustProofs` proves `RetriesAlwaysSound` of `BinaryOp`, for all operands, with
the fixed precision model or without, and for processors whose shifts wrap or not.
`BinaryIInv` says where an answer and an exception come from: the tries follow each
other and keep the first exception (`TriesInOrder`), the coordinate removed is the
one the operands share (`Removed`), an answer is made of the operands or of the
snapped ones (`MadeOf`), and a ring refused is one that snapping opened
(`Refused`). That this is sound is shown of the operators, and is the larger part:

- `CommonInBlock`: numbers of one aligned block share a number of that block,
  whatever the order they are added in, since clearing low bits stays in the block
  (`ClearedInBlock`, `AddStaysInBlock`); numbers of either sign share nothing
  (`CommonOfSigns`);
- `TranslatedBack`: moving an operand by the common coordinate and back leaves it
  as it was;
- `VerticesNear`, `SegmentsSnapped` and `SnapsKeepOrder`: snapping moves a vertex
  by no more than the tolerance, the last of a ring by no more than two, and puts
  each further point between two others near it, by induction over the snap points;
- `OpensBetweenClose`: a ring is opened only when two targets are close.

The assumptions are that operands have points with integer coordinates, that a
ring is closed, which its constructor asks for, and that the scale is positive.

It proves `UnionAlwaysWhole` of `CascadedUnion`, for any polygons, each in one
piece, and any tree over them. A part of a set of cells is the least set that is
closed under neighbours (`PartIs`), so sets that are closed in their union keep
their parts (`PartsOfBoth`). Cells side by side bring both envelopes together and
put the parts they belong to within the common envelope (`SideBySide`); therefore
what `unionOptimized` leaves away from the overlay is closed, and the union of two
whole geometries is whole (`CombinedWhole`). `BinaryUnionWhole` extends this to
the halves of a list, by induction over their length, and `UnionTreeWhole` to the
nodes of the tree. Beyond the polygons being finite and in one piece nothing is
assumed; the overlay is taken as correct by the model.

Of `IteratedNoder` it proves `RoundsAreBounded`: repeated noding takes
at most MAX_ITER + MaxNodes rounds, whatever each round finds. Behind it stands
`Spent`: beyond MAX_ITER every further round has found fewer intersections than
the one before, so rounds and intersections left together do not grow.

It proves `BufferServesWell` of `BufferOp`, for any number of digits, distances
and calls on one object: an exception comes out only after every precision has
failed or at one that is not about topology, and what is handed out was computed
at the finest precision that served, or was left in the object by an earlier
call. `BufferIInv` adds what the loop knows: all precisions above the current
one were tried and failed, and the exception kept is the first one.

`STRtreeProofs` proves, for any capacity above one, any set of envelopes, any
number of items and whatever order the sort leaves equal centres in:

- `TreeAlwaysSound`: no node of the tree has too many children, none but the root
  is without, levels balance, no boundable has two parents, and cached bounds
  cover what is under them (`TreeSound`);
- `TreeIsExactIndex`: `Spec => Contract`, that is, the tree implements
  `SpatialIndex` step by step. The build loses no item, a query finds exactly
  what meets the search envelope, an item that is named with its own envelope is
  removed, and nothing else is.

`IInv` consists of the types, of `SoundTree`, and of `Stage`. `SoundTree` holds of
the nodes from the first to the last day of a tree: a child is an item or an
earlier node (`Tree`) and one level below its parent (`Levels`), no boundable has
two parents (`OneParent`), every node that is a child has children (`KidsFilled`)
and knows its bounds (`KnownBelow`), and bounds that are known cover the items
under the node (`Covered`). `TreeSound` needs all of them: bounds stay large enough
after a removal because they are computed when everything below has its bounds,
and never again; and a removal leaves the items of every other node alone because
only one node of each level is on its way (`RemovedOnce`, from `OneParent`, and
`RemovedDeep`, from `Levels`). `Stage` says how far the build is: nothing packed,
a level under way (`Underway`: its nodes are the last ones, have no parents and
hold every item between them), or the root alone. Three steps carry the proof.
`ParentsPack`: the slices and the runs within them put each boundable into
exactly one group, and no group is empty; behind it is `SlicesFit`, by which the
ceilings of quotient and square root leave no slice without a boundable. This
makes the NULL bounds that `BuildLevel` tests for unreachable.
`PrunedSound`: a removal, and the pruning of what it empties, keeps every part of
`SoundTree`. `MatchesExactly`: skipping the nodes whose bounds do not meet the
search envelope loses nothing. The walks over the tree are recursive functions of
the node; that they are defined, and what they return, is shown with
`RecursionExists` and `StrongInduction` of `Induction` (`GatheredUnfold`,
`RemovedUnfold`, `PrunedUnfold`), as are the folds over children
(`ComputeBoundsCovers`, `RunsPack`, `WithoutGone`). The assumptions are that a node
may have two children, which the constructor asserts, that the two ends of an
envelope are in order, which `Envelope::init` sees to, and that the bound on
insertions is a number.

Only model-checked: the smaller indexes, the overlay, relate, validity and the
linework tools. Most of their modules
declare RECURSIVE operators, over trees, rings and graphs, and no prover runs in
a module that reaches one; what they check besides is a comparison with a
reference that is only decided on an instance (the faces of an arrangement, the
cells of a mesh). Liveness is model-checked, too: the prover does not do it.

## Not modelled

- Numbers: projections, interpolation, computed intersections, offset curves,
  hulls, centroids, distances. The models say which cases there
  are and let every case happen, or stay on integers where doubles are exact.
- The headers of grid files (`pj_gridinfo_init_*`): a grid is there with its
  table and children. With them, the length check of a name at
  `pj_gridlist.c:245`.
- Noding of an overlay. The arrangement is noded by construction, which is what
  the passes behind it assume; what the retries do when it is not so is
  `BinaryOp` and `BufferOp`.
- Collapses in the interior of an area ("gores"). The comment at
  `EdgeEndStar.cpp:121` says that its labelling is wrong for them; spikes
  outside the area are modelled. The depths of a buffer's subgraphs depend on
  the offset curves and stay out with them.
- Collections that mix dimensions in relate, rings given by themselves,
  coordinates that are not finite, and the point-by-point path for rectangles
  against geometries of more than 200 points.
- Elevations, memory management but for that of `pj_init`, logging, text,
  readers and writers, the C interface, generated wrappers, tests and
  documentation, the demonstration (two fixed queries), and SpatiaLite itself,
  which is not in the repository.

The two libraries have some 137,000 lines, and the greater part of them is of
the last two kinds and of the first: closed formulas and floating-point
geometry, wrappers for other languages, tests, and text. What is mapped is the
part with control worth checking.

## Plan

Done: grid catalogue, grid shift and transformation with their proofs, the
initialisation of handles, all indexes, the overlay, the linework tools, the
retries and unions, simplification, relate, the predicates and validity.

Left, in this order:

1. the depths of buffer subgraphs over `Arrangement` and `TopologyLabel`, with
   offset curves as an input;
2. the handles of the C interface, from `initGEOS` to `finishGEOS`, and the
   exceptions it turns into codes;
3. proofs: that `Flip` is an involution and
   commutes with merging, and the typing of labels from depths; the smaller
   trees, once their walks are recursive functions as those of the STR tree are.
