--------------------------- MODULE CorrectionTable ---------------------------
(***************************************************************************)
(* LoadCorrectionFile on the calibration thread, or on the one that feeds  *)
(* a bag, while the decoder computes points with the same tables and saves *)
(* them into raw scans: no lock is taken on either side.                   *)
(*                                                                         *)
(* Of an entry of a table only its origin is kept: 0 for the defaults of   *)
(* Init, n for the n-th load, Undefined for memory nobody wrote.           *)
(***************************************************************************)
EXTENDS Integers

CONSTANTS
  Lasers,     \* lasers of the sensor
  ArrayLen,   \* HS_LIDAR_L64_UNIT_NUM, the length of the local arrays
  Contents,   \* texts to load: number of good rows, then a stray line or not
  MaxLoads    \* bound: loads

ASSUME TableAssumption ==
  /\ ArrayLen \in Nat
  /\ Lasers \in 1..ArrayLen
  /\ Contents \subseteq [rows : 0..ArrayLen, stray : BOOLEAN]
  /\ MaxLoads \in Nat

(* m_sin_elevation_map_ and m_cos_elevation_map_ *)
Vectors == {"sin", "cos"}

VARIABLES
  elevation,  \* General_elev_angle_map_
  azimuth,    \* General_horizatal_azimuth_offset_map_
  vector,     \* the elements of the vectors
  size,       \* their sizes
  room,       \* their capacities
  storage,    \* the buffers they point to, numbered as they are allocated
  freed,      \* the vectors that still point to a buffer already freed
  loader,     \* where LoadCorrectionFile is
  content,    \* its argument
  row,        \* its loop variable
  loads,      \* loads begun
  outgrew,    \* the loads with more lines than the vectors had room for
  decoder,    \* what the decoder does with the tables
  laser,      \* the laser, or the row of a save, it is at
  todo,       \* vectors it has not read for this point
  reading,    \* the vector it reads...
  held,       \* ...the buffer it fetched of it...
  since,      \* ...and the first load to overlap with that
  quiet,      \* no load overlapped what the decoder does
  point,      \* the last point: origins of its angles
  saved       \* the correction packet of the last raw scan

arrayVars == <<elevation, azimuth>>
vectorVars == <<vector, size, room, storage, freed>>
loaderVars == <<loader, content, row, loads, outgrew>>
readVars == <<todo, reading, held, since>>
decoderVars == <<decoder, laser, readVars, point, saved>>
vars == <<arrayVars, vectorVars, loaderVars, decoderVars, quiet>>

(* The arrays are longer than any text: MAX_LASER_NUM. *)
Slots == 0..ArrayLen

Rows == 0..(Lasers - 1)

Undefined == -1

-----------------------------------------------------------------------------
(* LoadCorrectionFile *)

(* The first line is skipped and a short one ends the table; a line whose  *)
(* id does not match ends it too, but after it was counted.                *)
LineCounter(c) == c.rows + (IF c.stray THEN 1 ELSE 0)

(* What the local arrays hold for row i. *)
Parsed(i) == IF i < content.rows THEN loads ELSE Undefined

LoadBegins ==
  /\ loader = "idle"
  /\ loads < MaxLoads
  /\ loader' = "sin"
  /\ content' \in Contents
  /\ loads' = loads + 1
  /\ outgrew' = IF \E v \in Vectors : LineCounter(content') > room[v]
                  THEN outgrew \cup {loads'} ELSE outgrew
  /\ row' = 0
  /\ quiet' = FALSE
  /\ UNCHANGED <<arrayVars, vectorVars, decoderVars>>

(* The two vectors are resized one after the other. *)
Resized(v) == IF v = "sin" THEN "cos" ELSE "elevation"

(* resize keeps the elements there are and adds zeros. *)
Kept(v) ==
  [i \in Slots |->
     IF i < size[v] /\ i < LineCounter(content) THEN vector[v][i] ELSE Undefined]

Resize_Clear(v) ==
  /\ loader = v
  /\ LineCounter(content) <= room[v]
  /\ vector' = [vector EXCEPT ![v] = [i \in Slots |-> Undefined]]
  /\ size' = [size EXCEPT ![v] = 0]
  /\ loader' = Resized(v)
  /\ UNCHANGED <<arrayVars, room, storage, freed, content, row, loads, outgrew>>
  /\ UNCHANGED <<decoderVars, quiet>>

(* Where there is room for the lines the buffer stays. *)
Resize(v) ==
  /\ loader = v
  /\ LineCounter(content) <= room[v]
  /\ vector' = [vector EXCEPT ![v] = Kept(v)]
  /\ size' = [size EXCEPT ![v] = LineCounter(content)]
  /\ loader' = Resized(v)
  /\ UNCHANGED <<arrayVars, room, storage, freed, content, row, loads, outgrew>>
  /\ UNCHANGED <<decoderVars, quiet>>

(* Where there is not, the elements are moved to a larger one: the old     *)
(* buffer is freed, and then the vector made to point to the new one.      *)
ResizeFrees(v) ==
  /\ loader = v
  /\ LineCounter(content) > room[v]
  /\ v \notin freed
  /\ freed' = freed \cup {v}
  /\ UNCHANGED <<arrayVars, vector, size, room, storage, loaderVars, decoderVars, quiet>>

Grown(v) ==
  IF LineCounter(content) > 2 * size[v] THEN LineCounter(content) ELSE 2 * size[v]

ResizeMoves(v) ==
  /\ loader = v
  /\ v \in freed
  /\ freed' = freed \ {v}
  /\ storage' = [storage EXCEPT ![v] = @ + 1]
  /\ room' = [room EXCEPT ![v] = Grown(v)]
  /\ vector' = [vector EXCEPT ![v] = Kept(v)]
  /\ size' = [size EXCEPT ![v] = LineCounter(content)]
  /\ loader' = Resized(v)
  /\ UNCHANGED <<arrayVars, content, row, loads, outgrew, decoderVars, quiet>>

(* The rows are copied one by one: elevation, sine, cosine and azimuth. *)
FillElevation ==
  /\ loader = "elevation"
  /\ row < LineCounter(content)
  /\ elevation' = [elevation EXCEPT ![row] = Parsed(row)]
  /\ loader' = "fillSin"
  /\ UNCHANGED <<azimuth, vectorVars, content, row, loads, outgrew, decoderVars, quiet>>

FillVector(v) ==
  /\ loader = IF v = "sin" THEN "fillSin" ELSE "fillCos"
  /\ vector' = [vector EXCEPT ![v] = [@ EXCEPT ![row] = Parsed(row)]]
  /\ loader' = IF v = "sin" THEN "fillCos" ELSE "azimuth"
  /\ UNCHANGED <<arrayVars, size, room, storage, freed, content, row, loads, outgrew>>
  /\ UNCHANGED <<decoderVars, quiet>>

FillAzimuth_Shifted ==
  /\ loader = "azimuth"
  /\ azimuth' = IF row = 0 THEN azimuth ELSE [azimuth EXCEPT ![row - 1] = Parsed(row - 1)]
  /\ row' = row + 1
  /\ loader' = "elevation"
  /\ UNCHANGED <<elevation, vectorVars, content, loads, outgrew, decoderVars, quiet>>

FillAzimuth ==
  /\ loader = "azimuth"
  /\ azimuth' = [azimuth EXCEPT ![row] = Parsed(row)]
  /\ row' = row + 1
  /\ loader' = "elevation"
  /\ UNCHANGED <<elevation, vectorVars, content, loads, outgrew, decoderVars, quiet>>

(* It returns 0, whatever was in the text: a caller's branch for a load    *)
(* that failed is never taken.                                             *)
LoadEnds ==
  /\ loader = "elevation"
  /\ row = LineCounter(content)
  /\ loader' = "idle"
  /\ UNCHANGED <<arrayVars, vectorVars, content, row, loads, outgrew, decoderVars, quiet>>

-----------------------------------------------------------------------------
(* The decoder. *)

Angles == {"azimuth"} \cup Vectors

NoPoint == [a \in Angles |-> 0]

NoRow == [azimuth |-> 0, elevation |-> 0]

(* The Calc functions, one laser: first the azimuth offset... *)
PointBegins ==
  /\ decoder = "idle"
  /\ laser' \in Rows
  /\ point' = [NoPoint EXCEPT !["azimuth"] = azimuth[laser']]
  /\ decoder' = "point"
  /\ todo' = Vectors
  /\ quiet' = (loader = "idle")
  /\ UNCHANGED <<arrayVars, vectorVars, loaderVars, reading, held, since, saved>>

(* ...then the sine and the cosine, in an order that depends on the        *)
(* sensor: operator[] takes the vector's pointer...                        *)
FetchVector(v) ==
  /\ decoder = "point"
  /\ v \in todo
  /\ decoder' = "reading"
  /\ reading' = v
  /\ held' = storage[v]
  /\ since' = IF loader = "idle" THEN loads + 1 ELSE loads
  /\ UNCHANGED <<arrayVars, vectorVars, loaderVars, laser, todo, point, saved, quiet>>

Live == held = storage[reading] /\ reading \notin freed

(* ...and reads where it points, some functions more than once.  In a      *)
(* buffer that was freed there may be anything.                            *)
ReadVector ==
  /\ decoder = "reading"
  /\ \E value \in {vector[reading][laser]} \cup (IF Live THEN {} ELSE {Undefined}) :
       point' = [point EXCEPT ![reading] = value]
  /\ todo' \in {todo, todo \ {reading}}
  /\ decoder' = "point"
  /\ UNCHANGED <<arrayVars, vectorVars, loaderVars, laser, reading, held, since, saved, quiet>>

PointEnds ==
  /\ decoder = "point"
  /\ todo = {}
  /\ decoder' = "idle"
  /\ UNCHANGED <<arrayVars, vectorVars, loaderVars, laser, readVars, point, saved, quiet>>

(* SaveCorrectionFile at the end of a frame, row by row. *)
SaveBegins ==
  /\ decoder = "idle"
  /\ decoder' = "save"
  /\ laser' = 0
  /\ quiet' = (loader = "idle")
  /\ UNCHANGED <<arrayVars, vectorVars, loaderVars, readVars, point, saved>>

SaveRow ==
  /\ decoder = "save"
  /\ laser < Lasers
  /\ saved' = [saved EXCEPT ![laser] = [azimuth   |-> azimuth[laser],
                                        elevation |-> elevation[laser]]]
  /\ laser' = laser + 1
  /\ UNCHANGED <<arrayVars, vectorVars, loaderVars, decoder, readVars, point, quiet>>

SaveEnds ==
  /\ decoder = "save"
  /\ laser = Lasers
  /\ decoder' = "idle"
  /\ laser' = 0
  /\ UNCHANGED <<arrayVars, vectorVars, loaderVars, readVars, point, saved, quiet>>

-----------------------------------------------------------------------------
(* Init fills the tables for a documented lidar_type; the vectors were     *)
(* empty, so they have room for the lasers of the sensor and no more.      *)
Init ==
  /\ elevation = [i \in Slots |-> IF i \in Rows THEN 0 ELSE Undefined]
  /\ azimuth = [i \in Slots |-> IF i \in Rows THEN 0 ELSE Undefined]
  /\ vector = [v \in Vectors |-> [i \in Slots |-> IF i \in Rows THEN 0 ELSE Undefined]]
  /\ size = [v \in Vectors |-> Lasers]
  /\ room = [v \in Vectors |-> Lasers]
  /\ storage = [v \in Vectors |-> 0]
  /\ freed = {}
  /\ loader = "idle"
  /\ content \in Contents
  /\ row = 0
  /\ loads = 0
  /\ outgrew = {}
  /\ decoder = "idle"
  /\ laser = 0
  /\ todo = {}
  /\ reading = "sin"
  /\ held = 0
  /\ since = 0
  /\ quiet = TRUE
  /\ point = NoPoint
  /\ saved = [i \in Rows |-> NoRow]

Next ==
  \/ LoadBegins \/ FillElevation \/ FillAzimuth \/ LoadEnds
  \/ \E v \in Vectors : Resize(v) \/ ResizeFrees(v) \/ ResizeMoves(v) \/ FillVector(v)
  \/ PointBegins \/ (\E v \in Vectors : FetchVector(v)) \/ ReadVector \/ PointEnds
  \/ SaveBegins \/ SaveRow \/ SaveEnds

Spec == Init /\ [][Next]_vars

-----------------------------------------------------------------------------
(* What the decoder reads of a vector is there: in a buffer that was not   *)
(* freed, before the end of the vector, and once written.  That holds at   *)
(* any moment of a load whose lines the vectors have room for, and again   *)
(* after one they had to grow for.  While they grow it does not: nothing   *)
(* keeps the decoder from the old buffer.                                  *)
ReadsInVector ==
  decoder = "reading" /\ (\A n \in since..loads : n \notin outgrew) =>
    /\ Live
    /\ laser < size[reading]
    /\ vector[reading][laser] # Undefined

(* What no load overlaps is of one piece: a point takes all its angles     *)
(* from the last table loaded, not from a mixture and not from the row a   *)
(* stray line left behind, and so does every row of the table that goes    *)
(* into a raw scan, which a replay of the scan will load.                  *)
QuietReadsUntorn ==
  [][decoder # "idle" /\ decoder' = "idle" /\ quiet =>
       IF decoder = "point"
         THEN \A a \in Angles : point[a] = loads
         ELSE \A i \in Rows : saved[i] = [azimuth |-> loads, elevation |-> loads]]_vars
=============================================================================
