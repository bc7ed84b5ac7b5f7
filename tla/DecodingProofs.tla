--------------------------- MODULE DecodingProofs ---------------------------
(***************************************************************************)
(* What the decoder reads and what it writes: the correction tables that   *)
(* are loaded under it, the frames its points are moved to, the packets it *)
(* parses and the messages it makes of the points.                         *)
(***************************************************************************)
EXTENDS CorrectionTable, Transforms, PacketLayouts, CompactCloud, TLAPS

-----------------------------------------------------------------------------
(* Correction tables: loading one under the decoder is harmless as long as *)
(* every table has a row for every laser and the vectors have room for it, *)
(* for any number of lasers, of rows and of loads.                         *)

(* What the sensor sends and what its correction file should hold.  The    *)
(* code does not check it.                                                 *)
CompleteTables == \A c \in Contents : c.rows >= Lasers

SavedRows == [azimuth : Int, elevation : Int]

FillingRow == {"fillSin", "fillCos", "azimuth"}

TableType ==
  /\ elevation \in [Slots -> Int] /\ azimuth \in [Slots -> Int]
  /\ vector \in [Vectors -> [Slots -> Int]]
  /\ size \in [Vectors -> Nat] /\ room \in [Vectors -> Nat] /\ storage \in [Vectors -> Nat]
  /\ freed \subseteq Vectors
  /\ loader \in {"idle", "sin", "cos", "elevation", "fillSin", "fillCos", "azimuth"}
  /\ content \in Contents
  /\ row \in Nat /\ loads \in Nat
  /\ decoder \in {"idle", "point", "reading", "save"}
  /\ laser \in 0 .. Lasers
  /\ decoder \in {"point", "reading"} => laser \in Rows
  /\ todo \subseteq Vectors /\ reading \in Vectors /\ held \in Nat /\ since \in Nat
  /\ point \in [Angles -> Int]
  /\ saved \in [Rows -> SavedRows]

(* The vectors never get shorter than the sensor needs. *)
VectorInv ==
  \A v \in Vectors : size[v] >= Lasers /\ \A i \in Rows : vector[v][i] # Undefined

(* A load that must grow a vector is known to from its beginning. *)
RoomInv ==
  \A v \in Vectors :
    /\ v \in freed => loader = v /\ loads \in outgrew /\ LineCounter(content) > room[v]
    /\ loader \in {"sin", v} /\ LineCounter(content) > room[v] => loads \in outgrew

(* The decoder holds the vector's storage, unless such a load moved it. *)
HeldInv ==
  decoder = "reading" =>
    /\ since <= loads + 1
    /\ loader # "idle" => since <= loads
    /\ held # storage[reading] => \E n \in since..loads : n \in outgrew

(* Row i of every table comes from the last load. *)
FromLast(i) ==
  azimuth[i] = loads /\ elevation[i] = loads /\ \A v \in Vectors : vector[v][i] = loads

LoadInv ==
  /\ loader \in {"sin", "cos"} => row = 0
  /\ loader = "elevation" => row <= LineCounter(content)
  /\ loader \in FillingRow => row < LineCounter(content)
  /\ loader = "idle" => \A i \in Rows : FromLast(i)
  /\ loader \in {"elevation"} \cup FillingRow => \A i \in Rows : i < row => FromLast(i)
  /\ row \in Rows =>
       /\ loader \in FillingRow => elevation[row] = loads
       /\ loader \in {"fillCos", "azimuth"} => vector["sin"][row] = loads
       /\ loader = "azimuth" => vector["cos"][row] = loads

(* What the decoder does undisturbed it does with the last table. *)
QuietInv ==
  quiet /\ decoder # "idle" =>
    /\ loader = "idle"
    /\ decoder \in {"point", "reading"} => \A a \in Angles \ todo : point[a] = loads
    /\ decoder = "reading" => since = loads + 1
    /\ decoder = "save" =>
         \A i \in Rows : i < laser => saved[i] = [azimuth |-> loads, elevation |-> loads]

TableInv == TableType /\ VectorInv /\ RoomInv /\ HeldInv /\ LoadInv /\ QuietInv

-----------------------------------------------------------------------------
(* The rows of the sensor are slots of the tables. *)
LEMMA RowsAreSlots ==
  /\ Lasers \in Nat /\ Lasers >= 1 /\ ArrayLen \in Nat /\ Lasers <= ArrayLen
  /\ Rows \subseteq Slots
  /\ \A i \in Rows : i \in Nat /\ i < Lasers
  /\ \A i \in 0 .. Lasers : i < Lasers => i \in Rows
BY TableAssumption DEF Rows, Slots

(* A text counts at least the rows of the sensor and fits the tables. *)
LEMMA LinesBounded ==
  ASSUME CompleteTables, NEW c \in Contents
  PROVE  /\ LineCounter(c) \in Nat
         /\ Lasers <= c.rows /\ c.rows <= LineCounter(c)
         /\ LineCounter(c) <= ArrayLen + 1
         /\ c.rows \in Nat
<1>1. c \in [rows : 0..ArrayLen, stray : BOOLEAN] /\ ArrayLen \in Nat
  BY TableAssumption
<1>2. c.rows \in 0 .. ArrayLen /\ c.rows >= Lasers
  BY <1>1 DEF CompleteTables
<1> QED BY <1>1, <1>2 DEF LineCounter

(* A row that is filled for a laser gets the angle of the text. *)
LEMMA ParsedRow ==
  ASSUME CompleteTables, TableType
  PROVE  /\ \A i \in Rows : Parsed(i) = loads
         /\ \A i \in Nat : Parsed(i) \in Int
<1>1. \A i \in Rows : i \in Nat /\ i < content.rows
  BY RowsAreSlots, LinesBounded DEF TableType
<1>2. \A i \in Rows : Parsed(i) = loads
  BY <1>1 DEF Parsed
<1>3. \A i \in Nat : Parsed(i) \in Int
  BY DEF Parsed, Undefined, TableType
<1> QED BY <1>2, <1>3

(* What resize makes of a vector's elements: those of the rows stay. *)
LEMMA ElementsKept ==
  ASSUME CompleteTables, TableInv, NEW v \in Vectors
  PROVE  /\ Kept(v) \in [Slots -> Int]
         /\ \A i \in Rows : Kept(v)[i] = vector[v][i]
         /\ Grown(v) \in Nat
         /\ LineCounter(content) \in Nat /\ Lasers <= LineCounter(content)
<1>0. TableType /\ VectorInv
  BY DEF TableInv
<1>1. LineCounter(content) \in Nat /\ Lasers <= LineCounter(content) /\ Lasers \in Nat
  BY <1>0, LinesBounded, RowsAreSlots DEF TableType
<1>2. vector[v] \in [Slots -> Int] /\ size[v] \in Nat /\ size[v] >= Lasers
  BY <1>0 DEF TableType, VectorInv
<1>3. Kept(v) \in [Slots -> Int]
  BY <1>2 DEF Kept, Undefined
<1>4. ASSUME NEW i \in Rows PROVE Kept(v)[i] = vector[v][i]
  <2>1. i \in Slots /\ i < size[v] /\ i < LineCounter(content)
    BY <1>1, <1>2, RowsAreSlots
  <2> QED BY <2>1 DEF Kept
<1>5. Grown(v) \in Nat
  BY <1>1, <1>2 DEF Grown
<1> QED BY <1>1, <1>3, <1>4, <1>5

-----------------------------------------------------------------------------
LEMMA TypeStep ==
  ASSUME CompleteTables, TableInv, [Next]_vars
  PROVE  TableType'
<1>0. TableType /\ LoadInv
  BY DEF TableInv
<1>1. CASE LoadBegins
  BY <1>0, <1>1 DEF LoadBegins, TableType, arrayVars, vectorVars, decoderVars, readVars
<1>2. ASSUME NEW v \in Vectors, Resize(v) PROVE TableType'
  <2>1. vector' \in [Vectors -> [Slots -> Int]] /\ size' \in [Vectors -> Nat]
    BY <1>0, <1>2, ElementsKept DEF Resize, TableType
  <2>2. loader' \in {"cos", "elevation"}
    BY <1>2 DEF Resize, Resized
  <2> QED BY <1>0, <1>2, <2>1, <2>2 DEF Resize, TableType, arrayVars, decoderVars, readVars
<1>3. ASSUME NEW v \in Vectors, ResizeFrees(v) PROVE TableType'
  BY <1>0, <1>3 DEF ResizeFrees, TableType, arrayVars, loaderVars, decoderVars, readVars
<1>4. ASSUME NEW v \in Vectors, ResizeMoves(v) PROVE TableType'
  <2>1. /\ vector' \in [Vectors -> [Slots -> Int]] /\ size' \in [Vectors -> Nat]
        /\ room' \in [Vectors -> Nat]
    BY <1>0, <1>4, ElementsKept DEF ResizeMoves, TableType
  <2>2. storage' \in [Vectors -> Nat] /\ freed' \subseteq Vectors
    BY <1>0, <1>4 DEF ResizeMoves, TableType
  <2>3. loader' \in {"cos", "elevation"}
    BY <1>4 DEF ResizeMoves, Resized
  <2> QED BY <1>0, <1>4, <2>1, <2>2, <2>3
        DEF ResizeMoves, TableType, arrayVars, decoderVars, readVars
<1>5. CASE FillElevation
  <2>1. Parsed(row) \in Int
    BY <1>0, ParsedRow DEF TableType
  <2>2. elevation' \in [Slots -> Int]
    BY <1>0, <1>5, <2>1 DEF FillElevation, TableType
  <2> QED BY <1>0, <1>5, <2>2 DEF FillElevation, TableType, vectorVars, decoderVars, readVars
<1>6. ASSUME NEW v \in Vectors, FillVector(v) PROVE TableType'
  <2>1. Parsed(row) \in Int
    BY <1>0, ParsedRow DEF TableType
  <2>2. [vector[v] EXCEPT ![row] = Parsed(row)] \in [Slots -> Int]
    BY <1>0, <2>1 DEF TableType
  <2>3. vector' \in [Vectors -> [Slots -> Int]]
    BY <1>0, <1>6, <2>2 DEF FillVector, TableType
  <2>4. loader' \in {"fillCos", "azimuth"}
    BY <1>6 DEF FillVector
  <2> QED BY <1>0, <1>6, <2>3, <2>4 DEF FillVector, TableType, arrayVars, decoderVars, readVars
<1>7. CASE FillAzimuth
  <2>1. Parsed(row) \in Int
    BY <1>0, ParsedRow DEF TableType
  <2>2. azimuth' \in [Slots -> Int]
    BY <1>0, <1>7, <2>1 DEF FillAzimuth, TableType
  <2> QED BY <1>0, <1>7, <2>2 DEF FillAzimuth, TableType, vectorVars, decoderVars, readVars
<1>8. CASE LoadEnds
  BY <1>0, <1>8 DEF LoadEnds, TableType, arrayVars, vectorVars, decoderVars, readVars
<1>9. CASE PointBegins
  <2>1. laser' \in Rows /\ azimuth[laser'] \in Int /\ laser' \in 0 .. Lasers
    BY <1>0, <1>9, RowsAreSlots DEF PointBegins, TableType
  <2>2. point' \in [Angles -> Int]
    <3>1. NoPoint \in [Angles -> Int]
      BY DEF NoPoint
    <3> HIDE DEF NoPoint
    <3> QED BY <1>9, <2>1, <3>1 DEF PointBegins
  <2> QED BY <1>0, <1>9, <2>1, <2>2 DEF PointBegins, TableType, arrayVars, vectorVars, loaderVars
<1>10. ASSUME NEW v \in Vectors, FetchVector(v) PROVE TableType'
  <2>1. held' \in Nat /\ since' \in Nat
    BY <1>0, <1>10 DEF FetchVector, TableType
  <2> QED BY <1>0, <1>10, <2>1 DEF FetchVector, TableType, arrayVars, vectorVars, loaderVars
<1>11. CASE ReadVector
  <2>1. vector[reading][laser] \in Int /\ Undefined \in Int /\ reading \in Angles
    BY <1>0, <1>11, RowsAreSlots DEF ReadVector, TableType, Undefined, Angles
  <2>2. PICK value : /\ value \in {vector[reading][laser], Undefined}
                     /\ point' = [point EXCEPT ![reading] = value]
    BY <1>11 DEF ReadVector
  <2>3. point' \in [Angles -> Int]
    BY <1>0, <2>1, <2>2 DEF TableType
  <2>4. todo' \subseteq Vectors
    BY <1>0, <1>11 DEF ReadVector, TableType
  <2> QED BY <1>0, <1>11, <2>3, <2>4 DEF ReadVector, TableType, arrayVars, vectorVars, loaderVars
<1>12. CASE PointEnds
  BY <1>0, <1>12 DEF PointEnds, TableType, arrayVars, vectorVars, loaderVars, readVars
<1>13. CASE SaveBegins
  BY <1>0, <1>13, RowsAreSlots
    DEF SaveBegins, TableType, arrayVars, vectorVars, loaderVars, readVars
<1>14. CASE SaveRow
  <2>1. laser \in Rows /\ azimuth[laser] \in Int /\ elevation[laser] \in Int
    BY <1>0, <1>14, RowsAreSlots DEF SaveRow, TableType
  <2>2. saved' \in [Rows -> SavedRows]
    BY <1>0, <1>14, <2>1 DEF SaveRow, TableType, SavedRows
  <2>3. laser' \in 0 .. Lasers
    BY <1>0, <1>14, RowsAreSlots DEF SaveRow, TableType
  <2> QED BY <1>0, <1>14, <2>2, <2>3
        DEF SaveRow, TableType, arrayVars, vectorVars, loaderVars, readVars
<1>15. CASE SaveEnds
  BY <1>0, <1>15, RowsAreSlots
    DEF SaveEnds, TableType, arrayVars, vectorVars, loaderVars, readVars
<1>16. CASE UNCHANGED vars
  BY <1>0, <1>16 DEF vars, TableType, arrayVars, vectorVars, loaderVars, decoderVars, readVars
<1> QED BY <1>1, <1>2, <1>3, <1>4, <1>5, <1>6, <1>7, <1>8, <1>9, <1>10, <1>11, <1>12, <1>13,
           <1>14, <1>15, <1>16 DEF Next

(* What a step does to the vectors: it resizes or fills one, or neither. *)
LEMMA VectorsTouched ==
  ASSUME [Next]_vars
  PROVE  \/ LoadBegins
         \/ \E v \in Vectors : Resize(v) \/ ResizeFrees(v) \/ ResizeMoves(v) \/ FillVector(v)
         \/ UNCHANGED <<vectorVars, loads, content, outgrew>>
BY DEF Next, FillElevation, FillAzimuth, LoadEnds, PointBegins, FetchVector, ReadVector,
       PointEnds, SaveBegins, SaveRow, SaveEnds, loaderVars, vars

(* resize keeps what the decoder reads. *)
LEMMA VectorStep ==
  ASSUME CompleteTables, TableInv, [Next]_vars
  PROVE  VectorInv'
<1>0. TableType /\ VectorInv
  BY DEF TableInv
<1>1. ASSUME NEW v \in Vectors, Resize(v) \/ ResizeMoves(v) PROVE VectorInv'
  <2>1. /\ vector' = [vector EXCEPT ![v] = Kept(v)]
        /\ size' = [size EXCEPT ![v] = LineCounter(content)]
    BY <1>1 DEF Resize, ResizeMoves
  <2>2. /\ \A i \in Rows : Kept(v)[i] = vector[v][i]
        /\ LineCounter(content) \in Nat /\ Lasers <= LineCounter(content)
    BY ElementsKept
  <2> HIDE DEF Kept
  <2>3. \A w \in Vectors : \A i \in Rows : vector'[w][i] = vector[w][i]
    BY <1>0, <2>1, <2>2 DEF TableType
  <2>4. \A w \in Vectors : size'[w] >= Lasers
    BY <1>0, <2>1, <2>2, RowsAreSlots DEF TableType, VectorInv
  <2> QED BY <1>0, <2>3, <2>4 DEF VectorInv
<1>2. ASSUME NEW v \in Vectors, FillVector(v) PROVE VectorInv'
  <2>1. Undefined # loads /\ row \in Nat
    BY <1>0 DEF TableType, Undefined
  <2>2. vector' = [vector EXCEPT ![v] = [vector[v] EXCEPT ![row] = Parsed(row)]] /\ size' = size
    BY <1>2 DEF FillVector
  <2>3. \A i \in Rows : row = i => Parsed(row) = loads
    BY <1>0, ParsedRow
  <2>4. \A w \in Vectors : \A i \in Rows : vector'[w][i] = vector[w][i] \/ vector'[w][i] = loads
    BY <1>0, <2>1, <2>2, <2>3, RowsAreSlots DEF TableType
  <2> QED BY <1>0, <2>1, <2>2, <2>4 DEF VectorInv
<1>3. CASE UNCHANGED <<vector, size>>
  BY <1>0, <1>3 DEF VectorInv
<1> QED BY <1>1, <1>2, <1>3, VectorsTouched DEF LoadBegins, ResizeFrees, vectorVars

(* A vector is freed only under a load known to outgrow it. *)
LEMMA RoomStep ==
  ASSUME CompleteTables, TableInv, [Next]_vars
  PROVE  RoomInv'
<1>0. TableType /\ RoomInv
  BY DEF TableInv
<1>1. CASE LoadBegins
  <2>1. /\ freed' = freed /\ room' = room /\ loader = "idle" /\ loads' = loads + 1
        /\ outgrew' = IF \E v \in Vectors : LineCounter(content') > room[v]
                        THEN outgrew \cup {loads'} ELSE outgrew
    BY <1>1 DEF LoadBegins, vectorVars
  <2>2. \A v \in Vectors : v \notin freed
    BY <1>0, <2>1 DEF RoomInv, Vectors
  <2>3. \A v \in Vectors : LineCounter(content') > room[v] => loads' \in outgrew'
    BY <2>1
  <2>4. (\A v \in Vectors : LineCounter(content) > room[v] => loads \in outgrew)'
    BY <2>1, <2>3
  <2> QED BY <2>1, <2>2, <2>4 DEF RoomInv
<1>2. ASSUME NEW v \in Vectors, Resize(v) \/ ResizeMoves(v) PROVE RoomInv'
  <2>1. /\ loader = v /\ loader' = Resized(v) /\ UNCHANGED <<content, loads, outgrew>>
        /\ \A w \in Vectors \ {v} : room'[w] = room[w]
        /\ freed' \subseteq freed
        /\ v \in freed' => v \in freed /\ LineCounter(content) <= room[v]
    BY <1>0, <1>2 DEF Resize, ResizeMoves, TableType
  <2>2. \A w \in Vectors : w \notin freed'
    <3>1. \A w \in Vectors : w \in freed => w = v
      BY <1>0, <2>1 DEF RoomInv
    <3>2. v \notin freed'
      <4>1. CASE Resize(v)
        <5>1. freed' = freed /\ LineCounter(content) <= room[v]
          BY <4>1 DEF Resize
        <5>2. LineCounter(content) \in Nat /\ room[v] \in Nat
          BY <1>0, LinesBounded DEF TableType
        <5> QED BY <1>0, <5>1, <5>2 DEF RoomInv
      <4>2. CASE ResizeMoves(v)
        BY <4>2 DEF ResizeMoves
      <4> QED BY <1>2, <4>1, <4>2
    <3> QED BY <2>1, <3>1, <3>2
  <2>3. LineCounter(content)' = LineCounter(content)
    BY <2>1 DEF LineCounter
  <2>4. \A w \in Vectors : loader' \in {"sin", w} => w = "cos" /\ v = "sin" /\ loader = "sin"
    BY <2>1 DEF Resized, Vectors
  <2>5. \A w \in Vectors :
          loader' \in {"sin", w} /\ LineCounter(content)' > room'[w] => loads' \in outgrew'
    <3> SUFFICES ASSUME NEW w \in Vectors, loader' \in {"sin", w},
                        LineCounter(content)' > room'[w]
                 PROVE  loads' \in outgrew'
      OBVIOUS
    <3>1. w = "cos" /\ v = "sin" /\ loader = "sin"
      BY <2>4
    <3>2. room'[w] = room[w]
      BY <2>1, <3>1
    <3>3. loads \in outgrew
      BY <1>0, <2>3, <3>1, <3>2 DEF RoomInv
    <3> QED BY <2>1, <3>3
  <2> QED BY <2>2, <2>5 DEF RoomInv
<1>3. ASSUME NEW v \in Vectors, ResizeFrees(v) PROVE RoomInv'
  <2>1. /\ loader = v /\ freed' = freed \cup {v}
        /\ UNCHANGED <<loader, content, loads, outgrew, room>>
        /\ LineCounter(content) > room[v]
    BY <1>3 DEF ResizeFrees, loaderVars
  <2>2. loads \in outgrew
    BY <1>0, <2>1 DEF RoomInv
  <2> QED BY <1>0, <2>1, <2>2 DEF RoomInv, LineCounter
<1>4. ASSUME NEW v \in Vectors, FillVector(v) PROVE RoomInv'
  <2>1. /\ UNCHANGED <<freed, content, loads, outgrew, room>>
        /\ loader \in {"fillSin", "fillCos"} /\ loader' \in {"fillCos", "azimuth"}
    BY <1>4 DEF FillVector
  <2> QED BY <1>0, <2>1 DEF RoomInv, LineCounter, Vectors
<1>5. CASE UNCHANGED <<vectorVars, loaderVars>>
  BY <1>0, <1>5 DEF RoomInv, LineCounter, vectorVars, loaderVars
<1>6. CASE FillElevation \/ FillAzimuth \/ LoadEnds
  <2>1. /\ UNCHANGED <<freed, content, loads, outgrew, room>>
        /\ loader \in {"elevation", "azimuth"} /\ loader' \in {"fillSin", "elevation", "idle"}
    BY <1>6 DEF FillElevation, FillAzimuth, LoadEnds, vectorVars
  <2> QED BY <1>0, <2>1 DEF RoomInv, LineCounter, Vectors
<1> QED BY <1>1, <1>2, <1>3, <1>4, <1>5, <1>6
      DEF Next, PointBegins, FetchVector, ReadVector, PointEnds, SaveBegins, SaveRow, SaveEnds,
          vars

(* The decoder's buffer stays the vector's until a load outgrows it. *)
LEMMA HeldStep ==
  ASSUME CompleteTables, TableInv, [Next]_vars
  PROVE  HeldInv'
<1>0. TableType /\ RoomInv /\ HeldInv
  BY DEF TableInv
<1> USE <1>0
<1>1. CASE LoadBegins
  <2>1. /\ loads' = loads + 1 /\ outgrew \subseteq outgrew' /\ loader = "idle"
        /\ UNCHANGED <<decoder, reading, held, since, storage>>
    BY <1>1 DEF LoadBegins, vectorVars, decoderVars, readVars
  <2>2. loads \in Nat /\ since \in Nat
    BY DEF TableType
  <2>3. \A n : n \in since..loads => n \in since..(loads + 1)
    BY <2>2
  <2> QED BY <2>1, <2>2, <2>3 DEF HeldInv
<1>2. ASSUME NEW v \in Vectors, ResizeMoves(v) PROVE HeldInv'
  <2>1. /\ loader = v /\ v \in freed /\ storage' = [storage EXCEPT ![v] = @ + 1]
        /\ UNCHANGED <<decoder, reading, held, since, loads, outgrew>> /\ loader # "idle"
    BY <1>2 DEF ResizeMoves, decoderVars, readVars, Vectors
  <2>2. loads \in outgrew /\ loads \in Nat /\ since \in Nat
    BY <2>1 DEF RoomInv, TableType
  <2>3. SUFFICES ASSUME decoder = "reading" PROVE HeldInv'
    BY <2>1 DEF HeldInv
  <2>4. since <= loads
    BY <2>1, <2>3 DEF HeldInv
  <2>5. loads \in since..loads
    BY <2>2, <2>4
  <2> QED BY <2>1, <2>2, <2>4, <2>5 DEF HeldInv
<1>3. ASSUME NEW v \in Vectors, FetchVector(v) PROVE HeldInv'
  <2>1. /\ held' = storage'[reading'] /\ loads' = loads /\ loader' = loader
        /\ since' = IF loader = "idle" THEN loads + 1 ELSE loads
    BY <1>3 DEF FetchVector, vectorVars, loaderVars
  <2>2. loads \in Nat
    BY DEF TableType
  <2> QED BY <2>1, <2>2 DEF HeldInv
<1>4. ASSUME UNCHANGED <<storage, loads, outgrew, reading, held, since>>,
             decoder' = "reading" => decoder = "reading",
             loader' # "idle" => loader # "idle"
      PROVE  HeldInv'
  BY <1>4 DEF HeldInv
<1>5. CASE PointBegins \/ ReadVector \/ PointEnds \/ SaveBegins \/ SaveRow \/ SaveEnds
  BY <1>4, <1>5 DEF PointBegins, ReadVector, PointEnds, SaveBegins, SaveRow, SaveEnds,
     vectorVars, loaderVars, readVars
<1>6. CASE FillElevation \/ FillAzimuth \/ LoadEnds
  BY <1>4, <1>6 DEF FillElevation, FillAzimuth, LoadEnds, vectorVars, decoderVars, readVars
<1>7. ASSUME NEW v \in Vectors, Resize(v) \/ ResizeFrees(v) \/ FillVector(v) PROVE HeldInv'
  <2>1. /\ UNCHANGED <<storage, loads, outgrew, reading, held, since, decoder>>
        /\ loader # "idle"
    BY <1>7 DEF Resize, ResizeFrees, FillVector, loaderVars, decoderVars, readVars, Vectors
  <2> QED BY <1>4, <2>1
<1>8. CASE UNCHANGED vars
  BY <1>4, <1>8 DEF vars, vectorVars, loaderVars, decoderVars, readVars
<1> QED BY <1>1, <1>2, <1>3, <1>5, <1>6, <1>7, <1>8 DEF Next

(* The load works through the rows of the sensor, and past them. *)
LEMMA LoadStep ==
  ASSUME CompleteTables, TableInv, [Next]_vars
  PROVE  LoadInv'
<1>0. TableType /\ LoadInv
  BY DEF TableInv
<1>1. row \in Nat /\ LineCounter(content) \in Nat /\ Lasers <= LineCounter(content)
      /\ \A i \in Rows : i \in Nat /\ i < Lasers /\ i \in Slots
  BY <1>0, LinesBounded, RowsAreSlots DEF TableType
<1>2. CASE LoadBegins
  BY <1>2 DEF LoadBegins, LoadInv, FillingRow
<1>3. ASSUME NEW v \in Vectors, Resize(v) \/ ResizeMoves(v) PROVE LoadInv'
  <2>1. row = 0 /\ row' = 0 /\ loader' \in {"cos", "elevation"} /\ content' = content
    BY <1>0, <1>3 DEF Resize, ResizeMoves, Resized, LoadInv, Vectors
  <2>2. \A i \in Rows : ~(i < row')
    BY <1>1, <2>1
  <2> QED BY <1>1, <2>1, <2>2 DEF LoadInv, LineCounter, FillingRow
<1>4. CASE FillElevation
  <2>1. loader = "elevation" /\ row < LineCounter(content) /\ loader' = "fillSin"
        /\ row' = row /\ content' = content /\ loads' = loads /\ azimuth' = azimuth
        /\ vector' = vector
    BY <1>4 DEF FillElevation, vectorVars
  <2>2. \A i \in Rows : i < row => elevation'[i] = elevation[i]
    BY <1>1, <1>4 DEF FillElevation, TableType
  <2>3. row \in Rows => elevation'[row] = loads
    BY <1>0, <1>1, <1>4, ParsedRow DEF FillElevation, TableType
  <2>4. \A i \in Rows : i < row => FromLast(i)'
    BY <1>0, <2>1, <2>2 DEF LoadInv, FromLast
  <2> QED BY <1>1, <2>1, <2>3, <2>4 DEF LoadInv, LineCounter, FillingRow
<1>5. ASSUME NEW v \in Vectors, FillVector(v) PROVE LoadInv'
  <2>1. /\ loader = IF v = "sin" THEN "fillSin" ELSE "fillCos"
        /\ loader' = IF v = "sin" THEN "fillCos" ELSE "azimuth"
        /\ vector' = [vector EXCEPT ![v] = [vector[v] EXCEPT ![row] = Parsed(row)]]
        /\ UNCHANGED <<row, content, loads, elevation, azimuth>>
    BY <1>5 DEF FillVector, arrayVars
  <2>2. row < LineCounter(content) /\ (row \in Rows => elevation[row] = loads)
        /\ \A i \in Rows : i < row => FromLast(i)
    BY <1>0, <2>1 DEF LoadInv, FillingRow
  <2>3. \A w \in Vectors : \A i \in Rows : i # row \/ w # v => vector'[w][i] = vector[w][i]
    BY <1>0, <1>1, <2>1 DEF TableType
  <2>4. \A i \in Rows : i < row => FromLast(i)'
    <3>1. \A i \in Rows : i < row => i # row
      BY <1>1
    <3> QED BY <2>1, <2>2, <2>3, <3>1 DEF FromLast
  <2>5. row \in Rows => vector'[v][row] = loads
    <3>1. row \in Rows => row \in Slots /\ Parsed(row) = loads
      BY <1>0, <1>1, ParsedRow
    <3> QED BY <1>0, <2>1, <3>1 DEF TableType
  <2>6. v = "cos" /\ row \in Rows => vector'["sin"][row] = loads
    BY <1>0, <2>1, <2>3 DEF LoadInv, Vectors
  <2>7. LineCounter(content') = LineCounter(content)
    BY <2>1
  <2>8. CASE v = "sin"
    BY <2>1, <2>2, <2>4, <2>5, <2>7, <2>8 DEF LoadInv, FillingRow
  <2>9. CASE v = "cos"
    BY <2>1, <2>2, <2>4, <2>5, <2>6, <2>7, <2>9 DEF LoadInv, FillingRow
  <2> QED BY <2>8, <2>9 DEF Vectors
<1>6. CASE FillAzimuth
  <2>1. loader = "azimuth" /\ loader' = "elevation" /\ row' = row + 1 /\ content' = content
        /\ loads' = loads /\ vector' = vector /\ elevation' = elevation
        /\ row < LineCounter(content)
    BY <1>0, <1>6 DEF FillAzimuth, LoadInv, vectorVars, FillingRow
  <2>2. \A i \in Rows : i < row => FromLast(i)'
    <3>1. \A i \in Rows : i < row => azimuth'[i] = azimuth[i]
      BY <1>0, <1>1, <1>6 DEF FillAzimuth, TableType
    <3>2. \A i \in Rows : i < row => FromLast(i)
      BY <1>0, <2>1 DEF LoadInv, FillingRow
    <3> QED BY <2>1, <3>1, <3>2 DEF FromLast
  <2>3. \A i \in Rows : i = row => FromLast(i)'
    <3>1. row \in Rows => azimuth'[row] = loads
      BY <1>0, <1>1, <1>6, ParsedRow DEF FillAzimuth, TableType
    <3>2. row \in Rows => /\ elevation[row] = loads
                          /\ \A v \in Vectors : vector[v][row] = loads
      BY <1>0, <2>1 DEF LoadInv, FillingRow, Vectors
    <3> QED BY <2>1, <3>1, <3>2 DEF FromLast
  <2>4. \A i \in Rows : i < row' => FromLast(i)'
    <3>1. \A i \in Rows : i < row' => i < row \/ i = row
      BY <1>1, <2>1
    <3> QED BY <2>2, <2>3, <3>1
  <2>5. row' <= LineCounter(content)
    BY <1>1, <2>1
  <2> QED BY <2>1, <2>4, <2>5 DEF LoadInv, LineCounter, FillingRow
<1>7. CASE LoadEnds
  <2>1. loader = "elevation" /\ row = LineCounter(content) /\ loader' = "idle"
        /\ UNCHANGED <<elevation, azimuth, vector, loads>>
    BY <1>7 DEF LoadEnds, arrayVars, vectorVars
  <2>2. \A i \in Rows : i < row
    BY <1>1, <2>1, RowsAreSlots
  <2>3. \A i \in Rows : FromLast(i)'
    BY <1>0, <2>1, <2>2 DEF LoadInv, FromLast
  <2> QED BY <2>1, <2>3 DEF LoadInv, FillingRow
<1>8. CASE UNCHANGED <<elevation, azimuth, vector, loader, content, row, loads>>
  BY <1>0, <1>8 DEF LoadInv, FromLast, LineCounter
<1>9. ASSUME NEW v \in Vectors, ResizeFrees(v) PROVE LoadInv'
  BY <1>8, <1>9 DEF ResizeFrees, arrayVars, loaderVars
<1> QED BY <1>2, <1>3, <1>4, <1>5, <1>6, <1>7, <1>8, <1>9
      DEF Next, PointBegins, FetchVector, ReadVector, PointEnds, SaveBegins, SaveRow, SaveEnds,
          vars, arrayVars, vectorVars, loaderVars

(* Nothing disturbs the decoder without its being noticed. *)
LEMMA QuietStep ==
  ASSUME CompleteTables, TableInv, [Next]_vars
  PROVE  QuietInv'
<1>0. TableType /\ RoomInv /\ HeldInv /\ LoadInv /\ QuietInv
  BY DEF TableInv
<1>1. CASE LoadBegins
  BY <1>1 DEF LoadBegins, QuietInv
<1>2. CASE FillElevation \/ FillAzimuth \/ LoadEnds
  <2>1. loader # "idle" /\ UNCHANGED <<decoder, quiet>>
    BY <1>2 DEF FillElevation, FillAzimuth, LoadEnds, decoderVars
  <2> QED BY <1>0, <2>1 DEF QuietInv
<1>3. ASSUME NEW v \in Vectors, Resize(v) \/ ResizeFrees(v) \/ ResizeMoves(v) \/ FillVector(v)
      PROVE  QuietInv'
  <2>1. loader # "idle" /\ UNCHANGED <<decoder, quiet>>
    BY <1>3 DEF Resize, ResizeFrees, ResizeMoves, FillVector, decoderVars, Vectors
  <2> QED BY <1>0, <2>1 DEF QuietInv
<1>4. CASE PointBegins
  <2>1. laser' \in Rows /\ point' = [NoPoint EXCEPT !["azimuth"] = azimuth[laser']]
        /\ decoder' = "point" /\ todo' = Vectors
        /\ quiet' = (loader = "idle") /\ loader' = loader /\ loads' = loads
    BY <1>4 DEF PointBegins, loaderVars
  <2>2. \A a \in Angles \ todo' : a = "azimuth"
    BY <2>1 DEF Angles
  <2>3. point'["azimuth"] = azimuth[laser']
    BY <2>1 DEF NoPoint, Angles
  <2>4. loader = "idle" => azimuth[laser'] = loads
    BY <1>0, <2>1 DEF LoadInv, FromLast
  <2>5. quiet' => loader' = "idle" /\ \A a \in Angles \ todo' : point'[a] = loads'
    BY <2>1, <2>2, <2>3, <2>4
  <2> QED BY <2>1, <2>5 DEF QuietInv
<1>5. ASSUME NEW v \in Vectors, FetchVector(v) PROVE QuietInv'
  <2>1. /\ decoder = "point" /\ decoder' = "reading"
        /\ UNCHANGED <<quiet, loader, loads, todo, point>>
        /\ since' = IF loader = "idle" THEN loads + 1 ELSE loads
    BY <1>5 DEF FetchVector, loaderVars
  <2> QED BY <1>0, <2>1 DEF QuietInv
<1>6. CASE ReadVector
  <2>1. /\ decoder = "reading" /\ decoder' = "point" /\ UNCHANGED <<quiet, loader, loads>>
        /\ todo' \in {todo, todo \ {reading}}
    BY <1>6 DEF ReadVector, loaderVars
  <2>2. SUFFICES ASSUME quiet PROVE QuietInv'
    BY <2>1 DEF QuietInv
  <2>3. /\ loader = "idle" /\ since = loads + 1 /\ loads \in Nat
        /\ \A a \in Angles \ todo : point[a] = loads
    BY <1>0, <2>1, <2>2 DEF QuietInv, TableType
  <2>4. Live
    <3>1. \A n : n \notin since..loads
      BY <2>3
    <3>2. held = storage[reading]
      BY <1>0, <2>1, <3>1 DEF HeldInv
    <3>3. reading \notin freed
      BY <1>0, <2>3 DEF RoomInv, TableType, Vectors
    <3> QED BY <3>2, <3>3 DEF Live
  <2>5. point' = [point EXCEPT ![reading] = vector[reading][laser]]
    BY <1>6, <2>4 DEF ReadVector
  <2>6. vector[reading][laser] = loads
    BY <1>0, <2>1, <2>3 DEF LoadInv, FromLast, TableType
  <2>7. \A a \in Angles \ todo' : point'[a] = loads
    <3>1. \A a \in Angles \ todo' : a \in Angles \ todo \/ a = reading
      BY <2>1
    <3> QED BY <1>0, <2>3, <2>5, <2>6, <3>1 DEF TableType
  <2> QED BY <2>1, <2>3, <2>7 DEF QuietInv
<1>7. CASE SaveBegins
  <2>1. decoder' = "save" /\ laser' = 0 /\ quiet' = (loader = "idle") /\ loader' = loader
    BY <1>7 DEF SaveBegins, loaderVars
  <2>2. \A i \in Rows : ~(i < 0)
    BY RowsAreSlots
  <2> QED BY <2>1, <2>2 DEF QuietInv
<1>8. CASE SaveRow
  <2>1. SUFFICES ASSUME quiet, quiet' PROVE QuietInv'
    BY <1>8 DEF SaveRow, QuietInv
  <2>2. loader = "idle" /\ UNCHANGED <<loader, loads, decoder>> /\ decoder = "save"
    BY <1>0, <1>8, <2>1 DEF SaveRow, QuietInv, loaderVars
  <2>3. laser \in Rows /\ laser' = laser + 1 /\ laser \in Nat
    BY <1>0, <1>8, RowsAreSlots DEF SaveRow, TableType
  <2>4. saved'[laser] = [azimuth |-> loads, elevation |-> loads]
    BY <1>0, <1>8, <2>2, <2>3 DEF SaveRow, TableType, LoadInv, FromLast
  <2>5. \A i \in Rows : i < laser => saved'[i] = [azimuth |-> loads, elevation |-> loads]
    BY <1>0, <1>8, <2>1, <2>2, <2>3, RowsAreSlots DEF SaveRow, TableType, QuietInv
  <2>6. \A i \in Rows : i < laser' => saved'[i] = [azimuth |-> loads, elevation |-> loads]
    <3>1. \A i \in Rows : i < laser' => i < laser \/ i = laser
      BY <2>3, RowsAreSlots
    <3> QED BY <2>4, <2>5, <3>1
  <2> QED BY <2>2, <2>6 DEF QuietInv
<1>9. CASE PointEnds \/ SaveEnds
  BY <1>9 DEF PointEnds, SaveEnds, QuietInv
<1>10. CASE UNCHANGED vars
  BY <1>0, <1>10 DEF vars, loaderVars, decoderVars, readVars, QuietInv
<1> QED BY <1>1, <1>2, <1>3, <1>4, <1>5, <1>6, <1>7, <1>8, <1>9, <1>10 DEF Next

(* The tables that Init fills. *)
LEMMA TablesInitially == Init => TableInv
<1> SUFFICES ASSUME Init PROVE TableInv
  OBVIOUS
<1>1. TableType
  <2>1. NoPoint \in [Angles -> Int] /\ NoRow \in SavedRows
    BY DEF NoPoint, NoRow, SavedRows
  <2>2. saved \in [Rows -> SavedRows] /\ point \in [Angles -> Int]
    BY <2>1 DEF Init
  <2>3. reading \in Vectors
    BY DEF Init, Vectors
  <2> QED BY <2>2, <2>3, RowsAreSlots DEF Init, TableType, Undefined
<1>2. \A i \in Rows : /\ elevation[i] = 0 /\ azimuth[i] = 0
                      /\ \A v \in Vectors : vector[v][i] = 0
  BY RowsAreSlots DEF Init
<1>3. VectorInv /\ LoadInv
  BY <1>2, RowsAreSlots DEF Init, VectorInv, LoadInv, FromLast, Undefined, FillingRow
<1>4. RoomInv /\ HeldInv /\ QuietInv
  BY DEF Init, RoomInv, HeldInv, QuietInv, Vectors
<1> QED BY <1>1, <1>3, <1>4 DEF TableInv

LEMMA TableInvariant ==
  ASSUME CompleteTables
  PROVE  Spec => []TableInv
<1>1. CompleteTables
  OBVIOUS
<1>2. TableInv /\ [Next]_vars => TableInv'
  BY <1>1, TypeStep, VectorStep, RoomStep, HeldStep, LoadStep, QuietStep DEF TableInv
<1> QED BY <1>2, TablesInitially, PTL DEF Spec

-----------------------------------------------------------------------------
(* If every table that is loaded has a row for every laser, what the       *)
(* decoder reads of the vectors is in a live buffer, inside the vector and *)
(* written: at any moment of any load for which LoadCorrectionFile need    *)
(* not grow them.  Of reads that overlap with a growing load nothing is    *)
(* claimed.                                                                *)
THEOREM TableReadsInVector ==
  ASSUME CompleteTables
  PROVE  Spec => []ReadsInVector
<1>1. CompleteTables
  OBVIOUS
<1>2. TableInv => ReadsInVector
  <2> SUFFICES ASSUME TableInv, decoder = "reading",
                      \A n \in since..loads : n \notin outgrew
               PROVE  Live /\ laser < size[reading] /\ vector[reading][laser] # Undefined
    BY DEF ReadsInVector
  <2>1. TableType /\ VectorInv /\ RoomInv /\ HeldInv
    BY DEF TableInv
  <2>2. /\ reading \in Vectors /\ laser \in Rows /\ loads \in Nat /\ since \in Nat
        /\ size[reading] \in Nat
    BY <2>1 DEF TableType
  <2>3. held = storage[reading]
    BY <2>1 DEF HeldInv
  <2>4. reading \notin freed
    <3> SUFFICES ASSUME reading \in freed PROVE FALSE
      OBVIOUS
    <3>1. loader = reading /\ loads \in outgrew
      BY <2>1, <2>2 DEF RoomInv
    <3>2. since <= loads
      BY <2>1, <2>2, <3>1 DEF HeldInv, Vectors
    <3>3. loads \in since..loads
      BY <2>2, <3>2
    <3> QED BY <3>1, <3>3
  <2>5. laser < size[reading] /\ vector[reading][laser] # Undefined
    BY <2>1, <2>2, RowsAreSlots DEF VectorInv
  <2> QED BY <2>3, <2>4, <2>5 DEF Live
<1> QED BY <1>1, <1>2, TableInvariant, PTL

(* And a point or a saved table with which no load overlapped is of one    *)
(* piece.                                                                  *)
THEOREM TableQuietReadsUntorn ==
  ASSUME CompleteTables
  PROVE  Spec => QuietReadsUntorn
<1>1. CompleteTables
  OBVIOUS
<1> DEFINE Untorn ==
      decoder # "idle" /\ decoder' = "idle" /\ quiet =>
        IF decoder = "point"
          THEN \A a \in Angles : point[a] = loads
          ELSE \A i \in Rows : saved[i] = [azimuth |-> loads, elevation |-> loads]
<1>2. TableInv /\ [Next]_vars => [Untorn]_vars
  <2>1. SUFFICES ASSUME TableInv, Next, decoder # "idle", decoder' = "idle", quiet
                 PROVE  Untorn
    OBVIOUS
  <2>2. PointEnds \/ SaveEnds
    BY <2>1 DEF Next, LoadBegins, Resize, ResizeFrees, ResizeMoves, FillElevation, FillVector,
       FillAzimuth, LoadEnds, PointBegins, FetchVector, ReadVector, SaveBegins, SaveRow,
       decoderVars
  <2>3. CASE PointEnds
    <3>1. decoder = "point" /\ todo = {}
      BY <2>3 DEF PointEnds
    <3>2. \A a \in Angles : point[a] = loads
      BY <2>1, <3>1 DEF TableInv, QuietInv
    <3> QED BY <3>1, <3>2
  <2>4. CASE SaveEnds
    <3>1. laser = Lasers /\ decoder = "save"
      BY <2>4 DEF SaveEnds
    <3> QED BY <2>1, <3>1, RowsAreSlots DEF TableInv, QuietInv
  <2> QED BY <2>2, <2>3, <2>4
<1>3. Spec => []TableInv
  BY <1>1, TableInvariant
<1> QED BY <1>2, <1>3, PTL DEF Spec, QuietReadsUntorn

-----------------------------------------------------------------------------
(* Frames. *)

(* manage_tf_buffer clears the target frame only if it is the sensor's and *)
(* no other frame comes in between.                                        *)
TransformType ==
  /\ setting \in Settings
  /\ frameId = FrameIdOf(setting)
  /\ \/ target = setting.target
     \/ target = "" /\ setting.fixed = "" /\ setting.sensor = setting.target
  /\ packets \in Nat

(* While packets are decoded the matrix to the target is one from the      *)
(* frame the points are in.                                                *)
MatrixInv ==
  thread = "decoding" /\ target # "" =>
    toTarget.from = TargetSource /\ toTarget.to = target

PointsInv == \A p \in points \cup clouds : p.frame = frameId /\ p.lag = 0

TransformInv == TransformType /\ MatrixInv /\ PointsInv

(* What manage_tf_buffer makes of the target frame. *)
LEMMA TargetManaged ==
  ASSUME TransformType
  PROVE  /\ ManagedTarget \in {target, ""}
         /\ \/ ManagedTarget = setting.target
            \/ /\ ManagedTarget = ""
               /\ setting.fixed = "" /\ setting.sensor = setting.target
BY DEF TransformType, ManagedTarget, SameFrames

(* A packet that is moved by its own matrix lags behind it by nothing. *)
LEMMA OwnLag == \A n \in Nat : n - n = 0
OBVIOUS

(* The fields of the one point a packet is abstracted to. *)
LEMMA OnePoint ==
  \A f : \A p \in {[frame |-> f, lag |-> 0]} : p.frame = f /\ p.lag = 0
OBVIOUS

(* Points moved by the matrix of their own packet, and on to the target by *)
(* a matrix from the frame that leaves them in, are in the labelled frame. *)
LEMMA PointsMoved ==
  ASSUME TransformType, NEW n \in Nat, NEW wanted, NEW fixed, NEW matrix,
         \/ wanted = setting.target
         \/ wanted = "" /\ setting.fixed = "" /\ setting.sensor = setting.target,
         setting.fixed # "" =>
           fixed = [from |-> setting.sensor, to |-> setting.fixed, at |-> n],
         wanted # "" => matrix.from = TargetSource /\ matrix.to = wanted
  PROVE  \A p \in PointsOf(n, wanted, fixed, matrix) : p.frame = frameId /\ p.lag = 0
<1> DEFINE base == IF setting.fixed = "" THEN setting.sensor
                                     ELSE Through(fixed, setting.sensor)
           lag == IF setting.fixed = "" THEN 0 ELSE n - fixed.at
<1>1. base = TargetSource /\ lag = 0
  <2>1. CASE setting.fixed = ""
    BY <2>1 DEF TargetSource
  <2>2. CASE setting.fixed # ""
    <3>1. fixed = [from |-> setting.sensor, to |-> setting.fixed, at |-> n]
      BY <2>2
    <3>2. fixed.from = setting.sensor /\ fixed.to = setting.fixed /\ fixed.at = n
      BY <3>1
    <3>3. base = TargetSource
      BY <2>2, <3>2, Zenon DEF TargetSource, Through
    <3>4. n - n = 0
      BY OwnLag, Zenon
    <3>5. lag = 0
      BY <2>2, <3>2, <3>4, Zenon
    <3> QED BY <3>3, <3>5, Zenon
  <2> QED BY <2>1, <2>2
<1>2. Transformed(wanted, fixed, matrix) = IF wanted = "" THEN base ELSE Through(matrix, base)
  BY Zenon DEF Transformed
<1>3. PointsOf(n, wanted, fixed, matrix) = 
       {[frame |-> Transformed(wanted, fixed, matrix), lag |-> lag]}
  BY Zenon DEF PointsOf
<1> HIDE DEF base, lag
<1>4. frameId = FrameIdOf(setting)
  BY Zenon DEF TransformType
<1>5. Transformed(wanted, fixed, matrix) = frameId
  <2>1. CASE wanted # ""
    BY <1>1, <1>2, <1>4, <2>1, Zenon DEF Through, FrameIdOf
  <2>2. CASE wanted = ""
    BY <1>1, <1>2, <1>4, <2>2, Zenon DEF TargetSource, FrameIdOf
  <2> QED BY <2>1, <2>2
<1>6. PointsOf(n, wanted, fixed, matrix) = {[frame |-> frameId, lag |-> 0]}
  BY <1>1, <1>3, <1>5, Zenon
<1> QED BY <1>6, OnePoint, Zenon

(* Only a transform that was found lets the decoder go on. *)
LEMMA OnlyFoundGoesOn ==
  \A outcome \in {"found", "unavailable", "disconnected"} :
    AfterLookup(outcome, "decoding") = "decoding" => outcome = "found"
<1>1. AfterLookup("unavailable", "decoding") # "decoding"
  BY DEF AfterLookup
<1>2. AfterLookup("disconnected", "decoding") # "decoding"
  BY DEF AfterLookup
<1> QED BY <1>1, <1>2

(* Every step keeps the points in the labelled frame. *)
LEMMA TransformStep ==
  ASSUME TransformInv, [TransformNext]_transformVars
  PROVE  TransformInv'
<1>0. TransformType /\ MatrixInv /\ PointsInv
  BY DEF TransformInv
<1>1. CASE Start \/ Stop
  BY <1>0, <1>1 DEF Start, Stop, TransformInv, TransformType, MatrixInv, PointsInv, TargetSource
<1>2. CASE DecoderStarts
  <2>1. TransformType' /\ PointsInv'
    BY <1>0, <1>2 DEF DecoderStarts, TransformType, PointsInv
  <2>2. MatrixInv'
    <3>1. PICK outcome \in {"found", "unavailable", "disconnected"} :
            /\ ComputeToTarget(buffer, target, packets, outcome)
            /\ thread' = AfterLookup(outcome, "decoding")
      BY <1>2 DEF DecoderStarts
    <3>2. thread' = "decoding" => outcome = "found"
      BY <3>1, OnlyFoundGoesOn
    <3>3. target # "" /\ outcome = "found"
            => toTarget' = [from |-> TargetSource, to |-> target, at |-> packets]
      BY <3>1 DEF ComputeToTarget
    <3>4. UNCHANGED <<setting, target>>
      BY <1>2 DEF DecoderStarts
    <3>5. toTarget' = [from |-> TargetSource, to |-> target, at |-> packets]
            => toTarget'.from = TargetSource /\ toTarget'.to = target
      OBVIOUS
    <3> QED BY <3>2, <3>3, <3>4, <3>5, Zenon DEF MatrixInv, TargetSource
  <2> QED BY <2>1, <2>2 DEF TransformInv
<1>3. CASE ProcessPacket
  <2> DEFINE n == packets + 1
  <2>1. /\ thread = "decoding" /\ packets' = n /\ UNCHANGED <<setting, frameId, starts>>
        /\ PacketFails(n) \/ PacketDecoded(n) \/ PacketSplits(n)
    BY <1>3 DEF ProcessPacket
  <2>2. n \in Nat
    <3>1. packets \in Nat
      BY <1>0 DEF TransformType
    <3> QED BY <3>1
  <2> HIDE DEF n
  <2>3. target' = ManagedTarget
    BY <2>1 DEF PacketFails, PacketDecoded, PacketSplits
  <2>4. /\ target' \in {target, ""}
        /\ \/ target' = setting.target
           \/ target' = "" /\ setting.fixed = "" /\ setting.sensor = setting.target
    BY <1>0, <2>3, TargetManaged
  <2>5. TransformType'
    BY <1>0, <2>1, <2>2, <2>4 DEF TransformType
  <2>6. target' # "" => toTarget.from = TargetSource /\ toTarget.to = target'
    BY <1>0, <2>1, <2>4 DEF MatrixInv
  <2>7. ComputeToFixed(buffer', n, "found") =>
          (setting.fixed # "" =>
             toFixed' = [from |-> setting.sensor, to |-> setting.fixed, at |-> n])
    BY DEF ComputeToFixed
  <2>8. CASE PacketFails(n)
    <3>1. UNCHANGED <<toTarget, points, clouds>>
      BY <2>8 DEF PacketFails
    <3>2. MatrixInv'
      BY <2>1, <2>6, <3>1 DEF MatrixInv, TargetSource
    <3>3. PointsInv'
      BY <1>0, <2>1, <3>1 DEF PointsInv
    <3> QED BY <2>5, <3>2, <3>3 DEF TransformInv
  <2>9. CASE PacketDecoded(n)
    <3>1. /\ UNCHANGED <<toTarget, clouds>> /\ ComputeToFixed(buffer', n, "found")
          /\ points' = points \cup PointsOf(n, target', toFixed', toTarget)
      BY <2>9 DEF PacketDecoded
    <3>2. MatrixInv'
      BY <2>1, <2>6, <3>1 DEF MatrixInv, TargetSource
    <3>3. \A p \in PointsOf(n, target', toFixed', toTarget) : p.frame = frameId /\ p.lag = 0
      BY <1>0, <2>2, <2>4, <2>6, <2>7, <3>1, PointsMoved
    <3>4. PointsInv'
      BY <1>0, <2>1, <3>1, <3>3 DEF PointsInv
    <3> QED BY <2>5, <3>2, <3>4 DEF TransformInv
  <2>10. CASE PacketSplits(n)
    <3>1. ComputeToFixed(buffer', n, "found")
      BY <2>10 DEF PacketSplits
    <3>7. \A p \in clouds' : p.frame = frameId /\ p.lag = 0
      <4>1. clouds' \subseteq clouds \cup points \cup PointsOf(n, target', toFixed', toTarget)
        BY <2>10, Zenon DEF PacketSplits
      <4>2. \A p \in PointsOf(n, target', toFixed', toTarget) : p.frame = frameId /\ p.lag = 0
        BY <1>0, <2>2, <2>4, <2>6, <2>7, <3>1, PointsMoved
      <4> QED BY <1>0, <4>1, <4>2, Zenon DEF PointsInv
    <3>2. PICK outcome \in {"found", "unavailable", "disconnected"} :
            /\ ComputeToTarget(buffer', target', n, outcome)
            /\ thread' = AfterLookup(outcome, "decoding")
            /\ points' = IF outcome = "found"
                           THEN PointsOf(n, target', toFixed', toTarget') ELSE {}
      BY <2>10 DEF PacketSplits
    <3>3. outcome = "found" /\ target' # ""
            => toTarget'.from = TargetSource /\ toTarget'.to = target'
      <4>1. outcome = "found" /\ target' # ""
              => toTarget' = [from |-> TargetSource, to |-> target', at |-> n]
        BY <3>2, Zenon DEF ComputeToTarget
      <4>2. toTarget' = [from |-> TargetSource, to |-> target', at |-> n]
              => toTarget'.from = TargetSource /\ toTarget'.to = target'
        OBVIOUS
      <4> QED BY <4>1, <4>2, Zenon
    <3>4. MatrixInv'
      <4>1. thread' = "decoding" => outcome = "found"
        BY <3>2, OnlyFoundGoesOn
      <4> QED BY <2>1, <3>3, <4>1 DEF MatrixInv, TargetSource
    <3>5. \A p \in points' : p.frame = frameId /\ p.lag = 0
      <4>1. CASE outcome = "found"
        BY <1>0, <2>2, <2>4, <2>7, <3>1, <3>2, <3>3, <4>1, PointsMoved
      <4>2. CASE outcome # "found"
        BY <3>2, <4>2
      <4> QED BY <4>1, <4>2
    <3>6. PointsInv'
      BY <2>1, <3>5, <3>7 DEF PointsInv
    <3> QED BY <2>5, <3>4, <3>6 DEF TransformInv
  <2> QED BY <2>1, <2>8, <2>9, <2>10
<1>4. CASE UNCHANGED transformVars
  BY <1>0, <1>4 DEF transformVars, TransformInv, TransformType, MatrixInv, PointsInv, TargetSource
<1> QED BY <1>1, <1>2, <1>3, <1>4 DEF TransformNext
(* The frames are managed as above in every reachable state. *)
LEMMA TransformInvariant == TransformSpec => []TransformInv
<1>1. TransformInit => TransformInv
  BY DEF TransformInit, TransformInv, TransformType, MatrixInv, PointsInv
<1> QED BY <1>1, TransformStep, PTL DEF TransformSpec

(* Whichever frames are set, and whenever transforms are there or not:     *)
(* every point that is collected or published is in the frame its cloud is *)
(* labelled with, as the constructor chose m_sFrameId and manage_tf_buffer *)
(* the matrices.                                                           *)
THEOREM CloudsInFrameId == TransformSpec => []PointsInFrameId
<1>1. TransformInv => PointsInFrameId
  BY DEF TransformInv, PointsInv, PointsInFrameId
<1> QED BY <1>1, TransformInvariant, PTL
(* Every point was moved by a transform of its own packet's time: a packet *)
(* whose lookup fails is left out by ProcessLiarPacket rather than moved   *)
(* by the matrix of an earlier one.                                        *)
THEOREM CloudsCompensated == TransformSpec => []PointsCompensated
<1>1. TransformInv => PointsCompensated
  BY DEF TransformInv, PointsInv, PointsCompensated
<1> QED BY <1>1, TransformInvariant, PTL

-----------------------------------------------------------------------------
(* Arithmetic. *)

(* Products of naturals grow with their factors. *)
LEMMA ProductMonotone ==
  ASSUME NEW a \in Nat, NEW b \in Nat, NEW s \in Nat, a <= b
  PROVE  a * s \in Nat /\ b * s \in Nat /\ a * s <= b * s
<1>1. PICK d \in Nat : b = a + d
  <2>1. b - a \in Nat /\ b = a + (b - a)
    OBVIOUS
  <2> QED BY <2>1
<1>2. b * s = a * s + d * s /\ d * s \in Nat /\ a * s \in Nat
  BY <1>1
<1> QED BY <1>2

(* Dividing by the size of a point tells whether a row fits a word. *)
LEMMA QuotientBounds ==
  ASSUME NEW m \in Nat, NEW s \in Nat, s > 0, NEW w \in Nat
  PROVE  w > m \div s <=> w * s > m
<1> DEFINE q == m \div s
           r == m % s
<1>1. q \in Nat /\ r \in 0 .. s - 1 /\ m = s * q + r
  OBVIOUS
<1> HIDE DEF q, r
<1>2. CASE w > q
  <2>1. (q + 1) * s <= w * s
    BY <1>1, <1>2, ProductMonotone
  <2>2. (q + 1) * s = q * s + s
    BY <1>1
  <2> QED BY <1>1, <1>2, <2>1, <2>2 DEF q
<1>3. CASE w <= q
  <2>1. w * s <= q * s
    BY <1>1, <1>3, ProductMonotone
  <2> QED BY <1>1, <1>3, <2>1 DEF q
<1> QED BY <1>1, <1>2, <1>3

-----------------------------------------------------------------------------
(* Packets. *)

Packets == [size : Nat, blocks : Nat, lasers : Nat, sob : BOOLEAN, returns : 1..3]

(* The sizes the headers compute. *)
LEMMA PacketSizes ==
  /\ RawSizes = {1262, 1266}
  /\ L64Sizes = {1194, 1198, 1388, 1392}
  /\ L20Sizes = {1270}
  /\ QTSizes = {1068, 1072}
  /\ XTSize = 1080 /\ XT16Size = 568 /\ XTMSize = 820
<1>1. RawSizes = {1262, 1266}
  BY DEF RawSizes, BodySize, BlockSize, RawData
<1>2. L64Sizes = {1194, 1198, 1388, 1392}
  BY DEF L64Sizes, BodySize, BlockSize, L64Data
<1>3. L20Sizes = {1270}
  BY DEF L20Sizes, BodySize, BlockSize, L20Data
<1>4. QTSizes = {1068, 1072}
  BY DEF QTSizes, BodySize, BlockSize, QTData
<1>5. XTSize = 1080 /\ XT16Size = 568 /\ XTMSize = 820
  BY DEF XTSize, XT16Size, XTMSize, BodySize, BlockSize, XTData
<1> QED BY <1>1, <1>2, <1>3, <1>4, <1>5
(* The switch of ProcessLiarPacket over the packet sizes. *)
LEMMA DispatchBySize ==
  ASSUME NEW type, NEW z
  PROVE  /\ z \in {1262, 1266} => Dispatch(type, z) = "raw"
         /\ z \in {1194, 1198, 1388, 1392} => Dispatch(type, z) = "L64"
         /\ z = 1270 => Dispatch(type, z) = "L20"
         /\ z \in {1068, 1072} => Dispatch(type, z) = "QT"
         /\ z = 100 => Dispatch(type, z) = "none"
         /\ z = 1080 => Dispatch(type, z) = IF type \in {"XT", "PandarXT-32"} THEN "XT" ELSE "none"
         /\ z = 568 => Dispatch(type, z) = IF type = "PandarXT-16" THEN "XT" ELSE "none"
         /\ z = 820 => Dispatch(type, z) = IF type = "PandarXTM" THEN "XT" ELSE "none"
<1>2. CASE z \in {1262, 1266}
  BY <1>2, PacketSizes DEF Dispatch
<1>3. CASE z \in {1194, 1198, 1388, 1392}
  BY <1>3, PacketSizes DEF Dispatch
<1>4. CASE z = 1270
  BY <1>4, PacketSizes DEF Dispatch
<1>5. CASE z \in {1068, 1072}
  BY <1>5, PacketSizes DEF Dispatch
<1>6. CASE z = 100
  BY <1>6, PacketSizes DEF Dispatch
<1>7. CASE z = 1080
  BY <1>7, PacketSizes DEF Dispatch
<1>8. CASE z = 568
  BY <1>8, PacketSizes DEF Dispatch
<1>9. CASE z = 820
  BY <1>9, PacketSizes DEF Dispatch
<1> QED BY <1>2, <1>3, <1>4, <1>5, <1>6, <1>7, <1>8, <1>9

(* What the sensors send, spelled out: the parser, the size and the counts. *)
Sent(type, f, p) ==
  \/ f = "raw" /\ type \in {"Pandar40P", "Pandar40M"} /\ p.size \in {1262, 1266}
     /\ p.blocks = 10 /\ p.lasers = 40
  \/ f = "L64" /\ type = "Pandar64" /\ p.size \in {1194, 1198}
     /\ p.blocks = 6 /\ p.lasers = 64
  \/ f = "L64" /\ type = "Pandar64" /\ p.size \in {1388, 1392}
     /\ p.blocks = 7 /\ p.lasers = 64
  \/ f = "L20" /\ type \in {"Pandar20A", "Pandar20B"} /\ p.size = 1270
     /\ p.blocks = 20 /\ p.lasers = 20
  \/ f = "QT" /\ type = "PandarQT" /\ p.size \in {1068, 1072}
     /\ p.blocks = 4 /\ p.lasers = 64
  \/ f = "XT" /\ type = "PandarXT-32" /\ p.size = 1080 /\ p.blocks = 8 /\ p.lasers = 32
  \/ f = "XT" /\ type = "PandarXT-16" /\ p.size = 568 /\ p.blocks = 8 /\ p.lasers = 16
  \/ f = "XT" /\ type = "PandarXTM" /\ p.size = 820 /\ p.blocks = 6 /\ p.lasers = 32

(* Every documented sensor's packets are sent to a parser. *)
LEMMA SentIsDispatched ==
  ASSUME NEW type \in DocumentedSensors, NEW p \in SentPackets(type)
  PROVE  /\ Sent(type, Dispatch(type, p.size), p)
         /\ p \in Packets /\ p.sob = TRUE
<1>0. PICK z \in SizesOf(type), r \in ReturnsOf(type) :
        p = SentPacket(type, z, r)
  BY DEF SentPackets
<1>1. r \in 1..3
  BY <1>0 DEF ReturnsOf
<1>2. CASE type = "Pandar40P"
  <2>1. SentBy(type, z) = [blocks |-> 10, lasers |-> 40] /\ SizesOf(type) = {1262, 1266}
    BY <1>2 DEF SentBy, SizesOf
  <2> QED BY <1>0, <1>1, <1>2, <2>1, DispatchBySize DEF SentPacket, Packets, Sent
<1>3. CASE type = "Pandar40M"
  <2>1. SentBy(type, z) = [blocks |-> 10, lasers |-> 40] /\ SizesOf(type) = {1262, 1266}
    BY <1>3 DEF SentBy, SizesOf
  <2> QED BY <1>0, <1>1, <1>3, <2>1, DispatchBySize DEF SentPacket, Packets, Sent
<1>4. CASE type = "Pandar20A"
  <2>1. SentBy(type, z) = [blocks |-> 20, lasers |-> 20] /\ SizesOf(type) = {1270}
    BY <1>4 DEF SentBy, SizesOf
  <2> QED BY <1>0, <1>1, <1>4, <2>1, DispatchBySize DEF SentPacket, Packets, Sent
<1>5. CASE type = "Pandar20B"
  <2>1. SentBy(type, z) = [blocks |-> 20, lasers |-> 20] /\ SizesOf(type) = {1270}
    BY <1>5 DEF SentBy, SizesOf
  <2> QED BY <1>0, <1>1, <1>5, <2>1, DispatchBySize DEF SentPacket, Packets, Sent
<1>6. CASE type = "PandarQT"
  <2>1. SentBy(type, z) = [blocks |-> 4, lasers |-> 64] /\ SizesOf(type) = {1068, 1072}
    BY <1>6 DEF SentBy, SizesOf
  <2> QED BY <1>0, <1>1, <1>6, <2>1, DispatchBySize DEF SentPacket, Packets, Sent
<1>7. CASE type = "PandarXT-32"
  <2>1. SentBy(type, z) = [blocks |-> 8, lasers |-> 32] /\ SizesOf(type) = {1080}
    BY <1>7 DEF SentBy, SizesOf
  <2> QED BY <1>0, <1>1, <1>7, <2>1, DispatchBySize DEF SentPacket, Packets, Sent
<1>8. CASE type = "PandarXT-16"
  <2>1. SentBy(type, z) = [blocks |-> 8, lasers |-> 16] /\ SizesOf(type) = {568}
    BY <1>8 DEF SentBy, SizesOf
  <2> QED BY <1>0, <1>1, <1>8, <2>1, DispatchBySize DEF SentPacket, Packets, Sent
<1>9. CASE type = "PandarXTM"
  <2>1. SentBy(type, z) = [blocks |-> 6, lasers |-> 32] /\ SizesOf(type) = {820}
    BY <1>9 DEF SentBy, SizesOf
  <2> QED BY <1>0, <1>1, <1>9, <2>1, DispatchBySize DEF SentPacket, Packets, Sent
<1>10. CASE type = "Pandar64"
  <2>1. /\ SentBy(type, z) = [blocks |-> IF z < 1300 THEN 6 ELSE 7, lasers |-> 64]
        /\ SizesOf(type) = {1194, 1198, 1388, 1392}
    BY <1>10 DEF SentBy, SizesOf
  <2> QED BY <1>0, <1>1, <1>10, <2>1, DispatchBySize DEF SentPacket, Packets, Sent
<1> QED BY <1>2, <1>3, <1>4, <1>5, <1>6, <1>7, <1>8, <1>9, <1>10 DEF DocumentedSensors

(* The checks of the header's counts leave one pair of them for each size. *)
LEMMA CountsBySize ==
  ASSUME NEW p \in Packets, LayoutChecked(p)
  PROVE  /\ p.size = 1080 => p.blocks = 8 /\ p.lasers = 32
         /\ p.size = 568 => p.blocks = 8 /\ p.lasers = 16
         /\ p.size = 820 => p.blocks = 6 /\ p.lasers = 32
<1>1. p.blocks \in 1..8 /\ p.lasers \in 1..32
      /\ 12 + p.blocks * (2 + p.lasers * 4) + 28 = p.size
  BY DEF LayoutChecked, XTData, BodySize, BlockSize
<1> DEFINE l == p.lasers
<1>2. l \in 1..32 /\ p.blocks \in {1, 2, 3, 4, 5, 6, 7, 8}
  BY <1>1
<1>3. \/ 12 + 1 * (2 + l * 4) + 28 = p.size /\ p.blocks = 1
      \/ 12 + 2 * (2 + l * 4) + 28 = p.size /\ p.blocks = 2
      \/ 12 + 3 * (2 + l * 4) + 28 = p.size /\ p.blocks = 3
      \/ 12 + 4 * (2 + l * 4) + 28 = p.size /\ p.blocks = 4
      \/ 12 + 5 * (2 + l * 4) + 28 = p.size /\ p.blocks = 5
      \/ 12 + 6 * (2 + l * 4) + 28 = p.size /\ p.blocks = 6
      \/ 12 + 7 * (2 + l * 4) + 28 = p.size /\ p.blocks = 7
      \/ 12 + 8 * (2 + l * 4) + 28 = p.size /\ p.blocks = 8
  BY <1>1, <1>2
<1> HIDE DEF l
<1>4. /\ p.size = 1080 => p.blocks = 8 /\ l = 32
      /\ p.size = 568 => p.blocks = 8 /\ l = 16
      /\ p.size = 820 => p.blocks = 6 /\ l = 32
  BY <1>2, <1>3
<1> QED BY <1>4 DEF l

(* The sizes that may arrive, spelled out. *)
AnySize == {1262, 1266, 1194, 1198, 1388, 1392, 1270, 1068, 1072, 1080, 568, 820, 100}

(* What the sensor did not send is still a packet of bytes, of a size that *)
(* has a parser or of one that has none.                                   *)
LEMMA StrayIsPacket ==
  ASSUME NEW p \in StrayPackets
  PROVE  /\ p \in Packets
         /\ p.size \in AnySize
<1>1. PICK a, e : a = KnownSizes \cup {100} /\ e = {1}
  BY Zenon
<1>2. a = AnySize
  BY <1>1, PacketSizes DEF KnownSizes, AnySize
<1>3. a \subseteq Nat /\ e \subseteq 1..3 /\ HeaderCounts \subseteq Nat
  BY <1>1, <1>2, LayoutAssumption DEF AnySize
<1>4. p \in [size : a, blocks : HeaderCounts, lasers : HeaderCounts, sob : BOOLEAN, returns : e]
  BY <1>1, Zenon DEF StrayPackets
<1>5. p \in Packets
  BY <1>3, <1>4 DEF Packets
<1>6. p.size \in a
  BY <1>4, Zenon
<1> QED BY <1>2, <1>5, <1>6

(* What ParseXTData accepts, its sensor sends. *)
LEMMA AcceptedXTIsSent ==
  ASSUME NEW type \in DocumentedSensors, NEW p \in Packets, NEW f,
         p.size \in AnySize,
         f = Dispatch(type, p.size), f = "XT", LayoutChecked(p)
  PROVE  Sent(type, f, p)
<1>0. PICK z \in AnySize : z = p.size
  BY Zenon
<1>a. Dispatch(type, z) = "XT"
  BY <1>0, Zenon
<1>1. z \in {1080, 568, 820}
  <2>1. /\ z \notin {1262, 1266} /\ z \notin {1194, 1198, 1388, 1392} /\ z # 1270
        /\ z \notin {1068, 1072} /\ z # 100
    BY <1>a, DispatchBySize
  <2> QED BY <1>0, <2>1 DEF AnySize
<1>2. /\ z = 1080 => type = "PandarXT-32"
      /\ z = 568 => type = "PandarXT-16"
      /\ z = 820 => type = "PandarXTM"
  <2>1. /\ z = 1080 => type \in {"XT", "PandarXT-32"}
        /\ z = 568 => type = "PandarXT-16"
        /\ z = 820 => type = "PandarXTM"
    BY <1>a, DispatchBySize
  <2> QED BY <2>1 DEF DocumentedSensors
<1> QED BY <1>0, <1>1, <1>2, CountsBySize DEF Sent

(* The counts with which a parser stays inside a packet of a size. *)
Fits(f, p) ==
  \/ f = "raw" /\ p.size \in {1262, 1266}
  \/ f = "L64" /\ p.size \in {1194, 1198} /\ p.blocks = 6 /\ p.lasers = 64
  \/ f = "L64" /\ p.size \in {1388, 1392} /\ p.blocks = 7 /\ p.lasers = 64
  \/ f = "L20" /\ p.size = 1270 /\ p.blocks = 20 /\ p.lasers = 20
  \/ f = "QT" /\ p.size \in {1068, 1072} /\ p.blocks = 4 /\ p.lasers = 64
  \/ f = "XT" /\ p.size = 1080 /\ p.blocks = 8 /\ p.lasers = 32
  \/ f = "XT" /\ p.size = 568 /\ p.blocks = 8 /\ p.lasers = 16
  \/ f = "XT" /\ p.size = 820 /\ p.blocks = 6 /\ p.lasers = 32

(* What the sensors send fits. *)
LEMMA SentIsFitting ==
  ASSUME NEW type, NEW f, NEW p, Sent(type, f, p)
  PROVE  Fits(f, p)
BY DEF Sent, Fits

(* The fixed loops of ParseRawData and the checks of ParseXTData let only  *)
(* fitting packets through; so does any parser that is given its sensor's. *)
LEMMA AcceptedFits ==
  ASSUME NEW type \in DocumentedSensors,
         NEW p \in SentPackets(type) \cup StrayPackets, NEW f,
         f = Dispatch(type, p.size), f = "XT" => LayoutChecked(p),
         f \in {"raw", "XT"} \/ p \in SentPackets(type)
  PROVE  Fits(f, p)
<1>1. CASE p \in SentPackets(type)
  BY <1>1, SentIsDispatched, SentIsFitting
<1>2. CASE p \in StrayPackets /\ f = "XT"
  <2>0. LayoutChecked(p) /\ f = "XT" /\ f = Dispatch(type, p.size)
    BY <1>2, Zenon
  <2>2. /\ p \in Packets
        /\ p.size \in AnySize
    BY <1>2, StrayIsPacket
  <2>1. Sent(type, f, p)
    BY <2>0, <2>2, AcceptedXTIsSent, Zenon
  <2> QED BY <2>1, SentIsFitting
<1>3. CASE p \in StrayPackets /\ f = "raw"
  <2>0. PICK z : z = p.size
    BY Zenon
  <2>2. Dispatch(type, z) = "raw"
    BY <1>3, <2>0, Zenon
  <2>3. /\ z \notin {1194, 1198, 1388, 1392} /\ z # 1270 /\ z \notin {1068, 1072}
        /\ z # 100 /\ z # 1080 /\ z # 568 /\ z # 820
    BY <2>2, DispatchBySize
  <2>4. z \in AnySize
    BY <1>3, <2>0, StrayIsPacket
  <2>1. p.size \in {1262, 1266}
    BY <2>0, <2>3, <2>4 DEF AnySize
  <2> QED BY <1>3, <2>1 DEF Fits
<1> QED BY <1>1, <1>2, <1>3

Families == {"raw", "L64", "L20", "QT", "XT"}

(* Where the fields of the tail begin, and where it ends. *)
CommonStart(r, k) == <<0, r, r + 2, r + 6, r + 7, r + 8, r + 14>>[k + 1]

TailStart(f, k) ==
  IF f = "XT" THEN <<0, 10, 11, 13, 19, 23, 24>>[k + 1]
              ELSE CommonStart(IF f = "QT" THEN 10 ELSE 8, k)

TimestampField(f) == IF f = "XT" THEN 5 ELSE 3
UtcField(f) == IF f = "XT" THEN 4 ELSE 6
(* The fields of the tail lie one after the other. *)
LEMMA TailStarts ==
  ASSUME NEW f \in Families
  PROVE  /\ TailStart(f, 0) = 0
         /\ \A k \in 0..6 : TailStart(f, k) \in Nat /\ TailStart(f, k) <= TailStart(f, 6)
         /\ f = "XT" => TailStart(f, 6) = 24
         /\ f = "QT" => TailStart(f, 6) = 24
         /\ f \in {"raw", "L64", "L20"} => TailStart(f, 6) = 22
         /\ f = "XT" => TailStart(f, TimestampField(f) - 1) = 19 /\ TailStart(f, UtcField(f) - 1) = 13
         /\ f = "QT" => TailStart(f, TimestampField(f) - 1) = 12 /\ TailStart(f, UtcField(f) - 1) = 18
         /\ f \in {"raw", "L64", "L20"} => TailStart(f, TimestampField(f) - 1) = 10 /\ TailStart(f, UtcField(f) - 1) = 16
BY DEF Families, TailStart, CommonStart, TimestampField, UtcField
(* The tail that the older sensors share. *)
LEMMA CommonTailShape ==
  ASSUME NEW r \in Nat, NEW k \in 1..6
  PROVE  /\ Len(CommonTail(r)) = 6
         /\ CommonTail(r)[k].width = CommonStart(r, k) - CommonStart(r, k - 1)
         /\ CommonTail(r)[k].name \in FieldNames \ {"sequence"}
         /\ CommonTail(r)[k].name = "timestamp" <=> k = 3
         /\ CommonTail(r)[k].name = "utc" <=> k = 6
BY DEF CommonTail, CommonStart, Field, FieldNames
(* The tail of the XT sensors. *)
LEMMA XTTailShape ==
  ASSUME NEW k \in 1..6
  PROVE  /\ Len(XTData.tail) = 6
         /\ XTData.tail[k].width = TailStart("XT", k) - TailStart("XT", k - 1)
         /\ XTData.tail[k].name \in FieldNames \ {"sequence"}
         /\ XTData.tail[k].name = "timestamp" <=> k = 5
         /\ XTData.tail[k].name = "utc" <=> k = 4
BY DEF XTData, TailStart, Field, FieldNames
(* The tail of any sensor. *)
LEMMA TailShape ==
  ASSUME NEW f \in Families, NEW k \in 1..6
  PROVE  /\ Len(Parser[f].tail) = 6
         /\ Parser[f].tail[k].width = TailStart(f, k) - TailStart(f, k - 1)
         /\ Parser[f].tail[k].name \in FieldNames \ {"sequence"}
         /\ Parser[f].tail[k].name = "timestamp" <=> k = TimestampField(f)
         /\ Parser[f].tail[k].name = "utc" <=> k = UtcField(f)
<1>1. CASE f = "XT"
  <2>1. Parser[f] = XTData
    BY <1>1 DEF Parser
  <2> QED BY <1>1, <2>1, XTTailShape DEF TimestampField, UtcField
<1>2. CASE f = "QT"
  <2>1. Parser[f].tail = CommonTail(10)
    BY <1>2 DEF Parser, QTData
  <2> QED BY <1>2, <2>1, CommonTailShape DEF TailStart, TimestampField, UtcField
<1>3. CASE f \in {"raw", "L64", "L20"}
  <2>1. Parser[f].tail = CommonTail(8)
    BY <1>3 DEF Parser, RawData, L64Data, L20Data
  <2> QED BY <1>3, <2>1, CommonTailShape DEF TailStart, TimestampField, UtcField
<1> QED BY <1>1, <1>2, <1>3 DEF Families

(* The bytes before block b, and before the tail. *)
BlockStart(b) == Parser[family].head + b * BlockSize(Parser[family], LaserCount)

(* The parser's counts and sizes are numbers, whatever the header holds. *)
LEMMA ParserCounts ==
  ASSUME packet \in Packets, family \in Families
  PROVE  /\ BlockCount \in Nat /\ LaserCount \in Nat
         /\ BlockSize(Parser[family], LaserCount) \in Nat
         /\ Parser[family].head \in Nat
<1>1. BlockCount \in Nat /\ LaserCount \in Nat
  BY DEF BlockCount, LaserCount, Packets, RawData
<1>2. /\ Parser[family].head \in Nat /\ Parser[family].blockHead \in Nat
      /\ Parser[family].unit \in Nat
  BY DEF Parser, Families, RawData, L64Data, L20Data, QTData, XTData
<1> QED BY <1>1, <1>2 DEF BlockSize

(* A packet that fits its parser's counts fits its arrays, and the tail    *)
(* ends where the packet does or where its sequence number begins.         *)
LEMMA FitsParser ==
  ASSUME packet \in Packets, Fits(family, packet)
  PROVE  /\ family \in Families
         /\ BlockCount \in Nat /\ LaserCount \in Nat
         /\ BlockCount <= Parser[family].blocks /\ LaserCount <= Parser[family].units
         /\ BlockSize(Parser[family], LaserCount) \in Nat
         /\ Parser[family].head \in Nat
         /\ packet.size - (BlockStart(BlockCount) + TailStart(family, 6)) \in {0, 4}
         /\ family = "XT" => packet.size = BlockStart(BlockCount) + TailStart(family, 6) + 4
<1> USE DEF BlockCount, LaserCount, BlockStart, BlockSize, Families
<1>1. CASE family = "raw"
  <2>1. /\ Parser[family] = RawData /\ TailStart(family, 6) = 22
        /\ packet.size \in {1262, 1266}
    BY <1>1, TailStarts DEF Parser, Fits
  <2> QED BY <1>1, <2>1 DEF RawData
<1>2. CASE family = "L64"
  <2>1. /\ Parser[family] = L64Data /\ TailStart(family, 6) = 22 /\ packet.lasers = 64
        /\ \/ packet.size \in {1194, 1198} /\ packet.blocks = 6
           \/ packet.size \in {1388, 1392} /\ packet.blocks = 7
    BY <1>2, TailStarts DEF Parser, Fits
  <2> QED BY <1>2, <2>1 DEF L64Data
<1>3. CASE family = "L20"
  <2>1. /\ Parser[family] = L20Data /\ TailStart(family, 6) = 22 /\ packet.lasers = 20
        /\ packet.size = 1270 /\ packet.blocks = 20
    BY <1>3, TailStarts DEF Parser, Fits
  <2> QED BY <1>3, <2>1 DEF L20Data
<1>4. CASE family = "QT"
  <2>1. /\ Parser[family] = QTData /\ TailStart(family, 6) = 24 /\ packet.lasers = 64
        /\ packet.size \in {1068, 1072} /\ packet.blocks = 4
    BY <1>4, TailStarts DEF Parser, Fits
  <2> QED BY <1>4, <2>1 DEF QTData
<1>5. CASE family = "XT"
  <2>1. /\ Parser[family] = XTData /\ TailStart(family, 6) = 24
        /\ \/ packet.size = 1080 /\ packet.blocks = 8 /\ packet.lasers = 32
           \/ packet.size = 568 /\ packet.blocks = 8 /\ packet.lasers = 16
           \/ packet.size = 820 /\ packet.blocks = 6 /\ packet.lasers = 32
    BY <1>5, TailStarts DEF Parser, Fits
  <2> QED BY <1>5, <2>1 DEF XTData
<1> QED BY <1>1, <1>2, <1>3, <1>4, <1>5 DEF Fits

(* How far the parser is in a packet that fits. *)
Progress ==
  /\ Fits(family, packet)
  /\ block <= BlockCount
  /\ tailRead > 0 => block = BlockCount
  /\ index = BlockStart(block) + TailStart(family, tailRead)
  /\ family = "XT" => fields["sequence"] = packet.size - 4
  /\ tailRead >= TimestampField(family) =>
       fields["timestamp"] = BlockStart(BlockCount) + TailStart(family, TimestampField(family) - 1)
  /\ tailRead >= UtcField(family) =>
       fields["utc"] = BlockStart(BlockCount) + TailStart(family, UtcField(family) - 1)

ParserType ==
  /\ sensor \in DocumentedSensors
  /\ packet \in Packets
  /\ status \in {"idle", "ignored", "header", "rejected", "blocks", "parsed"}
  /\ index \in Int /\ block \in Nat /\ tailRead \in 0..6
  /\ fields \in [FieldNames -> Int]

ParserInv ==
  /\ ParserType
  /\ status = "idle" => index = 0
  /\ status # "idle" => /\ packet \in SentPackets(sensor) \cup StrayPackets
                        /\ family = Dispatch(sensor, packet.size)
  /\ status # "idle" => (status = "ignored" <=> family = "none")
  /\ status = "header" => index = 0 /\ block = 0 /\ tailRead = 0
  /\ status = "rejected" => ~HeaderAccepted /\ index = Parser[family].head
  /\ status \in {"blocks", "parsed"} =>
       /\ HeaderAccepted
       /\ status = "parsed" <=> tailRead = 6
       /\ Bounded => Progress

(* Whatever arrives is a packet, and one with a parser is not short. *)
LEMMA Arrived ==
  ASSUME NEW type \in DocumentedSensors,
         NEW p \in SentPackets(type) \cup StrayPackets
  PROVE  /\ p \in Packets
         /\ Dispatch(type, p.size) \in Families \cup {"none"}
         /\ p.size >= 100
<1>1. CASE p \in SentPackets(type)
  <2>1. p \in Packets /\ Sent(type, Dispatch(type, p.size), p)
    BY <1>1, SentIsDispatched
  <2> QED BY <2>1 DEF Sent, Families
<1>2. CASE p \in StrayPackets
  <2>1. /\ p \in Packets
        /\ p.size \in AnySize
    BY <1>2, StrayIsPacket
  <2> QED BY <2>1, DispatchBySize DEF Families, AnySize
<1> QED BY <1>1, <1>2
(* Every header is shorter than the smallest packet. *)
LEMMA HeadInside == \A f \in Families : Parser[f].head \in 0..12
BY DEF Families, Parser, RawData, L64Data, L20Data, QTData, XTData
(* Reading and checking the header. *)
LEMMA HeaderStep ==
  ASSUME ParserInv, ReadHeader
  PROVE  ParserInv'
<1>0. /\ status = "header" /\ index = 0 /\ block = 0 /\ tailRead = 0
      /\ packet \in SentPackets(sensor) \cup StrayPackets
      /\ family = Dispatch(sensor, packet.size) /\ family # "none"
      /\ sensor \in DocumentedSensors /\ fields \in [FieldNames -> Int]
  BY DEF ParserInv, ParserType, ReadHeader
<1>1. packet \in Packets /\ family \in Families /\ Parser[family].head \in Nat
  BY <1>0, Arrived, HeadInside
<1>2. UNCHANGED <<sensor, packet, family, block, tailRead>> /\ index' = Parser[family].head
  BY DEF ReadHeader
<1>3. CASE HeaderAccepted
  <2>2. /\ status' = "blocks"
        /\ fields' = IF family = "XT" THEN [fields EXCEPT !["sequence"] = packet.size - 4]
                                      ELSE fields
    BY <1>3 DEF ReadHeader
  <2>3. packet.size \in Nat
    BY <1>1 DEF Packets
  <2>4. fields' \in [FieldNames -> Int]
    <3>1. fields \in [FieldNames -> Int] /\ packet.size - 4 \in Int
      BY <1>0, <2>3
    <3> QED BY <2>2, <3>1
  <2>5. family = "XT" => fields'["sequence"] = packet.size - 4
    BY <1>0, <2>2 DEF FieldNames
  <2>6. ParserType'
    BY <1>0, <1>1, <1>2, <2>2, <2>4 DEF ParserType
  <2>7. BlockCount \in Nat /\ BlockSize(Parser[family], LaserCount) \in Nat
    BY <1>1, ParserCounts
  <2>8. index' = BlockStart(0) + TailStart(family, 0)
    BY <1>1, <1>2, <2>7, TailStarts DEF BlockStart
  <2>9. TimestampField(family) \in 1..6 /\ UtcField(family) \in 1..6
    BY DEF TimestampField, UtcField
  <2>10. ASSUME Bounded PROVE Progress'
    <3>0. Fits(family, packet)
      BY <1>0, <1>3, <2>10, AcceptedFits DEF HeaderAccepted, Bounded
    <3>1. Fits(family, packet)' /\ UNCHANGED BlockCount
      BY <1>2, <3>0 DEF BlockCount
    <3>2. index' = BlockStart(block)' + TailStart(family, tailRead)'
      BY <1>0, <1>2, <2>8 DEF BlockStart, LaserCount
    <3>3. (family = "XT" => fields["sequence"] = packet.size - 4)'
      BY <1>2, <2>5
    <3>4. /\ ~(tailRead >= TimestampField(family))'
          /\ ~(tailRead >= UtcField(family))'
      BY <1>0, <1>2, <2>9
    <3> QED BY <1>0, <1>2, <2>2, <2>7, <3>1, <3>2, <3>3, <3>4 DEF Progress
  <2>11. HeaderAccepted' /\ (Bounded' => Bounded)
    BY <1>2, <1>3 DEF HeaderAccepted, Bounded
  <2>12. (status = "parsed" <=> tailRead = 6)'
    BY <1>0, <1>2, <2>2
  <2>13. (packet \in SentPackets(sensor) \cup StrayPackets)'
    BY <1>0, <1>2, Zenon
  <2>14. (family = Dispatch(sensor, packet.size) /\ family # "none")'
    BY <1>0, <1>2, Zenon
  <2> QED BY <2>2, <2>6, <2>10, <2>11, <2>12, <2>13, <2>14, Zenon DEF ParserInv
<1>4. CASE ~HeaderAccepted
  <2>1. status' = "rejected" /\ UNCHANGED fields
    BY <1>4 DEF ReadHeader
  <2>2. ParserType'
    BY <1>0, <1>1, <1>2, <2>1 DEF ParserType
  <2>3. ~HeaderAccepted'
    BY <1>2, <1>4 DEF HeaderAccepted
  <2>4. index' = (Parser[family].head)'
    BY <1>2
  <2>13. (packet \in SentPackets(sensor) \cup StrayPackets)'
    BY <1>0, <1>2, Zenon
  <2>14. (family = Dispatch(sensor, packet.size) /\ family # "none")'
    BY <1>0, <1>2, Zenon
  <2> QED BY <2>1, <2>2, <2>3, <2>4, <2>13, <2>14, Zenon DEF ParserInv
<1> QED BY <1>3, <1>4
(* Reading a block moves the cursor to the next one. *)
LEMMA BlockStep ==
  ASSUME ParserInv, ReadBlock
  PROVE  ParserInv'
<1>0. /\ status = "blocks" /\ HeaderAccepted /\ ParserType /\ block < BlockCount
      /\ tailRead # 6 /\ (Bounded => Progress)
      /\ packet \in SentPackets(sensor) \cup StrayPackets
      /\ family = Dispatch(sensor, packet.size) /\ family # "none"
  BY DEF ParserInv, ReadBlock
<1> DEFINE bytes == BlockSize(Parser[family], LaserCount)
<1>1. UNCHANGED <<sensor, packet, family, status, tailRead, fields>>
      /\ index' = index + bytes /\ block' = block + 1
  BY DEF ReadBlock
<1>2. /\ family \in Families /\ BlockCount \in Nat /\ bytes \in Nat
      /\ Parser[family].head \in Nat
  <2>1. family \in Families /\ packet \in Packets
    BY <1>0, Arrived DEF ParserType
  <2> QED BY <2>1, ParserCounts
<1> HIDE DEF bytes
<1>3. ParserType'
  BY <1>0, <1>1, <1>2 DEF ParserType
<1>5. UNCHANGED <<BlockCount, LaserCount>> /\ HeaderAccepted' /\ (Bounded' => Bounded)
  BY <1>0, <1>1 DEF BlockCount, LaserCount, HeaderAccepted, Bounded
<1>9. TimestampField(family) \in 1..6 /\ UtcField(family) \in 1..6
  BY DEF TimestampField, UtcField
<1>10. ASSUME Bounded PROVE Progress'
  <2>0. Progress
    BY <1>0, <1>10
  <2>4. tailRead = 0 /\ TailStart(family, 0) = 0 /\ TailStart(family, 0) \in Nat
    BY <1>0, <1>2, <2>0, TailStarts DEF Progress, ParserType
  <2>6. BlockStart(block + 1) = BlockStart(block) + bytes /\ BlockStart(block) \in Nat
    BY <1>0, <1>2 DEF ParserType, BlockStart, bytes
  <2>7. index = BlockStart(block) + TailStart(family, 0)
    BY <2>0, <2>4 DEF Progress
  <2>8. index' = BlockStart(block + 1) + TailStart(family, 0)
    BY <1>1, <1>2, <2>4, <2>6, <2>7
  <2>1. Fits(family, packet)' /\ (family = "XT" => fields["sequence"] = packet.size - 4)'
    BY <2>0, <1>1 DEF Progress
  <2>2. index' = BlockStart(block)' + TailStart(family, tailRead)'
    BY <1>1, <2>4, <1>5, <2>8 DEF BlockStart
  <2>3. /\ ~(tailRead >= TimestampField(family))'
        /\ ~(tailRead >= UtcField(family))'
    BY <1>1, <2>4, <1>9
  <2>5. (block <= BlockCount)' /\ tailRead' = 0
    BY <1>0, <1>1, <1>2, <2>4, <1>5 DEF ParserType
  <2> QED BY <2>1, <2>2, <2>3, <2>5 DEF Progress
<1>11. (packet \in SentPackets(sensor) \cup StrayPackets)'
  BY <1>0, <1>1, Zenon
<1>12. (family = Dispatch(sensor, packet.size) /\ family # "none")'
  BY <1>0, <1>1, Zenon
<1>13. status' = "blocks" /\ tailRead' # 6
  BY <1>0, <1>1
<1> QED BY <1>3, <1>5, <1>10, <1>11, <1>12, <1>13, Zenon DEF ParserInv

(* Reading a field of the tail moves the cursor to the next one. *)
LEMMA TailStep ==
  ASSUME ParserInv, ReadTailField
  PROVE  ParserInv'
<1> DEFINE field == Parser[family].tail[tailRead + 1]
           k == tailRead + 1
<1>0. /\ status = "blocks" /\ HeaderAccepted /\ ParserType /\ block = BlockCount
      /\ tailRead # 6 /\ (Bounded => Progress)
      /\ packet \in SentPackets(sensor) \cup StrayPackets
      /\ family = Dispatch(sensor, packet.size) /\ family # "none"
  BY DEF ParserInv, ReadTailField
<1>1. /\ UNCHANGED <<sensor, packet, family, block>> /\ tailRead' = k
      /\ fields' = [fields EXCEPT ![field.name] = index] /\ index' = index + field.width
      /\ status' = IF k = Len(Parser[family].tail) THEN "parsed" ELSE status
  BY DEF ReadTailField
<1>2. family \in Families /\ BlockCount \in Nat /\ BlockStart(BlockCount) \in Nat
  <2>0. family \in Families /\ packet \in Packets
    BY <1>0, Arrived DEF ParserType
  <2>1. /\ BlockCount \in Nat
        /\ BlockSize(Parser[family], LaserCount) \in Nat /\ Parser[family].head \in Nat
    BY <2>0, ParserCounts
  <2> QED BY <2>0, <2>1 DEF BlockStart
<1>3. tailRead \in 0..5 /\ k \in 1..6 /\ k - 1 = tailRead
  BY <1>0 DEF ParserType
<1>4. /\ Len(Parser[family].tail) = 6
      /\ field.width = TailStart(family, k) - TailStart(family, tailRead)
      /\ field.name \in FieldNames \ {"sequence"}
      /\ field.name = "timestamp" <=> k = TimestampField(family)
      /\ field.name = "utc" <=> k = UtcField(family)
  BY <1>2, <1>3, TailShape
<1>5. /\ TailStart(family, k) \in Nat /\ TailStart(family, tailRead) \in Nat
      /\ TimestampField(family) \in 1..6 /\ UtcField(family) \in 1..6
  BY <1>2, <1>3, TailStarts DEF TimestampField, UtcField
<1> HIDE DEF field, k
<1>8. fields' \in [FieldNames -> Int]
  BY <1>0, <1>1, <1>4 DEF ParserType
<1>9. /\ fields'["sequence"] = fields["sequence"]
      /\ fields'["timestamp"] = IF k = TimestampField(family) THEN index ELSE fields["timestamp"]
      /\ fields'["utc"] = IF k = UtcField(family) THEN index ELSE fields["utc"]
  BY <1>0, <1>1, <1>4 DEF ParserType, FieldNames
<1>10. ParserType'
  <2>1. index' \in Int
    BY <1>0, <1>1, <1>4, <1>5 DEF ParserType
  <2>2. status' \in {"blocks", "parsed"} /\ tailRead' \in 0..6
    BY <1>0, <1>1, <1>3
  <2> QED BY <1>0, <1>1, <1>8, <2>1, <2>2 DEF ParserType
<1>11. UNCHANGED <<BlockCount, LaserCount>> /\ HeaderAccepted' /\ (Bounded' => Bounded)
  BY <1>0, <1>1 DEF BlockCount, LaserCount, HeaderAccepted, Bounded
<1>12. (BlockStart(BlockCount))' = BlockStart(BlockCount)
  BY <1>1, <1>11 DEF BlockStart
<1>15. ASSUME Bounded PROVE Progress'
  <2>0. Progress
    BY <1>0, <1>15
  <2>6. index = BlockStart(BlockCount) + TailStart(family, tailRead)
    BY <1>0, <2>0 DEF Progress
  <2>7. index' = BlockStart(BlockCount) + TailStart(family, k)
    BY <1>1, <1>2, <1>4, <1>5, <2>6
  <2>8. k >= TimestampField(family) =>
          fields'["timestamp"] = BlockStart(BlockCount) + TailStart(family, TimestampField(family) - 1)
    <3>1. CASE k = TimestampField(family)
      BY <1>3, <2>6, <1>9, <3>1
    <3>2. CASE k > TimestampField(family)
      <4>1. tailRead >= TimestampField(family) /\ fields'["timestamp"] = fields["timestamp"]
        BY <1>3, <1>5, <1>9, <3>2
      <4> QED BY <2>0, <4>1 DEF Progress
    <3> QED BY <1>3, <1>5, <3>1, <3>2
  <2>9. k >= UtcField(family) =>
          fields'["utc"] = BlockStart(BlockCount) + TailStart(family, UtcField(family) - 1)
    <3>1. CASE k = UtcField(family)
      BY <1>3, <2>6, <1>9, <3>1
    <3>2. CASE k > UtcField(family)
      <4>1. tailRead >= UtcField(family) /\ fields'["utc"] = fields["utc"]
        BY <1>3, <1>5, <1>9, <3>2
      <4> QED BY <2>0, <4>1 DEF Progress
    <3> QED BY <1>3, <1>5, <3>1, <3>2
  <2>1. Fits(family, packet)' /\ (block <= BlockCount)' /\ (block = BlockCount)'
    BY <1>0, <1>1, <1>2, <1>11, <2>0 DEF Progress
  <2>3. index' = BlockStart(block)' + TailStart(family, tailRead)'
    BY <1>0, <1>1, <2>7, <1>12, <2>1
  <2>4. (family = "XT" => fields["sequence"] = packet.size - 4)'
    BY <2>0, <1>1, <1>9 DEF Progress
  <2>5. (tailRead >= TimestampField(family) =>
           fields["timestamp"] = BlockStart(BlockCount)
                                   + TailStart(family, TimestampField(family) - 1))'
    BY <1>1, <1>12, <2>8
  <2>10. (tailRead >= UtcField(family) =>
           fields["utc"] = BlockStart(BlockCount) + TailStart(family, UtcField(family) - 1))'
    BY <1>1, <1>12, <2>9
  <2> QED BY <2>1, <2>3, <2>4, <2>5, <2>10 DEF Progress
<1>16. status' \in {"blocks", "parsed"} /\ (status = "parsed" <=> tailRead = 6)'
  BY <1>0, <1>1, <1>3, <1>4
<1>17. (packet \in SentPackets(sensor) \cup StrayPackets)'
  BY <1>0, <1>1, Zenon
<1>18. (family = Dispatch(sensor, packet.size) /\ family # "none")'
  BY <1>0, <1>1, Zenon
<1>19. status' # "idle" /\ status' # "ignored" /\ status' # "header" /\ status' # "rejected"
  BY <1>16
<1> QED BY <1>10, <1>11, <1>15, <1>16, <1>17, <1>18, <1>19, Zenon DEF ParserInv

(* A packet arrives and is handed to a parser or left alone. *)
LEMMA ReceiveStep ==
  ASSUME ParserInv, Receive
  PROVE  ParserInv'
<1>1. /\ packet' \in SentPackets(sensor) \cup StrayPackets
      /\ family' = Dispatch(sensor, packet'.size)
      /\ status' = IF family' = "none" THEN "ignored" ELSE "header"
      /\ index' = 0 /\ block' = 0 /\ tailRead' = 0 /\ fields' = NotRead
      /\ sensor' = sensor
  BY DEF Receive
<1>2. sensor \in DocumentedSensors
  BY DEF ParserInv, ParserType
<1>3. packet' \in Packets
  BY <1>1, <1>2, Arrived
<1>4. NotRead \in [FieldNames -> Int]
  BY DEF NotRead
<1>5. status' \in {"ignored", "header"}
  BY <1>1
<1>6. ParserType'
  BY <1>1, <1>2, <1>3, <1>4, <1>5 DEF ParserType
<1> QED BY <1>1, <1>5, <1>6 DEF ParserInv
(* The cursor of the parser is where the header, blocks and fields it has  *)
(* read end, in every reachable state.                                     *)
LEMMA ParserInvariant == ParserSpec => []ParserInv
<1>1. ParserInit => ParserInv
  <2> SUFFICES ASSUME ParserInit PROVE ParserInv
    OBVIOUS
  <2>1. sensor \in DocumentedSensors
    BY LayoutAssumption DEF ParserInit
  <2>2. packet \in Packets
    BY DEF ParserInit, Packets
  <2>3. NotRead \in [FieldNames -> Int]
    BY DEF NotRead
  <2>4. status = "idle" /\ index = 0 /\ block = 0 /\ tailRead = 0 /\ fields = NotRead
    BY DEF ParserInit
  <2> QED BY <2>1, <2>2, <2>3, <2>4 DEF ParserInv, ParserType
<1>2. ParserInv /\ UNCHANGED parserVars => ParserInv'
  BY DEF ParserInv, ParserType, parserVars, Progress, HeaderAccepted, Bounded,
         BlockCount, LaserCount, BlockStart
<1>3. ParserInv /\ [ParserNext]_parserVars => ParserInv'
  BY <1>2, ReceiveStep, HeaderStep, BlockStep, TailStep DEF ParserNext
<1> QED BY <1>1, <1>3, PTL DEF ParserSpec

(* For every set of documented sensors: of the packets a sensor sends, the *)
(* Parse functions never read past the end, and never fill more blocks or  *)
(* units than their arrays have.  ParseRawData and ParseXTData do neither  *)
(* for any packet, whatever counts its header claims.                      *)
THEOREM ParserReadsInside == ParserSpec => []ReadsInside
<1>1. ParserInv => ReadsInside
  <2> SUFFICES ASSUME ParserInv, Bounded, status # "ignored" PROVE
        /\ index <= packet.size
        /\ status \in {"blocks", "parsed"} =>
             BlockCount <= Parser[family].blocks /\ LaserCount <= Parser[family].units
    BY DEF ReadsInside
  <2>0. ParserType /\ packet \in Packets /\ packet.size \in Nat
    BY DEF ParserInv, ParserType, Packets
  <2>1. CASE status \in {"idle", "header"}
    <3>1. index = 0
      BY <2>1 DEF ParserInv
    <3> QED BY <2>0, <2>1, <3>1
  <2>2. CASE status = "rejected"
    <3>1. /\ index = Parser[family].head /\ packet.size >= 100
          /\ family = Dispatch(sensor, packet.size) /\ family # "none"
      BY <2>2, Arrived DEF ParserInv, ParserType
    <3>2. family \in Families
      BY <2>2, <3>1, Arrived DEF ParserInv, ParserType
    <3>3. Parser[family].head \in 0..12
      BY <3>2, HeadInside
    <3> QED BY <2>0, <2>2, <3>1, <3>3
  <2>3. CASE status \in {"blocks", "parsed"}
    <3> DEFINE bytes == BlockSize(Parser[family], LaserCount)
               head == Parser[family].head
               last == TailStart(family, 6)
    <3>1. Progress /\ block \in Nat /\ tailRead \in 0..6
      BY <2>0, <2>3 DEF ParserInv, ParserType
    <3>2. /\ family \in Families /\ BlockCount \in Nat /\ bytes \in Nat /\ head \in Nat
          /\ BlockCount <= Parser[family].blocks /\ LaserCount <= Parser[family].units
          /\ packet.size - (BlockStart(BlockCount) + last) \in {0, 4}
      BY <2>0, <3>1, FitsParser DEF Progress
    <3>3. /\ index = BlockStart(block) + TailStart(family, tailRead)
          /\ TailStart(family, tailRead) \in Nat /\ last \in Nat
          /\ TailStart(family, tailRead) <= last
      BY <3>1, <3>2, TailStarts DEF Progress
    <3>4. block * bytes <= BlockCount * bytes
      BY <3>1, <3>2, ProductMonotone DEF Progress
    <3>5. /\ BlockStart(block) = head + block * bytes
          /\ BlockStart(BlockCount) = head + BlockCount * bytes
      BY DEF BlockStart
    <3> HIDE DEF bytes, head, last
    <3>6. BlockStart(block) <= BlockStart(BlockCount) /\ BlockStart(block) \in Int
          /\ BlockStart(BlockCount) \in Int
      BY <3>1, <3>2, <3>4, <3>5
    <3> QED BY <2>0, <3>2, <3>3, <3>6
  <2> QED BY <2>0, <2>1, <2>2, <2>3 DEF ParserType
<1> QED BY <1>1, ParserInvariant, PTL

(* What is sent, as the sensors' own packets. *)
LEMMA SentBySensor ==
  ASSUME NEW type \in DocumentedSensors, NEW f, NEW p \in Packets, Sent(type, f, p), p.sob = TRUE
  PROVE  \E q \in SentPackets(type) :
           /\ q.size = p.size /\ q.sob = TRUE
           /\ q.blocks = p.blocks /\ q.lasers = p.lasers
<1> DEFINE made == SentPacket(type, p.size, 1)
<1>1. p.size \in SizesOf(type)
  BY DEF Sent, SizesOf
<1>2. 1 \in ReturnsOf(type)
  BY DEF ReturnsOf
<1>3. made \in SentPackets(type)
  BY <1>1, <1>2 DEF SentPackets
<1>4. SentBy(type, p.size) = [blocks |-> p.blocks, lasers |-> p.lasers]
  <2>1. CASE type = "Pandar64"
    <3>1. SentBy(type, p.size) = [blocks |-> IF p.size < 1300 THEN 6 ELSE 7, lasers |-> 64]
      BY <2>1 DEF SentBy
    <3> QED BY <2>1, <3>1 DEF Sent
  <2>2. CASE type \in {"Pandar40P", "Pandar40M"}
    BY <2>2 DEF Sent, SentBy
  <2>3. CASE type \in {"Pandar20A", "Pandar20B"}
    BY <2>3 DEF Sent, SentBy
  <2>4. CASE type = "PandarQT"
    BY <2>4 DEF Sent, SentBy
  <2>5. CASE type = "PandarXT-32"
    BY <2>5 DEF Sent, SentBy
  <2>6. CASE type = "PandarXT-16"
    BY <2>6 DEF Sent, SentBy
  <2>7. CASE type = "PandarXTM"
    BY <2>7 DEF Sent, SentBy
  <2> QED BY <2>1, <2>2, <2>3, <2>4, <2>5, <2>6, <2>7 DEF DocumentedSensors
<1> QED BY <1>3, <1>4 DEF SentPacket

(* The headers of the sensors' own packets pass the checks. *)
LEMMA SentIsAccepted ==
  ASSUME ParserType, packet \in SentPackets(sensor),
         family = Dispatch(sensor, packet.size)
  PROVE  family # "none" /\ HeaderAccepted
<1>1. Sent(sensor, family, packet) /\ packet.sob = TRUE
  BY SentIsDispatched DEF ParserType
<1>2. family # "none"
  BY <1>1 DEF Sent
<1>3. family = "XT" => LayoutChecked(packet)
  BY <1>1 DEF Sent, LayoutChecked, XTData, BodySize, BlockSize
<1>4. packet.sob
  BY <1>1
<1> QED BY <1>2, <1>3, <1>4 DEF HeaderAccepted

(* A packet that its sensor sends is parsed: every size of every           *)
(* documented sensor is dispatched to a parser that takes it.  Of the      *)
(* parsers, ParseXTData takes nothing else: the configured model's own     *)
(* size and counts, whatever arrives.                                      *)
THEOREM SensorsParsed == ParserSpec => []ParsedAsSent
<1>1. ParserInv => ParsedAsSent
  <2> SUFFICES ASSUME ParserInv PROVE ParsedAsSent
    OBVIOUS
  <2>0. ParserType /\ sensor \in DocumentedSensors /\ packet \in Packets
    BY DEF ParserInv, ParserType
  <2>1. ASSUME status = "parsed", family = "XT"
        PROVE  \E p \in SentPackets(sensor) :
                 /\ <<p.size, p.sob>> = <<packet.size, packet.sob>>
                 /\ <<p.blocks, p.lasers>> = <<packet.blocks, packet.lasers>>
    <3>0. /\ LayoutChecked(packet) /\ packet.sob = TRUE
          /\ packet \in SentPackets(sensor) \cup StrayPackets
          /\ family = Dispatch(sensor, packet.size)
      BY <2>0, <2>1 DEF ParserInv, HeaderAccepted, Packets
    <3>1. Sent(sensor, family, packet) /\ packet.sob = TRUE
      <4>1. CASE packet \in SentPackets(sensor)
        BY <2>0, <3>0, <4>1, SentIsDispatched, Zenon
      <4>2. CASE packet \in StrayPackets
        <5>1. packet.size \in AnySize
          BY <4>2, StrayIsPacket
        <5>2. PICK f : f = family
          BY Zenon
        <5>3. f = Dispatch(sensor, packet.size) /\ f = "XT" /\ LayoutChecked(packet)
          BY <2>1, <3>0, <5>2
        <5>4. Sent(sensor, f, packet)
          BY <2>0, <5>1, <5>3, AcceptedXTIsSent, Zenon
        <5> QED BY <3>0, <5>2, <5>4, Zenon
      <4> QED BY <3>0, <4>1, <4>2, Zenon
    <3>2. PICK q \in SentPackets(sensor) :
           /\ q.size = packet.size /\ q.sob = TRUE
           /\ q.blocks = packet.blocks /\ q.lasers = packet.lasers
      BY <2>0, <3>1, SentBySensor
    <3>3. <<q.size, q.sob>> = <<packet.size, packet.sob>>
      BY <3>1, <3>2, Zenon
    <3>4. <<q.blocks, q.lasers>> = <<packet.blocks, packet.lasers>>
      BY <3>2, Zenon
    <3> QED BY <3>3, <3>4, Zenon
  <2>2. ASSUME status \in {"ignored", "rejected"} PROVE packet \notin SentPackets(sensor)
    <3> SUFFICES ASSUME packet \in SentPackets(sensor) PROVE FALSE
      OBVIOUS
    <3>1. family # "none" /\ HeaderAccepted
      BY <2>0, <2>2, SentIsAccepted DEF ParserInv
    <3> QED BY <2>2, <3>1 DEF ParserInv
  <2> QED BY <2>1, <2>2, Zenon DEF ParsedAsSent
<1> QED BY <1>1, ParserInvariant, PTL

(* The indices of the pcap reader's table are those of the fields the      *)
(* parser reads.                                                           *)
LEMMA TimeFound ==
  ASSUME ParserType, Sent(sensor, family, packet), ~(sensor = "Pandar64" /\ packet.blocks = 7)
  PROVE  TimeIndex(sensor) =
           <<BlockStart(BlockCount) + TailStart(family, TimestampField(family) - 1),
             BlockStart(BlockCount) + TailStart(family, UtcField(family) - 1)>>
<1> USE DEF BlockCount, LaserCount, BlockStart, BlockSize, Families
<1>1. CASE family = "raw"
  <2>1. /\ Parser[family] = RawData /\ sensor \in {"Pandar40P", "Pandar40M"}
        /\ TailStart(family, TimestampField(family) - 1) = 10
        /\ TailStart(family, UtcField(family) - 1) = 16
    BY <1>1, TailStarts DEF Parser, Sent
  <2>2. TimeIndex(sensor) = <<1250, 1256>>
    BY <2>1 DEF TimeIndex
  <2>3. BlockStart(BlockCount) = 1240
    BY <1>1, <2>1 DEF RawData
  <2> QED BY <2>1, <2>2, <2>3
<1>2. CASE family = "L64"
  <2>1. /\ Parser[family] = L64Data /\ sensor = "Pandar64" /\ packet.blocks = 6
        /\ packet.lasers = 64
        /\ TailStart(family, TimestampField(family) - 1) = 10
        /\ TailStart(family, UtcField(family) - 1) = 16
    BY <1>2, TailStarts DEF Parser, Sent
  <2>2. TimeIndex(sensor) = <<1182, 1188>>
    BY <2>1 DEF TimeIndex
  <2>3. BlockStart(BlockCount) = 1172
    BY <1>2, <2>1 DEF L64Data
  <2> QED BY <2>1, <2>2, <2>3
<1>3. CASE family = "L20"
  <2>1. /\ Parser[family] = L20Data /\ sensor \in {"Pandar20A", "Pandar20B"}
        /\ packet.blocks = 20 /\ packet.lasers = 20
        /\ TailStart(family, TimestampField(family) - 1) = 10
        /\ TailStart(family, UtcField(family) - 1) = 16
    BY <1>3, TailStarts DEF Parser, Sent
  <2>2. TimeIndex(sensor) = <<1258, 1264>>
    BY <2>1 DEF TimeIndex
  <2>3. BlockStart(BlockCount) = 1248
    BY <1>3, <2>1 DEF L20Data
  <2> QED BY <2>1, <2>2, <2>3
<1>4. CASE family = "QT"
  <2>1. /\ Parser[family] = QTData /\ sensor = "PandarQT" /\ packet.blocks = 4
        /\ packet.lasers = 64
        /\ TailStart(family, TimestampField(family) - 1) = 12
        /\ TailStart(family, UtcField(family) - 1) = 18
    BY <1>4, TailStarts DEF Parser, Sent
  <2>2. TimeIndex(sensor) = <<1056, 1062>>
    BY <2>1 DEF TimeIndex
  <2>3. BlockStart(BlockCount) = 1044
    BY <1>4, <2>1 DEF QTData
  <2> QED BY <2>1, <2>2, <2>3
<1>5. CASE family = "XT"
  <2>1. /\ Parser[family] = XTData
        /\ TailStart(family, TimestampField(family) - 1) = 19
        /\ TailStart(family, UtcField(family) - 1) = 13
    BY <1>5, TailStarts DEF Parser
  <2>2. CASE sensor = "PandarXT-32"
    <3>1. packet.blocks = 8 /\ packet.lasers = 32
      BY <2>2 DEF Sent
    <3>2. TimeIndex(sensor) = <<1071, 1065>> /\ BlockStart(BlockCount) = 1052
      BY <1>5, <2>1, <2>2, <3>1 DEF TimeIndex, XTData
    <3> QED BY <2>1, <3>2
  <2>3. CASE sensor = "PandarXT-16"
    <3>1. packet.blocks = 8 /\ packet.lasers = 16
      BY <2>3 DEF Sent
    <3>2. TimeIndex(sensor) = <<559, 553>> /\ BlockStart(BlockCount) = 540
      BY <1>5, <2>1, <2>3, <3>1 DEF TimeIndex, XTData
    <3> QED BY <2>1, <3>2
  <2>4. CASE sensor = "PandarXTM"
    <3>1. packet.blocks = 6 /\ packet.lasers = 32
      BY <2>4 DEF Sent
    <3>2. TimeIndex(sensor) = <<811, 805>> /\ BlockStart(BlockCount) = 792
      BY <1>5, <2>1, <2>4, <3>1 DEF TimeIndex, XTData
    <3> QED BY <2>1, <3>2
  <2> QED BY <1>5, <2>2, <2>3, <2>4 DEF Sent
<1> QED BY <1>1, <1>2, <1>3, <1>4, <1>5 DEF Sent
(* When a packet is parsed, the sequence number of an XT ends it, and time *)
(* and date were read from the bytes at which the pcap reader looks for    *)
(* them before it hands the packet on.                                     *)
THEOREM ParserFieldsWhereExpected == ParserSpec => []FieldsWhereExpected
<1>1. ParserInv => FieldsWhereExpected
  <2> SUFFICES ASSUME ParserInv, status = "parsed", packet \in SentPackets(sensor)
               PROVE  /\ IF family = "XT"
                           THEN fields["sequence"] = index /\ index + 4 = packet.size
                           ELSE packet.size - index \in {0, 4}
                      /\ ~(sensor = "Pandar64" /\ packet.blocks = 7) =>
                           TimeIndex(sensor) = <<fields["timestamp"], fields["utc"]>>
    BY Zenon DEF FieldsWhereExpected
  <2>1. ParserType /\ Progress /\ packet \in Packets /\ packet.size \in Nat
    BY DEF ParserInv, ParserType, Packets, Bounded
  <2>10. Sent(sensor, family, packet)
    BY <2>1, SentIsDispatched DEF ParserInv, ParserType
  <2>11. tailRead = 6
    BY DEF ParserInv
  <2>2. /\ tailRead = 6 /\ block = BlockCount
        /\ Sent(sensor, family, packet)
        /\ index = BlockStart(BlockCount) + TailStart(family, 6)
        /\ family = "XT" => fields["sequence"] = packet.size - 4
    BY <2>1, <2>10, <2>11 DEF Progress
  <2>3. /\ family \in Families
        /\ packet.size - (BlockStart(BlockCount) + TailStart(family, 6)) \in {0, 4}
        /\ family = "XT" => packet.size = BlockStart(BlockCount) + TailStart(family, 6) + 4
    BY <2>1, <2>2, FitsParser DEF Progress
  <2>4. index \in Int
    BY <2>1 DEF ParserType
  <2>5. packet.size - index \in {0, 4} /\ (family = "XT" => packet.size = index + 4)
    BY <2>2, <2>3
  <2>6. IF family = "XT" THEN fields["sequence"] = index /\ index + 4 = packet.size
                         ELSE packet.size - index \in {0, 4}
    BY <2>1, <2>2, <2>4, <2>5
  <2>7. TimestampField(family) \in 1..6 /\ UtcField(family) \in 1..6
    BY DEF TimestampField, UtcField
  <2>8. /\ fields["timestamp"] = BlockStart(BlockCount) + TailStart(family, TimestampField(family) - 1)
        /\ fields["utc"] = BlockStart(BlockCount) + TailStart(family, UtcField(family) - 1)
    BY <2>1, <2>2, <2>7 DEF Progress
  <2>9. ~(sensor = "Pandar64" /\ packet.blocks = 7) =>
          TimeIndex(sensor) = <<fields["timestamp"], fields["utc"]>>
    BY <2>1, <2>2, <2>8, TimeFound
  <2> QED BY <2>6, <2>9
<1> QED BY <1>1, ParserInvariant, PTL

(* The blocks of the first n whose firing is complete have offsets that    *)
(* grow, or fall, from firing to firing.                                   *)
Rises(offset, returns, n) ==
  \A b, c \in 0..((n \div returns) * returns - 1) \cap DOMAIN offset :
    b < c => IF b \div returns = c \div returns THEN offset[b] = offset[c]
                                                ELSE offset[b] < offset[c]

Falls(offset, returns, n) ==
  \A b, c \in 0..((n \div returns) * returns - 1) \cap DOMAIN offset :
    b < c => IF b \div returns = c \div returns THEN offset[b] = offset[c]
                                                ELSE offset[b] > offset[c]
(* The offsets of the tables, one by one. *)
LEMMA OffsetsInOrder ==
  /\ \A returns \in 1..2 :
       /\ Falls(Block40(returns), returns, 10)
       /\ Falls(Block64(returns), returns, 6) /\ Falls(Block64(returns), returns, 7)
       /\ Falls(Block20(returns), returns, 20)
       /\ Rises(BlockQT(returns), returns, 4)
       /\ Rises(BlockXT(returns), returns, 8)
  /\ \A returns \in 1..3 : Rises(BlockXTM(returns), returns, 6)
<1>1. \A returns \in 1..2 : Falls(Block40(returns), returns, 10)
  BY DEF Falls, Block40
<1>2. \A returns \in 1..2 : Falls(Block64(returns), returns, 6)
                            /\ Falls(Block64(returns), returns, 7)
  BY DEF Falls, Block64
<1>3. \A returns \in 1..2 : Falls(Block20(returns), returns, 20)
  BY DEF Falls, Block20
<1>4. \A returns \in 1..2 : Rises(BlockQT(returns), returns, 4)
  BY DEF Rises, BlockQT
<1>5. \A returns \in 1..2 : Rises(BlockXT(returns), returns, 8)
  BY DEF Rises, BlockXT
<1>6. \A returns \in 1..3 : Rises(BlockXTM(returns), returns, 6)
  BY DEF Rises, BlockXTM
<1> QED BY <1>1, <1>2, <1>3, <1>4, <1>5, <1>6

(* The tables have an offset, a number, for each block there is. *)
LEMMA OffsetTables ==
  ASSUME NEW returns \in 1..3
  PROVE  /\ Block40(returns) \in [0..9 -> Int] /\ Block64(returns) \in [0..5 -> Int]
         /\ Block20(returns) \in [0..19 -> Int] /\ BlockQT(returns) \in [0..3 -> Int]
         /\ BlockXT(returns) \in [0..7 -> Int] /\ BlockXTM(returns) \in [0..7 -> Int]
<1>1. Block40(returns) \in [0..9 -> Int] /\ Block64(returns) \in [0..5 -> Int]
      /\ Block20(returns) \in [0..19 -> Int]
  BY DEF Block40, Block64, Block20
<1>2. BlockQT(returns) \in [0..3 -> Int]
  BY DEF BlockQT
<1>3. BlockXT(returns) \in [0..7 -> Int] /\ BlockXTM(returns) \in [0..7 -> Int]
  BY DEF BlockXT, BlockXTM
<1> QED BY <1>1, <1>2, <1>3

(* Which table, and how its offsets go, for each sensor. *)
InOrder(type, p) ==
  LET offset == BlockOffset(type, p.returns)
  IN  IF type = "PandarQT" \/ IsXT(type) THEN Rises(offset, p.returns, p.blocks)
                                         ELSE Falls(offset, p.returns, p.blocks)

Covered(type, p) ==
  /\ \A b \in DOMAIN BlockOffset(type, p.returns) : BlockOffset(type, p.returns)[b] \in Int
  /\ \A b \in 0..(p.blocks - 1) :
       b \in DOMAIN BlockOffset(type, p.returns) \/ (type = "Pandar64" /\ b = 6)
  /\ \A l \in 0..(p.lasers - 1) :
       l \in LaserOffsets(type) \/ (type \in {"Pandar40P", "Pandar40M"} /\ l = 7)
(* Each sensor's blocks are in the order of their firing. *)
LEMMA SensorInOrder ==
  ASSUME NEW type \in DocumentedSensors, NEW f, NEW p \in Packets, Sent(type, f, p),
         p.returns \in ReturnsOf(type)
  PROVE  InOrder(type, p) /\ Covered(type, p)
<1>0. p.returns \in 1..3 /\ (type # "PandarXTM" => p.returns \in 1..2)
  BY DEF ReturnsOf
<1>1. CASE type \in {"Pandar40P", "Pandar40M"}
  <2>1. /\ BlockOffset(type, p.returns) = Block40(p.returns) /\ LaserOffsets(type) = Laser40
        /\ p.blocks = 10 /\ p.lasers = 40
    BY <1>1 DEF Sent, BlockOffset, LaserOffsets
  <2>2. DOMAIN Block40(p.returns) = 0..9 /\ \A b \in 0..9 : Block40(p.returns)[b] \in Int
    BY <1>0, OffsetTables
  <2>3. Covered(type, p)
    <3>1. \A b \in 0..(p.blocks - 1) : b \in 0..9
      <4>1. p.blocks = 10
        BY <2>1
      <4> QED BY <4>1
    <3>2. \A l \in 0..(p.lasers - 1) : l \in LaserOffsets(type) \/ l = 7
      <4>1. LaserOffsets(type) = Laser40 /\ p.lasers = 40
        BY <2>1
      <4> QED BY <4>1 DEF Laser40
    <3>3. /\ DOMAIN BlockOffset(type, p.returns) = 0..9
          /\ \A b \in 0..9 : BlockOffset(type, p.returns)[b] \in Int
      BY <2>1, <2>2
    <3> QED BY <1>1, <3>1, <3>2, <3>3, Zenon DEF Covered
  <2>4. InOrder(type, p)
    <3>1. Falls(BlockOffset(type, p.returns), p.returns, p.blocks)
      BY <1>0, <1>1, <2>1, OffsetsInOrder
    <3>2. ~(type = "PandarQT" \/ IsXT(type))
      BY <1>1 DEF IsXT
    <3> QED BY <3>1, <3>2, Zenon DEF InOrder
  <2> QED BY <2>3, <2>4
<1>2. CASE type = "Pandar64"
  <2>1. /\ BlockOffset(type, p.returns) = Block64(p.returns) /\ LaserOffsets(type) = 0..63
        /\ p.blocks \in {6, 7} /\ p.lasers = 64
    BY <1>2 DEF Sent, BlockOffset, LaserOffsets
  <2>2. DOMAIN Block64(p.returns) = 0..5 /\ \A b \in 0..5 : Block64(p.returns)[b] \in Int
    BY <1>0, OffsetTables
  <2>3. Covered(type, p)
    <3>1. \A b \in 0..(p.blocks - 1) : b \in 0..5 \/ b = 6
      <4>1. p.blocks \in {6, 7}
        BY <2>1
      <4> QED BY <4>1
    <3>2. \A l \in 0..(p.lasers - 1) : l \in LaserOffsets(type)
      <4>1. LaserOffsets(type) = 0..63 /\ p.lasers = 64
        BY <2>1
      <4> QED BY <4>1
    <3>3. /\ DOMAIN BlockOffset(type, p.returns) = 0..5
          /\ \A b \in 0..5 : BlockOffset(type, p.returns)[b] \in Int
      BY <2>1, <2>2
    <3> QED BY <1>2, <3>1, <3>2, <3>3, Zenon DEF Covered
  <2>4. InOrder(type, p)
    <3>1. Falls(BlockOffset(type, p.returns), p.returns, p.blocks)
      BY <1>0, <1>2, <2>1, OffsetsInOrder
    <3>2. ~(type = "PandarQT" \/ IsXT(type))
      BY <1>2 DEF IsXT
    <3> QED BY <3>1, <3>2, Zenon DEF InOrder
  <2> QED BY <2>3, <2>4
<1>3. CASE type \in {"Pandar20A", "Pandar20B"}
  <2>1. /\ BlockOffset(type, p.returns) = Block20(p.returns) /\ LaserOffsets(type) = 0..19
        /\ p.blocks = 20 /\ p.lasers = 20
    BY <1>3 DEF Sent, BlockOffset, LaserOffsets
  <2>2. DOMAIN Block20(p.returns) = 0..19 /\ \A b \in 0..19 : Block20(p.returns)[b] \in Int
    BY <1>0, OffsetTables
  <2>3. Covered(type, p)
    <3>1. \A b \in 0..(p.blocks - 1) : b \in 0..19
      <4>1. p.blocks = 20
        BY <2>1
      <4> QED BY <4>1
    <3>2. \A l \in 0..(p.lasers - 1) : l \in LaserOffsets(type)
      <4>1. LaserOffsets(type) = 0..19 /\ p.lasers = 20
        BY <2>1
      <4> QED BY <4>1
    <3>3. /\ DOMAIN BlockOffset(type, p.returns) = 0..19
          /\ \A b \in 0..19 : BlockOffset(type, p.returns)[b] \in Int
      BY <2>1, <2>2
    <3> QED BY <1>3, <3>1, <3>2, <3>3, Zenon DEF Covered
  <2>4. InOrder(type, p)
    <3>1. Falls(BlockOffset(type, p.returns), p.returns, p.blocks)
      BY <1>0, <1>3, <2>1, OffsetsInOrder
    <3>2. ~(type = "PandarQT" \/ IsXT(type))
      BY <1>3 DEF IsXT
    <3> QED BY <3>1, <3>2, Zenon DEF InOrder
  <2> QED BY <2>3, <2>4
<1>4. CASE type = "PandarQT"
  <2>1. /\ BlockOffset(type, p.returns) = BlockQT(p.returns) /\ LaserOffsets(type) = 0..63
        /\ p.blocks = 4 /\ p.lasers = 64
    BY <1>4 DEF Sent, BlockOffset, LaserOffsets
  <2>2. DOMAIN BlockQT(p.returns) = 0..3 /\ \A b \in 0..3 : BlockQT(p.returns)[b] \in Int
    BY <1>0, OffsetTables
  <2>3. Covered(type, p)
    <3>1. \A b \in 0..(p.blocks - 1) : b \in 0..3
      <4>1. p.blocks = 4
        BY <2>1
      <4> QED BY <4>1
    <3>2. \A l \in 0..(p.lasers - 1) : l \in LaserOffsets(type)
      <4>1. LaserOffsets(type) = 0..63 /\ p.lasers = 64
        BY <2>1
      <4> QED BY <4>1
    <3>3. /\ DOMAIN BlockOffset(type, p.returns) = 0..3
          /\ \A b \in 0..3 : BlockOffset(type, p.returns)[b] \in Int
      BY <2>1, <2>2
    <3> QED BY <1>4, <3>1, <3>2, <3>3, Zenon DEF Covered
  <2>4. InOrder(type, p)
    <3>1. Rises(BlockOffset(type, p.returns), p.returns, p.blocks)
      BY <1>0, <1>4, <2>1, OffsetsInOrder
    <3>2. type = "PandarQT" \/ IsXT(type)
      BY <1>4 DEF IsXT
    <3> QED BY <3>1, <3>2, Zenon DEF InOrder
  <2> QED BY <2>3, <2>4
<1>5. CASE type \in {"PandarXT-32", "PandarXT-16"}
  <2>1. BlockOffset(type, p.returns) = BlockXT(p.returns) /\ p.blocks = 8
    BY <1>5 DEF Sent, BlockOffset
  <2>2. \/ LaserOffsets(type) = 0..31 /\ p.lasers = 32
        \/ LaserOffsets(type) = 0..15 /\ p.lasers = 16
    BY <1>5 DEF Sent, LaserOffsets
  <2>3. DOMAIN BlockXT(p.returns) = 0..7 /\ \A b \in 0..7 : BlockXT(p.returns)[b] \in Int
    BY <1>0, OffsetTables
  <2>4. Covered(type, p)
    <3>1. \A b \in 0..(p.blocks - 1) : b \in 0..7
      <4>1. p.blocks = 8
        BY <2>1
      <4> QED BY <4>1
    <3>2. \A l \in 0..(p.lasers - 1) : l \in LaserOffsets(type)
      BY <2>2
    <3>3. /\ DOMAIN BlockOffset(type, p.returns) = 0..7
          /\ \A b \in 0..7 : BlockOffset(type, p.returns)[b] \in Int
      BY <2>1, <2>3
    <3> QED BY <1>5, <3>1, <3>2, <3>3, Zenon DEF Covered
  <2>5. InOrder(type, p)
    <3>1. Rises(BlockOffset(type, p.returns), p.returns, p.blocks)
      BY <1>0, <1>5, <2>1, OffsetsInOrder
    <3>2. type = "PandarQT" \/ IsXT(type)
      BY <1>5 DEF IsXT
    <3> QED BY <3>1, <3>2, Zenon DEF InOrder
  <2> QED BY <2>4, <2>5
<1>6. CASE type = "PandarXTM"
  <2>1. /\ BlockOffset(type, p.returns) = BlockXTM(p.returns) /\ LaserOffsets(type) = 0..31
        /\ p.blocks = 6 /\ p.lasers = 32
    BY <1>6 DEF Sent, BlockOffset, LaserOffsets
  <2>2. DOMAIN BlockXTM(p.returns) = 0..7 /\ \A b \in 0..7 : BlockXTM(p.returns)[b] \in Int
    BY <1>0, OffsetTables
  <2>3. Covered(type, p)
    <3>1. \A b \in 0..(p.blocks - 1) : b \in 0..7
      <4>1. p.blocks = 6
        BY <2>1
      <4> QED BY <4>1
    <3>2. \A l \in 0..(p.lasers - 1) : l \in LaserOffsets(type)
      <4>1. LaserOffsets(type) = 0..31 /\ p.lasers = 32
        BY <2>1
      <4> QED BY <4>1
    <3>3. /\ DOMAIN BlockOffset(type, p.returns) = 0..7
          /\ \A b \in 0..7 : BlockOffset(type, p.returns)[b] \in Int
      BY <2>1, <2>2
    <3> QED BY <1>6, <3>1, <3>2, <3>3, Zenon DEF Covered
  <2>4. InOrder(type, p)
    <3>1. Rises(BlockOffset(type, p.returns), p.returns, p.blocks)
      BY <1>0, <1>6, <2>1, OffsetsInOrder
    <3>2. type = "PandarQT" \/ IsXT(type)
      BY <1>6 DEF IsXT
    <3> QED BY <3>1, <3>2, Zenon DEF InOrder
  <2> QED BY <2>3, <2>4
<1> QED BY <1>1, <1>2, <1>3, <1>4, <1>5, <1>6 DEF DocumentedSensors

(* A packet has as many returns per firing as its sensor can send. *)
LEMMA ReturnsSent ==
  ASSUME NEW type \in DocumentedSensors, NEW p \in SentPackets(type)
  PROVE  p.returns \in ReturnsOf(type)
BY DEF SentPackets, SentPacket

(* For every documented sensor, and one, two or three returns of a firing: *)
(* the offset tables that Init fills date the blocks of a parsed packet in *)
(* the order in which they were fired, those of one firing alike, and      *)
(* cover the blocks and lasers it has but for the ones named.              *)
THEOREM ParserBlocksInFiringOrder == ParserSpec => []BlocksInFiringOrder
<1>1. ParserInv => BlocksInFiringOrder
  <2> DEFINE returns == packet.returns
             offset == BlockOffset(sensor, returns)
             time(b) == FiringTime(sensor, returns, b)
             firing(b) == b \div returns
             last == (packet.blocks \div returns) * returns - 1
  <2> SUFFICES ASSUME ParserInv, status = "parsed", packet \in SentPackets(sensor)
               PROVE  /\ FiringTimesDefined
                      /\ \A b, c \in (0..last) \cap DOMAIN offset :
                           b < c => IF firing(b) = firing(c) THEN time(b) = time(c)
                                                             ELSE time(b) < time(c)
    BY DEF BlocksInFiringOrder
  <2>1. InOrder(sensor, packet) /\ Covered(sensor, packet)
    <3>1. /\ sensor \in DocumentedSensors /\ packet \in Packets
          /\ Sent(sensor, family, packet)
      BY SentIsDispatched DEF ParserInv, ParserType
    <3>2. packet.returns \in ReturnsOf(sensor)
      BY <3>1, ReturnsSent, Zenon
    <3> QED BY <3>1, <3>2, SensorInOrder
  <2>2. FiringTimesDefined
    BY <2>1, Zenon DEF Covered, FiringTimesDefined
  <2>3. \A b \in DOMAIN offset : offset[b] \in Int
    BY <2>1, Zenon DEF Covered
  <2>4. ASSUME NEW b \in (0..last) \cap DOMAIN offset, NEW c \in (0..last) \cap DOMAIN offset,
               b < c
        PROVE  IF firing(b) = firing(c) THEN time(b) = time(c) ELSE time(b) < time(c)
    <3>1. CASE sensor = "PandarQT" \/ IsXT(sensor)
      <4>1. time(b) = offset[b] /\ time(c) = offset[c]
        BY <3>1, Zenon DEF FiringTime
      <4>2. Rises(offset, returns, packet.blocks)
        BY <2>1, <3>1, Zenon DEF InOrder
      <4>3. IF firing(b) = firing(c) THEN offset[b] = offset[c] ELSE offset[b] < offset[c]
        BY <2>4, <4>2, Zenon DEF Rises
      <4> QED BY <4>1, <4>3, Zenon
    <3>2. CASE ~(sensor = "PandarQT" \/ IsXT(sensor))
      <4>1. time(b) = - offset[b] /\ time(c) = - offset[c]
        BY <3>2, Zenon DEF FiringTime
      <4>2. Falls(offset, returns, packet.blocks)
        BY <2>1, <3>2, Zenon DEF InOrder
      <4>3. IF firing(b) = firing(c) THEN offset[b] = offset[c] ELSE offset[b] > offset[c]
        BY <2>4, <4>2, Zenon DEF Falls
      <4>4. offset[b] \in Int /\ offset[c] \in Int
        BY <2>3, Zenon
      <4> HIDE DEF offset, firing, time, last
      <4> QED BY <4>1, <4>3, <4>4
    <3> QED BY <3>1, <3>2, Zenon
  <2> QED BY <2>2, <2>4, Zenon
<1> QED BY <1>1, ParserInvariant, PTL

-----------------------------------------------------------------------------
(* Messages. *)

Clouds == [points : Nat, width : Nat, height : Nat]

(* What has been laid out, and how far the copying got. *)
ConversionInv ==
  /\ cloud \in Clouds
  /\ written \in Nat
  /\ conversion \in {"none", "called", "thrown", "copying", "returned"}
  /\ conversion \in {"none", "called", "thrown"} => written = 0 /\ message = NoMessage
  /\ conversion \in {"copying", "returned"} =>
       ~TooLong(cloud) /\ message = Sized(cloud) /\ written <= cloud.points
  /\ conversion = "thrown" => TooLong(cloud)

(* The dimensions of the message describe exactly the points of the cloud. *)
LEMMA DimensionsRight ==
  ASSUME NEW c \in Clouds
  PROVE  LET d == Dimensions(c)
         IN  /\ d.width \in Nat /\ d.height \in Nat
             /\ d.width * d.height = c.points
             /\ d.width <= c.points
<1>0. c.points \in Nat /\ c.width \in Nat /\ c.height \in Nat
  BY DEF Clouds
<1>1. CASE c.height = 0 \/ c.width * c.height # c.points
  <2>1. Dimensions(c) = [width |-> c.points, height |-> 1]
    BY <1>1 DEF Dimensions
  <2>2. c.points * 1 = c.points
    BY <1>0
  <2> QED BY <1>0, <2>1, <2>2
<1>2. CASE ~(c.height = 0 \/ c.width * c.height # c.points)
  <2>1. Dimensions(c) = [width |-> c.width, height |-> c.height]
    BY <1>2 DEF Dimensions
  <2>2. 1 * c.width <= c.height * c.width
    BY <1>0, <1>2, ProductMonotone
  <2>3. c.width <= c.points
    BY <1>0, <1>2, <2>2
  <2> QED BY <1>0, <1>2, <2>1, <2>3
<1> QED BY <1>1, <1>2

(* A cloud that is not refused gets rows that no word cuts off. *)
LEMMA SizedRight ==
  ASSUME NEW c \in Clouds, ~TooLong(c)
  PROVE  LET m == Sized(c)
         IN  /\ m.rowStep = m.width * Step
             /\ m.data = m.rowStep * m.height
             /\ m.width * m.height = c.points
             /\ m.data = c.points * Step
<1> DEFINE w == Dimensions(c).width
           h == Dimensions(c).height
<1>1. w \in Nat /\ h \in Nat /\ w * h = c.points
  BY DimensionsRight
<1>2. MaxWord \in Nat /\ Step \in Nat /\ Step > 0
  BY WordAssumption
<1>3. ~(w > MaxWord \div Step)
  BY DEF TooLong
<1>4. Sized(c) = [width |-> w, height |-> h, rowStep |-> Wrap(w * Step),
                  data |-> Wrap(w * Step) * h]
  BY DEF Sized
<1> HIDE DEF w, h
<1>5. w * Step \in 0 .. MaxWord
  BY <1>1, <1>2, <1>3, QuotientBounds
<1>6. Wrap(w * Step) = w * Step
  <2>1. \A n \in 0 .. MaxWord : n % (MaxWord + 1) = n
    BY <1>2
  <2> QED BY <1>5, <2>1 DEF Wrap
<1>7. (w * Step) * h = (w * h) * Step
  BY <1>1, <1>2
<1> QED BY <1>1, <1>4, <1>6, <1>7

(* A cloud that is refused has more points than a row can hold. *)
LEMMA RefusedTooLong ==
  ASSUME NEW c \in Clouds, TooLong(c)
  PROVE  c.points * Step > MaxWord
<1> DEFINE w == Dimensions(c).width
<1>1. w \in Nat /\ w <= c.points /\ c.points \in Nat
  BY DimensionsRight DEF Clouds
<1>2. MaxWord \in Nat /\ Step \in Nat /\ Step > 0
  BY WordAssumption
<1>3. c.points > MaxWord \/ w > MaxWord \div Step
  BY DEF TooLong
<1> HIDE DEF w
<1>4. CASE c.points > MaxWord
  <2>1. 1 * c.points <= Step * c.points
    BY <1>1, <1>2, ProductMonotone
  <2> QED BY <1>1, <1>2, <1>4, <2>1
<1>5. CASE w > MaxWord \div Step
  <2>1. w * Step > MaxWord
    BY <1>1, <1>2, <1>5, QuotientBounds
  <2>2. w * Step <= c.points * Step
    BY <1>1, <1>2, ProductMonotone
  <2> QED BY <1>1, <1>2, <2>1, <2>2
<1> QED BY <1>3, <1>4, <1>5

(* For every size of a point and of a word, and every cloud: the message   *)
(* that makeCompactPointCloud2 returns has the rows and bytes its          *)
(* dimensions promise, all written; it refuses only a cloud whose row no   *)
(* word can hold.                                                          *)
THEOREM CompactMessageConsistent == ConversionSpec => []MessageConsistent
<1>1. ConversionInit => ConversionInv
  <2>1. Word \subseteq Nat /\ 0 .. MaxPoints \subseteq Nat
    BY WordAssumption DEF Word
  <2>2. [points : 0 .. MaxPoints, width : Word, height : Word] \subseteq Clouds
    BY <2>1 DEF Clouds
  <2> QED BY <2>2 DEF ConversionInit, ConversionInv
<1>2. ConversionInv /\ [ConversionNext]_conversionVars => ConversionInv'
  <2> SUFFICES ASSUME ConversionInv, [ConversionNext]_conversionVars
               PROVE  ConversionInv'
    OBVIOUS
  <2>1. cloud.points \in Nat
    BY DEF ConversionInv, Clouds
  <2>2. CASE Lay
    <3>1. UNCHANGED <<cloud, written>> /\ conversion = "called"
      BY <2>2 DEF Lay
    <3>2. CASE TooLong(cloud)
      <4>1. conversion' = "thrown" /\ message' = NoMessage /\ TooLong(cloud)'
        BY <2>2, <3>1, <3>2 DEF Lay, TooLong, Dimensions
      <4> QED BY <3>1, <4>1 DEF ConversionInv
    <3>3. CASE ~TooLong(cloud)
      <4>1. conversion' = "copying" /\ message' = Sized(cloud')
            /\ ~TooLong(cloud')
        BY <2>2, <3>1, <3>3 DEF Lay
      <4> QED BY <2>1, <3>1, <4>1 DEF ConversionInv
    <3> QED BY <3>2, <3>3
  <2>3. CASE CopyPoint
    <3>1. /\ UNCHANGED <<cloud, message, conversion>> /\ conversion = "copying"
          /\ written' \in Nat /\ written' <= cloud.points
      BY <2>1, <2>3 DEF CopyPoint, ConversionInv
    <3> QED BY <3>1 DEF ConversionInv
  <2>4. CASE Return
    BY <2>4 DEF Return, ConversionInv
  <2>5. CASE UNCHANGED conversionVars
    BY <2>5 DEF conversionVars, ConversionInv
  <2> QED BY <2>2, <2>3, <2>4, <2>5 DEF ConversionNext
<1>3. ConversionInv => MessageConsistent
  <2> SUFFICES ASSUME ConversionInv PROVE MessageConsistent
    OBVIOUS
  <2>0. cloud \in Clouds /\ cloud.points \in Nat /\ written \in Nat /\ Step \in Nat
    BY WordAssumption DEF ConversionInv, Clouds
  <2>1. CASE conversion \in {"none", "called", "thrown"}
    <3>1. written * Step <= message.data
      BY <2>0, <2>1 DEF ConversionInv, NoMessage
    <3>2. conversion = "thrown" => cloud.points * Step > MaxWord
      BY <2>0, RefusedTooLong DEF ConversionInv
    <3> QED BY <2>1, <3>1, <3>2 DEF MessageConsistent
  <2>2. CASE conversion \in {"copying", "returned"}
    <3>1. ~TooLong(cloud) /\ message = Sized(cloud) /\ written <= cloud.points
      BY <2>2 DEF ConversionInv
    <3>2. /\ message.rowStep = message.width * Step
          /\ message.data = message.rowStep * message.height
          /\ message.width * message.height = cloud.points
          /\ message.data = cloud.points * Step
      BY <2>0, <3>1, SizedRight
    <3>3. written * Step <= cloud.points * Step
      BY <2>0, <3>1, ProductMonotone
    <3> QED BY <2>2, <3>2, <3>3 DEF MessageConsistent
  <2> QED BY <2>1, <2>2 DEF ConversionInv
<1> QED BY <1>1, <1>2, <1>3, PTL DEF ConversionSpec
=============================================================================
