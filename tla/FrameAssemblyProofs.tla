------------------------ MODULE FrameAssemblyProofs ------------------------
(***************************************************************************)
(* Proofs about FrameAssembly, for every circle, packet size, number of    *)
(* channels and pattern of losses.                                         *)
(***************************************************************************)
EXTENDS FrameAssembly, SequenceTheorems, FiniteSetTheorems, TLAPS

(* Numbers up to d in rising order. *)
Rising(q, d) ==
  /\ \A i, j \in 1 .. Len(q) : i < j => q[i] < q[j]
  /\ \A i \in 1 .. Len(q) : q[i] <= d

(* The packets of the scans handed over and of the one being filled, and   *)
(* the count by which the loop sees that there is something to hand over.  *)
ScanInv ==
  /\ decoded \in Nat /\ index \in Nat
  /\ pclType \in BOOLEAN /\ qt \in BOOLEAN
  /\ scan \in Seq(Nat)
  /\ published \in Seq(Nat)
  /\ Rising(published \o scan, decoded)
  /\ pclType /\ ~qt => index = 0
  /\ ~(qt /\ pclType) => published \o scan = [i \in 1 .. decoded |-> i]

(* Append, for sequences of numbers. *)
LEMMA AppendNat ==
  \A q \in Seq(Nat), e \in Nat :
    /\ Append(q, e) \in Seq(Nat)
    /\ Len(Append(q, e)) = Len(q) + 1
    /\ \A i \in 1 .. Len(q) : Append(q, e)[i] = q[i]
    /\ Append(q, e)[Len(q) + 1] = e
OBVIOUS

(* Appending to the second of two sequences appends to both together. *)
LEMMA AppendToSecond ==
  ASSUME NEW s \in Seq(Nat), NEW t \in Seq(Nat), NEW e \in Nat
  PROVE  s \o Append(t, e) = Append(s \o t, e)
<1> DEFINE u == Append(t, e)
           v == s \o u
           w == s \o t
           x == Append(w, e)
<1>1. Len(s) \in Nat /\ Len(t) \in Nat
  OBVIOUS
<1>2. /\ u \in Seq(Nat)
      /\ Len(u) = Len(t) + 1
      /\ \A i \in 1 .. Len(t) : u[i] = t[i]
      /\ u[Len(t) + 1] = e
  BY AppendProperties
<1>3. /\ w \in Seq(Nat)
      /\ Len(w) = Len(s) + Len(t)
      /\ \A i \in 1 .. Len(s) + Len(t) :
           w[i] = IF i <= Len(s) THEN s[i] ELSE t[i - Len(s)]
  BY ConcatProperties
<1> HIDE DEF u, w
<1>4. /\ v \in Seq(Nat)
      /\ Len(v) = Len(s) + Len(u)
      /\ \A i \in 1 .. Len(s) + Len(u) :
           v[i] = IF i <= Len(s) THEN s[i] ELSE u[i - Len(s)]
  BY <1>2, ConcatProperties
<1>5. /\ x \in Seq(Nat)
      /\ Len(x) = Len(w) + 1
      /\ \A i \in 1 .. Len(w) : x[i] = w[i]
      /\ x[Len(w) + 1] = e
  BY <1>3, AppendNat, Zenon
<1> HIDE DEF v, x
<1>6. Len(v) = Len(s) + Len(t) + 1 /\ Len(x) = Len(v)
  BY <1>1, <1>2, <1>3, <1>4, <1>5
<1>7. ASSUME NEW i \in 1 .. Len(v) PROVE v[i] = x[i]
  <2>1. CASE i <= Len(s)
    <3>1. v[i] = s[i]
      BY <1>1, <1>2, <1>4, <2>1
    <3>2. w[i] = s[i]
      BY <1>1, <1>3, <2>1
    <3>3. x[i] = w[i]
      BY <1>1, <1>3, <1>5, <2>1
    <3> QED BY <3>1, <3>2, <3>3
  <2>2. CASE i > Len(s) /\ i <= Len(s) + Len(t)
    <3>1. i - Len(s) \in 1 .. Len(t)
      BY <1>1, <2>2
    <3>2. v[i] = u[i - Len(s)]
      BY <1>1, <1>2, <1>4, <2>2
    <3>3. w[i] = t[i - Len(s)]
      BY <1>1, <1>3, <2>2
    <3>4. x[i] = w[i]
      BY <1>1, <1>3, <1>5, <2>2
    <3>5. u[i - Len(s)] = t[i - Len(s)]
      BY <1>2, <3>1
    <3> QED BY <3>2, <3>3, <3>4, <3>5
  <2>3. CASE i = Len(s) + Len(t) + 1
    <3>1. v[i] = u[i - Len(s)] /\ i - Len(s) = Len(t) + 1
      BY <1>1, <1>2, <1>4, <2>3
    <3>2. x[i] = e
      BY <1>3, <1>5, <2>3
    <3> QED BY <1>2, <3>1, <3>2
  <2> QED BY <1>1, <1>6, <2>1, <2>2, <2>3
<1>8. v = x
  BY <1>4, <1>5, <1>6, <1>7, SeqEqual
<1> QED BY <1>8 DEF u, v, w, x

(* Appending the next number continues the enumeration. *)
LEMMA CountingUp ==
  ASSUME NEW n \in Nat, NEW s \in Seq(Nat), NEW t \in Seq(Nat),
         s \o t = [i \in 1 .. n |-> i]
  PROVE  s \o Append(t, n + 1) = [i \in 1 .. n + 1 |-> i]
<1> DEFINE f == [i \in 1 .. n |-> i]
           g == [i \in 1 .. n + 1 |-> i]
           x == Append(f, n + 1)
<1>1. f \in Seq(Nat) /\ Len(f) = n /\ \A i \in 1 .. n : f[i] = i
  OBVIOUS
<1>2. g \in Seq(Nat) /\ Len(g) = n + 1 /\ \A i \in 1 .. n + 1 : g[i] = i
  OBVIOUS
<1>3. s \o Append(t, n + 1) = x
  <2>1. n + 1 \in Nat
    OBVIOUS
  <2>2. s \o Append(t, n + 1) = Append(s \o t, n + 1)
    BY <2>1, AppendToSecond
  <2> QED BY <2>2
<1> HIDE DEF f, g
<1>4. /\ x \in Seq(Nat)
      /\ Len(x) = n + 1
      /\ \A i \in 1 .. n : x[i] = f[i]
      /\ x[n + 1] = n + 1
  <2>1. n + 1 \in Nat
    OBVIOUS
  <2>2. /\ Append(f, n + 1) \in Seq(Nat)
        /\ Len(Append(f, n + 1)) = Len(f) + 1
        /\ \A i \in 1 .. Len(f) : Append(f, n + 1)[i] = f[i]
        /\ Append(f, n + 1)[Len(f) + 1] = n + 1
    BY <1>1, <2>1, AppendNat, Zenon
  <2> QED BY <1>1, <2>2, Zenon
<1> HIDE DEF x
<1>5. \A i \in 1 .. n + 1 : x[i] = g[i]
  BY <1>1, <1>2, <1>4
<1>6. x = g
  BY <1>2, <1>4, <1>5, SeqEqual
<1> QED BY <1>3, <1>6 DEF g

(* Emptying the scan into the published packets keeps their sequence. *)
LEMMA HandOver ==
  ASSUME NEW s \in Seq(Nat), NEW t \in Seq(Nat)
  PROVE  (s \o t) \o << >> = s \o t /\ s \o t \in Seq(Nat)
OBVIOUS

(* The next number keeps the order. *)
LEMMA RisingAppend ==
  ASSUME NEW d \in Nat, NEW q \in Seq(Nat), Rising(q, d)
  PROVE  Rising(Append(q, d + 1), d + 1)
<1> DEFINE p == Append(q, d + 1)
<1>1. /\ p \in Seq(Nat) /\ Len(p) = Len(q) + 1 /\ Len(q) \in Nat
      /\ \A i \in 1 .. Len(q) : p[i] = q[i] /\ q[i] \in Nat
      /\ p[Len(q) + 1] = d + 1
  <2>1. d + 1 \in Nat
    OBVIOUS
  <2>2. /\ Append(q, d + 1) \in Seq(Nat) /\ Len(Append(q, d + 1)) = Len(q) + 1
        /\ \A i \in 1 .. Len(q) : Append(q, d + 1)[i] = q[i]
        /\ Append(q, d + 1)[Len(q) + 1] = d + 1
    BY <2>1, AppendNat, Zenon
  <2>3. Len(q) \in Nat /\ \A i \in 1 .. Len(q) : q[i] \in Nat
    OBVIOUS
  <2> QED BY <2>2, <2>3, Zenon
<1> HIDE DEF p
<1>2. ASSUME NEW i \in 1 .. Len(p) PROVE p[i] <= d + 1
  <2>1. CASE i \in 1 .. Len(q)
    <3>1. p[i] = q[i] /\ q[i] \in Nat /\ q[i] <= d
      BY <1>1, <2>1 DEF Rising
    <3> QED BY <3>1
  <2>2. CASE i = Len(q) + 1
    BY <1>1, <2>2
  <2> QED BY <1>1, <2>1, <2>2
<1>3. ASSUME NEW i \in 1 .. Len(p), NEW j \in 1 .. Len(p), i < j PROVE p[i] < p[j]
  <2>1. i \in 1 .. Len(q) /\ p[i] = q[i] /\ q[i] \in Nat /\ q[i] <= d
    BY <1>1, <1>3 DEF Rising
  <2>2. CASE j \in 1 .. Len(q)
    BY <1>1, <1>3, <2>1, <2>2 DEF Rising
  <2>3. CASE j = Len(q) + 1
    BY <1>1, <2>1, <2>3
  <2> QED BY <1>1, <2>2, <2>3
<1>4. Rising(p, d + 1)
  BY <1>2, <1>3 DEF Rising
<1> QED BY <1>4 DEF p

(* What is left of it when its end is dropped is in order, too. *)
LEMMA RisingPrefix ==
  ASSUME NEW d \in Nat, NEW s \in Seq(Nat), NEW t \in Seq(Nat), Rising(s \o t, d)
  PROVE  Rising(s, d)
<1> DEFINE w == s \o t
<1>1. /\ Len(s) \in Nat /\ Len(t) \in Nat /\ Len(w) = Len(s) + Len(t)
      /\ \A i \in 1 .. Len(s) + Len(t) : w[i] = IF i <= Len(s) THEN s[i] ELSE t[i - Len(s)]
  BY ConcatProperties
<1>0. Rising(w, d)
  OBVIOUS
<1> HIDE DEF w
<1>2. ASSUME NEW i \in 1 .. Len(s) PROVE i \in 1 .. Len(w) /\ w[i] = s[i]
  BY <1>1
<1> QED BY <1>0, <1>2 DEF Rising

(* A count of zero or the points themselves: outside QT with pcl_type, a   *)
(* frame the loop sees has a cloud that is not empty.                      *)
LEMMA SeenFrameHandedOver ==
  ASSUME ScanInv, HasPoints, ~(qt /\ pclType)
  PROVE  HandedOver = scan
<1>1. ~CloudEmpty
  <2>1. CASE pclType
    <3>1. points[0] # {}
      BY <2>1 DEF ScanInv, HasPoints
    <3>2. 0 \in Lasers
      BY FrameAssumption
    <3> QED BY <2>1, <3>1, <3>2 DEF CloudEmpty, NoPoints
  <2>2. CASE ~pclType
    BY <2>2 DEF ScanInv, HasPoints, CloudEmpty
  <2> QED BY <2>1, <2>2 DEF ScanInv
<1> QED BY <1>1 DEF HandedOver

(* How the count of points changes. *)
LEMMA CountStep ==
  ASSUME ScanInv, NEW n \in Nat, pclType /\ ~qt => n = 0, NEW hits \in SUBSET Lasers
  PROVE  CalcIndex(n, hits) \in Nat /\ (pclType /\ ~qt => CalcIndex(n, hits) = 0)
<1>1. Cardinality(hits) \in Nat
  BY FrameAssumption, FS_Subset, FS_CardinalityType
<1> QED BY <1>1 DEF CalcIndex

(* The scans published since Start, and the one under way, never hold a    *)
(* packet twice or out of order, and hold every packet that was decoded    *)
(* unless the sensor is a QT and the layout that of pcl_type.              *)
THEOREM FrameScansExact == Spec => []ScansExact
<1>1. Init => ScanInv
  <2> SUFFICES ASSUME Init PROVE ScanInv
    OBVIOUS
  <2>1. pclType \in BOOLEAN /\ qt \in BOOLEAN
    BY FrameAssumption DEF Init
  <2>2. /\ published = << >> /\ scan = << >> /\ decoded = 0 /\ index = 0
    BY DEF Init
  <2>3. << >> \o << >> = [i \in 1 .. 0 |-> i] /\ << >> \in Seq(Nat) /\ Rising(<< >> \o << >>, 0)
    BY DEF Rising
  <2> QED BY <2>1, <2>2, <2>3 DEF ScanInv
<1>2. ScanInv /\ [Next]_vars => ScanInv'
  <2> SUFFICES ASSUME ScanInv, [Next]_vars PROVE ScanInv'
    OBVIOUS
  <2>0. /\ decoded \in Nat /\ index \in Nat /\ pclType \in BOOLEAN /\ qt \in BOOLEAN
        /\ scan \in Seq(Nat) /\ published \in Seq(Nat)
        /\ Rising(published \o scan, decoded)
        /\ pclType /\ ~qt => index = 0
        /\ ~(qt /\ pclType) => published \o scan = [i \in 1 .. decoded |-> i]
    BY DEF ScanInv
  <2>1. CASE ReceivePacket
    <3>1. decoded' = decoded + 1 /\ scan' = Append(scan, decoded + 1)
          /\ UNCHANGED <<published, pclType, qt, index>>
      BY <2>1 DEF ReceivePacket, settings
    <3>2. ~(qt /\ pclType) => published \o Append(scan, decoded + 1) = [i \in 1 .. decoded + 1 |-> i]
      BY <2>0, CountingUp
    <3>3. Append(scan, decoded + 1) \in Seq(Nat) /\ decoded + 1 \in Nat
      BY <2>0
    <3>4. published \o Append(scan, decoded + 1) = Append(published \o scan, decoded + 1)
      BY <2>0, <3>3, AppendToSecond
    <3>5. published \o scan \in Seq(Nat)
      BY <2>0, ConcatProperties
    <3>6. Rising(published \o Append(scan, decoded + 1), decoded + 1)
      BY <2>0, <3>4, <3>5, RisingAppend
    <3> QED BY <2>0, <3>1, <3>2, <3>3, <3>6 DEF ScanInv, Rising
  <2>2. CASE EmitFrame \/ EmitLastFrame
    <3>1. /\ published' = published \o HandedOver /\ scan' = << >>
          /\ UNCHANGED <<decoded, pclType, qt>> /\ HasPoints
      BY <2>2 DEF EmitFrame, EmitLastFrame, settings
    <3>2. index' \in Nat /\ (pclType /\ ~qt => index' = 0)
      <4>1. EmittedIndex \in Nat /\ (pclType /\ ~qt => EmittedIndex = 0)
        BY <2>0 DEF EmittedIndex
      <4>2. CASE EmitFrame
        <5>1. PICK hits \in SUBSET Lasers : index' = CalcIndex(EmittedIndex, hits)
          BY <4>2 DEF EmitFrame
        <5>2. PICK n \in Nat : n = EmittedIndex
          BY <4>1
        <5> QED BY <4>1, <5>1, <5>2, CountStep
      <4>3. CASE EmitLastFrame
        BY <4>1, <4>3 DEF EmitLastFrame
      <4> QED BY <2>2, <4>2, <4>3
    <3>3. /\ (published \o scan) \o << >> = published \o scan
          /\ published \o scan \in Seq(Nat)
      BY <2>0, HandOver
    <3>4. (published \o << >>) \o << >> = published /\ published \o << >> = published
      BY <2>0
    <3>5. CASE HandedOver = scan
      <4>1. published' = published \o scan /\ published' \o scan' = published \o scan
        BY <3>1, <3>3, <3>5
      <4> QED BY <2>0, <3>1, <3>2, <3>3, <4>1 DEF ScanInv, Rising
    <3>6. CASE HandedOver # scan
      <4>1. qt /\ pclType
        BY <3>1, <3>6, SeenFrameHandedOver
      <4>2. HandedOver = << >>
        BY <3>6 DEF HandedOver
      <4>3. published' = published /\ published' \o scan' = published
        BY <3>1, <3>4, <4>2
      <4>4. Rising(published, decoded)
        BY <2>0, RisingPrefix
      <4>5. << >> \in Seq(Nat)
        OBVIOUS
      <4> QED BY <2>0, <3>1, <3>2, <4>1, <4>3, <4>4, <4>5 DEF ScanInv, Rising
    <3> QED BY <3>5, <3>6
  <2>3. CASE Restart
    <3>1. /\ published' = << >> /\ scan' = << >> /\ decoded' = 0 /\ index' = 0
          /\ UNCHANGED <<pclType, qt>>
      BY <2>3 DEF Restart, settings
    <3>2. << >> \o << >> = [i \in 1 .. 0 |-> i] /\ << >> \in Seq(Nat) /\ Rising(<< >> \o << >>, 0)
      BY DEF Rising
    <3> QED BY <2>0, <3>1, <3>2 DEF ScanInv, Rising
  <2>4. CASE AddBlock
    <3>1. PICK hits \in SUBSET Lasers : index' = CalcIndex(index, hits)
      BY <2>4 DEF AddBlock
    <3>2. index' \in Nat /\ (pclType /\ ~qt => index' = 0)
      BY <2>0, <3>1, CountStep
    <3>3. UNCHANGED <<pclType, qt, scan, decoded, published>>
      BY <2>4 DEF AddBlock, settings
    <3> QED BY <2>0, <3>2, <3>3 DEF ScanInv, Rising
  <2>5. CASE TransformFails \/ UNCHANGED vars
    <3>1. UNCHANGED <<pclType, qt, index, scan, decoded, published>>
      BY <2>5 DEF TransformFails, settings, frameVars, vars
    <3> QED BY <2>0, <3>1 DEF ScanInv, Rising
  <2> QED BY <2>1, <2>2, <2>3, <2>4, <2>5 DEF Next
<1>3. ScanInv => ScansExact
  <2> SUFFICES ASSUME ScanInv PROVE ScansExact
    OBVIOUS
  <2>1. published \o scan \in Seq(Nat)
    BY ConcatProperties DEF ScanInv
  <2>2. DOMAIN (published \o scan) = 1 .. Len(published \o scan)
    BY <2>1
  <2> QED BY <2>2 DEF ScanInv, ScansExact, Rising
<1> QED BY <1>1, <1>2, <1>3, PTL DEF Spec

(* With the default start angle the test of the block loop is exact: it    *)
(* fires for a block exactly when the head has passed the start angle      *)
(* since the block before, however many packets of less than a revolution  *)
(* were lost in between.  For another start angle it is exact as long as   *)
(* the azimuth does not also wrap around between the two blocks.           *)
THEOREM StartDetected ==
  ASSUME startAngle \in Azimuths,
         NEW last \in Azimuths, NEW azimuth \in Azimuths, last # azimuth,
         startAngle = 0 \/ last < azimuth
  PROVE  ReachesStart(last, azimuth)
           <=> StartsPassed(last, AzimuthGap(last, azimuth)) = 1
<1> DEFINE by == AzimuthGap(last, azimuth)
           ahead == IF startAngle > last THEN startAngle - last
                                         ELSE startAngle - last + Circle
<1> USE FrameAssumption DEF Azimuths
<1>1. by \in 1 .. Circle - 1 /\ ahead \in 1 .. Circle
  BY DEF AzimuthGap
<1>2. ReachesStart(last, azimuth) <=> ahead <= by
  BY DEF ReachesStart, AzimuthGap
<1>3. StartsPassed(last, by) = IF by < ahead THEN 0 ELSE (by - ahead) \div Circle + 1
  BY DEF StartsPassed
<1>4. ahead <= by => (by - ahead) \div Circle = 0
  <2> SUFFICES ASSUME ahead <= by PROVE (by - ahead) \div Circle = 0
    OBVIOUS
  <2> HIDE DEF by, ahead
  <2>1. by - ahead \in Nat /\ by - ahead < Circle
    BY <1>1
  <2> QED BY <2>1
<1> HIDE DEF by, ahead
<1>5. StartsPassed(last, by) = 1 <=> ahead <= by
  BY <1>1, <1>3, <1>4
<1> QED BY <1>2, <1>5 DEF by

-----------------------------------------------------------------------------
(* Division, for turns around the circle. *)

(* What \div and % give. *)
LEMMA Division ==
  ASSUME NEW z \in Nat, NEW c \in Nat, c > 0
  PROVE  /\ z \div c \in Nat /\ z % c \in 0 .. c - 1
         /\ z = c * (z \div c) + (z % c)
OBVIOUS

(* A multiple of c other than zero is at least c away from it. *)
LEMMA ProductStrict ==
  ASSUME NEW c \in Nat, NEW d \in Int, c > 0
  PROVE  /\ d >= 1 => c * d >= c
         /\ d <= -1 => c * d <= -c
<1>1. CASE d >= 1
  <2>1. d - 1 \in Nat /\ c * (d - 1) \in Nat /\ c * d = c * (d - 1) + c
    BY <1>1
  <2> QED BY <1>1, <2>1
<1>2. CASE d <= -1
  <2>1. -1 - d \in Nat /\ c * (-1 - d) \in Nat /\ c * (-1 - d) = -c - c * d /\ c * d \in Int
    BY <1>2
  <2> QED BY <1>2, <2>1
<1> QED BY <1>1, <1>2

(* There is only one quotient and one remainder. *)
LEMMA DivisionUnique ==
  ASSUME NEW z \in Nat, NEW c \in Nat, c > 0, NEW q \in Int, NEW r \in 0 .. c - 1,
         z = c * q + r
  PROVE  z \div c = q /\ z % c = r
<1> DEFINE p == z \div c
           m == z % c
<1>1. p \in Int /\ m \in 0 .. c - 1 /\ z = c * p + m
  BY Division
<1> HIDE DEF p, m
<1>2. c * (p - q) = c * p - c * q /\ c * p \in Int /\ c * q \in Int /\ p - q \in Int
  BY <1>1
<1>3. c * (p - q) = r - m
  BY <1>1, <1>2
<1>4. c * (p - q) > -c /\ c * (p - q) < c
  BY <1>1, <1>3
<1>5. ~(p - q >= 1) /\ ~(p - q <= -1)
  BY <1>2, <1>4, ProductStrict
<1>6. p = q
  BY <1>1, <1>5
<1>7. m = r
  BY <1>1, <1>6
<1> QED BY <1>6, <1>7 DEF p, m

(* Adding the divisor. *)
LEMMA WholeTurn ==
  ASSUME NEW z \in Nat, NEW c \in Nat, c > 0
  PROVE  (z + c) \div c = z \div c + 1 /\ (z + c) % c = z % c
<1> DEFINE q == z \div c
           r == z % c
<1>1. q \in Nat /\ r \in 0 .. c - 1 /\ z = c * q + r
  BY Division
<1> HIDE DEF q, r
<1>2. c * (q + 1) = c * q + c /\ q + 1 \in Int /\ c * q \in Int
  BY <1>1
<1>3. z + c = c * (q + 1) + r /\ z + c \in Nat
  BY <1>1, <1>2
<1>4. (z + c) \div c = q + 1 /\ (z + c) % c = r
  BY <1>1, <1>2, <1>3, DivisionUnique
<1> QED BY <1>4 DEF q, r

(* Adding no more than the divisor: the remainder grows, or passes the     *)
(* divisor once.                                                           *)
LEMMA DivisionStep ==
  ASSUME NEW z \in Nat, NEW c \in Nat, c > 0, NEW d \in 0 .. c
  PROVE  \/ /\ (z % c) + d < c
            /\ (z + d) \div c = z \div c
            /\ (z + d) % c = (z % c) + d
         \/ /\ (z % c) + d >= c
            /\ (z + d) \div c = z \div c + 1
            /\ (z + d) % c = (z % c) + d - c
<1> DEFINE q == z \div c
           r == z % c
<1>1. q \in Int /\ r \in 0 .. c - 1 /\ z = c * q + r
  BY Division
<1> HIDE DEF q, r
<1>0. c * q \in Int
  BY <1>1
<1>2. CASE r + d < c
  <2>1. z + d = c * q + (r + d) /\ r + d \in 0 .. c - 1 /\ z + d \in Int
    BY <1>0, <1>1, <1>2
  <2>2. (z + d) \div c = q /\ (z + d) % c = r + d
    BY <1>1, <2>1, DivisionUnique
  <2> QED BY <1>2, <2>2 DEF q, r
<1>3. CASE r + d >= c
  <2>0. c * (q + 1) = c * q + c /\ q + 1 \in Int
    BY <1>1
  <2>1. z + d = c * (q + 1) + (r + d - c) /\ r + d - c \in 0 .. c - 1 /\ z + d \in Int
    BY <1>0, <1>1, <1>3, <2>0
  <2>2. (z + d) \div c = q + 1 /\ (z + d) % c = r + d - c
    BY <2>0, <2>1, DivisionUnique
  <2> QED BY <1>3, <2>2 DEF q, r
<1> QED BY <1>1, <1>2, <1>3

(* How far past the start angle an azimuth is. *)
Rel(a) == IF a >= startAngle THEN a - startAngle ELSE a - startAngle + Circle

(* The sensor, seen from the start angle: it passes the start angle each   *)
(* time the way from it fills a circle.                                    *)
LEMMA Position ==
  ASSUME startAngle \in Azimuths, NEW from \in Azimuths, NEW by \in Nat
  PROVE  LET z == by + Rel(from)
         IN  /\ Rel(from) \in Azimuths /\ z \in Nat
             /\ StartsPassed(from, by) = z \div Circle
             /\ Turned(from, by) \in Azimuths
             /\ Rel(Turned(from, by)) = z % Circle
<1> DEFINE s == startAngle
           z == by + Rel(from)
           a == Turned(from, by)
           q == z \div Circle
           r == z % Circle
<1>1. Circle \in Nat /\ Circle > 0 /\ s \in 0 .. Circle - 1 /\ from \in 0 .. Circle - 1
  BY FrameAssumption DEF Azimuths
<1>2. Rel(from) \in 0 .. Circle - 1 /\ z \in Nat
  BY <1>1 DEF Rel
<1> HIDE DEF z
<1>3. q \in Nat /\ r \in 0 .. Circle - 1 /\ z = Circle * q + r
  BY <1>1, <1>2, Division
<1>4. StartsPassed(from, by) = q
  <2> DEFINE ahead == IF s > from THEN s - from ELSE s - from + Circle
  <2>1. ahead \in 1 .. Circle /\ z = by - ahead + Circle
    BY <1>1 DEF Rel, z
  <2> HIDE DEF ahead
  <2>2. CASE by < ahead
    <3>1. z \in 0 .. Circle - 1 /\ z = Circle * 0 + z
      BY <1>1, <1>2, <2>1, <2>2
    <3>2. q = 0
      BY <1>1, <1>2, <3>1, DivisionUnique
    <3> QED BY <2>2, <3>2 DEF StartsPassed, ahead
  <2>3. CASE ~(by < ahead)
    <3> DEFINE y == by - ahead
    <3>1. y \in Nat /\ z = y + Circle
      BY <1>1, <2>1, <2>3
    <3>2. (y + Circle) \div Circle = y \div Circle + 1
      BY <1>1, <3>1, WholeTurn
    <3>3. q = y \div Circle + 1
      BY <3>1, <3>2
    <3> QED BY <2>3, <3>3 DEF StartsPassed, ahead
  <2> QED BY <2>2, <2>3
<1>5. a \in 0 .. Circle - 1 /\ Rel(a) = r
  <2>1. from + by \in Nat /\ (from + by = z + s \/ from + by = z + s - Circle)
    BY <1>1, <1>2 DEF Rel, z
  <2>2. a = (from + by) % Circle
    BY DEF Turned
  <2>3. \/ r + s < Circle /\ (z + s) % Circle = r + s
        \/ r + s >= Circle /\ (z + s) % Circle = r + s - Circle
    <3>1. s \in 0 .. Circle
      BY <1>1
    <3> QED BY <1>1, <1>2, <3>1, DivisionStep
  <2>4. ASSUME NEW y \in Nat, y = z + s - Circle
        PROVE  y % Circle = (z + s) % Circle
    <3>1. y + Circle = z + s
      BY <1>1, <1>2, <2>4
    <3>2. (y + Circle) % Circle = y % Circle
      BY <1>1, <2>4, WholeTurn
    <3> QED BY <3>1, <3>2
  <2>5. a = (z + s) % Circle
    BY <2>1, <2>2, <2>4
  <2> HIDE DEF a
  <2>6. a = IF r + s < Circle THEN r + s ELSE r + s - Circle
    BY <1>1, <1>3, <2>3, <2>5
  <2> HIDE DEF r
  <2> QED BY <1>1, <1>3, <2>6 DEF Rel
<1> QED BY <1>1, <1>2, <1>4, <1>5 DEF Azimuths, z

Block == [azimuth : Azimuths, revolution : Nat, time : Nat, echo : Nat]

(* The test of the loop, made of two blocks. *)
SplitsAfter(last, block) ==
  /\ block.azimuth # last.azimuth
  /\ Plausible(AzimuthGap(last.azimuth, block.azimuth), block.time - last.time + Slack)
  /\ ReachesStart(last.azimuth, block.azimuth)

(* How far into its frame a block is, the returns of a firing one after    *)
(* the other: each block is at least MinTurn further on than the one       *)
(* before.                                                                 *)
Place(block) == returns * Rel(block.azimuth) + MinTurn * block.echo

(* What the sensor sends next: a block behind the start angle, which the   *)
(* loop sees, or one further on in the same revolution.                    *)
Follows(last, block) ==
  \/ SplitsAfter(last, block)
  \/ block.revolution = last.revolution /\ Place(last) + MinTurn <= Place(block)

(* A head that passes the start angle, and not the zero of the azimuth     *)
(* before or after it, is seen to do so by the two tests of the loop; and  *)
(* azimuthGap is how far it turned.                                        *)
LEMMA Reached ==
  ASSUME startAngle \in Azimuths, NEW a \in Azimuths, NEW b \in Azimuths,
         NEW d \in 1 .. Circle - 1, d <= Circle - startAngle,
         Rel(a) + d >= Circle, Rel(b) = Rel(a) + d - Circle
  PROVE  b # a /\ AzimuthGap(a, b) = d /\ ReachesStart(a, b)
<1>1. Circle \in Nat /\ Circle > 0
  BY FrameAssumption
<1> QED BY <1>1 DEF Azimuths, Rel, AzimuthGap, ReachesStart

(* The types of Rel and Place. *)
LEMMA PlaceType ==
  ASSUME startAngle \in Azimuths, returns \in Nat, NEW b \in Block
  PROVE  /\ Rel(b.azimuth) \in 0 .. Circle - 1 /\ Rel(b.azimuth) \in Nat
         /\ returns * Rel(b.azimuth) \in Nat /\ MinTurn * b.echo \in Nat
         /\ Place(b) \in Nat
<1>1. /\ Circle \in Nat /\ MinTurn \in Nat /\ startAngle \in 0 .. Circle - 1
      /\ b.azimuth \in 0 .. Circle - 1 /\ b.echo \in Nat
  BY FrameAssumption DEF Block, Azimuths
<1>2. Rel(b.azimuth) \in 0 .. Circle - 1 /\ Rel(b.azimuth) \in Nat
  BY <1>1 DEF Rel
<1>3. returns * Rel(b.azimuth) \in Nat /\ MinTurn * b.echo \in Nat
  BY <1>1, <1>2
<1> QED BY <1>2, <1>3 DEF Place

(* Products of natural numbers grow with their factors. *)
LEMMA ProductGrows ==
  ASSUME NEW a \in Nat, NEW b \in Nat, NEW c \in Nat, NEW d \in Nat, a <= b, c <= d
  PROVE  a * c <= b * d /\ a * c \in Nat /\ b * d \in Nat
<1>1. b - a \in Nat /\ d - c \in Nat
  OBVIOUS
<1>2. PICK x \in Nat, y \in Nat : b = a + x /\ d = c + y
  BY <1>1
<1>3. (a + x) * (c + y) = a * c + a * y + x * c + x * y
  OBVIOUS
<1>4. a * c \in Nat /\ a * y \in Nat /\ x * c \in Nat /\ x * y \in Nat
  OBVIOUS
<1> QED BY <1>2, <1>3, <1>4

(* From a return of one firing to one of a later firing. *)
LEMMA LaterFiring ==
  ASSUME NEW r \in Nat, NEW m \in Nat, NEW p \in Nat, NEW d \in Nat, m <= d,
         NEW e \in 1 .. r, NEW f \in Nat \ {0}
  PROVE  r * p + m * e + m <= r * (p + d) + m * f
<1>1. r * (p + d) = r * p + r * d /\ r * p \in Nat /\ r * d \in Nat
  OBVIOUS
<1>2. e <= r /\ e \in Nat /\ e * m <= r * d /\ m * e = e * m /\ e * m \in Nat
  <2>1. e <= r /\ e \in Nat
    OBVIOUS
  <2>2. e * m <= r * d
    BY <2>1, ProductGrows
  <2>3. m * e = e * m /\ e * m \in Nat
    BY <2>1
  <2> QED BY <2>1, <2>2, <2>3
<1>3. m <= m * f /\ m * f \in Nat
  <2>1. PICK g \in Nat : f = g + 1
    <3>1. f - 1 \in Nat
      OBVIOUS
    <3> QED BY <3>1
  <2>2. m * (g + 1) = m * g + m /\ m * g \in Nat
    OBVIOUS
  <2> QED BY <2>1, <2>2
<1> QED BY <1>1, <1>2, <1>3

(* What a sensor whose head has turned by `by' sends after a turn of d. *)
LEMMA TurnFollows ==
  ASSUME startAngle \in Azimuths, returns \in Nat, NEW from \in Azimuths, NEW by \in Nat,
         NEW r0 \in Nat, NEW d \in 1 .. Circle - 1, d <= Circle - startAngle, MinTurn <= d,
         NEW last \in Block, NEW block \in Block,
         last.azimuth = Turned(from, by), block.azimuth = Turned(from, by + d),
         last.revolution = r0 + StartsPassed(from, by),
         block.revolution = r0 + StartsPassed(from, by + d),
         last.echo \in 1 .. returns, block.echo \in 1 .. returns,
         last.time <= block.time,
         d < MaxRate * (block.time - last.time + Slack)
  PROVE  Follows(last, block)
<1> DEFINE z == by + Rel(from)
<1>1. Circle \in Nat /\ Circle > 0 /\ d \in 0 .. Circle /\ by + d \in Nat /\ d \in Nat /\ MinTurn \in Nat
  BY FrameAssumption
<1>2. /\ z \in Nat /\ StartsPassed(from, by) = z \div Circle
      /\ Rel(last.azimuth) = z % Circle /\ last.azimuth \in Azimuths
  BY Position
<1>3. /\ StartsPassed(from, by + d) = (by + d + Rel(from)) \div Circle
      /\ Rel(block.azimuth) = (by + d + Rel(from)) % Circle /\ block.azimuth \in Azimuths
      /\ Rel(from) \in Azimuths
  BY <1>1, Position
<1>4. by + d + Rel(from) = z + d
  BY <1>1, <1>3 DEF Azimuths
<1> HIDE DEF z
<1>5. Rel(last.azimuth) \in 0 .. Circle - 1 /\ z \div Circle \in Nat
  BY <1>1, <1>2, Division
<1>6. CASE Rel(last.azimuth) + d < Circle
  <2>1. (z + d) \div Circle = z \div Circle /\ (z + d) % Circle = (z % Circle) + d
    <3>1. ~((z % Circle) + d >= Circle)
      BY <1>1, <1>2, <1>5, <1>6
    <3> QED BY <1>1, <1>2, <3>1, DivisionStep
  <2>2. block.revolution = last.revolution
    BY <1>2, <1>3, <1>4, <2>1
  <2>3. Rel(block.azimuth) = Rel(last.azimuth) + d
    BY <1>1, <1>2, <1>3, <1>4, <1>5, <2>1
  <2>4. Place(last) + MinTurn <= Place(block)
    <3>1. PICK p \in Nat, e \in 1 .. returns, f \in Nat \ {0} :
            p = Rel(last.azimuth) /\ e = last.echo /\ f = block.echo
      BY <1>1, <1>5
    <3>2. returns * p + MinTurn * e + MinTurn <= returns * (p + d) + MinTurn * f
      BY <1>1, LaterFiring
    <3> QED BY <2>3, <3>1, <3>2 DEF Place
  <2> QED BY <2>2, <2>4 DEF Follows
<1>7. CASE Rel(last.azimuth) + d >= Circle
  <2>1. (z + d) % Circle = (z % Circle) + d - Circle
    <3>1. ~((z % Circle) + d < Circle)
      BY <1>1, <1>2, <1>5, <1>7
    <3> QED BY <1>1, <1>2, <3>1, DivisionStep
  <2>2. Rel(block.azimuth) = Rel(last.azimuth) + d - Circle
    BY <1>2, <1>3, <1>4, <2>1
  <2>3. /\ block.azimuth # last.azimuth /\ ReachesStart(last.azimuth, block.azimuth)
        /\ AzimuthGap(last.azimuth, block.azimuth) = d
    BY <1>2, <1>3, <1>7, <2>2, Reached
  <2>4. Plausible(AzimuthGap(last.azimuth, block.azimuth), block.time - last.time + Slack)
    BY <2>3 DEF Plausible
  <2> QED BY <2>3, <2>4 DEF SplitsAfter, Follows
<1> QED BY <1>1, <1>5, <1>6, <1>7

(* The next return of the same firing. *)
LEMMA EchoFollows ==
  ASSUME startAngle \in Azimuths, returns \in Nat, NEW last \in Block, NEW block \in Block,
         block.azimuth = last.azimuth, block.revolution = last.revolution,
         block.echo = last.echo + 1
  PROVE  Follows(last, block)
<1>1. PICK p \in Nat, e \in Nat, m \in Nat :
        p = returns * Rel(last.azimuth) /\ e = last.echo /\ m = MinTurn
  BY PlaceType, FrameAssumption DEF Block
<1>2. m * (e + 1) = m * e + m /\ m * e \in Nat
  OBVIOUS
<1>3. p + m * e + m <= p + m * (e + 1)
  BY <1>2
<1> QED BY <1>1, <1>3 DEF Place, Follows

-----------------------------------------------------------------------------
(* The inductive invariant. *)

(* The types the argument needs. *)
FrameType ==
  /\ startAngle \in StartAngles /\ returns \in Returns
  /\ head \in Azimuths /\ sensorTime \in Nat /\ revolution \in Nat
  /\ blocks \in Seq(Block)
  /\ lastAzimuth \in Azimuths /\ lastTimestamp \in Nat
  /\ points \in [Lasers -> SUBSET Nat] /\ index \in Nat

(* The block the sensor fired last. *)
LastFired(e) ==
  [azimuth |-> head, revolution |-> revolution, time |-> sensorTime, echo |-> e]

(* The block decoded last, if it was return e of revolution r. *)
LastDecoded(r, e) ==
  [azimuth |-> lastAzimuth, revolution |-> r, time |-> lastTimestamp, echo |-> e]

(* The blocks still to be decoded follow each other. *)
BlockInv ==
  /\ \A i \in 1 .. Len(blocks) - 1 : Follows(blocks[i], blocks[i + 1])
  /\ \A i \in 1 .. Len(blocks) : blocks[i].echo \in 1 .. returns
  /\ blocks # << >> => blocks[Len(blocks)] = LastFired(blocks[Len(blocks)].echo)

(* The block decoded last, return e of revolution r, is the last one       *)
(* fired, or the next one follows it.                                      *)
Joins(r, e) == IF blocks = << >> THEN LastDecoded(r, e) = LastFired(e)
                                 ELSE Follows(LastDecoded(r, e), blocks[1])

(* All points gathered are of revolution r, and they are no more than the  *)
(* channels times the blocks that have been.                               *)
Gathered(r, e) ==
  /\ \A l \in Lasers : points[l] \subseteq {r}
  /\ MinTurn * index <= Cardinality(Lasers) * Place(LastDecoded(r, e))

(* A cloud that is not empty holds points of the revolution of the block   *)
(* decoded last.                                                           *)
PointInv ==
  ~pclType =>
    /\ index = 0 => points = NoPoints
    /\ index > 0 => \E r \in Nat, e \in 1 .. returns : Gathered(r, e) /\ Joins(r, e)

FrameInv == FrameType /\ BlockInv /\ PointInv

(* start_angle is an azimuth, and a firing has a return. *)
LEMMA StartAngleType == FrameType => startAngle \in Azimuths /\ returns \in Nat /\ returns > 0
BY FrameAssumption DEF FrameType, Azimuths

(* The channels can be counted. *)
LEMMA HitsCounted ==
  ASSUME NEW hits \in SUBSET Lasers
  PROVE  /\ Cardinality(Lasers) \in Nat /\ Cardinality(hits) \in Nat
         /\ Cardinality(hits) <= Cardinality(Lasers)
         /\ Cardinality(hits) = 0 => hits = {}
<1>1. IsFiniteSet(Lasers)
  BY FrameAssumption
<1>2. IsFiniteSet(hits) /\ Cardinality(hits) <= Cardinality(Lasers)
  BY <1>1, FS_Subset
<1> QED BY <1>1, <1>2, FS_CardinalityType, FS_EmptySet

(* The loop goes on to the next block. *)
LEMMA DecodedStep ==
  ASSUME FrameInv, blocks # << >>, NextBlock(Head(blocks)), UNCHANGED <<settings, sensorVars>>
  PROVE  /\ blocks' \in Seq(Block) /\ lastAzimuth' \in Azimuths /\ lastTimestamp' \in Nat
         /\ BlockInv'
         /\ \E r \in Nat, e \in 1 .. returns :
              /\ r = blocks[1].revolution /\ Joins(r, e)' /\ LastDecoded(r, e)' = blocks[1]
<1>1. blocks \in Seq(Block) /\ BlockInv /\ returns' = returns
  BY DEF FrameInv, FrameType, settings
<1>2. PICK b \in Block : b = blocks[1] /\ Head(blocks) = b
  BY <1>1
<1>3. PICK r \in Nat, e \in 1 .. returns : r = b.revolution /\ e = b.echo
  <2>1. 1 \in 1 .. Len(blocks)
    BY <1>1
  <2> QED BY <1>1, <1>2, <2>1 DEF Block, BlockInv
<1>4. /\ lastAzimuth' = b.azimuth /\ lastTimestamp' = b.time /\ blocks' = Tail(blocks)
      /\ b.azimuth \in Azimuths /\ b.time \in Nat
  BY <1>2 DEF NextBlock, Block
<1>5. LastDecoded(r, e)' = b
  BY <1>3, <1>4 DEF LastDecoded, Block
<1>6. /\ blocks' \in Seq(Block) /\ Len(blocks') = Len(blocks) - 1
      /\ \A i \in 1 .. Len(blocks) - 1 : blocks'[i] = blocks[i + 1]
      /\ Len(blocks) \in Nat /\ Len(blocks) > 0
  BY <1>1, <1>4
<1>7. \A n : LastFired(n)' = LastFired(n)
  BY DEF LastFired, sensorVars
<1>8. \A x, y : Follows(x, y) => Follows(x, y)'
  BY DEF Follows, SplitsAfter, Plausible, AzimuthGap, ReachesStart, Rel, Place, settings
<1>9. BlockInv'
  <2>1. ASSUME NEW i \in 1 .. Len(blocks') - 1 PROVE Follows(blocks[i], blocks[i + 1])'
    <3>1. i \in 1 .. Len(blocks) - 1 /\ i + 1 \in 1 .. Len(blocks) - 1
      BY <1>6
    <3>2. blocks'[i] = blocks[i + 1] /\ blocks'[i + 1] = blocks[(i + 1) + 1]
      BY <1>6, <3>1
    <3>3. Follows(blocks[i + 1], blocks[(i + 1) + 1])
      BY <1>1, <3>1 DEF BlockInv
    <3>4. PICK x, y : x = blocks[i + 1] /\ y = blocks[(i + 1) + 1]
      OBVIOUS
    <3>5. Follows(x, y)'
      BY <3>3, <3>4, <1>8
    <3> QED BY <3>2, <3>4, <3>5
  <2>2. ASSUME blocks' # << >> PROVE blocks'[Len(blocks')] = LastFired(blocks[Len(blocks)].echo)'
    <3>1. Len(blocks') \in 1 .. Len(blocks) - 1
      BY <1>6, <2>2
    <3>2. blocks'[Len(blocks')] = blocks[Len(blocks)]
      BY <1>6, <3>1
    <3>3. PICK x : x = blocks[Len(blocks)]
      OBVIOUS
    <3>4. x = LastFired(x.echo)
      BY <1>1, <3>3, <1>6 DEF BlockInv
    <3>5. x = LastFired(x.echo)'
      BY <1>7, <3>4
    <3> QED BY <3>2, <3>3, <3>5
  <2>3. ASSUME NEW i \in 1 .. Len(blocks') PROVE blocks'[i].echo \in 1 .. returns'
    <3>1. i \in 1 .. Len(blocks) - 1 /\ i + 1 \in 1 .. Len(blocks)
      BY <1>6
    <3> QED BY <1>1, <1>6, <3>1 DEF BlockInv
  <2> QED BY <2>1, <2>2, <2>3 DEF BlockInv
<1>10. Joins(r, e)'
  <2>1. CASE blocks' = << >>
    <3>1. Len(blocks) = 1
      BY <1>6, <2>1
    <3>2. b = LastFired(e)
      BY <1>1, <1>2, <1>3, <3>1 DEF BlockInv
    <3> QED BY <1>5, <1>7, <2>1, <3>2 DEF Joins
  <2>2. CASE blocks' # << >>
    <3>1. 1 \in 1 .. Len(blocks) - 1
      BY <1>6, <2>2
    <3>2. blocks'[1] = blocks[1 + 1] /\ Follows(b, blocks[1 + 1])
      BY <1>1, <1>2, <1>6, <3>1 DEF BlockInv
    <3>3. PICK y : y = blocks[1 + 1]
      OBVIOUS
    <3>4. Follows(b, y)'
      BY <3>2, <3>3, <1>8
    <3> QED BY <1>5, <2>2, <3>2, <3>3, <3>4 DEF Joins
  <2> QED BY <2>1, <2>2
<1> QED BY <1>2, <1>3, <1>4, <1>5, <1>6, <1>9, <1>10

(* The points of one more block, for w channels, find room. *)
LEMMA Room ==
  ASSUME NEW m \in Nat, NEW i \in Nat, NEW h \in Nat, NEW w \in Nat, NEW p \in Nat, NEW q \in Nat,
         h <= w, m * i <= w * p, p + m <= q
  PROVE  m * (i + h) <= w * q
<1>1. m * (i + h) = m * i + m * h /\ m * i \in Nat /\ m * h \in Nat
  OBVIOUS
<1>2. h * m <= w * m /\ m * h = h * m
  BY ProductGrows
<1>3. w * (p + m) <= w * q /\ w * (p + m) = w * p + w * m /\ w * p \in Nat /\ w * m \in Nat
      /\ w * q \in Nat
  BY ProductGrows
<1> QED BY <1>1, <1>2, <1>3

(* A block adds points of its revolution. *)
LEMMA PointsAdded ==
  ASSUME NEW before \in [Lasers -> SUBSET Nat], NEW b \in Block, NEW hits \in SUBSET Lasers
  PROVE  /\ CalcPoints(before, b, hits) \in [Lasers -> SUBSET Nat]
         /\ (\A l \in Lasers : before[l] \subseteq {b.revolution})
              => \A l \in Lasers : CalcPoints(before, b, hits)[l] \subseteq {b.revolution}
         /\ hits = {} => CalcPoints(before, b, hits) = before
<1>1. b.revolution \in Nat
  BY DEF Block
<1> QED BY <1>1 DEF CalcPoints

(* A block that joins a frame of n points at place p. *)
LEMMA Added ==
  ASSUME FrameType, ~pclType, settings' = settings, NEW b \in Block, NEW hits \in SUBSET Lasers,
         NEW before \in [Lasers -> SUBSET Nat], NEW n \in Nat, NEW p \in Nat,
         \A l \in Lasers : before[l] \subseteq {b.revolution},
         MinTurn * n <= Cardinality(Lasers) * p, p + MinTurn <= Place(b),
         NEW r \in Nat, NEW e \in 1 .. returns, r = b.revolution, LastDecoded(r, e)' = b,
         points' = CalcPoints(before, b, hits), index' = CalcIndex(n, hits)
  PROVE  Gathered(r, e)'
<1>1. startAngle \in Azimuths /\ returns \in Nat /\ MinTurn \in Nat
  BY StartAngleType, FrameAssumption
<1>2. index' = n + Cardinality(hits)
  BY DEF CalcIndex
<1>3. Place(b) \in Nat
  BY <1>1, PlaceType
<1>4. MinTurn * (n + Cardinality(hits)) <= Cardinality(Lasers) * Place(b)
  <2>1. PICK q \in Nat, w \in Nat, h \in Nat :
          q = Place(b) /\ w = Cardinality(Lasers) /\ h = Cardinality(hits) /\ h <= w
    BY <1>3, HitsCounted
  <2>2. MinTurn * (n + h) <= w * q
    BY <1>1, <2>1, Room
  <2> QED BY <2>1, <2>2
<1>5. \A x : Place(x)' = Place(x)
  BY DEF Place, Rel, settings
<1>6. Place(LastDecoded(r, e))' = Place(b)
  <2>1. Place(b)' = Place(b)
    BY <1>5
  <2> QED BY <2>1 DEF Place, Rel
<1>7. MinTurn * index' <= Cardinality(Lasers) * Place(LastDecoded(r, e))'
  BY <1>2, <1>4, <1>6, Zenon
<1>8. \A l \in Lasers : points'[l] \subseteq {r}
  BY PointsAdded
<1> QED BY <1>7, <1>8 DEF Gathered

(* A frame begun with one block. *)
LEMMA Begun ==
  ASSUME FrameType, ~pclType, settings' = settings, NEW b \in Block, NEW hits \in SUBSET Lasers,
         NEW r \in Nat, NEW e \in 1 .. returns, r = b.revolution, LastDecoded(r, e)' = b,
         points' = CalcPoints(NoPoints, b, hits), index' = CalcIndex(0, hits)
  PROVE  Gathered(r, e)' /\ (index' = 0 => points' = NoPoints)
<1>1. NoPoints \in [Lasers -> SUBSET Nat] /\ \A l \in Lasers : NoPoints[l] \subseteq {b.revolution}
  BY DEF NoPoints
<1>2. startAngle \in Azimuths /\ returns \in Nat /\ MinTurn \in Nat
  BY StartAngleType, FrameAssumption
<1>3. MinTurn <= Place(b)
  <2>1. returns * Rel(b.azimuth) \in Nat /\ b.echo = e
    BY <1>2, PlaceType DEF LastDecoded
  <2>2. PICK f \in Nat : e = f + 1
    <3>1. e - 1 \in Nat
      BY <1>2
    <3> QED BY <1>2, <3>1
  <2>3. MinTurn * (f + 1) = MinTurn * f + MinTurn /\ MinTurn * f \in Nat
    BY <1>2
  <2> QED BY <1>2, <2>1, <2>2, <2>3 DEF Place
<1>4. /\ MinTurn * 0 <= Cardinality(Lasers) * 0 /\ 0 + MinTurn <= Place(b)
  <2>1. Cardinality(Lasers) \in Nat
    BY HitsCounted
  <2> QED BY <1>2, <1>3, <2>1
<1>5. Gathered(r, e)'
  <2>1. 0 \in Nat
    OBVIOUS
  <2> QED BY <1>1, <1>4, <2>1, Added
<1>6. index' = 0 => hits = {}
  <2>1. index' = 0 + Cardinality(hits)
    BY DEF CalcIndex
  <2> QED BY <2>1, HitsCounted
<1> QED BY <1>1, <1>5, <1>6, PointsAdded

(* Adding a block to the frame. *)
LEMMA AddStep ==
  ASSUME FrameInv, AddBlock
  PROVE  FrameInv'
<1>1. FrameType /\ BlockInv /\ PointInv /\ blocks # << >> /\ startAngle \in Azimuths /\ returns \in Nat
  BY StartAngleType DEF FrameInv, AddBlock
<1>2. PICK b \in Block : b = blocks[1] /\ Head(blocks) = b
  BY <1>1 DEF FrameType
<1>3. /\ NextBlock(Head(blocks)) /\ UNCHANGED <<settings, sensorVars>>
      /\ pclType' = pclType /\ returns' = returns
  BY DEF AddBlock, settings
<1>4. /\ blocks' \in Seq(Block) /\ lastAzimuth' \in Azimuths /\ lastTimestamp' \in Nat /\ BlockInv'
      /\ \E r \in Nat, e \in 1 .. returns :
           r = b.revolution /\ Joins(r, e)' /\ LastDecoded(r, e)' = b
  BY <1>1, <1>2, <1>3, DecodedStep
<1>5. PICK r \in Nat, e \in 1 .. returns :
        r = b.revolution /\ Joins(r, e)' /\ LastDecoded(r, e)' = b
  BY <1>4
<1>6. PICK hits \in SUBSET Lasers :
        points' = CalcPoints(points, b, hits) /\ index' = CalcIndex(index, hits)
  BY <1>2 DEF AddBlock
<1>7. points \in [Lasers -> SUBSET Nat] /\ index \in Nat
  BY <1>1 DEF FrameType
<1>8. points' \in [Lasers -> SUBSET Nat] /\ index' \in Nat /\ index' >= index
  <2>1. points' \in [Lasers -> SUBSET Nat]
    BY <1>6, <1>7, PointsAdded
  <2>2. Cardinality(hits) \in Nat
    BY HitsCounted
  <2> QED BY <1>6, <1>7, <2>1, <2>2 DEF CalcIndex
<1>9. FrameType'
  BY <1>1, <1>3, <1>4, <1>8 DEF FrameType, settings, sensorVars, Block
<1>10. PointInv'
  <2> SUFFICES ASSUME ~pclType PROVE (index' = 0 => points' = NoPoints) /\ (index' > 0 => Gathered(r, e)')
    BY <1>3, <1>5 DEF PointInv
  <2>1. CASE index = 0
    <3>1. points' = CalcPoints(NoPoints, b, hits) /\ index' = CalcIndex(0, hits)
      BY <1>1, <1>6, <2>1 DEF PointInv
    <3> QED BY <1>1, <1>3, <1>5, <3>1, Begun
  <2>2. CASE index > 0
    <3>1. PICK s \in Nat, f \in 1 .. returns : Gathered(s, f) /\ Joins(s, f)
      BY <1>1, <2>2 DEF PointInv
    <3>2. ~Splits(b)
      BY <1>2, <2>2 DEF AddBlock, HasPoints
    <3>3. ~SplitsAfter(LastDecoded(s, f), b)
      BY <3>2 DEF Splits, SplitsAfter, LastDecoded
    <3>4. b.revolution = s /\ Place(LastDecoded(s, f)) + MinTurn <= Place(b)
      BY <1>1, <1>2, <3>1, <3>3 DEF Joins, Follows, LastDecoded
    <3>5. LastDecoded(s, f) \in Block
      BY <1>1 DEF FrameType, LastDecoded, Block
    <3>6. PICK p \in Nat : p = Place(LastDecoded(s, f))
      BY <1>1, <3>5, PlaceType
    <3>7. /\ \A l \in Lasers : points[l] \subseteq {b.revolution}
          /\ MinTurn * index <= Cardinality(Lasers) * p /\ p + MinTurn <= Place(b)
      BY <3>1, <3>4, <3>6 DEF Gathered
    <3>8. Gathered(r, e)'
      BY <1>1, <1>3, <1>5, <1>6, <1>7, <3>7, Added
    <3>9. index' # 0
      BY <1>7, <1>8, <2>2
    <3> QED BY <3>8, <3>9
  <2> QED BY <1>7, <2>1, <2>2
<1> QED BY <1>4, <1>9, <1>10 DEF FrameInv

(* Handing over the frame and beginning the next one. *)
LEMMA EmitStep ==
  ASSUME FrameInv, EmitFrame
  PROVE  FrameInv'
<1>1. FrameType /\ BlockInv /\ PointInv /\ blocks # << >> /\ startAngle \in Azimuths /\ returns \in Nat
  BY StartAngleType DEF FrameInv, EmitFrame
<1>2. PICK b \in Block : b = blocks[1] /\ Head(blocks) = b
  BY <1>1 DEF FrameType
<1>3. /\ NextBlock(Head(blocks)) /\ UNCHANGED <<settings, sensorVars>>
      /\ pclType' = pclType /\ returns' = returns
  BY DEF EmitFrame, settings
<1>4. /\ blocks' \in Seq(Block) /\ lastAzimuth' \in Azimuths /\ lastTimestamp' \in Nat /\ BlockInv'
      /\ \E r \in Nat, e \in 1 .. returns :
           r = b.revolution /\ Joins(r, e)' /\ LastDecoded(r, e)' = b
  BY <1>1, <1>2, <1>3, DecodedStep
<1>5. PICK r \in Nat, e \in 1 .. returns :
        r = b.revolution /\ Joins(r, e)' /\ LastDecoded(r, e)' = b
  BY <1>4
<1>6. PICK hits \in SUBSET Lasers :
        points' = CalcPoints(NoPoints, b, hits) /\ index' = CalcIndex(EmittedIndex, hits)
  BY <1>2 DEF EmitFrame
<1>7. NoPoints \in [Lasers -> SUBSET Nat] /\ EmittedIndex \in Nat
  BY <1>1 DEF FrameType, NoPoints, EmittedIndex
<1>8. points' \in [Lasers -> SUBSET Nat] /\ index' \in Nat
  <2>1. points' \in [Lasers -> SUBSET Nat]
    BY <1>6, <1>7, PointsAdded
  <2>2. Cardinality(hits) \in Nat
    BY HitsCounted
  <2> QED BY <1>6, <1>7, <2>1, <2>2 DEF CalcIndex
<1>9. FrameType'
  BY <1>1, <1>3, <1>4, <1>8 DEF FrameType, settings, sensorVars, Block
<1>10. PointInv'
  <2> SUFFICES ASSUME ~pclType PROVE (index' = 0 => points' = NoPoints) /\ Gathered(r, e)'
    BY <1>3, <1>5 DEF PointInv
  <2>1. index' = CalcIndex(0, hits)
    BY <1>6 DEF EmittedIndex
  <2> QED BY <1>1, <1>3, <1>5, <1>6, <2>1, Begun
<1> QED BY <1>4, <1>9, <1>10 DEF FrameInv

(* The blocks of a packet: each is another return of the firing before it, *)
(* or the head has turned.                                                 *)
LEMMA PacketOrder ==
  ASSUME returns \in Nat, returns > 0, NEW i \in Nat \ {0}, NEW gap \in Nat, NEW turn \in Nat
  PROVE  /\ Travel(gap, turn, i) \in Nat /\ Echo(i) \in 1 .. returns
         /\ Travel(gap, turn, 1) = gap
         /\ \/ Travel(gap, turn, i + 1) = Travel(gap, turn, i) /\ Echo(i + 1) = Echo(i) + 1
            \/ Travel(gap, turn, i + 1) = Travel(gap, turn, i) + turn
<1>1. PICK n \in Nat, c \in Nat : i - 1 = n /\ (i + 1) - 1 = n + 1 /\ c = returns /\ c > 0
  <2>1. i - 1 \in Nat /\ (i + 1) - 1 = (i - 1) + 1
    OBVIOUS
  <2> QED BY <2>1
<1>2. PICK q \in Nat, m \in 0 .. c - 1 : q = n \div c /\ m = n % c
  BY <1>1, Division
<1>3. \/ m + 1 < c /\ (n + 1) \div c = q /\ (n + 1) % c = m + 1
      \/ (n + 1) \div c = q + 1
  <2>1. 1 \in 0 .. c
    BY <1>1
  <2> QED BY <1>1, <1>2, <2>1, DivisionStep
<1>4. turn * q \in Nat /\ turn * (q + 1) = turn * q + turn
  OBVIOUS
<1>5. /\ Travel(gap, turn, i) = gap + turn * q /\ Echo(i) = m + 1
      /\ Travel(gap, turn, i + 1) = gap + turn * ((n + 1) \div c)
      /\ Echo(i + 1) = ((n + 1) % c) + 1
  BY <1>1, <1>2 DEF Travel, Echo
<1>6. Travel(gap, turn, 1) = gap
  <2>1. 0 = c * 0 + 0 /\ 0 \in 0 .. c - 1 /\ 0 \in Nat /\ 0 \in Int
    BY <1>1
  <2>2. 0 \div c = 0
    BY <1>1, <2>1, DivisionUnique
  <2>3. 1 - 1 = 0 /\ turn * 0 = 0 /\ gap + 0 = gap
    OBVIOUS
  <2>4. Travel(gap, turn, 1) = gap + turn * ((1 - 1) \div c)
    BY <1>1 DEF Travel
  <2> QED BY <2>2, <2>3, <2>4
<1>7. Travel(gap, turn, i) \in Nat /\ Echo(i) \in 1 .. returns
  BY <1>1, <1>2, <1>4, <1>5
<1>8. CASE m + 1 < c /\ (n + 1) \div c = q /\ (n + 1) % c = m + 1
  <2>1. Travel(gap, turn, i + 1) = Travel(gap, turn, i) /\ Echo(i + 1) = Echo(i) + 1
    BY <1>5, <1>8
  <2> QED BY <1>6, <1>7, <2>1
<1>9. CASE (n + 1) \div c = q + 1
  <2>1. Travel(gap, turn, i + 1) = Travel(gap, turn, i) + turn
    BY <1>4, <1>5, <1>9
  <2> QED BY <1>6, <1>7, <2>1
<1> QED BY <1>3, <1>8, <1>9

(* Firings in a packet. *)
LEMMA FiringsType == ASSUME returns \in Nat, returns > 0 PROVE Firings \in Nat
BY FrameAssumption, Division DEF Firings

(* Packets that are at most as far apart as Turning says. *)
LEMMA ReceiveStep ==
  ASSUME Turning, FrameInv, ReceivePacket
  PROVE  FrameInv'
<1>1. /\ FrameType /\ BlockInv /\ PointInv /\ startAngle \in Azimuths /\ blocks = << >>
      /\ head \in Azimuths /\ sensorTime \in Nat /\ revolution \in Nat /\ startAngle \in StartAngles
      /\ returns \in Returns /\ returns \in Nat /\ returns > 0
  BY StartAngleType DEF FrameInv, FrameType, ReceivePacket
<1>2. PICK turn \in Steps, lost \in 0 .. MaxLost :
        LET gap == turn * (lost * Firings + 1)
            time == sensorTime + (lost + 1) * Firings
        IN  /\ blocks' = [i \in 1 .. Blocks |->
                 [azimuth    |-> Turned(head, Travel(gap, turn, i)),
                  revolution |-> revolution
                                   + StartsPassed(head, Travel(gap, turn, i)),
                  time       |-> time,
                  echo       |-> Echo(i)]]
            /\ sensorTime' = time
  BY DEF ReceivePacket
<1>3. /\ head' = blocks'[Blocks].azimuth /\ revolution' = blocks'[Blocks].revolution
      /\ UNCHANGED <<startAngle, pclType, returns, lastAzimuth, lastTimestamp, points, index>>
  BY DEF ReceivePacket, settings
<1> DEFINE gap == turn * (lost * Firings + 1)
           elapsed == (lost + 1) * Firings
           time == sensorTime + elapsed
           by(i) == Travel(gap, turn, i)
           fired(n, e) == [azimuth |-> Turned(head, n),
                           revolution |-> revolution + StartsPassed(head, n), time |-> time,
                           echo |-> e]
<1>4. /\ Circle \in Nat /\ Circle > 0 /\ Blocks \in Nat /\ Blocks > 0 /\ Slack \in Nat /\ MaxRate \in Nat
      /\ turn \in Nat /\ lost \in Nat /\ MinTurn \in Nat /\ MinTurn > 0 /\ Firings \in Nat
  BY <1>1, FrameAssumption, FiringsType
<1>5. gap \in Nat /\ elapsed \in Nat /\ time \in Nat
  BY <1>1, <1>4
<1>6. /\ MinTurn <= turn /\ turn < MaxRate * Slack /\ gap < Circle
      /\ gap < MaxRate * (elapsed + Slack) /\ gap <= Circle - startAngle
  BY <1>1 DEF Turning, Firings
<1>7. turn <= gap
  <2>1. lost * Firings \in Nat
    BY <1>4
  <2>2. PICK n \in Nat : n = lost * Firings
    BY <2>1
  <2>3. turn * (n + 1) = turn * n + turn /\ turn * n \in Nat
    BY <1>4
  <2> QED BY <1>4, <2>2, <2>3
<1>8. blocks' = [i \in 1 .. Blocks |-> fired(by(i), Echo(i))] /\ sensorTime' = time
  BY <1>2
<1> HIDE DEF gap, elapsed
<1>9. \A n \in Nat, e \in Nat : fired(n, e) \in Block
  <2> SUFFICES ASSUME NEW n \in Nat, NEW e \in Nat PROVE fired(n, e) \in Block
    OBVIOUS
  <2>1. Turned(head, n) \in Azimuths /\ n + Rel(head) \in Nat
        /\ StartsPassed(head, n) = (n + Rel(head)) \div Circle
    BY <1>1, Position
  <2>2. StartsPassed(head, n) \in Nat
    BY <1>4, <2>1, Division
  <2> QED BY <1>1, <1>5, <2>1, <2>2 DEF Block
<1>10. \A i \in Nat \ {0} :
         /\ by(i) \in Nat /\ Echo(i) \in 1 .. returns /\ Echo(i) \in Nat /\ by(1) = gap
         /\ \/ by(i + 1) = by(i) /\ Echo(i + 1) = Echo(i) + 1
            \/ by(i + 1) = by(i) + turn
  <2> SUFFICES ASSUME NEW i \in Nat \ {0}
               PROVE  /\ by(i) \in Nat /\ Echo(i) \in 1 .. returns /\ Echo(i) \in Nat /\ by(1) = gap
                      /\ \/ by(i + 1) = by(i) /\ Echo(i + 1) = Echo(i) + 1
                         \/ by(i + 1) = by(i) + turn
    OBVIOUS
  <2>1. /\ by(i) \in Nat /\ Echo(i) \in 1 .. returns /\ by(1) = gap
        /\ \/ by(i + 1) = by(i) /\ Echo(i + 1) = Echo(i) + 1
           \/ by(i + 1) = by(i) + turn
    <3>1. PICK g \in Nat, u \in Nat : g = gap /\ u = turn
      BY <1>4, <1>5
    <3>2. returns \in Nat /\ returns > 0
      BY <1>1
    <3>3. /\ Travel(g, u, i) \in Nat /\ Echo(i) \in 1 .. returns /\ Travel(g, u, 1) = g
          /\ \/ Travel(g, u, i + 1) = Travel(g, u, i) /\ Echo(i + 1) = Echo(i) + 1
             \/ Travel(g, u, i + 1) = Travel(g, u, i) + u
      BY <3>2, PacketOrder
    <3> QED BY <3>1, <3>3
  <2> HIDE DEF by
  <2>2. Echo(i) \in Nat
    BY <1>1, <2>1
  <2> QED BY <2>1, <2>2
<1> HIDE DEF by
<1>11. /\ blocks' \in Seq(Block) /\ Len(blocks') = Blocks
       /\ \A i \in 1 .. Blocks : blocks'[i] = fired(by(i), Echo(i)) /\ blocks'[i] \in Block
  <2>1. \A i \in 1 .. Blocks : by(i) \in Nat /\ fired(by(i), Echo(i)) \in Block
    BY <1>4, <1>9, <1>10
  <2> HIDE DEF fired
  <2> QED BY <1>4, <1>8, <2>1
<1>12. LastFired(blocks[Blocks].echo)' = blocks'[Blocks] /\ blocks'[Blocks] \in Block
  <2>1. blocks'[Blocks].time = time /\ blocks'[Blocks] \in Block
    BY <1>4, <1>11
  <2> QED BY <1>3, <1>8, <2>1 DEF LastFired, Block
<1>13. FrameType'
  <2>1. head' \in Azimuths /\ revolution' \in Nat
    BY <1>3, <1>12 DEF Block
  <2> QED BY <1>1, <1>3, <1>11, <2>1, <1>5, <1>8 DEF FrameType, Block
<1>14. \A x, y : Follows(x, y) => Follows(x, y)'
  BY <1>3 DEF Follows, SplitsAfter, Plausible, AzimuthGap, ReachesStart, Rel, Place
<1>15. BlockInv'
  <2>1. ASSUME NEW i \in 1 .. Len(blocks') - 1 PROVE Follows(blocks[i], blocks[i + 1])'
    <3>1. i \in 1 .. Blocks /\ i + 1 \in 1 .. Blocks /\ i \in Nat \ {0} /\ i + 1 \in Nat \ {0}
      BY <1>4, <1>11
    <3>2. PICK x \in Block, y \in Block : x = blocks'[i] /\ y = blocks'[i + 1]
      BY <1>11, <3>1
    <3>3. PICK n \in Nat, e \in 1 .. returns : n = by(i) /\ e = Echo(i)
      BY <1>10, <3>1
    <3>4. PICK k \in Nat, f \in 1 .. returns : k = by(i + 1) /\ f = Echo(i + 1)
      BY <1>10, <3>1
    <3>5. x = fired(n, e) /\ y = fired(k, f) /\ ((k = n /\ f = e + 1) \/ k = n + turn)
      <4>1. x = fired(by(i), Echo(i)) /\ y = fired(by(i + 1), Echo(i + 1))
        BY <1>11, <3>1, <3>2
      <4>2. \/ by(i + 1) = by(i) /\ Echo(i + 1) = Echo(i) + 1
            \/ by(i + 1) = by(i) + turn
        BY <1>10, <3>1
      <4> HIDE DEF fired
      <4> QED BY <3>3, <3>4, <4>1, <4>2
    <3>6. /\ x.azimuth = Turned(head, n) /\ y.azimuth = Turned(head, k)
          /\ x.revolution = revolution + StartsPassed(head, n)
          /\ y.revolution = revolution + StartsPassed(head, k)
          /\ x.time = time /\ y.time = time /\ x.echo = e /\ y.echo = f
      BY <3>5
    <3>7. x.time <= y.time /\ y.time - x.time + Slack = Slack
      BY <1>4, <1>5, <3>6
    <3>8. ASSUME k = n + turn PROVE Follows(x, y)
      <4>1. turn \in 1 .. Circle - 1 /\ turn <= Circle - startAngle
        BY <1>1, <1>4, <1>5, <1>6, <1>7 DEF Azimuths
      <4>2. turn < MaxRate * (y.time - x.time + Slack)
        BY <1>6, <3>7
      <4>3. MinTurn <= turn /\ x.echo \in 1 .. returns /\ y.echo \in 1 .. returns
        BY <1>6, <3>6
      <4>4. y.azimuth = Turned(head, n + turn) /\ y.revolution = revolution + StartsPassed(head, n + turn)
        BY <3>6, <3>8
      <4>5. x.azimuth = Turned(head, n) /\ x.revolution = revolution + StartsPassed(head, n) /\ x.time <= y.time
        BY <3>6, <3>7
      <4>6. startAngle \in Azimuths /\ returns \in Nat /\ head \in Azimuths /\ revolution \in Nat
        BY <1>1
      <4> HIDE DEF fired, time
      <4> QED BY <4>1, <4>2, <4>3, <4>4, <4>5, <4>6, TurnFollows
    <3>9. ASSUME k = n, f = e + 1 PROVE Follows(x, y)
      <4>1. y.azimuth = x.azimuth /\ y.revolution = x.revolution /\ y.echo = x.echo + 1
        BY <3>6, <3>9
      <4>2. startAngle \in Azimuths /\ returns \in Nat
        BY <1>1
      <4> HIDE DEF fired, time
      <4> QED BY <4>1, <4>2, EchoFollows
    <3>10. Follows(x, y)
      <4>1. (k = n /\ f = e + 1) \/ k = n + turn
        BY <3>5
      <4> QED BY <3>8, <3>9, <4>1
    <3>11. Follows(x, y)'
      BY <1>14, <3>10
    <3> QED BY <3>2, <3>11
  <2>2. \A i \in 1 .. Len(blocks') : blocks'[i].echo \in 1 .. returns'
    BY <1>3, <1>4, <1>10, <1>11
  <2>3. blocks'[Len(blocks')] = LastFired(blocks[Len(blocks)].echo)'
    BY <1>11, <1>12
  <2> QED BY <2>1, <2>2, <2>3 DEF BlockInv
<1>16. PointInv'
  <2> SUFFICES ASSUME ~pclType
               PROVE  /\ index = 0 => points = NoPoints
                      /\ index > 0 => \E r \in Nat, e \in 1 .. returns : Gathered(r, e)' /\ Joins(r, e)'
    BY <1>3 DEF PointInv, NoPoints
  <2>0. index = 0 => points = NoPoints
    BY <1>1 DEF PointInv
  <2> SUFFICES ASSUME index > 0
               PROVE  \E r \in Nat, e \in 1 .. returns : Gathered(r, e)' /\ Joins(r, e)'
    BY <2>0
  <2>1. PICK r \in Nat, e \in 1 .. returns : Gathered(r, e) /\ LastDecoded(r, e) = LastFired(e)
    BY <1>1 DEF PointInv, Joins
  <2>2. Gathered(r, e)'
    BY <1>3, <2>1 DEF Gathered, Place, LastDecoded, Rel
  <2>3. PICK x \in Block, y \in Block : x = LastFired(e) /\ y = blocks'[1]
    <3>1. LastFired(e) \in Block
      BY <1>1 DEF LastFired, Block
    <3>2. blocks'[1] \in Block
      BY <1>4, <1>11
    <3> QED BY <3>1, <3>2, Zenon
  <2>4. PICK f \in 1 .. returns : f = Echo(1) /\ y = fired(gap, f)
    <3>1. 1 \in Nat \ {0} /\ 1 \in 1 .. Blocks
      BY <1>4
    <3> HIDE DEF fired
    <3> QED BY <1>10, <1>11, <2>3, <3>1
  <2>5. Turned(head, 0) = head /\ StartsPassed(head, 0) = 0
    <3>1. head \in 0 .. Circle - 1 /\ startAngle \in 0 .. Circle - 1
      BY <1>1 DEF Azimuths
    <3>2. StartsPassed(head, 0) = 0
      BY <1>4, <3>1 DEF StartsPassed
    <3>3. head = Circle * 0 + head
      BY <1>4, <3>1
    <3>4. head % Circle = head
      BY <1>4, <3>1, <3>3, DivisionUnique
    <3> QED BY <3>1, <3>2, <3>4 DEF Turned
  <2>6. /\ x.azimuth = Turned(head, 0) /\ y.azimuth = Turned(head, 0 + gap)
        /\ x.revolution = revolution + StartsPassed(head, 0)
        /\ y.revolution = revolution + StartsPassed(head, 0 + gap)
        /\ x.time = sensorTime /\ y.time = time
        /\ x.echo \in 1 .. returns /\ y.echo \in 1 .. returns
    <3>1. 0 + gap = gap /\ revolution + 0 = revolution
      BY <1>1, <1>5
    <3> QED BY <2>3, <2>4, <2>5, <3>1 DEF LastFired
  <2>7. x.time <= y.time /\ y.time - x.time = elapsed
    BY <1>1, <1>5, <2>6
  <2>8. /\ gap \in 1 .. Circle - 1 /\ gap <= Circle - startAngle /\ MinTurn <= gap
        /\ gap < MaxRate * (y.time - x.time + Slack)
    <3>1. gap \in 1 .. Circle - 1 /\ MinTurn <= gap
      BY <1>4, <1>5, <1>6, <1>7
    <3> QED BY <1>6, <2>7, <3>1
  <2>9. Follows(x, y)
    BY <1>1, <2>6, <2>7, <2>8, TurnFollows
  <2>10. Joins(r, e)'
    <3>1. blocks' # << >>
      BY <1>4, <1>11
    <3>2. LastDecoded(r, e)' = x
      BY <1>3, <2>1, <2>3 DEF LastDecoded
    <3>3. Follows(x, y)'
      BY <1>14, <2>9
    <3> QED BY <2>3, <3>1, <3>2, <3>3 DEF Joins
  <2> QED BY <2>2, <2>10
<1> QED BY <1>13, <1>15, <1>16 DEF FrameInv

(* Every step of the decoder and of the sensor. *)
LEMMA FrameStep ==
  ASSUME Turning, FrameInv, [Next]_vars
  PROVE  FrameInv'
<1>0. NoPoints \in [Lasers -> SUBSET Nat]
  BY DEF NoPoints
<1>1. FrameType /\ BlockInv /\ PointInv
  BY DEF FrameInv
<1>2. CASE EmitLastFrame
  <2>1. /\ blocks' = << >> /\ points' = NoPoints /\ UNCHANGED <<settings, sensorVars>>
        /\ index' = EmittedIndex /\ UNCHANGED <<lastAzimuth, lastTimestamp>>
    BY <1>2 DEF EmitLastFrame
  <2>2. EmittedIndex \in Nat /\ (~pclType => EmittedIndex = 0) /\ << >> \in Seq(Block)
    BY <1>1 DEF EmittedIndex, FrameType
  <2>3. FrameType'
    BY <1>0, <1>1, <2>1, <2>2 DEF FrameType, settings, sensorVars, Block
  <2>4. BlockInv'
    BY <2>1 DEF BlockInv
  <2>5. PointInv'
    BY <2>1, <2>2 DEF PointInv, settings
  <2> QED BY <2>3, <2>4, <2>5 DEF FrameInv
<1>3. CASE Restart
  <2>1. /\ blocks' = << >> /\ points' = NoPoints /\ index' = 0 /\ UNCHANGED <<settings, sensorVars>>
        /\ lastAzimuth' = 0 /\ lastTimestamp' = 0
    BY <1>3 DEF Restart
  <2>2. 0 \in Azimuths /\ << >> \in Seq(Block)
    BY FrameAssumption DEF Azimuths
  <2>3. FrameType'
    BY <1>0, <1>1, <2>1, <2>2 DEF FrameType, settings, sensorVars, Block
  <2>4. BlockInv' /\ PointInv'
    BY <2>1 DEF BlockInv, PointInv
  <2> QED BY <2>3, <2>4 DEF FrameInv
<1>4. CASE TransformFails \/ UNCHANGED vars
  <2>1. UNCHANGED <<settings, sensorVars, blocks, frameVars>>
    BY <1>4 DEF TransformFails, vars
  <2>2. FrameType'
    BY <1>1, <2>1 DEF FrameType, settings, sensorVars, frameVars, Block
  <2>3. BlockInv'
    BY <1>1, <2>1 DEF BlockInv, LastFired, settings, sensorVars, Follows, SplitsAfter, Plausible,
         AzimuthGap, ReachesStart, Rel, Place
  <2>4. \A r, e : Gathered(r, e) /\ Joins(r, e) => Gathered(r, e)' /\ Joins(r, e)'
    <3>1. \A r, e : Gathered(r, e) => Gathered(r, e)'
      BY <2>1 DEF Gathered, LastDecoded, Place, Rel, settings, frameVars
    <3>2. \A r, e : Joins(r, e) => Joins(r, e)'
      BY <2>1 DEF Joins, LastDecoded, LastFired, settings, sensorVars,
           frameVars, Follows, SplitsAfter, Plausible, AzimuthGap, ReachesStart, Rel, Place
    <3> QED BY <3>1, <3>2
  <2>5. UNCHANGED <<pclType, index, points, returns>>
    BY <2>1 DEF settings, frameVars
  <2>6. PointInv'
    <3> SUFFICES ASSUME ~pclType
                 PROVE  /\ index = 0 => points = NoPoints
                        /\ index > 0 => \E r \in Nat, e \in 1 .. returns : Gathered(r, e)' /\ Joins(r, e)'
      BY <2>5 DEF PointInv, NoPoints
    <3> QED BY <1>1, <2>4 DEF PointInv
  <2> QED BY <2>2, <2>3, <2>6 DEF FrameInv
<1> QED BY <1>2, <1>3, <1>4, ReceiveStep, AddStep, EmitStep DEF Next

(* The frame being filled is within one revolution in every reachable      *)
(* state.                                                                  *)
LEMMA FrameInvariant == ASSUME Turning PROVE Spec => []FrameInv
<1>0. Turning
  OBVIOUS
<1>1. Init => FrameInv
  <2> SUFFICES ASSUME Init PROVE FrameInv
    OBVIOUS
  <2>1. 0 \in Azimuths /\ NoPoints \in [Lasers -> SUBSET Nat]
    BY FrameAssumption DEF Azimuths, NoPoints
  <2>2. FrameType
    BY <2>1 DEF Init, FrameType
  <2>3. BlockInv /\ PointInv
    BY DEF Init, BlockInv, PointInv
  <2> QED BY <2>2, <2>3 DEF FrameInv
<1>2. FrameInv /\ [Next]_vars => FrameInv'
  BY <1>0, FrameStep
<1> QED BY <1>1, <1>2, PTL DEF Spec

(* If the head turns and losses are shorter than a revolution, then for    *)
(* every start angle, circle, packet size, number of returns and set of    *)
(* channels: the block loop of ProcessLiarPacket never puts points of two  *)
(* revolutions into one frame, whichever channels see nothing and wherever *)
(* the driver is stopped and started.                                      *)
THEOREM FramesOfOneRevolution == ASSUME Turning PROVE Spec => []FramesPure
<1>1. FrameInv => FramesPure
  <2> SUFFICES ASSUME FrameInv, ~pclType PROVE OneRevolution
    BY DEF FramesPure
  <2>0. index \in Nat
    BY DEF FrameInv, FrameType
  <2>1. CASE index = 0
    BY <2>1 DEF FrameInv, PointInv, NoPoints, OneRevolution
  <2>2. CASE index > 0
    <3>1. PICK r \in Nat : \A l \in Lasers : points[l] \subseteq {r}
      BY <2>2 DEF FrameInv, PointInv, Gathered
    <3> QED BY <3>1 DEF OneRevolution
  <2> QED BY <2>0, <2>1, <2>2
<1>2. Turning
  OBVIOUS
<1>3. Spec => []FrameInv
  BY <1>2, FrameInvariant
<1> QED BY <1>1, <1>3, PTL

(* If moreover the slowest sensor's revolution fits, m_vPointCloud is      *)
(* never written past its end: the count, over all channels and returns,   *)
(* is set back in time.                                                    *)
THEOREM FramesBounded == ASSUME Turning, Roomy PROVE Spec => []FrameBounded
<1>0. Roomy
  OBVIOUS
<1>1. FrameInv => FrameBounded
  <2> SUFFICES ASSUME FrameInv, ~pclType PROVE index <= MaxPoints
    BY DEF FrameBounded
  <2>0. /\ Circle \in Nat /\ Circle > 0 /\ MinTurn \in Nat /\ MinTurn > 0 /\ MaxPoints \in Nat
        /\ index \in Nat /\ returns \in Nat /\ Cardinality(Lasers) \in Nat
        /\ startAngle \in Azimuths /\ FrameType /\ returns \in Returns
    BY FrameAssumption, HitsCounted, StartAngleType DEF FrameInv, FrameType
  <2>1. CASE index = 0
    BY <2>0, <2>1
  <2>2. CASE index > 0
    <3>1. PICK r \in Nat, e \in 1 .. returns : Gathered(r, e)
      BY <2>2 DEF FrameInv, PointInv
    <3>2. PICK b \in Block : b = LastDecoded(r, e)
      <4>1. e \in Nat /\ lastAzimuth \in Azimuths /\ lastTimestamp \in Nat
        BY <2>0 DEF FrameType
      <4> QED BY <4>1 DEF LastDecoded, Block
    <3>3. Rel(b.azimuth) \in 0 .. Circle - 1 /\ Rel(b.azimuth) \in Nat /\ Place(b) \in Nat /\ b.echo = e
      BY <2>0, <3>2, PlaceType DEF LastDecoded
    <3>4. Place(b) <= returns * (Circle - 1 + MinTurn)
      <4>1. PICK a \in Nat, c \in Nat : a = Rel(b.azimuth) /\ c = Circle - 1 /\ a <= c
        <5>1. Circle - 1 \in Nat
          BY <2>0
        <5> QED BY <2>0, <3>3, <5>1
      <4>2. returns * a <= returns * c /\ returns * a \in Nat /\ returns * c \in Nat
        BY <2>0, <4>1, ProductGrows
      <4>3. MinTurn * e <= MinTurn * returns /\ MinTurn * e \in Nat
        <5>1. e \in Nat /\ e <= returns
          BY <2>0
        <5> QED BY <2>0, <5>1, ProductGrows
      <4>4. returns * (c + MinTurn) = returns * c + MinTurn * returns /\ MinTurn * returns \in Nat
        BY <2>0, <4>1
      <4>5. Place(b) = returns * a + MinTurn * e
        BY <3>3, <4>1 DEF Place
      <4> QED BY <4>1, <4>2, <4>3, <4>4, <4>5
    <3>5. PICK w \in Nat, p \in Nat, q \in Nat :
            /\ w = Cardinality(Lasers) /\ p = Place(b) /\ q = returns * (Circle - 1 + MinTurn)
            /\ p <= q
      <4>1. returns * (Circle - 1 + MinTurn) \in Nat
        BY <2>0
      <4> QED BY <2>0, <3>3, <3>4, <4>1
    <3>6. MinTurn * index <= w * p
      BY <3>1, <3>2, <3>5 DEF Gathered
    <3>7. w * p <= w * q /\ w * p \in Nat /\ w * q \in Nat
      BY <3>5, ProductGrows
    <3>8. w * q <= MinTurn * MaxPoints
      BY <1>0, <2>0, <3>5 DEF Roomy
    <3>9. MinTurn * index <= MinTurn * MaxPoints
      <4>1. MinTurn * index \in Nat /\ MinTurn * MaxPoints \in Nat
        BY <2>0
      <4> QED BY <3>6, <3>7, <3>8, <4>1
    <3>10. ASSUME index > MaxPoints PROVE FALSE
      <4>1. MaxPoints + 1 <= index /\ MaxPoints + 1 \in Nat /\ MinTurn <= MinTurn
        BY <2>0, <3>10
      <4>2. MinTurn * (MaxPoints + 1) <= MinTurn * index
        BY <2>0, <4>1, ProductGrows
      <4>3. MinTurn * (MaxPoints + 1) = MinTurn * MaxPoints + MinTurn
            /\ MinTurn * MaxPoints \in Nat /\ MinTurn * index \in Nat
        BY <2>0
      <4> QED BY <2>0, <3>9, <4>2, <4>3
    <3> QED BY <2>0, <3>10
  <2> QED BY <2>0, <2>1, <2>2
<1>2. Turning
  OBVIOUS
<1>3. Spec => []FrameInv
  BY <1>2, FrameInvariant
<1> QED BY <1>1, <1>3, PTL

-----------------------------------------------------------------------------
(* Every variable stays in its range, whether or not the head turns.       *)

(* The blocks of a packet, for any step of the azimuth. *)
LEMMA PacketFired ==
  ASSUME TypeOK, ReceivePacket
  PROVE  /\ blocks' \in Seq(Block) /\ sensorTime' \in Nat
         /\ head' \in Azimuths /\ revolution' \in Nat
<1>1. /\ startAngle \in Azimuths /\ head \in Azimuths /\ sensorTime \in Nat /\ revolution \in Nat
      /\ returns \in Nat /\ returns > 0
  BY FrameAssumption DEF TypeOK, Azimuths
<1>2. PICK turn \in Steps, lost \in 0 .. MaxLost :
        LET gap == turn * (lost * Firings + 1)
            time == sensorTime + (lost + 1) * Firings
        IN  /\ blocks' = [i \in 1 .. Blocks |->
                 [azimuth    |-> Turned(head, Travel(gap, turn, i)),
                  revolution |-> revolution
                                   + StartsPassed(head, Travel(gap, turn, i)),
                  time       |-> time,
                  echo       |-> Echo(i)]]
            /\ sensorTime' = time
  BY DEF ReceivePacket
<1> DEFINE gap == turn * (lost * Firings + 1)
           time == sensorTime + (lost + 1) * Firings
           by(i) == Travel(gap, turn, i)
           fired(n, e) == [azimuth |-> Turned(head, n),
                           revolution |-> revolution + StartsPassed(head, n), time |-> time,
                           echo |-> e]
<1>3. /\ Circle \in Nat /\ Circle > 0 /\ Blocks \in Nat /\ Blocks > 0
      /\ turn \in Nat /\ lost \in Nat /\ Firings \in Nat
  BY <1>1, FrameAssumption, FiringsType
<1>4. gap \in Nat /\ time \in Nat
  BY <1>1, <1>3
<1>5. blocks' = [i \in 1 .. Blocks |-> fired(by(i), Echo(i))] /\ sensorTime' = time
  BY <1>2
<1> HIDE DEF gap, time
<1>6. ASSUME NEW n \in Nat, NEW e \in Nat PROVE fired(n, e) \in Block
  <2>1. Turned(head, n) \in Azimuths /\ n + Rel(head) \in Nat
        /\ StartsPassed(head, n) = (n + Rel(head)) \div Circle
    BY <1>1, Position
  <2>2. StartsPassed(head, n) \in Nat
    BY <1>3, <2>1, Division
  <2> QED BY <1>1, <1>4, <2>1, <2>2 DEF Block
<1>7. ASSUME NEW i \in 1 .. Blocks PROVE by(i) \in Nat /\ Echo(i) \in Nat
  <2>1. i \in Nat \ {0}
    BY <1>3
  <2>2. by(i) \in Nat /\ Echo(i) \in 1 .. returns
    BY <1>1, <1>3, <1>4, <2>1, PacketOrder
  <2> HIDE DEF by
  <2> QED BY <1>1, <2>2
<1> HIDE DEF by, fired
<1>8. blocks' \in Seq(Block) /\ blocks'[Blocks] \in Block
  BY <1>3, <1>5, <1>6, <1>7
<1>9. head' = blocks'[Blocks].azimuth /\ revolution' = blocks'[Blocks].revolution
  BY DEF ReceivePacket
<1> QED BY <1>4, <1>5, <1>8, <1>9 DEF Block

(* The block at the head is decoded into points of its revolution. *)
LEMMA BlockDecoded ==
  ASSUME blocks \in Seq(Block), blocks # << >>, NextBlock(Head(blocks)),
         NEW before \in [Lasers -> SUBSET Nat], NEW hits \in SUBSET Lasers, NEW n \in Nat,
         points' = CalcPoints(before, Head(blocks), hits), index' = CalcIndex(n, hits)
  PROVE  /\ blocks' \in Seq(Block) /\ points' \in [Lasers -> SUBSET Nat] /\ index' \in Nat
         /\ lastAzimuth' \in Azimuths /\ lastTimestamp' \in Nat
<1>1. PICK b \in Block : b = Head(blocks)
  OBVIOUS
<1>2. b.azimuth \in Azimuths /\ b.revolution \in Nat /\ b.time \in Nat
  BY DEF Block
<1>3. blocks' \in Seq(Block) /\ lastAzimuth' = b.azimuth /\ lastTimestamp' = b.time
  BY <1>1 DEF NextBlock
<1>4. points' \in [Lasers -> SUBSET Nat]
  BY <1>1, PointsAdded
<1>5. Cardinality(hits) \in Nat
  BY HitsCounted
<1>6. index' \in Nat
  BY <1>5 DEF CalcIndex
<1> QED BY <1>2, <1>3, <1>4, <1>6

(* A scan of packets decoded since Start, handed over or grown by one. *)
LEMMA ScanPackets ==
  ASSUME NEW d \in Nat, NEW s \in Seq(1 .. d), NEW p \in Seq(1 .. d)
  PROVE  /\ s \in Seq(1 .. d + 1) /\ p \in Seq(1 .. d + 1)
         /\ Append(s, d + 1) \in Seq(1 .. d + 1) /\ Len(Append(s, d + 1)) = Len(s) + 1
         /\ p \o s \in Seq(1 .. d) /\ Len(p \o s) = Len(p) + Len(s)
         /\ << >> \in Seq(1 .. d) /\ Len(<< >>) = 0 /\ Len(s) \in Nat /\ Len(p) \in Nat
<1>1. Len(s) \in Nat /\ Len(p) \in Nat /\ << >> \in Seq(1 .. d) /\ Len(<< >>) = 0
  OBVIOUS
<1>2. d + 1 \in 1 .. d + 1 /\ \A i \in 1 .. d : i \in 1 .. d + 1
  OBVIOUS
<1>3. s \in Seq(1 .. d + 1) /\ p \in Seq(1 .. d + 1)
  <2> DEFINE S == 1 .. d
             T == 1 .. d + 1
  <2>1. S \subseteq T /\ s \in Seq(S) /\ p \in Seq(S)
    BY <1>2
  <2> HIDE DEF S, T
  <2>2. s \in Seq(T) /\ p \in Seq(T)
    BY <2>1
  <2> QED BY <2>2 DEF T
<1>4. Append(s, d + 1) \in Seq(1 .. d + 1) /\ Len(Append(s, d + 1)) = Len(s) + 1
  BY <1>2, <1>3, AppendProperties
<1>5. p \o s \in Seq(1 .. d) /\ Len(p \o s) = Len(p) + Len(s)
  BY ConcatProperties
<1> QED BY <1>1, <1>3, <1>4, <1>5

(* What the decoder works on stays well-formed for every start angle,      *)
(* packet size, set of channels and pattern of losses, and no scan grows   *)
(* beyond the packets decoded since Start.                                 *)
THEOREM FrameTypeCorrect == Spec => []TypeOK
<1>0. 0 \in Azimuths /\ NoPoints \in [Lasers -> SUBSET Nat] /\ MaxPackets \in Nat /\ MaxRestarts \in Nat
  BY FrameAssumption DEF Azimuths, NoPoints
<1>1. Init => TypeOK
  BY <1>0 DEF Init, TypeOK
<1>2. TypeOK /\ [Next]_vars => TypeOK'
  <2> SUFFICES ASSUME TypeOK, [Next]_vars PROVE TypeOK'
    OBVIOUS
  <2>0. /\ decoded \in 0 .. MaxPackets /\ decoded \in Nat
        /\ scan \in Seq(1 .. decoded) /\ published \in Seq(1 .. decoded)
        /\ Len(published) + Len(scan) <= decoded
        /\ blocks \in Seq(Block) /\ restarts \in 0 .. MaxRestarts
        /\ points \in [Lasers -> SUBSET Nat] /\ index \in Nat
    BY <1>0 DEF TypeOK, Block
  <2>1. CASE ReceivePacket
    <3>1. /\ blocks' \in Seq(Block) /\ sensorTime' \in Nat
          /\ head' \in Azimuths /\ revolution' \in Nat
      BY <2>1, PacketFired
    <3>2. /\ decoded < MaxPackets /\ decoded' = decoded + 1 /\ scan' = Append(scan, decoded + 1)
          /\ UNCHANGED <<startAngle, pclType, qt, returns, decoder, lastAzimuth, lastTimestamp,
                         points, index, published, restarts>>
      BY <2>1 DEF ReceivePacket, settings
    <3>3. /\ decoded' \in 0 .. MaxPackets /\ scan' \in Seq(1 .. decoded')
          /\ published' \in Seq(1 .. decoded') /\ Len(published') + Len(scan') <= decoded'
      BY <1>0, <2>0, <3>2, ScanPackets
    <3> QED BY <3>1, <3>2, <3>3 DEF TypeOK, Block
  <2>2. CASE AddBlock
    <3>1. PICK hits \in SUBSET Lasers :
            points' = CalcPoints(points, Head(blocks), hits) /\ index' = CalcIndex(index, hits)
      BY <2>2 DEF AddBlock
    <3>2. /\ blocks' \in Seq(Block) /\ points' \in [Lasers -> SUBSET Nat] /\ index' \in Nat
          /\ lastAzimuth' \in Azimuths /\ lastTimestamp' \in Nat
      BY <2>0, <2>2, <3>1, BlockDecoded DEF AddBlock
    <3>3. UNCHANGED <<startAngle, pclType, qt, returns, head, sensorTime, revolution, decoder, scan,
                      decoded, published, restarts>>
      BY <2>2 DEF AddBlock, settings, sensorVars
    <3> QED BY <3>2, <3>3 DEF TypeOK, Block
  <2>3. CASE EmitFrame \/ EmitLastFrame
    <3>1. /\ published' = published \o HandedOver /\ scan' = << >>
          /\ UNCHANGED <<startAngle, pclType, qt, returns, head, sensorTime, revolution, decoded, restarts>>
      BY <2>3 DEF EmitFrame, EmitLastFrame, settings, sensorVars
    <3>2. /\ decoded' \in 0 .. MaxPackets /\ scan' \in Seq(1 .. decoded')
          /\ published' \in Seq(1 .. decoded') /\ Len(published') + Len(scan') <= decoded'
      <4>1. CASE HandedOver = scan
        BY <2>0, <3>1, <4>1, ScanPackets
      <4>2. CASE HandedOver = << >>
        <5>1. published' = published /\ Len(published) \in Nat /\ Len(scan) \in Nat
          BY <2>0, <3>1, <4>2
        <5> QED BY <2>0, <3>1, <5>1, ScanPackets
      <4> QED BY <4>1, <4>2 DEF HandedOver
    <3>3. /\ blocks' \in Seq(Block) /\ points' \in [Lasers -> SUBSET Nat] /\ index' \in Nat
          /\ lastAzimuth' \in Azimuths /\ lastTimestamp' \in Nat
          /\ decoder' \in {"running", "exited"}
      <4>0. EmittedIndex \in Nat
        BY <2>0 DEF EmittedIndex
      <4>1. CASE EmitFrame
        <5>1. PICK hits \in SUBSET Lasers :
                /\ points' = CalcPoints(NoPoints, Head(blocks), hits)
                /\ index' = CalcIndex(EmittedIndex, hits)
          BY <4>1 DEF EmitFrame
        <5>2. decoder' \in {"running", "exited"}
          BY <4>1 DEF EmitFrame, TypeOK
        <5> QED BY <1>0, <2>0, <4>0, <4>1, <5>1, <5>2, BlockDecoded DEF EmitFrame
      <4>2. CASE EmitLastFrame
        BY <1>0, <4>0, <4>2 DEF EmitLastFrame, TypeOK
      <4> QED BY <2>3, <4>1, <4>2
    <3> QED BY <3>1, <3>2, <3>3 DEF TypeOK, Block
  <2>4. CASE Restart
    <3>1. << >> \in Seq(1 .. 0) /\ Len(<< >>) = 0 /\ restarts' \in 0 .. MaxRestarts
      BY <1>0, <2>0, <2>4 DEF Restart
    <3> QED BY <1>0, <2>4, <3>1 DEF Restart, TypeOK, settings, sensorVars
  <2>5. CASE TransformFails
    BY <2>5 DEF TransformFails, TypeOK, settings, sensorVars, frameVars
  <2>6. CASE UNCHANGED vars
    BY <2>6 DEF vars, settings, sensorVars, frameVars, TypeOK
  <2> QED BY <2>1, <2>2, <2>3, <2>4, <2>5, <2>6 DEF Next
<1> QED BY <1>1, <1>2, PTL DEF Spec
============================================================================
