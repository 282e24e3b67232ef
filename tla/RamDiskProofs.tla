---------------------------- MODULE RamDiskProofs ----------------------------
(***************************************************************************)
(* The RAM disks for every geometry, size of memory and file.              *)
(***************************************************************************)
EXTENDS RamDisk, WellFoundedInduction, TLAPS

(***************************************************************************)
(* Arithmetic.                                                             *)
(***************************************************************************)

LEMMA Geometry ==
  /\ DiskMax \in Nat \ {0} /\ Tracks \in Nat \ {0} /\ Sectors \in Nat \ {0}
  /\ SectorSize \in Nat \ {0} /\ BlockSectors \in Nat \ {0} /\ Size \in Nat
  /\ DiskMax < 256 /\ Tracks < 65536 /\ Sectors < 65536
  /\ MemSize \in Nat /\ SectorSize <= MemSize
<1>1. Tracks * Sectors \in Nat
  BY GeometryAssumption
<1>2. Tracks * Sectors * SectorSize \in Nat
  BY <1>1, GeometryAssumption
<1> QED BY <1>2, GeometryAssumption, MemoryAssumption DEF Size

\* Two digits in a number system of base z are those of their number.
LEMMA TwoDigits ==
  ASSUME NEW z \in Nat \ {0}, NEW a \in Int, NEW b \in Int,
         NEW i \in 0 .. z - 1, NEW j \in Int, a * z + i = b * z + j
  PROVE  j \in 0 .. z - 1 <=> a = b
<1>1. CASE a = b
  BY <1>1
<1>2. CASE a < b
  <2>1. (b - a) * z >= z
    BY <1>2
  <2>2. b * z - a * z = (b - a) * z
    OBVIOUS
  <2> QED BY <1>2, <2>1, <2>2
<1>3. CASE b < a
  <2>1. (a - b) * z >= z
    BY <1>3
  <2>2. a * z - b * z = (a - b) * z
    OBVIOUS
  <2> QED BY <1>3, <2>1, <2>2
<1> QED BY <1>1, <1>2, <1>3

\* A number of two digits is below the product of the bases.
LEMMA Below ==
  ASSUME NEW m \in Nat, NEW z \in Nat \ {0}, NEW a \in 0 .. m - 1, NEW i \in 0 .. z - 1
  PROVE  a * z + i \in 0 .. m * z - 1
<1>1. (m - 1 - a) * z >= 0 /\ a * z >= 0
  OBVIOUS
<1>2. (m - 1 - a) * z = m * z - z - a * z
  OBVIOUS
<1>3. a * z \in Int /\ m * z \in Int
  OBVIOUS
<1> QED BY <1>1, <1>2, <1>3

\* Reduction modulo m of what is less than two moduli.
LEMMA Reduced ==
  ASSUME NEW m \in Nat \ {0}, NEW a \in Int, 0 <= a, a < 2 * m
  PROVE  a % m = IF a < m THEN a ELSE a - m
<1>1. CASE a < m
  BY <1>1, SMTT(20)
<1>2. CASE m <= a
  BY <1>2, SMTT(20)
<1> QED BY <1>1, <1>2

LEMMA Quotient ==
  ASSUME NEW a \in Nat, NEW b \in Nat \ {0}
  PROVE  a \div b \in Nat /\ (a \div b) * b <= a
<1>1. a \div b \in Nat
  OBVIOUS
<1>2. (a \div b) * b <= a
  BY SMTT(30)
<1> QED BY <1>1, <1>2

\* The blocks that the parameter block describes end on the track behind the
\* last one at most: the low word of a track's number is the number.
LEMMA BdosTracksAreWords ==
  ASSUME NEW v \in BdosTracks
  PROVE  v \in Nat /\ v <= Tracks /\ LowWord(v) = v
<1> DEFINE n == Tracks * Sectors
           blocks == n \div BlockSectors
<1>0. n \in Nat
  BY Geometry
<1>1. blocks \in Nat /\ blocks * BlockSectors <= n
  <2> HIDE DEF n
  <2> QED BY <1>0, Quotient, Geometry
<1>2. PICK s \in 0 .. (LastBlock + 1) * BlockSectors - 1 : v = TrackOffset + s \div Sectors
  BY DEF BdosTracks
<1>3. (LastBlock + 1) * BlockSectors = blocks * BlockSectors
  <2>1. LastBlock + 1 = blocks
    BY <1>1 DEF LastBlock
  <2> QED BY <2>1
<1> HIDE DEF n, blocks
<1>4. s \in Nat /\ s < n
  <2>1. blocks * BlockSectors \in Nat
    BY <1>1, Geometry
  <2> QED BY <1>0, <1>1, <1>2, <1>3, <2>1
<1>5. s \div Sectors \in Nat /\ s \div Sectors < Tracks
  <2> DEFINE q == s \div Sectors
  <2>1. q \in Nat /\ q * Sectors <= s
    BY <1>4, Geometry, Quotient
  <2> HIDE DEF q
  <2>2. q * Sectors < Tracks * Sectors
    BY <1>4, <2>1, Geometry DEF n
  <2>3. q < Tracks
    <3>1. CASE q >= Tracks
      <4>1. (q - Tracks) * Sectors >= 0
        BY <2>1, <3>1, Geometry
      <4>2. (q - Tracks) * Sectors = q * Sectors - Tracks * Sectors
        BY <2>1, Geometry
      <4> QED BY <2>1, <2>2, <4>1, <4>2, Geometry
    <3> QED BY <2>1, <3>1, Geometry
  <2> QED BY <2>1, <2>3 DEF q
<1>6. v \in Nat /\ v <= Tracks
  BY <1>2, <1>5, Geometry DEF TrackOffset
<1>7. LowWord(v) = v
  BY <1>6, Geometry DEF LowWord
<1> QED BY <1>6, <1>7

(***************************************************************************)
(* Types.                                                                  *)
(***************************************************************************)

LEMMA LoadedIsData ==
  ASSUME NEW content \in Seq(Int)
  PROVE  Loaded(content) \in [DiskNos -> [0 .. Size - 1 -> Int]]
<1>1. ASSUME NEW d \in DiskNos, NEW n \in 0 .. Size - 1
      PROVE  (IF d = 0 /\ n < Len(content) THEN content[n + 1] ELSE Filler) \in Int
  <2>1. n \in Int /\ 0 <= n
    BY Geometry
  <2>2. n < Len(content) => n + 1 \in 1 .. Len(content)
    BY <2>1
  <2> QED BY <2>2, FillerAssumption
<1> QED BY <1>1 DEF Loaded

LEMMA DmaByteInMemory ==
  ASSUME TypeOK, NEW i \in InSector
  PROVE  DmaByte(i) \in 0 .. MemSize - 1
<1>1. dma \in 0 .. MemSize - 1 /\ i \in 0 .. MemSize - 1
  BY Geometry, MemoryAssumption DEF TypeOK, InSector
<1>2. dma + i \in Int /\ 0 <= dma + i /\ dma + i < 2 * MemSize /\ MemSize \in Nat \ {0}
  BY <1>1, Geometry
<1>3. (dma + i) % MemSize = IF dma + i < MemSize THEN dma + i ELSE dma + i - MemSize
  <2> DEFINE a == dma + i
  <2> HIDE DEF a
  <2>1. a \in Int /\ 0 <= a /\ a < 2 * MemSize
    BY <1>2 DEF a
  <2>2. a % MemSize = IF a < MemSize THEN a ELSE a - MemSize
    BY <1>2, <2>1, Reduced
  <2> QED BY <1>1, <1>2, <2>2, Geometry DEF a
<1> QED BY <1>1, <1>3, Geometry DEF DmaByte

\* The file is a sequence of bytes: what TypeOK needs of it.
Types == TypeOK /\ file \in Seq(Int)

LEMMA ItemOf ==
  ASSUME NEW S, NEW q \in Seq(S), NEW i \in 1 .. Len(q)
  PROVE  q[i] \in S
OBVIOUS

LEMMA SaveIsTyped ==
  ASSUME Types, NEW w \in Written, NEW withName \in BOOLEAN, Save(w, withName)
  PROVE  file' \in Seq(Int) /\ Len(file') = Len(w)
<1>0. w \in Seq(1 .. Size)
  BY SaveAssumption DEF Size
<1>1. file' = [i \in 1 .. Len(w) |-> data[0][w[i] - 1]]
  BY DEF Save
<1>2. ASSUME NEW i \in 1 .. Len(w) PROVE data[0][w[i] - 1] \in Int
  <2>1. 0 \in DiskNos
    BY Geometry DEF DiskNos
  <2>2. w[i] \in 1 .. Size
    BY <1>0, ItemOf
  <2>3. w[i] - 1 \in 0 .. Size - 1
    BY <2>2, Geometry
  <2> QED BY <2>1, <2>3 DEF Types, TypeOK
<1>3. Len(w) \in Nat
  BY <1>0
<1> QED BY <1>1, <1>2, <1>3

LEMMA InitTypes == Init => Types
<1> SUFFICES ASSUME Init PROVE Types
  OBVIOUS
<1>1. <<>> \in Seq(Int)
  OBVIOUS
<1>2. data \in [DiskNos -> [0 .. Size - 1 -> Int]]
  BY <1>1, LoadedIsData DEF Init
<1>3. 0 \in DiskNos /\ 0 \in TrackNos /\ 0 \in SectorNos
  BY Geometry DEF DiskNos, TrackNos, SectorNos
<1>4. mem \in [0 .. MemSize - 1 -> Int]
  BY Geometry DEF Init
<1>5. /\ dma \in Address \cup {0} /\ named \in BOOLEAN /\ brk \in BOOLEAN
      /\ refused \subseteq {"track", "sector"}
  BY DEF Init
<1>6. transfers \in 0 .. MaxTransfers /\ session \in 1 .. MaxSessions
  BY BoundAssumption DEF Init
<1>7. diskNo \in DiskNos /\ trackNo \in TrackNos /\ sectorNo \in SectorNos /\ file \in Seq(Int)
  BY <1>1, <1>3 DEF Init
<1> QED BY <1>2, <1>4, <1>5, <1>6, <1>7 DEF Types, TypeOK

\* What a read leaves in memory is what the memory or the disk held.
LEMMA ReadTypes ==
  ASSUME Types, Read PROVE Types'
<1>1. ASSUME NEW i \in InSector PROVE data[diskNo][Offset + i] \in Int
  <2>1. diskNo \in DiskNos /\ trackNo \in 0 .. Tracks - 1 /\ sectorNo \in 0 .. Sectors - 1
    BY DEF Types, TypeOK, TrackNos, SectorNos
  <2>2. trackNo * Sectors + sectorNo \in 0 .. Tracks * Sectors - 1
    BY <2>1, Below, Geometry
  <2>3. Tracks * Sectors \in Nat
    BY Geometry
  <2>4. Offset + i \in 0 .. Size - 1
    BY <2>2, <2>3, Below, Geometry DEF Offset, Size, InSector
  <2> QED BY <2>1, <2>4 DEF Types, TypeOK
<1>2. mem' \in [0 .. MemSize - 1 -> Int]
  BY <1>1 DEF Read, Types, TypeOK
<1>3. transfers' \in 0 .. MaxTransfers
  BY BoundAssumption DEF Read, Transfer, Types, TypeOK
<1> QED BY <1>2, <1>3 DEF Read, Transfer, hostVars, Types, TypeOK

LEMMA WriteTypes ==
  ASSUME Types, Write PROVE Types'
<1>1. ASSUME NEW n \in 0 .. Size - 1, n - Offset \in InSector
      PROVE  mem[DmaByte(n - Offset)] \in Int
  BY <1>1, DmaByteInMemory DEF Types, TypeOK
<1>2. data' \in [DiskNos -> [0 .. Size - 1 -> Int]]
  BY <1>1 DEF Write, Types, TypeOK
<1>3. transfers' \in 0 .. MaxTransfers
  BY BoundAssumption DEF Write, Transfer, Types, TypeOK
<1> QED BY <1>2, <1>3 DEF Write, Transfer, hostVars, Types, TypeOK

\* The places that the services accept.
LEMMA SetPlaces ==
  ASSUME Types
  PROVE  /\ \A v \in DriveArg : Select(v) => diskNo' \in DiskNos
         /\ \A v \in BdosTracks : TrackSet(v) => trackNo' \in TrackNos
         /\ \A v \in SectorNos : SectorSet(v) => sectorNo' \in SectorNos
<1>1. ASSUME NEW v \in BdosTracks, TrackSet(v) PROVE trackNo' \in TrackNos
  <2>1. v \in Nat /\ LowWord(v) = v
    BY BdosTracksAreWords
  <2> QED BY <1>1, <2>1, Geometry DEF TrackSet, TrackNos, Types, TypeOK
<1>2. ASSUME NEW v \in SectorNos, SectorSet(v) PROVE sectorNo' \in SectorNos
  <2>1. v \in Nat /\ v < Sectors
    BY Geometry DEF SectorNos
  <2>2. LowWord(v) = v
    BY <2>1, Geometry DEF LowWord
  <2> QED BY <1>2, <2>1, <2>2, Geometry DEF SectorSet, SectorNos, Types, TypeOK
<1>3. ASSUME NEW v \in DriveArg, Select(v) PROVE diskNo' \in DiskNos
  <2>1. v \in Int
    BY DriveArgAssumption
  <2>2. v % 256 \in Int /\ 0 <= v % 256
    BY <2>1
  <2> QED BY <1>3, <2>2, Geometry DEF Select, DiskNos, Types, TypeOK
<1> QED BY <1>1, <1>2, <1>3

LEMMA NextTypes == Types /\ [Next]_vars => Types'
<1> SUFFICES ASSUME Types, [Next]_vars PROVE Types'
  OBVIOUS
<1>1. ASSUME NEW v \in DriveArg, Select(v) PROVE Types'
  BY <1>1, SetPlaces DEF Select, guestVars, hostVars, Types, TypeOK
<1>2. ASSUME NEW v \in BdosTracks, TrackSet(v) PROVE Types'
  <2>1. trackNo' \in TrackNos
    BY <1>2, SetPlaces
  <2>2. brk' \in BOOLEAN
    <3>1. brk' = TRUE \/ brk' = brk
      BY <1>2, Zenon DEF TrackSet
    <3> QED BY <3>1 DEF Types, TypeOK
  <2>3. refused' \subseteq {"track", "sector"}
    BY <1>2 DEF TrackSet, Types, TypeOK
  <2>4. UNCHANGED <<data, diskNo, sectorNo, dma, named, mem, transfers, file, saved, lost, session>>
    BY <1>2 DEF TrackSet, hostVars
  <2> QED BY <2>1, <2>2, <2>3, <2>4 DEF Types, TypeOK
<1>3. ASSUME NEW v \in SectorNos, SectorSet(v) PROVE Types'
  <2>1. sectorNo' \in SectorNos
    BY <1>3, SetPlaces
  <2>2. brk' \in BOOLEAN
    <3>1. brk' = TRUE \/ brk' = brk
      BY <1>3, Zenon DEF SectorSet
    <3> QED BY <3>1 DEF Types, TypeOK
  <2>3. refused' \subseteq {"track", "sector"}
    BY <1>3 DEF SectorSet, Types, TypeOK
  <2>4. UNCHANGED <<data, diskNo, trackNo, dma, named, mem, transfers, file, saved, lost, session>>
    BY <1>3 DEF SectorSet, hostVars
  <2> QED BY <2>1, <2>2, <2>3, <2>4 DEF Types, TypeOK
<1>4. ASSUME NEW v \in Address, DmaSet(v) PROVE Types'
  BY <1>4 DEF DmaSet, guestVars, hostVars, Types, TypeOK
<1>5. CASE Read
  BY <1>5, ReadTypes
<1>6. CASE Write
  BY <1>6, WriteTypes
<1>7. CASE Interrupt \/ Continue
  BY <1>7 DEF Interrupt, Continue, diskVars, guestVars, hostVars, Types, TypeOK
<1>8. CASE Restart
  <2>1. data' \in [DiskNos -> [0 .. Size - 1 -> Int]]
    BY <1>8, LoadedIsData DEF Restart, Started, Types
  <2>2. 0 \in DiskNos /\ 0 \in TrackNos /\ 0 \in SectorNos
    BY Geometry DEF DiskNos, TrackNos, SectorNos
  <2>3. mem' \in [0 .. MemSize - 1 -> Int]
    BY <1>8, Geometry DEF Restart
  <2>4. session' \in 1 .. MaxSessions
    BY <1>8, BoundAssumption DEF Restart, Types, TypeOK
  <2> QED BY <1>8, <2>1, <2>2, <2>3, <2>4 DEF Restart, Started, Types, TypeOK
<1>9. ASSUME NEW w \in Written, NEW withName \in BOOLEAN, Save(w, withName) PROVE Types'
  <2>1. file' \in Seq(Int)
    BY <1>9, SaveIsTyped
  <2> QED BY <1>9, <2>1 DEF Save, guestVars, Types, TypeOK
<1>10. CASE UNCHANGED vars
  BY <1>10 DEF vars, diskVars, guestVars, hostVars, Types, TypeOK
<1> QED BY <1>1, <1>2, <1>3, <1>4, <1>5, <1>6, <1>7, <1>8, <1>9, <1>10 DEF Next, Guest

LEMMA SpecTypes == Spec => []Types
  BY InitTypes, NextTypes, PTL DEF Spec

\* Every place that the services leave behind is on a disk, for every geometry.
THEOREM TypeOKAlways == Spec => []TypeOK
  BY SpecTypes, PTL DEF Types

(***************************************************************************)
(* What was asked for, and what the host's file holds.                     *)
(***************************************************************************)

AstrayInv ==
  /\ AstrayIsReported
  /\ DOMAIN asked = {"track", "sector"}

LEMMA NextAstray == AstrayInv /\ [Next]_vars => AstrayInv'
<1> SUFFICES ASSUME AstrayInv, [Next]_vars PROVE AstrayInv'
  OBVIOUS
<1> USE DEF AstrayInv, AstrayIsReported
<1>1. ASSUME NEW v \in BdosTracks, TrackSet(v) PROVE AstrayInv'
  <2>1. /\ asked' = [asked EXCEPT !.track = v]
        /\ sectorNo' = sectorNo
        /\ \/ refused' = refused \cup {"track"}
           \/ trackNo' = LowWord(v) /\ refused' = refused \ {"track"}
    BY <1>1 DEF TrackSet
  <2>2. asked'.track = v /\ asked'.sector = asked.sector /\ DOMAIN asked' = DOMAIN asked
    BY <2>1
  <2>3. LowWord(v) = v
    BY BdosTracksAreWords
  <2> QED BY <2>1, <2>2, <2>3
<1>2. ASSUME NEW v \in SectorNos, SectorSet(v) PROVE AstrayInv'
  <2>1. /\ asked' = [asked EXCEPT !.sector = v]
        /\ trackNo' = trackNo
        /\ \/ refused' = refused \cup {"sector"}
           \/ sectorNo' = LowWord(v) /\ refused' = refused \ {"sector"}
    BY <1>2 DEF SectorSet
  <2>2. asked'.sector = v /\ asked'.track = asked.track /\ DOMAIN asked' = DOMAIN asked
    BY <2>1
  <2>3. LowWord(v) = v
    BY Geometry DEF SectorNos, LowWord
  <2> QED BY <2>1, <2>2, <2>3
<1>3. ASSUME NEW v, Select(v) \/ DmaSet(v) PROVE AstrayInv'
  BY <1>3 DEF Select, DmaSet, guestVars
<1>4. CASE Read \/ Write
  BY <1>4 DEF Read, Write, Transfer
<1>5. CASE Interrupt \/ Continue
  BY <1>5 DEF Interrupt, Continue, diskVars, guestVars
<1>6. CASE Restart
  BY <1>6 DEF Restart, Started
<1>7. ASSUME NEW w, NEW withName, Save(w, withName) PROVE AstrayInv'
  BY <1>7 DEF Save, guestVars
<1>8. CASE UNCHANGED vars
  BY <1>8 DEF vars, diskVars, guestVars
<1> QED BY <1>1, <1>2, <1>3, <1>4, <1>5, <1>6, <1>7, <1>8 DEF Next, Guest

\* No transfer goes astray in silence, on disks of every geometry whose
\* tracks and sectors have numbers of 16 bits.
THEOREM AstrayIsReportedAlways == Spec => []AstrayIsReported
<1>1. Init => AstrayInv
  BY DEF Init, AstrayInv, AstrayIsReported
<1>2. AstrayInv => AstrayIsReported
  BY DEF AstrayInv
<1> QED BY <1>1, <1>2, NextAstray, PTL DEF Spec

\* A set of numbers that is not empty has a least one.
LEMMA Least ==
  ASSUME NEW T \in SUBSET Nat, T # {}
  PROVE  \E n \in T : \A m \in T : n <= m
<1> DEFINE R == OpToRel(<, Nat)
<1>1. IsWellFoundedOn(R, Nat)
  BY NatLessThanWellFounded
<1>2. \A x, y \in Nat : y < x => <<y, x>> \in R
  BY DEF OpToRel
<1> HIDE DEF R
<1>3. PICK n \in T : \A m \in T : ~(<<m, n>> \in R)
  BY <1>1, WFMin
<1>4. ASSUME NEW m \in T PROVE n <= m
  <2>1. m \in Nat /\ n \in Nat /\ ~(m < n)
    BY <1>2, <1>3
  <2> QED BY <2>1
<1> QED BY <1>4

\* The bytes of a save that go before all that were lost are where they were.
LEMMA InPlace ==
  ASSUME NEW size \in Nat, NEW w \in Seq(1 .. size),
         \A i, j \in DOMAIN w : i < j => w[i] < w[j],
         NEW n \in 1 .. size, \A m \in 1 .. n : m \in {w[i] : i \in DOMAIN w}
  PROVE  n \in DOMAIN w /\ w[n] = n
<1> DEFINE T == {m \in 1 .. n : ~(m \in DOMAIN w /\ w[m] = m)}
<1>0. DOMAIN w = 1 .. Len(w) /\ Len(w) \in Nat /\ \A i \in DOMAIN w : w[i] \in 1 .. size
  OBVIOUS
<1>1. SUFFICES ASSUME T # {} PROVE FALSE
  OBVIOUS
<1>2. PICK k \in T : \A m \in T : k <= m
  <2>1. T \in SUBSET Nat
    OBVIOUS
  <2> HIDE DEF T
  <2> QED BY <1>1, <2>1, Least
<1>3. k \in 1 .. n /\ ~(k \in DOMAIN w /\ w[k] = k)
  OBVIOUS
<1>4. \A m \in 1 .. k - 1 : m \in DOMAIN w /\ w[m] = m
  <2>1. ASSUME NEW m \in 1 .. k - 1, ~(m \in DOMAIN w /\ w[m] = m) PROVE FALSE
    <3>1. m \in T /\ m < k
      BY <1>3, <2>1
    <3> QED BY <1>2, <1>3, <3>1
  <2> QED BY <2>1
<1> HIDE DEF T
<1>5. PICK i \in DOMAIN w : w[i] = k
  BY <1>3
<1>6. k < i
  <2>1. i \in Nat /\ i >= 1 /\ k \in Nat /\ k >= 1
    BY <1>0, <1>3
  <2>2. i < k => w[i] = i
    BY <1>4, <2>1
  <2>3. i # k
    BY <1>3, <1>5
  <2> QED BY <1>5, <2>1, <2>2, <2>3
<1>7. k \in DOMAIN w
  BY <1>0, <1>3, <1>6
<1>8. w[k] < k /\ w[k] \in 1 .. size
  BY <1>0, <1>5, <1>6, <1>7
<1>9. w[k] \in 1 .. k - 1
  BY <1>3, <1>8
<1>10. w[k] \in DOMAIN w /\ w[w[k]] = w[k] /\ w[k] < k
  BY <1>4, <1>8, <1>9
<1>11. w[w[k]] < w[k]
  BY <1>7, <1>10
<1> QED BY <1>8, <1>10, <1>11

\* Nothing of byte n of the last save, or of one before it, was lost.
Unharmed(n) == \A m \in lost : n + 1 < m

\* The file, loaded, is the disk that was saved as far as nothing was lost.
FileHolds ==
  \A n \in 0 .. Size - 1 : Unharmed(n) => Loaded(file)[0][n] = saved[n]

LEMMA LoadedByte ==
  ASSUME NEW content, NEW n \in 0 .. Size - 1
  PROVE  Loaded(content)[0][n] = IF n < Len(content) THEN content[n + 1] ELSE Filler
<1>1. 0 \in DiskNos
  BY Geometry DEF DiskNos
<1> QED BY <1>1 DEF Loaded

LEMMA SaveHolds ==
  ASSUME Types, NEW w \in Written, NEW withName \in BOOLEAN, Save(w, withName)
  PROVE  FileHolds'
<1> SUFFICES ASSUME NEW n \in 0 .. Size - 1, Unharmed(n)'
             PROVE  Loaded(file')[0][n] = saved'[n]
  BY DEF FileHolds, Size, Loaded, DiskNos
<1>1. /\ w \in Seq(1 .. Size)
      /\ \A i, j \in DOMAIN w : i < j => w[i] < w[j]
  BY SaveAssumption DEF Size
<1>2. /\ file' = [i \in 1 .. Len(w) |-> data[0][w[i] - 1]]
      /\ saved' = data[0]
      /\ lost' = (1 .. Size) \ {w[i] : i \in DOMAIN w}
  BY DEF Save
<1>3. n \in Nat /\ n + 1 \in 1 .. Size /\ Size \in Nat
  BY Geometry
<1>4. \A m \in 1 .. n + 1 : m \in {w[i] : i \in DOMAIN w}
  <2>1. ASSUME NEW m \in 1 .. n + 1, m \notin {w[i] : i \in DOMAIN w} PROVE FALSE
    <3>1. m \in 1 .. Size /\ ~(n + 1 < m)
      BY <1>3
    <3>2. m \in lost'
      BY <1>2, <2>1, <3>1
    <3> QED BY <3>1, <3>2 DEF Unharmed
  <2> QED BY <2>1
<1>5. n + 1 \in DOMAIN w /\ w[n + 1] = n + 1
  <2> DEFINE k == n + 1
  <2>1. k \in 1 .. Size /\ \A m \in 1 .. k : m \in {w[i] : i \in DOMAIN w}
    BY <1>3, <1>4
  <2> HIDE DEF k
  <2>2. k \in DOMAIN w /\ w[k] = k
    BY <1>1, <1>3, <2>1, InPlace
  <2> QED BY <2>2 DEF k
<1>6. n + 1 \in 1 .. Len(w) /\ n < Len(w)
  BY <1>1, <1>3, <1>5
<1>7. file'[n + 1] = data[0][n]
  BY <1>2, <1>3, <1>5, <1>6
<1>8. Len(file') = Len(w)
  BY SaveIsTyped
<1> QED BY <1>2, <1>6, <1>7, <1>8, LoadedByte

LEMMA InitHolds == Init => FileHolds
<1> SUFFICES ASSUME Init, NEW n \in 0 .. Size - 1
             PROVE  Loaded(file)[0][n] = saved[n]
  BY DEF FileHolds
<1>1. saved = Loaded(<<>>)[0] /\ file = <<>>
  BY DEF Init
<1> QED BY <1>1

LEMMA NextHolds == Types /\ FileHolds /\ [Next]_vars => FileHolds'
<1> SUFFICES ASSUME Types, FileHolds, [Next]_vars PROVE FileHolds'
  OBVIOUS
<1>1. ASSUME NEW w \in Written, NEW withName \in BOOLEAN, Save(w, withName)
      PROVE  FileHolds'
  BY <1>1, SaveHolds
<1>2. CASE UNCHANGED <<file, saved, lost>>
  BY <1>2 DEF FileHolds, Unharmed, Loaded
<1>3. ASSUME Guest \/ Interrupt \/ Continue \/ Restart \/ UNCHANGED vars
      PROVE  UNCHANGED <<file, saved, lost>>
  BY <1>3 DEF Guest, Select, TrackSet, SectorSet, DmaSet, Read, Write, Transfer,
              Interrupt, Continue, Restart, vars, hostVars
<1> QED BY <1>1, <1>2, <1>3 DEF Next

\* After any number of saves and of starts, what a start brings back is disk A
\* as it was saved last, up to the first byte that was lost, for every geometry
\* and whatever parts of a save the host's disk does not take.
THEOREM SaveComesBackAlways == Spec => SaveComesBack
<1>1. ASSUME FileHolds, Restart, NEW n \in 0 .. Size - 1, \A m \in lost : n + 1 < m
      PROVE  data'[0][n] = saved[n]
  BY <1>1 DEF FileHolds, Unharmed, Restart, Started
<1>2. FileHolds => (Restart => \A n \in 0 .. Size - 1 :
                      (\A m \in lost : n + 1 < m) => data'[0][n] = saved[n])
  BY <1>1
<1>3. FileHolds /\ [Next]_vars =>
        [Restart => \A n \in 0 .. Size - 1 :
           (\A m \in lost : n + 1 < m) => data'[0][n] = saved[n]]_vars
  BY <1>2
<1> QED BY <1>3, InitHolds, SpecTypes, NextHolds, PTL DEF Spec, SaveComesBack

(***************************************************************************)
(* The flat arrays implement disks of sectors.                             *)
(***************************************************************************)

\* Byte i of sector s of track t.
Flat(t, s, i) == (t * Sectors + s) * SectorSize + i

LEMMA FlatInDisk ==
  ASSUME NEW t \in TrackNos, NEW s \in SectorNos, NEW i \in InSector
  PROVE  Flat(t, s, i) \in 0 .. Size - 1
<1>1. t * Sectors + s \in 0 .. Tracks * Sectors - 1
  BY Below, Geometry DEF TrackNos, SectorNos
<1>2. Tracks * Sectors \in Nat
  BY Geometry
<1> QED BY <1>1, <1>2, Below, Geometry DEF Flat, Size, InSector

\* A byte of the disk is within a sector's bytes exactly if it is one of them.
LEMMA FlatIsInjective ==
  ASSUME NEW t \in TrackNos, NEW s \in SectorNos, NEW i \in InSector,
         NEW u \in TrackNos, NEW r \in SectorNos
  PROVE  /\ Flat(t, s, i) - Flat(u, r, 0) \in InSector <=> t = u /\ s = r
         /\ t = u /\ s = r => Flat(t, s, i) - Flat(u, r, 0) = i
<1> DEFINE a == t * Sectors + s
           b == u * Sectors + r
           j == Flat(t, s, i) - Flat(u, r, 0)
<1>1. a \in Int /\ b \in Int /\ i \in 0 .. SectorSize - 1
  BY Geometry DEF TrackNos, SectorNos, InSector
<1>2. a = b <=> t = u /\ s = r
  <2>1. t \in Int /\ u \in Int /\ s \in 0 .. Sectors - 1 /\ r \in 0 .. Sectors - 1
    BY Geometry DEF TrackNos, SectorNos
  <2>2. a = b => t = u
    BY <2>1, TwoDigits, Geometry
  <2> QED BY <2>1, <2>2, Geometry
<1>3. j = a * SectorSize + i - b * SectorSize
  BY Geometry DEF Flat, TrackNos, SectorNos, InSector
<1> HIDE DEF a, b, j
<1>4. a * SectorSize \in Int /\ b * SectorSize \in Int
  BY <1>1, Geometry
<1>5. j \in Int /\ a * SectorSize + i = b * SectorSize + j
  BY <1>1, <1>3, <1>4
<1>6. j \in 0 .. SectorSize - 1 <=> a = b
  BY <1>1, <1>5, TwoDigits, Geometry
<1>7. a = b => j = i
  BY <1>1, <1>4, <1>5
<1> QED BY <1>2, <1>6, <1>7 DEF InSector, j

LEMMA OffsetIsFlat ==
  ASSUME TypeOK
  PROVE  Offset \in Int /\ Offset = Flat(trackNo, sectorNo, 0)
  BY Geometry DEF TypeOK, Offset, Flat, TrackNos, SectorNos

\* A write changes the sector at the place that was set, and it alone.
LEMMA WriteSector ==
  ASSUME TypeOK, Write,
         NEW d \in DiskNos, NEW t \in TrackNos, NEW s \in SectorNos, NEW i \in InSector
  PROVE  Store'[d][t][s][i] =
           IF d = diskNo /\ t = trackNo /\ s = sectorNo THEN mem[DmaByte(i)]
           ELSE Store[d][t][s][i]
<1> DEFINE n == Flat(t, s, i)
<1>1. n \in 0 .. Size - 1
  BY FlatInDisk
<1>2. trackNo \in TrackNos /\ sectorNo \in SectorNos /\ diskNo \in DiskNos
  BY DEF TypeOK
<1>3. /\ n - Offset \in InSector <=> t = trackNo /\ s = sectorNo
      /\ t = trackNo /\ s = sectorNo => n - Offset = i
  BY <1>2, FlatIsInjective, OffsetIsFlat
<1>4. Store[d][t][s][i] = data[d][n] /\ Store'[d][t][s][i] = data'[d][n]
  BY DEF Store, Flat
<1> HIDE DEF n
<1>5. data'[d][n] = IF d = diskNo /\ n - Offset \in InSector THEN mem[DmaByte(n - Offset)]
                    ELSE data[d][n]
  BY <1>1, <1>2 DEF Write, TypeOK
<1> QED BY <1>3, <1>4, <1>5

LEMMA WriteRefines ==
  ASSUME TypeOK, Write PROVE Ideal!Write
<1> DEFINE new == [i \in InSector |-> mem[DmaByte(i)]]
           S == [Store EXCEPT ![diskNo][trackNo][sectorNo] = new]
<1>1. trackNo \in TrackNos /\ sectorNo \in SectorNos /\ diskNo \in DiskNos
  BY DEF TypeOK
<1>2. \A d \in DiskNos, t \in TrackNos, s \in SectorNos :
        S[d][t][s] = IF d = diskNo /\ t = trackNo /\ s = sectorNo THEN new ELSE Store[d][t][s]
  BY <1>1 DEF Store
<1>3. \A d \in DiskNos, t \in TrackNos, s \in SectorNos : Store'[d][t][s] = S[d][t][s]
  <2> TAKE d \in DiskNos, t \in TrackNos, s \in SectorNos
  <2>1. ASSUME NEW i \in InSector
        PROVE  Store'[d][t][s][i] = S[d][t][s][i]
    <3>1. Store'[d][t][s][i] =
            IF d = diskNo /\ t = trackNo /\ s = sectorNo THEN mem[DmaByte(i)]
            ELSE Store[d][t][s][i]
      BY WriteSector
    <3>2. S[d][t][s] = IF d = diskNo /\ t = trackNo /\ s = sectorNo THEN new ELSE Store[d][t][s]
      BY <1>2
    <3> HIDE DEF S
    <3> QED BY <3>1, <3>2
  <2>2. /\ Store'[d][t][s] = [i \in InSector |-> Store'[d][t][s][i]]
        /\ Store[d][t][s] = [i \in InSector |-> Store[d][t][s][i]]
    BY DEF Store
  <2>3. S[d][t][s] = [i \in InSector |-> S[d][t][s][i]]
    BY <1>2, <2>2
  <2> QED BY <2>1, <2>2, <2>3
<1>4. /\ Store' = [d \in DiskNos |-> [t \in TrackNos |-> [s \in SectorNos |-> Store'[d][t][s]]]]
      /\ S = [d \in DiskNos |-> [t \in TrackNos |-> [s \in SectorNos |-> S[d][t][s]]]]
  <2>1. Store' = [d \in DiskNos |-> [t \in TrackNos |-> [s \in SectorNos |-> Store'[d][t][s]]]]
    BY DEF Store
  <2>2. S = [d \in DiskNos |-> [t \in TrackNos |-> [s \in SectorNos |-> S[d][t][s]]]]
    BY <1>1 DEF Store
  <2> QED BY <2>1, <2>2
<1> HIDE DEF S
<1>5. Store' = S
  BY <1>3, <1>4
<1>6. UNCHANGED <<diskNo, trackNo, sectorNo, dma, mem, session>>
  BY DEF Write, Transfer, hostVars
<1> QED BY <1>5, <1>6 DEF Ideal!Write, S, Ideal!InSector, InSector, Ideal!DmaByte, DmaByte

\* A read brings each byte of the sector to its address and no other there.
LEMMA ReadRefines ==
  ASSUME TypeOK, Read PROVE Ideal!Read
<1> DEFINE Back(a) == (a + MemSize - dma) % MemSize
<1>0. /\ dma \in Int /\ 0 <= dma /\ dma < MemSize
      /\ MemSize \in Nat \ {0} /\ SectorSize <= MemSize /\ SectorSize \in Nat
  BY Geometry, MemoryAssumption DEF TypeOK
<1>1. ASSUME NEW a \in 0 .. MemSize - 1
      PROVE  Back(a) = IF a < dma THEN a + MemSize - dma ELSE a - dma
  <2> DEFINE b == a + MemSize - dma
  <2>1. b \in Int /\ 0 <= b /\ b < 2 * MemSize
    BY <1>0
  <2> HIDE DEF b
  <2>2. b % MemSize = IF b < MemSize THEN b ELSE b - MemSize
    BY <1>0, <2>1, Reduced
  <2> QED BY <1>0, <2>2 DEF b
<1>2. ASSUME NEW i \in InSector
      PROVE  DmaByte(i) = IF dma + i < MemSize THEN dma + i ELSE dma + i - MemSize
  <2> DEFINE b == dma + i
  <2>0. i \in Int /\ 0 <= i /\ i < SectorSize
    BY <1>0 DEF InSector
  <2>1. b \in Int /\ 0 <= b /\ b < 2 * MemSize
    BY <1>0, <2>0
  <2> HIDE DEF b
  <2>2. b % MemSize = IF b < MemSize THEN b ELSE b - MemSize
    BY <1>0, <2>1, Reduced
  <2> QED BY <1>0, <2>0, <2>2 DEF b, DmaByte
<1>3. /\ \A i \in InSector : DmaByte(i) \in 0 .. MemSize - 1 /\ Back(DmaByte(i)) = i
      /\ \A a \in 0 .. MemSize - 1 : Back(a) \in InSector => a = DmaByte(Back(a))
  <2> HIDE DEF Back
  <2>1. ASSUME NEW i \in InSector
        PROVE  DmaByte(i) \in 0 .. MemSize - 1 /\ Back(DmaByte(i)) = i
    <3>1. i \in Int /\ 0 <= i /\ i < SectorSize
      BY <1>0 DEF InSector
    <3>2. DmaByte(i) \in 0 .. MemSize - 1
      BY DmaByteInMemory
    <3> QED BY <1>0, <1>1, <1>2, <3>1, <3>2
  <2>2. ASSUME NEW a \in 0 .. MemSize - 1, Back(a) \in InSector
        PROVE  a = DmaByte(Back(a))
    BY <1>0, <1>1, <1>2, <2>2
  <2> QED BY <2>1, <2>2
<1>4. mem' = [a \in 0 .. MemSize - 1 |->
               IF Back(a) \in InSector THEN data[diskNo][Offset + Back(a)] ELSE mem[a]]
  BY DEF Read
<1> HIDE DEF Back
<1>5. DOMAIN mem' = DOMAIN mem /\ DOMAIN mem = 0 .. MemSize - 1
  BY <1>4 DEF TypeOK
<1>6. ASSUME NEW i \in InSector
      PROVE  mem'[DmaByte(i)] = Store[diskNo][trackNo][sectorNo][i]
  <2>1. mem'[DmaByte(i)] = data[diskNo][Offset + i]
    BY <1>3, <1>4
  <2>2. Store[diskNo][trackNo][sectorNo][i] = data[diskNo][Flat(trackNo, sectorNo, i)]
    BY DEF Store, Flat, TypeOK
  <2>3. Flat(trackNo, sectorNo, i) = Offset + i
    BY Geometry DEF Flat, Offset, TypeOK, TrackNos, SectorNos, InSector
  <2> QED BY <2>1, <2>2, <2>3
<1>7. ASSUME NEW a \in DOMAIN mem \ {DmaByte(i) : i \in InSector}
      PROVE  mem'[a] = mem[a]
  <2>1. Back(a) \notin InSector
    BY <1>3, <1>5
  <2> QED BY <1>4, <1>5, <2>1
<1>8. UNCHANGED <<data, diskNo, trackNo, sectorNo, dma, session>>
  BY DEF Read, Transfer, hostVars
<1>9. Store' = Store
  BY <1>8 DEF Store
<1> QED BY <1>5, <1>6, <1>7, <1>8, <1>9
         DEF Ideal!Read, Ideal!InSector, InSector, Ideal!DmaByte, DmaByte

\* Setting one part of the place.
LEMMA PlaceRefines ==
  ASSUME TypeOK, UNCHANGED <<data, dma, mem, session>>,
         diskNo' \in DiskNos, trackNo' \in TrackNos, sectorNo' \in SectorNos,
         \/ UNCHANGED <<trackNo, sectorNo>>
         \/ UNCHANGED <<diskNo, sectorNo>>
         \/ UNCHANGED <<diskNo, trackNo>>
  PROVE  \E place \in Ideal!Places : Ideal!Position(place)
<1> DEFINE place == [disk |-> diskNo', track |-> trackNo', sector |-> sectorNo']
<1>1. place \in Ideal!Places
  BY DEF Ideal!Places, DiskNos, TrackNos, SectorNos
<1>2. Store' = Store
  BY DEF Store
<1>3. Ideal!Position(place)
  BY <1>2 DEF Ideal!Position
<1> QED BY <1>1, <1>3

LEMMA NextRefines == Types /\ [Next]_vars => [Ideal!Next]_(Ideal!vars)
<1> SUFFICES ASSUME Types, [Next]_vars PROVE [Ideal!Next]_(Ideal!vars)
  OBVIOUS
<1>0. TypeOK /\ diskNo \in DiskNos /\ trackNo \in TrackNos /\ sectorNo \in SectorNos
  BY DEF Types, TypeOK
<1>1. ASSUME NEW v \in DriveArg, Select(v) PROVE Ideal!Next
  <2>1. diskNo' \in DiskNos
    BY <1>1, SetPlaces
  <2>2. UNCHANGED <<data, dma, mem, session, trackNo, sectorNo>>
    BY <1>1 DEF Select, guestVars, hostVars
  <2> QED BY <1>0, <2>1, <2>2, PlaceRefines DEF Ideal!Next
<1>2. ASSUME NEW v \in BdosTracks, TrackSet(v) PROVE Ideal!Next
  <2>1. trackNo' \in TrackNos
    BY <1>2, SetPlaces
  <2>2. UNCHANGED <<data, dma, mem, session, diskNo, sectorNo>>
    BY <1>2 DEF TrackSet, hostVars
  <2> QED BY <1>0, <2>1, <2>2, PlaceRefines DEF Ideal!Next
<1>3. ASSUME NEW v \in SectorNos, SectorSet(v) PROVE Ideal!Next
  <2>1. sectorNo' \in SectorNos
    BY <1>3, SetPlaces
  <2>2. UNCHANGED <<data, dma, mem, session, diskNo, trackNo>>
    BY <1>3 DEF SectorSet, hostVars
  <2> QED BY <1>0, <2>1, <2>2, PlaceRefines DEF Ideal!Next
<1>4. ASSUME NEW v \in Address, DmaSet(v) PROVE Ideal!Next
  <2>1. Ideal!SetDma(v)
    BY <1>4 DEF DmaSet, guestVars, hostVars, Ideal!SetDma, Store
  <2> QED BY <2>1 DEF Ideal!Next
<1>5. CASE Read
  BY <1>0, <1>5, ReadRefines DEF Ideal!Next
<1>6. CASE Write
  BY <1>0, <1>6, WriteRefines DEF Ideal!Next
<1>7. CASE Restart
  <2>1. Ideal!PowerOn
    BY <1>7 DEF Restart, Started, Ideal!PowerOn
  <2> QED BY <2>1 DEF Ideal!Next
<1>8. ASSUME \/ Interrupt \/ Continue \/ UNCHANGED vars
             \/ \E w \in Written, withName \in BOOLEAN : Save(w, withName)
      PROVE  UNCHANGED Ideal!vars
  <2>1. UNCHANGED <<data, diskNo, trackNo, sectorNo, dma, mem, session>>
    BY <1>8 DEF Interrupt, Continue, Save, vars, diskVars, guestVars, hostVars
  <2> QED BY <2>1 DEF Ideal!vars, Store
<1> QED BY <1>1, <1>2, <1>3, <1>4, <1>5, <1>6, <1>7, <1>8 DEF Next, Guest

\* The flat arrays are disks of sectors, for every geometry and DMA address: no
\* transfer touches a byte of another sector, of another disk or of memory.
THEOREM RamDiskRefinesDisk == Spec => RefinesDisk
<1>1. Init => Ideal!Init
  BY DEF Init, Ideal!Init
<1> QED BY <1>1, SpecTypes, NextRefines, PTL DEF Spec, RefinesDisk, Ideal!Spec
==============================================================================
