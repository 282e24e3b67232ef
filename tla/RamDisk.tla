------------------------------ MODULE RamDisk --------------------------------
(***************************************************************************)
(* The RAM disks (ramdisk.c) as the BDOS drives them through the BIOS      *)
(* (emubios.s), the debugger's save of disk A, and the host's file that is *)
(* loaded into it at the start.                                            *)
(***************************************************************************)
EXTENDS Integers, Sequences

CONSTANTS
  DiskMax,      \* RAMDISK_MAX
  Tracks,       \* RAMDISK_TRACKS
  Sectors,      \* RAMDISK_SECTORS
  SectorSize,   \* RAMDISK_SECTOR_SIZE
  BlockSectors, \* sectors in a CP/M block: 2048 bytes by the block shift of the DPB
  DriveArg,     \* values of d1 for service 4
  Address,      \* DMA addresses
  MemSize,      \* bytes the guest addresses
  Filler,       \* 0xE5
  Written,      \* the bytes of a save that can reach the host's disk, by number
  MaxTransfers, \* bound: reads and writes in a behaviour
  MaxSessions   \* bound: starts of the emulator

ASSUME GeometryAssumption ==
  /\ {DiskMax, Tracks, Sectors, SectorSize, BlockSectors} \subseteq Nat \ {0}
  /\ DiskMax < 256 /\ Tracks < 65536 /\ Sectors < 65536
ASSUME MemoryAssumption ==
  MemSize \in Nat /\ SectorSize <= MemSize /\ Address \subseteq 0 .. MemSize - 1
ASSUME DriveArgAssumption == DriveArg \subseteq Int
\* stdio writes in order, and can lose any part of what it has buffered.
ASSUME SaveAssumption ==
  \A w \in Written :
    /\ w \in Seq(1 .. Tracks * Sectors * SectorSize)
    /\ \A i, j \in DOMAIN w : i < j => w[i] < w[j]
ASSUME FillerAssumption == Filler \in Int
ASSUME BoundAssumption == MaxTransfers \in Nat /\ MaxSessions \in Nat \ {0}

VARIABLES
  data,       \* ramdisk->data
  diskNo,     \* ramdisk->disk_no
  trackNo,    \* ramdisk->track_no
  sectorNo,   \* ramdisk->sector_no
  dma,        \* ramdisk->dma_address
  named,      \* disk A has a filename
  mem,        \* the guest's memory
  brk,        \* debugger_break: the prompt opens before the next instruction
  asked,      \* the track and the sector that the BDOS last asked for
  refused,    \* history: which of the two the emulator refused with a panic
  file,       \* the host's file of disk A
  saved,      \* history: disk A at the last "RAM disk A saved."
  lost,       \* history: the bytes of it that the host's disk did not take
  transfers,  \* transfers so far
  session     \* starts so far

diskVars == <<data, diskNo, trackNo, sectorNo, dma, named>>
guestVars == <<mem, asked, refused, transfers>>
hostVars == <<file, saved, lost, session>>
vars == <<diskVars, guestVars, brk, hostVars>>

DiskNos == 0 .. DiskMax - 1
TrackNos == 0 .. Tracks - 1
SectorNos == 0 .. Sectors - 1
InSector == 0 .. SectorSize - 1

Size == Tracks * Sectors * SectorSize

\* The disk parameter block: as many blocks as the whole disk holds (8191 is
\* the number of the last one), behind one reserved track.
LastBlock == (Tracks * Sectors) \div BlockSectors - 1
TrackOffset == 1

\* The tracks that the blocks lie on.
BdosTracks == {TrackOffset + s \div Sectors : s \in 0 .. (LastBlock + 1) * BlockSectors - 1}

------------------------------------------------------------------------------
\* ramdisk_init() and, for disk A, ramdisk_load(): a file that is shorter than
\* the disk leaves the rest filled, and what is too long is not read.
Loaded(content) ==
  [d \in DiskNos |->
     [n \in 0 .. Size - 1 |->
        IF d = 0 /\ n < Len(content) THEN content[n + 1] ELSE Filler]]

Started(content) ==
  /\ data' = Loaded(content)
  /\ diskNo' = 0 /\ trackNo' = 0 /\ sectorNo' = 0 /\ dma' = 0

\* The memory holds different bytes; the host has no file yet.
Init ==
  /\ data = Loaded(<<>>)
  /\ diskNo = 0 /\ trackNo = 0 /\ sectorNo = 0 /\ dma = 0
  /\ named \in BOOLEAN
  /\ mem = [a \in 0 .. MemSize - 1 |-> a] /\ brk = FALSE
  /\ asked = [track |-> 0, sector |-> 0] /\ refused = {}
  /\ file = <<>> /\ saved = data[0] /\ lost = {}
  /\ transfers = 0 /\ session = 1

------------------------------------------------------------------------------
(* The services, one instruction each: none while a break is pending. *)

\* Service 4 takes the low byte of d1; a drive that does not exist answers 0
\* and changes nothing.
Select(v) ==
  /\ ~brk
  /\ diskNo' = IF v % 256 >= DiskMax THEN diskNo ELSE v % 256
  /\ UNCHANGED <<data, trackNo, sectorNo, dma, named, guestVars, brk, hostVars>>

\* The arguments of ramdisk_track_set() and ramdisk_sector_set() are uint16_t.
LowWord(v) == v % 65536

\* Faulty TrackSet: a track out of bounds is ignored without a panic.
TrackSetSilent(v) ==
  /\ ~brk
  /\ asked' = [asked EXCEPT !.track = v]
  /\ trackNo' = IF LowWord(v) >= Tracks THEN trackNo ELSE LowWord(v)
  /\ refused' = refused \ {"track"}
  /\ UNCHANGED <<data, diskNo, sectorNo, dma, named, mem, transfers, brk, hostVars>>

\* Service 5: a track out of bounds is a panic and leaves the old one.
TrackSet(v) ==
  /\ ~brk
  /\ asked' = [asked EXCEPT !.track = v]
  /\ IF LowWord(v) >= Tracks
     THEN brk' = TRUE /\ refused' = refused \cup {"track"} /\ UNCHANGED trackNo
     ELSE trackNo' = LowWord(v) /\ refused' = refused \ {"track"} /\ UNCHANGED brk
  /\ UNCHANGED <<data, diskNo, sectorNo, dma, named, mem, transfers, hostVars>>

\* Service 6.
SectorSet(v) ==
  /\ ~brk
  /\ asked' = [asked EXCEPT !.sector = v]
  /\ IF LowWord(v) >= Sectors
     THEN brk' = TRUE /\ refused' = refused \cup {"sector"} /\ UNCHANGED sectorNo
     ELSE sectorNo' = LowWord(v) /\ refused' = refused \ {"sector"} /\ UNCHANGED brk
  /\ UNCHANGED <<data, diskNo, trackNo, dma, named, mem, transfers, hostVars>>

\* Service 7.
DmaSet(v) ==
  /\ ~brk
  /\ dma' = v
  /\ UNCHANGED <<data, diskNo, trackNo, sectorNo, named, guestVars, brk, hostVars>>

\* Faulty Offset: only the sector is scaled to bytes.
OffsetUnscaled == trackNo * Sectors + sectorNo * SectorSize

Offset == (trackNo * Sectors + sectorNo) * SectorSize

DmaByte(i) == (dma + i) % MemSize

Transfer ==
  /\ ~brk /\ transfers < MaxTransfers
  /\ transfers' = transfers + 1
  /\ UNCHANGED <<diskNo, trackNo, sectorNo, dma, named, asked, refused, brk, hostVars>>

\* Service 8: mem_write_byte() byte by byte.
Read ==
  /\ Transfer
  /\ mem' = [a \in 0 .. MemSize - 1 |->
               LET i == (a + MemSize - dma) % MemSize
               IN  IF i \in InSector THEN data[diskNo][Offset + i] ELSE mem[a]]
  /\ UNCHANGED data

\* Service 9.
Write ==
  /\ Transfer
  /\ data' = [data EXCEPT ![diskNo] =
                [n \in 0 .. Size - 1 |->
                   IF n - Offset \in InSector THEN mem[DmaByte(n - Offset)] ELSE @[n]]]
  /\ UNCHANGED mem

Guest ==
  \/ \E v \in DriveArg : Select(v)
  \/ \E v \in BdosTracks : TrackSet(v)
  \/ \E v \in SectorNos : SectorSet(v)
  \/ \E v \in Address : DmaSet(v)
  \/ Read \/ Write

------------------------------------------------------------------------------
(* The debugger and the host. *)

\* Ctrl+C opens the prompt as a panic does.
Interrupt == ~brk /\ brk' = TRUE /\ UNCHANGED <<diskVars, guestVars, hostVars>>

Continue == brk /\ brk' = FALSE /\ UNCHANGED <<diskVars, guestVars, hostVars>>

\* Faulty Save: it appends to what the file holds already.
SaveAppends(w, withName) ==
  /\ brk /\ (withName \/ named)
  /\ file' = file \o [i \in 1 .. Len(w) |-> data[0][w[i] - 1]]
  /\ saved' = data[0]
  /\ lost' = (1 .. Size) \ {w[i] : i \in DOMAIN w}
  /\ named' = TRUE
  /\ UNCHANGED <<data, diskNo, trackNo, sectorNo, dma, guestVars, brk, session>>

\* f: ramdisk_save() truncates the file and writes it.  The results of fputc()
\* and fclose() are not looked at: when the host's disk fails or is full, stdio
\* drops what a write() did not take and goes on with the next buffer, so
\* bytes are missing anywhere; the answer is "RAM disk A saved." either way.
Save(w, withName) ==
  /\ brk /\ (withName \/ named)
  /\ file' = [i \in 1 .. Len(w) |-> data[0][w[i] - 1]]
  /\ saved' = data[0]
  /\ lost' = (1 .. Size) \ {w[i] : i \in DOMAIN w}
  /\ named' = TRUE
  /\ UNCHANGED <<data, diskNo, trackNo, sectorNo, dma, guestVars, brk, session>>

\* The process ends, by q or killed, in the middle of a save too, and is
\* started again with the file.
Restart ==
  /\ session < MaxSessions
  /\ session' = session + 1
  /\ Started(file)
  /\ named' = TRUE
  /\ mem' = [a \in 0 .. MemSize - 1 |-> a] /\ brk' = FALSE
  /\ asked' = [track |-> 0, sector |-> 0] /\ refused' = {}
  /\ UNCHANGED <<transfers, file, saved, lost>>

Next ==
  \/ Guest \/ Interrupt \/ Continue \/ Restart
  \/ \E w \in Written, withName \in BOOLEAN : Save(w, withName)

Spec == Init /\ [][Next]_vars

------------------------------------------------------------------------------
\* The sectors that the bytes of data stand for.
Store ==
  [d \in DiskNos |-> [t \in TrackNos |-> [s \in SectorNos |->
     [i \in InSector |-> data[d][(t * Sectors + s) * SectorSize + i]]]]]

Ideal == INSTANCE Disk
           WITH store <- Store,
                at <- [disk |-> diskNo, track |-> trackNo, sector |-> sectorNo]

TypeOK ==
  /\ data \in [DiskNos -> [0 .. Size - 1 -> Int]]
  /\ diskNo \in DiskNos /\ trackNo \in TrackNos /\ sectorNo \in SectorNos
  /\ dma \in Address \cup {0}
  /\ mem \in [0 .. MemSize - 1 -> Int]
  /\ named \in BOOLEAN /\ brk \in BOOLEAN
  /\ refused \subseteq {"track", "sector"}
  /\ transfers \in 0 .. MaxTransfers /\ session \in 1 .. MaxSessions

\* The flat arrays implement disks of sectors: a transfer reaches the sector
\* at the place that was set last and no byte of another sector or disk.
RefinesDisk == Ideal!Spec

\* Where the place differs from what the BDOS asked for, a panic has said so:
\* no transfer goes astray in silence.
AstrayIsReported ==
  /\ trackNo # asked.track => "track" \in refused
  /\ sectorNo # asked.sector => "sector" \in refused

\* The next start brings disk A back as it was at the last save, whatever was
\* written to the disk since: all of it when no byte was lost on the way to the
\* file, and otherwise as far as the first one that was (ramdisk_save(),
\* ramdisk_load()).
SaveComesBack ==
  [][Restart => \A n \in 0 .. Size - 1 :
                  (\A m \in lost : n + 1 < m) => data'[0][n] = saved[n]]_vars

\* emubios.s:112, "Always OK": a transfer reaches the place that was asked for.
TransferAlwaysOk ==
  [][Read \/ Write => trackNo = asked.track /\ sectorNo = asked.sector]_vars
==============================================================================
