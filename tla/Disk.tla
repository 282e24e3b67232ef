-------------------------------- MODULE Disk ---------------------------------
(***************************************************************************)
(* What the RAM disks promise to CP/M: each disk is an array of sectors, a *)
(* transfer moves one sector between the place that was set last and the   *)
(* memory at the DMA address, and touches nothing else.  A place that does *)
(* not exist leaves the place that was set before.                         *)
(***************************************************************************)
EXTENDS Integers

CONSTANTS DiskMax, Tracks, Sectors, SectorSize, MemSize, Address

VARIABLES
  store,    \* store[disk][track][sector] is the content of a sector
  at,       \* the place of the next transfer: [disk, track, sector]
  dma,      \* the DMA address
  mem,      \* the guest's memory
  session   \* how often the emulator was started

vars == <<store, at, dma, mem, session>>

InSector == 0 .. SectorSize - 1

Places == [disk : 0 .. DiskMax - 1, track : 0 .. Tracks - 1, sector : 0 .. Sectors - 1]

\* The address of byte i of a transfer: the address lines wrap.
DmaByte(i) == (dma + i) % MemSize

\* A service sets one part of the place.
Position(place) ==
  /\ at' = place
  /\ \/ place = [at EXCEPT !.disk = place.disk]
     \/ place = [at EXCEPT !.track = place.track]
     \/ place = [at EXCEPT !.sector = place.sector]
  /\ UNCHANGED <<store, dma, mem, session>>

SetDma(address) ==
  /\ dma' = address
  /\ UNCHANGED <<store, at, mem, session>>

Read ==
  /\ DOMAIN mem' = DOMAIN mem
  /\ \A i \in InSector : mem'[DmaByte(i)] = store[at.disk][at.track][at.sector][i]
  /\ \A a \in DOMAIN mem \ {DmaByte(i) : i \in InSector} : mem'[a] = mem[a]
  /\ UNCHANGED <<store, at, dma, session>>

Write ==
  /\ store' = [store EXCEPT ![at.disk][at.track][at.sector] =
                 [i \in InSector |-> mem[DmaByte(i)]]]
  /\ UNCHANGED <<at, dma, mem, session>>

\* The emulator is started anew: the content comes from the host's files.
PowerOn ==
  /\ session' = session + 1
  /\ at' = [disk |-> 0, track |-> 0, sector |-> 0]
  /\ dma' = 0

Next ==
  \/ \E place \in Places : Position(place)
  \/ \E address \in Address : SetDma(address)
  \/ Read \/ Write \/ PowerOn

Init == at = [disk |-> 0, track |-> 0, sector |-> 0] /\ dma = 0

Spec == Init /\ [][Next]_vars
==============================================================================
