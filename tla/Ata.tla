--------------------------------- MODULE Ata ---------------------------------
(***************************************************************************)
(* The ATA PIO driver (drivers/ata.c): one call reads or writes sectors by *)
(* setting the task file registers, issuing a command and polling the      *)
(* drive before every sector.  The drive runs beside the driver: it takes  *)
(* its time, and may raise ERR or DF instead of asking for data.  What is  *)
(* attached, ata_identify_drive finds out first.                           *)
(* It may also fail a sector after it took the data.  One call runs at a   *)
(* time: nothing in the driver keeps a second one out (see README.md).     *)
(***************************************************************************)
EXTENDS Integers, Sequences

CONSTANTS
  SECTORS,        \* sectors of the drive
  Counts,         \* the sector counts of the calls
  Values          \* what a sector can hold

AtaConstants ==
  SECTORS \in Nat \ {0} /\ Counts \subseteq 1..255

Lbas == 0 .. SECTORS - 1

\* The calls of the two internal functions.
Calls == {c \in [kind : {"read", "write"}, lba : Lbas, count : Counts, value : Values] :
            c.lba + c.count <= SECTORS}

VARIABLES
  attached,         \* what there is: "nothing", a "packet" device or a "disk"
  present,          \* what ata_identify_drive found
  media,            \* the sectors of the drive
  status,           \* ready, busy, drq (asks for data), commit (busy writing), err
  lba, pos, left,   \* LBA register; sector and number of sectors of the command
  pc, call, buf,    \* the driver: where it is, its call, the data it has moved
  result,           \* what the last call returned
  before,           \* history: the media when the call started
  lost              \* history: sectors of the call the drive took and did not write

device == <<attached, media, status, lba, pos, left>>
disk == <<present, device, pc, call, buf, result, before, lost>>

DiskInit ==
  /\ attached \in {"nothing", "packet", "disk"} /\ present = FALSE
  /\ media \in [Lbas -> Values]
  /\ status = "ready" /\ lba = 0 /\ pos = 0 /\ left = 0
  /\ pc = "identify" /\ call \in Calls /\ buf = <<>> /\ result = 0
  /\ before = media /\ lost = {}
------------------------------------------------------------------------------
\* ata_identify_drive: a status of 0 means that nothing is attached, a signature in
\* the LBA registers that it is no ATA disk; a disk prepares its data.
ata_identify_drive ==
  /\ pc = "identify"
  /\ IF attached = "disk" THEN status' = "busy" /\ pc' = "wait"
                          ELSE pc' = "idle" /\ UNCHANGED status
  /\ UNCHANGED <<attached, present, media, lba, pos, left, call, buf, result, before, lost>>

identify_wait ==
  /\ pc = "wait" /\ status \in {"drq", "err"}
  /\ present' = (status = "drq")
  /\ status' = IF status = "drq" THEN "ready" ELSE status
  /\ pc' = "idle"
  /\ UNCHANGED <<attached, media, lba, pos, left, call, buf, result, before, lost>>

\* ata_read_sectors_internal and ata_write_sectors_internal: no drive, no call.
start(c) ==
  /\ pc = "idle"
  /\ call' = c /\ buf' = <<>> /\ before' = media /\ lost' = {}
  /\ IF present THEN pc' = "select" /\ UNCHANGED result
                ELSE pc' = "idle" /\ result' = -1
  /\ UNCHANGED <<present, device>>

Busy == status \in {"busy", "commit"}

\* Mutant of select: the high bits of the LBA are not written.
SelectDropsHigh ==
  /\ pc = "select" /\ ~Busy
  /\ lba' = call.lba % 2
  /\ pc' = "command"
  /\ UNCHANGED <<attached, present, media, status, pos, left, call, buf, result, before, lost>>

\* ata_wait_ready, then drive, count and LBA registers.
select ==
  /\ pc = "select" /\ ~Busy
  /\ lba' = call.lba
  /\ pc' = "command"
  /\ UNCHANGED <<attached, present, media, status, pos, left, call, buf, result, before, lost>>

command ==
  /\ pc = "command"
  /\ status' = "busy" /\ pos' = lba /\ left' = call.count
  /\ pc' = "poll"
  /\ UNCHANGED <<attached, present, media, lba, call, buf, result, before, lost>>

return(r) == pc' = "idle" /\ result' = r

\* Mutant of ata_poll: DRQ is not waited for once BSY is clear and no error.
PollsBusyOnly ==
  /\ pc = "poll"
  /\ pc' = "transfer"
  /\ UNCHANGED <<present, device, call, buf, result, before, lost>>

\* Mutant of ata_poll: an error makes a read begin again.
PollRetries ==
  /\ pc = "poll"
  /\ \/ status = "drq" /\ pc' = "transfer" /\ UNCHANGED <<buf, result>>
     \/ status = "err" /\ call.kind = "write" /\ return(-1) /\ UNCHANGED buf
     \/ status = "err" /\ call.kind = "read" /\ pc' = "select" /\ buf' = <<>> /\ UNCHANGED result
  /\ UNCHANGED <<present, device, call, before, lost>>

ata_poll ==
  /\ pc = "poll"
  /\ \/ status = "drq" /\ pc' = "transfer" /\ UNCHANGED result
     \/ status = "err" /\ return(-1)
  /\ UNCHANGED <<present, device, call, buf, before, lost>>

\* port_words_in: the sector at pos.  The drive goes on to the next one.
read_sector ==
  /\ pc = "transfer" /\ call.kind = "read"
  /\ buf' = Append(buf, media[pos])
  /\ left' = left - 1
  /\ IF left = 1 THEN status' = "ready" /\ UNCHANGED pos
                 ELSE status' = "busy" /\ pos' = pos + 1
  /\ IF Len(buf) + 1 = call.count THEN return(0) ELSE pc' = "poll" /\ UNCHANGED result
  /\ UNCHANGED <<attached, present, media, lba, call, before, lost>>

\* port_words_out: the drive has the data and begins to write it.
write_sector ==
  /\ pc = "transfer" /\ call.kind = "write"
  /\ buf' = Append(buf, call.value)
  /\ status' = "commit"
  /\ pc' = IF Len(buf) + 1 = call.count THEN "flush" ELSE "poll"
  /\ UNCHANGED <<attached, present, media, lba, pos, left, call, result, before, lost>>

\* Mutant of flush_cache: it does not wait.
FlushDoesNotWait ==
  /\ pc = "flush"
  /\ return(0)
  /\ UNCHANGED <<present, device, call, buf, before, lost>>

\* CACHE FLUSH, then ata_wait_ready: BSY clear is all it asks for.
flush_cache ==
  /\ pc = "flush" /\ ~Busy
  /\ return(0)
  /\ UNCHANGED <<present, device, call, buf, before, lost>>

Driver ==
  ata_identify_drive \/ identify_wait
    \/ select \/ command \/ ata_poll \/ read_sector \/ write_sector \/ flush_cache
------------------------------------------------------------------------------
\* The drive (external): it asks for data, or fails.
drive_drq == status = "busy" /\ status' = "drq"
drive_err == status = "busy" /\ status' = "err"

drive_prepare ==
  /\ drive_drq \/ drive_err
  /\ UNCHANGED <<attached, present, media, lba, pos, left, pc, call, buf, result, before, lost>>

\* The drive (external): it has written the sector.
drive_commit ==
  /\ status = "commit"
  /\ media' = [media EXCEPT ![pos] = call.value]
  /\ left' = left - 1
  /\ IF left = 1 THEN status' = "ready" /\ UNCHANGED pos
                 ELSE status' = "busy" /\ pos' = pos + 1
  /\ UNCHANGED <<attached, present, lba, pc, call, buf, result, before, lost>>

\* The drive (external): it could not write the sector it took.
drive_lose ==
  /\ status = "commit"
  /\ status' = "err" /\ lost' = lost \union {pos}
  /\ UNCHANGED <<attached, present, media, lba, pos, left, pc, call, buf, result, before>>

Drive == drive_prepare \/ drive_commit \/ drive_lose

DiskNext ==
  \/ \E c \in Calls : start(c)
  \/ Driver
  \/ Drive

DiskSpec == DiskInit /\ [][DiskNext]_disk

\* The CPU executes the driver's loop, and a drive that is busy finishes.
DiskFairSpec == DiskSpec /\ WF_disk(Driver) /\ WF_disk(Drive)
------------------------------------------------------------------------------
\* A command never runs past the end of the drive, and the data moved never
\* exceeds the call's sectors.
DiskTypeOK ==
  /\ present \in BOOLEAN /\ media \in [Lbas -> Values]
  /\ status \in {"ready", "busy", "drq", "commit", "err"}
  /\ lba \in Lbas /\ pos \in Lbas /\ left \in 0..255
  /\ attached \in {"nothing", "packet", "disk"} /\ (present => attached = "disk")
  /\ pc \in {"identify", "wait", "idle", "select", "command", "poll", "transfer", "flush"}
  /\ call \in Calls /\ Len(buf) <= call.count /\ result \in {0, -1}

Finished == pc = "idle" /\ present /\ buf # <<>>

\* A read that returns 0 has put the call's sectors, in order, in the buffer.
ReadReturnsSectors ==
  Finished /\ call.kind = "read" /\ result = 0
    => buf = [k \in 1..call.count |-> before[call.lba + k - 1]]

\* When a write returns, exactly the sectors whose data the drive took and
\* kept have changed: with the count of 1 that ata_block_write uses, a write
\* that returns -1 because of an error before the data has changed nothing.
WriteChangesTaken ==
  pc = "idle" /\ present /\ call.kind = "write" =>
    \A l \in Lbas :
      media[l] = IF l \in call.lba .. call.lba + Len(buf) - 1 /\ l \notin lost
                   THEN call.value ELSE before[l]

\* "Returns: 0 on success, -1 on error" (block.h, ata.h): a write that returns
\* 0 has written all its sectors.
WriteErrorsReported ==
  Finished /\ call.kind = "write" /\ result = 0 =>
    \A k \in 0 .. call.count - 1 : media[call.lba + k] = call.value

\* Driver and drive stay in step: data moves only while the drive asks for it
\* (ata_poll's contract), and never more sectors than the call has left.
TransferOnRequest == pc = "transfer" => status = "drq"

\* The driver moves data only while the drive asks for it; a read that returns 0 has
\* put the call's sectors, in order, in the buffer; and when a write returns, exactly
\* the sectors whose data the drive took and kept have changed.
SectorsExact == DiskTypeOK /\ TransferOnRequest /\ ReadReturnsSectors /\ WriteChangesTaken

\* Every call returns: the polling loops end when the drive answers, with data
\* or with an error.
Returns == pc # "idle" ~> pc = "idle"
===============================================================================
