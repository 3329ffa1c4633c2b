-------------------------------- MODULE Ata --------------------------------
(***************************************************************************)
(* A read of an IDE drive, src/src/drivers/storage/ide.rs: ATADrive::read, *)
(* ATABus::software_reset and ATABus::ide_access polling a drive that      *)
(* works at its own pace.  The drive itself is external; it does what the  *)
(* driver relies on: it is busy from a command on, then offers one sector  *)
(* after the other or reports an error.                                    *)
(*                                                                         *)
(* A sector's contents are its number.                                     *)
(***************************************************************************)
EXTENDS Integers, Sequences

CONSTANTS
    CountMod,       \* values of the sector count register, 256
    Lba28Mod,       \* sectors an LBA28 command can address, 2^28
    SectorCount,    \* words 60 and 61 of the identify data
    Faults          \* bound: errors the drive reports

ASSUME AtaAssumption ==
    /\ CountMod \in Nat \ {0} /\ Lba28Mod \in Nat \ {0} /\ Faults \in Nat
    /\ SectorCount \in 0 .. (Lba28Mod - 1)

VARIABLES
    io,         \* the call: [pc, sector, count, buffer]
    count0,     \* the SectorCount0 register
    drive,      \* the drive: [state, at, left]
    faults      \* errors it has reported

ataVars == <<io, count0, drive, faults>>

IoIdle == [pc |-> "idle", sector |-> 0, count |-> 0, buffer |-> <<>>]

AtaInit ==
    /\ io = IoIdle
    /\ count0 = 0
    /\ drive = [state |-> "idle", at |-> 0, left |-> 0]
    /\ faults = 0

(* ATADrive::read(sector, count), for a caller that is not waiting for     *)
(* another one.                                                            *)
DeviceRead(sector, count) ==
    io' = [pc |-> IF sector + count > SectorCount THEN "err" ELSE "reset",
           sector |-> sector, count |-> count, buffer |-> <<>>]

(* software_reset: the bits meant for the control register are written to  *)
(* io_bar + 2, which is the sector count register.                         *)
SoftwareReset ==
    /\ io.pc = "reset"
    /\ count0' = 0
    /\ io' = [io EXCEPT !.pc = "await"]
    /\ UNCHANGED <<drive, faults>>

\* What the driver writes to the registers (two bytes of the count for LBA48),
\* and what the drive takes a zero count for.
TaskFile(sector, count) ==
    IF sector >= Lba28Mod - 1
    THEN [at |-> sector, count |-> count % (CountMod * CountMod), zero |-> CountMod * CountMod]
    ELSE [at |-> sector % Lba28Mod, count |-> count % CountMod, zero |-> CountMod]

(* await_busy, then the registers and the command; the drive forgets what  *)
(* it was doing.                                                           *)
SendCommand ==
    /\ io.pc = "await" /\ drive.state # "busy"
    /\ LET tf == TaskFile(io.sector, io.count) IN
         /\ count0' = tf.count
         /\ drive' = [state |-> "busy", at |-> tf.at,
                      left |-> IF tf.count = 0 THEN tf.zero ELSE tf.count]
    /\ io' = [io EXCEPT !.pc = IF io.count = 0 THEN "ok" ELSE "poll"]
    /\ UNCHANGED faults

(* The drive has the next sector ...                                       *)
DriveReady ==
    /\ drive.state = "busy" /\ drive.at < SectorCount
    /\ drive' = [drive EXCEPT !.state = "data"]
    /\ UNCHANGED <<io, count0, faults>>

(* ... or fails to read it, or has no such sector.                         *)
DriveError ==
    /\ drive.state = "busy"
    /\ faults < Faults \/ drive.at >= SectorCount
    /\ drive' = [drive EXCEPT !.state = "error"]
    /\ faults' = IF drive.at >= SectorCount THEN faults ELSE faults + 1
    /\ UNCHANGED <<io, count0>>

(* wait_for_drive_ready finds DataReqReady, insw takes the sector.         *)
TakeSector ==
    /\ io.pc = "poll" /\ drive.state = "data"
    /\ io' = [io EXCEPT !.buffer = Append(@, drive.at),
                        !.pc = IF Len(io.buffer) + 1 = io.count THEN "ok" ELSE "poll"]
    /\ drive' = [state |-> IF drive.left = 1 THEN "idle" ELSE "busy",
                 at |-> drive.at + 1, left |-> drive.left - 1]
    /\ UNCHANGED <<count0, faults>>

(* wait_for_drive_ready finds Error or WriteFault.                         *)
TakeError ==
    /\ io.pc = "poll" /\ drive.state = "error"
    /\ io' = [io EXCEPT !.pc = "err"]
    /\ UNCHANGED <<count0, drive, faults>>

Driver == SoftwareReset \/ SendCommand \/ TakeSector \/ TakeError
Drive  == DriveReady \/ DriveError

-----------------------------------------------------------------------------
AtaTypeOK ==
    /\ io.pc \in {"idle", "reset", "await", "poll", "ok", "err"}
    /\ Len(io.buffer) <= io.count
    /\ count0 \in 0 .. (CountMod - 1)
    /\ drive.state \in {"idle", "busy", "data", "error"}
    /\ drive.left \in 0 .. CountMod
    /\ faults \in 0 .. Faults
=============================================================================
