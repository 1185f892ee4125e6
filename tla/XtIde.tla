------------------------------- MODULE XtIde --------------------------------
(***************************************************************************)
(* xtide.py: the disk controller as the guest drives it, port by port, and *)
(* xtidecodec.py's validation of what a checkpoint captures of it.  A      *)
(* sector holds SectorBytes bytes, and a disk is its bytes by offset, up   *)
(* to the end of the geometry.                                             *)
(***************************************************************************)
EXTENDS Integers, Sequences

CONSTANTS
  Cylinders, Heads, Sectors,   \* the geometry: 614, 4 and 17 in the code
  SectorBytes,                 \* 512 in the code
  MaxCount,                    \* sectors a count register of 0 stands for, 256
  Drives,                      \* 0..0 or 0..1: the drives with a disk
  Blank, Identity,             \* a byte never written; a byte of an IDENTIFY page
  Absent,                      \* no drive, the 255 of _target_drive
  MaxCommands, MaxData         \* bounds on the accesses of a behaviour

ASSUME XtAssumption ==
  /\ Cylinders \in Nat \ {0} /\ Heads \in Nat \ {0} /\ Sectors \in Nat \ {0}
  /\ SectorBytes \in Nat \ {0} /\ MaxCount \in Nat \ {0}
  /\ Drives \subseteq {0, 1} /\ Absent \notin Drives

VARIABLES
  xtRegs,        \* the taskfile: count, sector, cylinder, head and drive
  xtStatus,      \* _status_register, as the set of its bits
  xtError,       \* the ABRT bit of _error_register
  xtBuffer, xtOffset,
  xtTarget,      \* the disk a full buffer goes to, or Absent, and the sector
  xtDisk,
  xtWrite,       \* history: the write the guest is in the middle of, if it is
  xtSent,        \* history: what it has sent of it
  xtUsed         \* <<commands, data accesses>> so far

xtHistory == <<xtWrite, xtSent>>
xtTransfer == <<xtBuffer, xtOffset, xtTarget>>
xtVars == <<xtRegs, xtStatus, xtError, xtTransfer, xtDisk, xtHistory, xtUsed>>

Capacity == Cylinders * Heads * Sectors
Zeros(n) == [k \in 1..n |-> Blank]
NoWrite == [drive |-> Absent, lba |-> 0, count |-> 0]

Lba(p) == (p.cylinder * Heads + p.head) * Sectors + p.sector - 1

\* Mutant: the head wraps one too late.
NextChsLateHead(p) ==
  IF p.sector < Sectors THEN [p EXCEPT !.sector = @ + 1]
  ELSE IF p.head < Heads THEN [p EXCEPT !.sector = 1, !.head = @ + 1]
  ELSE [p EXCEPT !.sector = 1, !.head = 0, !.cylinder = @ + 1]

\* The sector after p on the track, under the next head, or on the next cylinder.
NextChs(p) ==
  IF p.sector < Sectors THEN [p EXCEPT !.sector = @ + 1]
  ELSE IF p.head < Heads - 1 THEN [p EXCEPT !.sector = 1, !.head = @ + 1]
  ELSE [p EXCEPT !.sector = 1, !.head = 0, !.cylinder = @ + 1]

SectorCount == IF xtRegs.count = 0 THEN MaxCount ELSE xtRegs.count

\* ValidateCHS, of the taskfile
ValidChs ==
  /\ xtRegs.drive \in Drives
  /\ xtRegs.cylinder < Cylinders /\ xtRegs.head < Heads
  /\ xtRegs.sector \in 1..Sectors
  /\ Lba(xtRegs) + SectorCount <= Capacity

XtInit ==
  /\ xtRegs = [count |-> 0, sector |-> 0, cylinder |-> 0, head |-> 0, drive |-> 0]
  /\ xtStatus = {} /\ xtError = FALSE
  /\ xtBuffer = Zeros(SectorBytes) /\ xtOffset = 0
  /\ xtTarget = [drive |-> Absent, lba |-> 0]
  /\ xtDisk = [d \in Drives |-> [o \in 0..Capacity * SectorBytes - 1 |-> Blank]]
  /\ xtWrite = NoWrite /\ xtSent = <<>>
  /\ xtUsed = [commands |-> 0, data |-> 0]

-----------------------------------------------------------------------------
\* The guest writes a taskfile register.
WriteRegister(field, v) ==
  /\ xtRegs' = [xtRegs EXCEPT ![field] = v]
  /\ UNCHANGED <<xtStatus, xtError, xtTransfer, xtDisk, xtHistory, xtUsed>>

\* SetABRT, the end of every refused command: the buffer stays as it was.
Refuse ==
  /\ xtError' = TRUE
  /\ xtStatus' = xtStatus \cup {"ERR"}
  /\ UNCHANGED <<xtRegs, xtTransfer, xtDisk, xtHistory>>

XtCommand == /\ xtUsed.commands < MaxCommands
             /\ xtUsed' = [xtUsed EXCEPT !.commands = @ + 1]

\* 0xef and 0x91 are refused, whatever the taskfile says.
Unsupported == XtCommand /\ Refuse

\* 0x70-0x7f; the other command the controller knows, 0xc6, does nothing.
Seek ==
  /\ XtCommand
  /\ xtStatus' = xtStatus \cup {"DSC"}
  /\ UNCHANGED <<xtRegs, xtError, xtTransfer, xtDisk, xtHistory>>

\* CMDIdentifyDrive: a page of its own in the buffer, and no DRQ yet.
Identify ==
  /\ XtCommand
  /\ \/ xtRegs.drive \notin Drives /\ Refuse
     \/ /\ xtRegs.drive \in Drives
        /\ xtBuffer' = [k \in 1..SectorBytes |-> Identity] /\ xtOffset' = 0
        /\ xtWrite' = NoWrite /\ xtSent' = <<>>
        /\ UNCHANGED <<xtRegs, xtStatus, xtError, xtTarget, xtDisk>>

\* The positions of the n sectors from p, and of the one after them.
Positions(p, n) ==
  LET at[i \in 0..n] == IF i = 0 THEN p ELSE NextChs(at[i - 1]) IN at

\* CMDReadMultiple walks the geometry and leaves the taskfile after the last
\* sector it read.  A pending write keeps its target.
ReadMultiple ==
  LET at == Positions(xtRegs, SectorCount)
      disk == xtDisk[xtRegs.drive]
  IN /\ XtCommand
     /\ ValidChs
     /\ xtBuffer' = [k \in 1..SectorCount * SectorBytes |->
                       disk[Lba(at[(k - 1) \div SectorBytes]) * SectorBytes
                            + ((k - 1) % SectorBytes)]]
     /\ xtOffset' = 0
     /\ xtRegs' = at[SectorCount]
     /\ xtStatus' = xtStatus \cup {"DRDY", "DRQ"}
     /\ xtWrite' = NoWrite /\ xtSent' = <<>>
     /\ UNCHANGED <<xtError, xtTarget, xtDisk>>

\* The disk fails after i sectors: the buffer is one blank sector.
ReadMultipleFails ==
  \E i \in 0..SectorCount - 1 :
    /\ XtCommand
    /\ ValidChs
    /\ xtBuffer' = Zeros(SectorBytes) /\ xtOffset' = 0
    /\ xtRegs' = Positions(xtRegs, SectorCount)[i]
    /\ xtError' = TRUE /\ xtStatus' = xtStatus \cup {"ERR"}
    /\ xtWrite' = NoWrite /\ xtSent' = <<>>
    /\ UNCHANGED <<xtTarget, xtDisk>>

\* Mutant: the buffer and its offset are those of the previous transfer.
WriteMultipleKeepsOffset ==
  /\ XtCommand
  /\ ValidChs
  /\ xtBuffer' = Zeros(SectorCount * SectorBytes)
  /\ xtTarget' = [drive |-> xtRegs.drive, lba |-> Lba(xtRegs)]
  /\ xtStatus' = xtStatus \cup {"DRDY", "DRQ"}
  /\ xtWrite' = [drive |-> xtRegs.drive, lba |-> Lba(xtRegs), count |-> SectorCount]
  /\ xtSent' = <<>>
  /\ UNCHANGED <<xtRegs, xtError, xtOffset, xtDisk>>

\* Mutant: the sector number is taken to start at 0.
WriteMultipleFromZero ==
  /\ XtCommand
  /\ ValidChs
  /\ xtBuffer' = Zeros(SectorCount * SectorBytes) /\ xtOffset' = 0
  /\ xtTarget' = [drive |-> xtRegs.drive, lba |-> Lba(xtRegs) + 1]
  /\ xtStatus' = xtStatus \cup {"DRDY", "DRQ"}
  /\ xtWrite' = [drive |-> xtRegs.drive, lba |-> Lba(xtRegs), count |-> SectorCount]
  /\ xtSent' = <<>>
  /\ UNCHANGED <<xtRegs, xtError, xtDisk>>

\* CMDWriteMultiple
WriteMultiple ==
  /\ XtCommand
  /\ ValidChs
  /\ xtBuffer' = Zeros(SectorCount * SectorBytes) /\ xtOffset' = 0
  /\ xtTarget' = [drive |-> xtRegs.drive, lba |-> Lba(xtRegs)]
  /\ xtStatus' = xtStatus \cup {"DRDY", "DRQ"}
  /\ xtWrite' = [drive |-> xtRegs.drive, lba |-> Lba(xtRegs), count |-> SectorCount]
  /\ xtSent' = <<>>
  /\ UNCHANGED <<xtRegs, xtError, xtDisk>>

\* A read or a write outside the geometry, or of an absent drive.
TransferRefused == ~ValidChs /\ XtCommand /\ Refuse

-----------------------------------------------------------------------------
Access == /\ xtUsed.data < MaxData
          /\ xtUsed' = [xtUsed EXCEPT !.data = @ + 1]

\* StoreSectorBuffer, as far as the disk takes it: the first n bytes.
Stored(buffer, n) ==
  LET first == xtTarget.lba * SectorBytes
  IN [xtDisk EXCEPT ![xtTarget.drive] =
        [o \in DOMAIN @ |-> IF o \in first..first + n - 1 THEN buffer[o - first + 1]
                            ELSE @[o]]]

\* The data port takes a byte; the one that fills the buffer stores it where
\* the pending write asked, once, whether or not the disk takes it all.
WriteData(b) ==
  /\ Access
  /\ xtBuffer' = IF xtOffset < Len(xtBuffer) THEN [xtBuffer EXCEPT ![xtOffset + 1] = b]
                 ELSE xtBuffer
  /\ xtOffset' = IF xtOffset < Len(xtBuffer) THEN xtOffset + 1 ELSE xtOffset
  /\ xtSent' = IF xtWrite = NoWrite THEN xtSent ELSE Append(xtSent, b)
  /\ \/ /\ xtOffset' < Len(xtBuffer) \/ xtTarget.drive = Absent
        /\ UNCHANGED <<xtDisk, xtTarget, xtStatus, xtError, xtWrite>>
     \/ /\ xtOffset' = Len(xtBuffer) /\ xtTarget.drive # Absent
        /\ xtTarget' = [xtTarget EXCEPT !.drive = Absent]
        /\ xtWrite' = NoWrite
        /\ \/ xtDisk' = Stored(xtBuffer', Len(xtBuffer)) /\ UNCHANGED <<xtStatus, xtError>>
           \/ /\ \E n \in 0..Len(xtBuffer) - 1 : xtDisk' = Stored(xtBuffer', n)
              /\ xtStatus' = xtStatus \cup {"ERR"} /\ xtError' = TRUE
  /\ UNCHANGED xtRegs

\* The data port gives a byte; a write the guest reads out of the middle of
\* is no longer one it means to finish.
ReadData ==
  /\ Access
  /\ xtOffset < Len(xtBuffer)
  /\ xtOffset' = xtOffset + 1
  /\ xtWrite' = NoWrite /\ xtSent' = <<>>
  /\ UNCHANGED <<xtRegs, xtStatus, xtError, xtBuffer, xtTarget, xtDisk>>

\* Reading the status clears it, ERR too.  DRQ, which a buffer that is not at
\* its end sets before, does not stay.
ReadXtStatus ==
  /\ xtStatus' = {"DRDY"}
  /\ UNCHANGED <<xtRegs, xtError, xtTransfer, xtDisk, xtHistory, xtUsed>>

ReadError ==
  /\ xtError' = FALSE
  /\ UNCHANGED <<xtRegs, xtStatus, xtTransfer, xtDisk, xtHistory, xtUsed>>

XtRegisterValues ==
  [count |-> 0..MaxCount - 1, sector |-> 0..Sectors, cylinder |-> 0..Cylinders - 1,
   head |-> 0..Heads - 1, drive |-> {0, 1}]

XtNext ==
  \/ \E f \in DOMAIN XtRegisterValues : \E v \in XtRegisterValues[f] : WriteRegister(f, v)
  \/ Unsupported \/ Seek \/ Identify
  \/ ReadMultiple \/ ReadMultipleFails \/ WriteMultiple \/ TransferRefused
  \/ WriteData(xtUsed.data + 1)      \* a byte of its own at every access
  \/ ReadData \/ ReadXtStatus \/ ReadError

XtSpec == XtInit /\ [][XtNext]_xtVars

-----------------------------------------------------------------------------
\* A read that crosses tracks and cylinders delivers consecutive sectors of
\* the disk (xtide.py:115-139), the ones a write of the same taskfile would
\* store to (xtide.py:172), and leaves the taskfile on the next one.
XtReadsInPlace ==
  [][ReadMultiple =>
       /\ \A k \in 1..Len(xtBuffer') :
            xtBuffer'[k] = xtDisk[xtRegs.drive][Lba(xtRegs) * SectorBytes + k - 1]
       /\ Lba(xtRegs') = Lba(xtRegs) + SectorCount]_xtVars

\* While the guest is in the middle of a write it neither read out of nor
\* replaced by another transfer, nothing but what it sent since that command
\* reaches a disk, where the command said and all at once: what an abandoned
\* transfer, a refused command, a status read or a seek left in the buffer
\* does not (xtide.py:303-314).  A disk that fails takes a part of it.
XtStoresWhatWasSent ==
  [][xtWrite # NoWrite /\ xtDisk' # xtDisk =>
       LET first == xtWrite.lba * SectorBytes
           asked == first..first + xtWrite.count * SectorBytes - 1
       IN /\ Len(xtSent') = xtWrite.count * SectorBytes
          /\ \A d \in Drives : \A o \in DOMAIN xtDisk[d] :
               \/ d = xtWrite.drive /\ o \in asked /\ xtDisk'[d][o] = xtSent'[o - first + 1]
               \/ /\ xtDisk'[d][o] = xtDisk[d][o]
                  /\ "ERR" \in xtStatus' \/ d # xtWrite.drive \/ o \notin asked]_xtVars

\* _validate_payload of xtidecodec.py accepts the controller in every state
\* it can be stopped in, those included where a pending write's target and
\* the buffer no longer belong together: a checkpoint is never refused
\* because of what the guest did to the disk ports.
XtCheckpointable ==
  /\ Len(xtBuffer) \in SectorBytes..MaxCount * SectorBytes
  /\ Len(xtBuffer) % SectorBytes = 0
  /\ xtOffset <= Len(xtBuffer)
  /\ xtTarget.lba < Capacity
  /\ xtTarget.drive \in Drives \cup {Absent}

=============================================================================
