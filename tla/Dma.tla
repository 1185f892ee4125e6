--------------------------------- MODULE Dma --------------------------------
(***************************************************************************)
(* i8237.py: the channels of the DMA controller, their current and base    *)
(* registers, and the byte pointer that all registers share.  Page         *)
(* registers and the bytes transferred are left out, and so is what a read *)
(* returns: a read moves the byte pointer, or acknowledges the status.     *)
(***************************************************************************)
EXTENDS Integers

CONSTANTS
  Byte,       \* values of a byte, 256 in code
  Channels    \* channel 0 refreshes memory

ASSUME DmaAssumption == Byte \in Nat \ {0, 1} /\ 0 \in Channels

VARIABLES
  channel,    \* the registers of each channel, with its mask and TC bits
  high,       \* _ff: the next access is to the high byte of a register
  enabled     \* _dma_enabled

dmaVars == <<channel, high, enabled>>

Word == Byte * Byte
Bytes == 0..Byte - 1
Words == 0..Word - 1

\* b16buffer.Put: a byte of a word
Put(word, v, hi) == IF hi THEN (word % Byte) + v * Byte ELSE (word - (word % Byte)) + v

DmaInit ==
  /\ channel = [c \in Channels |->
       [address |-> 0, baseAddress |-> 0, count |-> 0, baseCount |-> 0,
        down |-> FALSE, auto |-> FALSE, mask |-> FALSE, tc |-> FALSE]]
  /\ high = FALSE
  /\ enabled = TRUE

-----------------------------------------------------------------------------
(* Transfers. *)

Moved(r, from, n) == (IF r.down THEN from - n ELSE from + n) % Word

\* Mutant: a block of baseCount transfers.
AdvanceShort(r, n) ==
  IF n <= r.count THEN [r EXCEPT !.address = Moved(r, @, n), !.count = @ - n]
  ELSE IF r.auto
  THEN LET left == IF r.baseCount = 0 THEN 0 ELSE (n - r.count - 1) % r.baseCount
       IN  [r EXCEPT !.address = Moved(r, r.baseAddress, left),
                     !.count = r.baseCount - left, !.tc = TRUE]
  ELSE [r EXCEPT !.address = Moved(r, @, r.count + 1), !.count = Word - 1,
                 !.tc = TRUE, !.mask = TRUE]

\* _advance_channel: n completed transfers, n > 0
Advance(r, n) ==
  IF n <= r.count THEN [r EXCEPT !.address = Moved(r, @, n), !.count = @ - n]
  ELSE IF r.auto
  THEN LET left == (n - r.count - 1) % (r.baseCount + 1)
       IN  [r EXCEPT !.address = Moved(r, r.baseAddress, left),
                     !.count = r.baseCount - left, !.tc = TRUE]
  ELSE [r EXCEPT !.address = Moved(r, @, r.count + 1), !.count = Word - 1,
                 !.tc = TRUE, !.mask = TRUE]

\* Requests from a device, refused while the controller or the channel is off.
Requested(r, n) == IF n = 0 \/ ~enabled \/ r.mask THEN r ELSE Advance(r, n)

\* ReceiveFromChannel and SendToChannel
Transfer(c) ==
  /\ channel' = [channel EXCEPT ![c] = Requested(@, 1)]
  /\ UNCHANGED <<high, enabled>>

-----------------------------------------------------------------------------
(* IO_Write and IO_Read. *)

WriteAddress(c, v) ==
  /\ channel' = [channel EXCEPT ![c].address = Put(@, v, high),
                                ![c].baseAddress = Put(@, v, high)]
  /\ high' = ~high
  /\ UNCHANGED enabled

WriteCount(c, v) ==
  /\ channel' = [channel EXCEPT ![c].count = Put(@, v, high),
                                ![c].baseCount = Put(@, v, high)]
  /\ high' = ~high
  /\ UNCHANGED enabled

WriteCommand(on) == enabled' = on /\ UNCHANGED <<channel, high>>

WriteMode(c, auto, down) ==
  /\ channel' = [channel EXCEPT ![c].auto = auto, ![c].down = down]
  /\ UNCHANGED <<high, enabled>>

\* Ports 0x0a, 0x0e and 0x0f set the masks of one or of all channels.
WriteMasks(masked) ==
  /\ channel' = [c \in Channels |-> [channel[c] EXCEPT !.mask = c \in masked]]
  /\ UNCHANGED <<high, enabled>>

ResetFlipFlop == high' = FALSE /\ UNCHANGED <<channel, enabled>>

MasterReset ==
  /\ channel' = [c \in Channels |-> [channel[c] EXCEPT !.mask = TRUE, !.tc = FALSE]]
  /\ high' = FALSE
  /\ enabled' = TRUE

ReadRegister == high' = ~high /\ UNCHANGED <<channel, enabled>>

ReadStatus ==
  /\ channel' = [c \in Channels |-> [channel[c] EXCEPT !.tc = FALSE]]
  /\ UNCHANGED <<high, enabled>>

DmaProgram ==
  \/ \E c \in Channels, v \in Bytes : WriteAddress(c, v) \/ WriteCount(c, v)
  \/ \E on \in BOOLEAN : WriteCommand(on)
  \/ \E c \in Channels, auto, down \in BOOLEAN : WriteMode(c, auto, down)
  \/ \E masked \in SUBSET Channels : WriteMasks(masked)
  \/ ResetFlipFlop \/ MasterReset \/ ReadRegister \/ ReadStatus

-----------------------------------------------------------------------------
Registers ==
  [address : Words, baseAddress : Words, count : Words, baseCount : Words,
   down : BOOLEAN, auto : BOOLEAN, mask : BOOLEAN, tc : BOOLEAN]

DmaTypeOK == channel \in [Channels -> Registers] /\ high \in BOOLEAN /\ enabled \in BOOLEAN
=============================================================================
