------------------------------ MODULE MCDevices -----------------------------
(* Words of two bits, two counters and one channel: a Tick of five cycles is *)
(* longer than any period, and a batch of five requests than any block.      *)
EXTENDS Devices

MCCounters == {0, 1}
MCChannels == {0}
MCPortions == {9}         \* four or five cycles of the timer
MCWidths == {"low", "both"}
MCModes == {Periodic, OneShot}

(* Three lines, one of them without a device behind it, fully programmable. *)
MCWired == {0, 2}

(* One drive of four sectors; blocks of two. *)
MCDrives == {0}

MCRecorders == {"trace", "hardware", "video", "serial"}
MCLimits == {1, 2}

(* Nothing but the end; each repetition with each kind of string          *)
(* instruction it may have, an override before and after it, and what     *)
(* makes shadows.                                                         *)
MCPrograms ==
  { <<"end">>, <<"es", "rep", "movs", "nop", "end">>, <<"rep", "es", "movs", "lods", "end">>,
    <<"repne", "scas", "stos", "end">>, <<"ds", "rep", "cmps", "lods", "end">>,
    <<"mov ss", "mov sp", "sti", "hlt", "int", "end">>,
    <<"cli", "rep", "stos", "mov ss", "mov sp", "end">> }
MCMemories == {[ds |-> [k \in 0..2 |-> k % 2], es |-> e] : e \in [0..2 -> {0, 1}]}
MCMachines ==
  [if : BOOLEAN, tf : BOOLEAN, down : BOOLEAN, cx : {0, 1, 3}, al : {1}, mem : MCMemories]

(* Operands of four bits, of either sign and next to every boundary. *)
MCDigits == {0, 1, 7, 8, 15}
MCDecimals == {0, 9, 25, 80, 153}
=============================================================================
