------------------------------ MODULE Devices -------------------------------
(***************************************************************************)
(* The processor and the devices of the machine that keep no state of one  *)
(* another's, side by side: a behaviour puts one of them to use.           *)
(***************************************************************************)
EXTENDS Timing, Pic, XtIde, Uart, Rings, Cpu, Alu

VARIABLE device

devicesVars == <<device, vars, picVars, xtVars, uartVars, ringVars, cpuVars, alu>>

DevicesInit ==
  /\ device \in {"timing", "pic", "xtide", "uart", "recorders", "cpu", "alu"}
  /\ Init /\ PicInit /\ XtInit /\ UartInit
  /\ IF device = "recorders" THEN RingsInit ELSE RingsInit /\ recorder = "serial"
  /\ IF device = "cpu" THEN CpuInit
     ELSE CpuInit /\ cpu = PowerOn(CHOOSE m \in Machines : TRUE, CHOOSE p \in Programs : TRUE)
  /\ IF device = "alu" THEN AluInit
     ELSE alu = Started("sum", CHOOSE r \in Given("sum") : TRUE, "accumulator", FALSE, FALSE)

DevicesNext ==
  \/ device = "timing" /\ Next /\ UNCHANGED <<picVars, xtVars, uartVars, ringVars, cpuVars, alu>>
  \/ device = "pic" /\ PicNext /\ UNCHANGED <<vars, xtVars, uartVars, ringVars, cpuVars, alu>>
  \/ device = "xtide" /\ XtNext /\ UNCHANGED <<vars, picVars, uartVars, ringVars, cpuVars, alu>>
  \/ device = "uart" /\ UartNext /\ UNCHANGED <<vars, picVars, xtVars, ringVars, cpuVars, alu>>
  \/ device = "recorders" /\ RingsNext
       /\ UNCHANGED <<vars, picVars, xtVars, uartVars, cpuVars, alu>>
  \/ device = "cpu" /\ CpuNext /\ UNCHANGED <<vars, picVars, xtVars, uartVars, ringVars, alu>>
  \/ device = "alu" /\ AluNext /\ UNCHANGED <<vars, picVars, xtVars, uartVars, ringVars, cpuVars>>

DevicesSpec == DevicesInit /\ [][DevicesNext /\ UNCHANGED device]_devicesVars
=============================================================================
