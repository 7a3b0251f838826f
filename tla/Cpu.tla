-------------------------------- MODULE Cpu --------------------------------
(***************************************************************************)
(* The CPU as the kernel sees it: cpu/src/main.c and the interrupt thread  *)
(* of utils/src/cpu/cpu.c.  The CPU receives a PCB on the dispatch socket, *)
(* runs instruction cycles and sends the PCB back with a motive; a second  *)
(* thread moves interrupts from the interrupt socket into the queue cIntr, *)
(* which the end of every cycle drains.  What an instruction does to       *)
(* registers and memory is left to other modules: here an instruction is   *)
(* the motive it leaves in seVa, if any.                                   *)
(***************************************************************************)
EXTENDS Integers, Sequences

CONSTANTS
  MaxPid,     \* bound: processes the console creates; pids are 1..MaxPid
  Motivos,    \* the motives the programs' instructions can leave in seVa
  MaxCanal    \* bound: interrupts the interrupt socket buffers

Pids == 1..MaxPid

\* No process.  The code writes pidRunning = -1 or a NULL pointer.
Nadie == 0

\* seVa == false: the cycle goes on with the next instruction.
Sigue == [op |-> "SIGUE", arg |-> "-"]

\* The two motives the drain of cIntr can put in seVa.
Interrupcion == [op |-> "INTERRUPCION", arg |-> "-"]
FinDeQuantum == [op |-> "FIN_DE_QUANTUM", arg |-> "-"]

ASSUME CpuAssumption ==
  /\ MaxPid \in Nat
  /\ MaxCanal \in Nat
  /\ Sigue \notin Motivos

Interrupciones == [motivo : {"INTERRUPCION", "FIN_DE_QUANTUM"}, pid : Pids \cup {Nadie}]

\* What travels back on the dispatch socket: a PCB with its motive (and the
\* operand string that follows it), or the address vector of an IO_VECTOR.
Mensajes == [tipo : {"pcb"}, pid : Pids, motivo : Motivos \cup {Interrupcion, FinDeQuantum}]
              \cup [tipo : {"vector"}, pid : Pids]

VARIABLES
  enCpu,      \* the process whose PCB the CPU holds, or Nadie
  canalIntr,  \* the interrupt socket, kernel to CPU
  cIntr,      \* the queue cIntr; every drain empties it, so its order is immaterial
  dispatch    \* the dispatch socket, CPU to kernel

cpuVars == <<enCpu, canalIntr, cIntr, dispatch>>

CpuTypeOK ==
  /\ enCpu \in Pids \cup {Nadie}
  /\ canalIntr \in Seq(Interrupciones)
  /\ cIntr \in SUBSET Interrupciones
  /\ dispatch \in Seq(Mensajes)

CpuInit ==
  /\ enCpu = Nadie
  /\ canalIntr = <<>>
  /\ cIntr = {}
  /\ dispatch = <<>>

-----------------------------------------------------------------------------
Intr(motivo, p) == [motivo |-> motivo, pid |-> p]

\* enviar_int on the interrupt socket; MaxCanal bounds what it buffers.
EnviarInt(motivo, p) ==
  /\ Len(canalIntr) < MaxCanal
  /\ canalIntr' = Append(canalIntr, Intr(motivo, p))

\* One iteration of the thread interrupciones.
RecibirInterrupcion ==
  /\ canalIntr # <<>>
  /\ cIntr' = cIntr \cup {Head(canalIntr)}
  /\ canalIntr' = Tail(canalIntr)
  /\ UNCHANGED <<enCpu, dispatch>>

\* seVa after the drain that follows an instruction which left m in it: an
\* INTERRUPCION for the running pid overrides everything, a FIN_DE_QUANTUM only
\* an instruction that left nothing, and interrupts for other pids are dropped.
SeVa(p, m) ==
  IF Intr("INTERRUPCION", p) \in cIntr THEN Interrupcion
  ELSE IF m = Sigue /\ Intr("FIN_DE_QUANTUM", p) \in cIntr THEN FinDeQuantum
  ELSE m

\* The PCB and, for an IO_VECTOR that no interrupt overrode, the address vector.
Vuelta(p, m) ==
  LET pcb == [tipo |-> "pcb", pid |-> p, motivo |-> m] IN
    IF m.op = "IO_VECTOR" THEN <<pcb, [tipo |-> "vector", pid |-> p]>> ELSE <<pcb>>

\* A cycle after which the process goes on.
CicloSigue ==
  /\ enCpu # Nadie
  /\ SeVa(enCpu, Sigue) = Sigue
  /\ cIntr' = {}
  /\ UNCHANGED <<enCpu, canalIntr, dispatch>>

\* A cycle whose instruction leaves m, after which the PCB goes back.
CicloVuelve(m) ==
  /\ enCpu # Nadie
  /\ SeVa(enCpu, m) # Sigue
  /\ cIntr' = {}
  /\ dispatch' = dispatch \o Vuelta(enCpu, SeVa(enCpu, m))
  /\ enCpu' = Nadie
  /\ UNCHANGED canalIntr
=============================================================================
