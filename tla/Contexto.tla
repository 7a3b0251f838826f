------------------------------ MODULE Contexto ------------------------------
(***************************************************************************)
(* The execution context of a process on its way through the three         *)
(* programs: the kernel's table of PCBs, the dispatch socket, the CPU's    *)
(* global pcb and its instruction cycle, and in memory the structs the     *)
(* PCBs point to, the global "proceso" the CPU's thread works on and the   *)
(* two sockets over which the CPU asks and the kernel loads and frees.     *)
(* The queues and threads of the kernel are in Kernel; here a process      *)
(* that blocks is unblocked and READY is one queue with a timer (RR).      *)
(***************************************************************************)
EXTENDS Registros, SequencesExt

CONSTANTS
  Procesos,     \* the pids
  Programa,     \* the instructions of each
  SinArchivo,   \* those whose file memory cannot open
  Basura,       \* what malloc may leave in the registers of each
  Cuidados      \* what is assumed of the threads' timing and of the operator

NULL == 0
NUEVO_PROCESO == "NUEVO_PROCESO"
FINALIZACION == "FINALIZACION"

ASSUME ContextoAssumption ==
  /\ Procesos \in SUBSET (Nat \ {0})
  /\ Programa \in [Procesos -> Seq(Instrucciones)]
  /\ Basura \in [Procesos -> SUBSET Nat]
  /\ SinArchivo \in SUBSET Procesos
  /\ Cuidados \in SUBSET {"sirve_antes", "mata_cargado"}

VARIABLES
  \* the kernel
  estado,       \* where each process is
  pcbs,         \* the pcb of each sProceso: its registers and its pointer
  cREADY,
  \* the sockets
  despacho,     \* dispatch, kernel to CPU
  vueltas,      \* dispatch, CPU to kernel
  cIntr,        \* the interrupts sent and not drained
  aMemoria,     \* CPU to memory
  deMemoria,    \* memory to CPU
  conexion,     \* kernel to memory
  punteros,     \* memory to kernel
  \* the CPU
  pcb,          \* the global pcb
  fase,         \* what its main loop waits for
  \* memory
  cargados,     \* the structs allocated
  proceso,      \* the global pointer
  caida         \* what memory died of: a freed struct, an instruction that is not there

kernelVars == <<estado, pcbs, cREADY>>
pedidosVars == <<aMemoria, deMemoria>>
cpuVars == <<pcb, fase, cIntr>>
cargaVars == <<conexion, punteros>>
memVars == <<cargados, proceso, caida>>
contextoVars == <<kernelVars, despacho, vueltas, pedidosVars, cpuVars, cargaVars, memVars>>

Punteros == Procesos \cup {NULL}
Estados == {"SIN_CREAR", "NEW", "RUTA", "CARGA", "READY", "RUNNING", "BLOCKED", "EXIT", "FINISHED"}

Vacio(b) == [r \in Registros8y32 |-> IF r = "PC" THEN 0 ELSE b % Modulo(r)]
SinPcb == [pid |-> NULL, registros |-> Vacio(0), instrucciones |-> NULL]

\* crear_proceso gives a value to PC and to no other register.
ContextoInit ==
  /\ estado = [p \in Procesos |-> "SIN_CREAR"]
  /\ \E b \in [Procesos -> UNION {Basura[p] : p \in Procesos}] :
       /\ \A p \in Procesos : b[p] \in Basura[p]
       /\ pcbs = [p \in Procesos |-> [registros |-> Vacio(b[p]), instrucciones |-> NULL]]
  /\ cREADY = <<>>
  /\ despacho = <<>> /\ vueltas = <<>>
  /\ aMemoria = <<>> /\ deMemoria = <<>>
  /\ conexion = <<>> /\ punteros = <<>>
  /\ pcb = SinPcb /\ fase = "libre" /\ cIntr = {}
  /\ cargados = {} /\ proceso = NULL /\ caida = "no"

-----------------------------------------------------------------------------
(***************************************************************************)
(* The kernel                                                              *)
(***************************************************************************)
Pasar(p, antes, despues) == estado[p] = antes /\ estado' = [estado EXCEPT ![p] = despues]

AReady(p) == cREADY' = Append(cREADY, p)

\* list_remove_element.
Sin(s, x) ==
  IF \E i \in DOMAIN s : s[i] = x
  THEN RemoveAt(s, CHOOSE i \in DOMAIN s : s[i] = x)
  ELSE s

\* idPCB gives the pids in order, and cNEW keeps it.
CrearProceso(p) ==
  /\ \A q \in Procesos : q < p => estado[q] # "SIN_CREAR"
  /\ Pasar(p, "SIN_CREAR", "NEW")
  /\ UNCHANGED <<pcbs, cREADY, despacho, vueltas, pedidosVars, cpuVars, cargaVars, memVars>>

\* enviar_proceso sends the path, then the pid, and waits for the answer.  Only PLP
\* does it, for one process at a time.
EnviarRuta(p) ==
  /\ \A q \in Procesos : estado[q] \notin {"RUTA", "CARGA"} /\ (q < p => estado[q] # "NEW")
  /\ Pasar(p, "NEW", "RUTA")
  /\ conexion' = Append(conexion, [op |-> NUEVO_PROCESO, arg |-> p])
  /\ UNCHANGED <<pcbs, cREADY, despacho, vueltas, pedidosVars, cpuVars, punteros, memVars>>

EnviarPid(p) ==
  /\ Pasar(p, "RUTA", "CARGA")
  /\ conexion' = Append(conexion, [op |-> "PID", arg |-> p])
  /\ UNCHANGED <<pcbs, cREADY, despacho, vueltas, pedidosVars, cpuVars, punteros, memVars>>

\* PLP: with a NULL the process goes to matadero.
RecibirPuntero(p) ==
  /\ punteros # <<>>
  /\ pcbs' = [pcbs EXCEPT ![p].instrucciones = Head(punteros)]
  /\ punteros' = Tail(punteros)
  /\ IF Head(punteros) = NULL
     THEN Pasar(p, "CARGA", "EXIT") /\ UNCHANGED cREADY
     ELSE Pasar(p, "CARGA", "READY") /\ AReady(p)
  /\ UNCHANGED <<despacho, vueltas, pedidosVars, cpuVars, conexion, memVars>>

\* One process is on the CPU: the scheduler waits for it on the dispatch socket.
Despachar(p) ==
  /\ \A q \in Procesos : estado[q] # "RUNNING"
  /\ cREADY # <<>> /\ Head(cREADY) = p
  /\ Pasar(p, "READY", "RUNNING")
  /\ cREADY' = Tail(cREADY)
  /\ despacho' = Append(despacho, [pid |-> p, registros |-> pcbs[p].registros,
                                   instrucciones |-> pcbs[p].instrucciones])
  /\ UNCHANGED <<pcbs, vueltas, pedidosVars, cpuVars, cargaVars, memVars>>

\* mutant: the PC is the field pc of t_pcb, that nobody updates
PcbDeserializarOtroPc(m) ==
  [registros |-> [m.pcb.registros EXCEPT !["PC"] = 0], instrucciones |-> m.pcb.instrucciones]

pcb_deserializar(m) == [registros |-> m.pcb.registros, instrucciones |-> m.pcb.instrucciones]

\* The scheduler receives the PCB and its motive.
RecibirPcb(p) ==
  /\ vueltas # <<>> /\ Head(vueltas).pcb.pid = p
  /\ vueltas' = Tail(vueltas)
  /\ pcbs' = [pcbs EXCEPT ![p] = pcb_deserializar(Head(vueltas))]
  /\ CASE Head(vueltas).motivo = "FIN_DE_QUANTUM" -> Pasar(p, "RUNNING", "READY") /\ AReady(p)
       [] Head(vueltas).motivo = "IO" -> Pasar(p, "RUNNING", "BLOCKED") /\ UNCHANGED cREADY
       [] OTHER -> Pasar(p, "RUNNING", "EXIT") /\ UNCHANGED cREADY
  /\ UNCHANGED <<despacho, pedidosVars, cpuVars, cargaVars, memVars>>

Desbloquear(p) ==
  /\ Pasar(p, "BLOCKED", "READY") /\ AReady(p)
  /\ UNCHANGED <<pcbs, despacho, vueltas, pedidosVars, cpuVars, cargaVars, memVars>>

\* setear_timer.  One that was not cancelled, or not in time, expires when its process
\* is elsewhere; which timers are alive is not followed (Planificacion does).
VenceTimer(p) ==
  /\ estado[p] \in {"READY", "RUNNING", "BLOCKED"}
  /\ cIntr' = cIntr \cup {[motivo |-> "FIN_DE_QUANTUM", pid |-> p]}
  /\ UNCHANGED <<kernelVars, despacho, vueltas, pedidosVars, pcb, fase, cargaVars, memVars>>

\* mutant: the process that runs is taken as the others
EstaEnCpuNunca(p) == FALSE

EstaEnCpu(p) == estado[p] = "RUNNING"

\* finalizar_proceso.  A NEW process has no pointer yet: what malloc found there goes
\* to memory ("mata_cargado" assumes that none is killed).
Finalizar(p) ==
  /\ IF EstaEnCpu(p)
     THEN /\ cIntr' = cIntr \cup {[motivo |-> "INTERRUPCION", pid |-> p]}
          /\ UNCHANGED kernelVars
     ELSE /\ estado[p] \in {"READY", "RUNNING", "BLOCKED"}
                             \cup IF "mata_cargado" \in Cuidados THEN {} ELSE {"NEW"}
          /\ estado' = [estado EXCEPT ![p] = "EXIT"]
          /\ cREADY' = Sin(cREADY, p)
          /\ IF estado[p] = "NEW"
             THEN \E x \in Punteros : pcbs' = [pcbs EXCEPT ![p].instrucciones = x]
             ELSE UNCHANGED pcbs
          /\ UNCHANGED cIntr
  /\ UNCHANGED <<despacho, vueltas, pedidosVars, pcb, fase, cargaVars, memVars>>

\* carnicero: enviar_puntero on the connection PLP uses, without a lock, also between
\* the two sends of enviar_proceso.
EnviarFinalizacion(p) ==
  /\ Pasar(p, "EXIT", "FINISHED")
  /\ conexion' = Append(conexion, [op |-> FINALIZACION, arg |-> pcbs[p].instrucciones])
  /\ UNCHANGED <<pcbs, cREADY, despacho, vueltas, pedidosVars, cpuVars, punteros, memVars>>
-----------------------------------------------------------------------------
(***************************************************************************)
(* The CPU                                                                 *)
(***************************************************************************)
Pedido(op, arg) == [op |-> op, arg |-> arg]

RecibirDespacho ==
  /\ fase = "libre" /\ despacho # <<>>
  /\ pcb' = Head(despacho) /\ fase' = "fetch"
  /\ despacho' = Tail(despacho)
  /\ aMemoria' = Append(aMemoria, Pedido("PROCESO", Head(despacho).instrucciones))
  /\ UNCHANGED <<kernelVars, vueltas, deMemoria, cIntr, cargaVars, memVars>>

Fetch ==
  /\ fase = "fetch" /\ fase' = "espera"
  /\ aMemoria' = Append(aMemoria, Pedido("FETCH", pcb.registros["PC"]))
  /\ UNCHANGED <<kernelVars, despacho, vueltas, deMemoria, pcb, cIntr, cargaVars, memVars>>

\* What the instruction leaves in seVa.
SeVaDe(i) ==
  CASE i.op = "EXIT" -> "FINALIZACION"
    [] i.op = "IO" -> "IO"
    [] i.op = "DESCONOCIDA" -> "500"
    [] OTHER -> "SIGUE"

\* mutant: the end of a quantum is not looked at
SeVaTrasIntrSinQuantum(p, m) ==
  IF [motivo |-> "INTERRUPCION", pid |-> p] \in cIntr THEN "INTERRUPCION" ELSE m

SeVaTrasIntr(p, m) ==
  IF [motivo |-> "INTERRUPCION", pid |-> p] \in cIntr THEN "INTERRUPCION"
  ELSE IF m = "SIGUE" /\ [motivo |-> "FIN_DE_QUANTUM", pid |-> p] \in cIntr THEN "FIN_DE_QUANTUM"
  ELSE m

\* The rest of the cycle: decode, execute, PC++ and the drain of cIntr.  The requests
\* that memory does not answer (MENOS_PAGINA and the writes) are one.
Ejecutar ==
  /\ fase = "espera" /\ deMemoria # <<>>
  /\ LET i == Head(deMemoria)
         despues == [pcb EXCEPT !.registros = Ciclo(@, i)]
         seVa == SeVaTrasIntr(pcb.pid, SeVaDe(i))
     IN /\ pcb' = despues
        /\ aMemoria' = IF i.op = "MENOS_PAGINA" THEN Append(aMemoria, Pedido(i.op, i.n)) ELSE aMemoria
        /\ IF seVa = "SIGUE" THEN fase' = "fetch" /\ UNCHANGED vueltas
           ELSE fase' = "libre" /\ vueltas' = Append(vueltas, [pcb |-> despues, motivo |-> seVa])
  /\ deMemoria' = Tail(deMemoria)
  /\ cIntr' = {}
  /\ UNCHANGED <<kernelVars, despacho, cargaVars, memVars>>

-----------------------------------------------------------------------------
(***************************************************************************)
(* Memory: the thread of the CPU and the thread of the kernel              *)
(***************************************************************************)
Usable(x) == x \in cargados

AtenderCpu ==
  /\ caida = "no"
  /\ aMemoria # <<>> /\ aMemoria' = Tail(aMemoria)
  /\ LET pedido == Head(aMemoria) IN
       CASE pedido.op = "PROCESO" -> proceso' = pedido.arg /\ UNCHANGED <<deMemoria, caida>>
         [] pedido.op = "FETCH" ->
              /\ IF Usable(proceso) /\ pedido.arg + 1 \in DOMAIN Programa[proceso]
                 THEN /\ deMemoria' = Append(deMemoria, Programa[proceso][pedido.arg + 1])
                      /\ UNCHANGED caida
                 ELSE /\ caida' = IF Usable(proceso) THEN "sin_instruccion" ELSE "liberado"
                      /\ UNCHANGED deMemoria
              /\ UNCHANGED proceso
         [] OTHER -> /\ caida' = IF Usable(proceso) THEN "no" ELSE "liberado"
                     /\ UNCHANGED <<deMemoria, proceso>>
  /\ UNCHANGED <<kernelVars, despacho, vueltas, cpuVars, cargaVars, cargados>>

\* recibir_proceso reads the pid from whatever follows the path.  If that is a
\* FINALIZACION, the release is lost and the pid comes later.  It takes one word of it:
\* the pointer's are then read as operations that do not exist, and ignored like the
\* late pid of IgnorarPid; they leave no trace, so the message goes as a whole here.
RecibirProceso ==
  /\ caida = "no"
  /\ Len(conexion) > 1 /\ conexion[1].op = NUEVO_PROCESO
  /\ LET p == conexion[1].arg IN
       IF p \in SinArchivo THEN punteros' = Append(punteros, NULL) /\ UNCHANGED cargados
       ELSE punteros' = Append(punteros, p) /\ cargados' = cargados \cup {p}
  /\ conexion' = Tail(Tail(conexion))
  /\ UNCHANGED <<kernelVars, despacho, vueltas, pedidosVars, cpuVars, proceso, caida>>

\* A pid that comes late is taken as an operation and ignored; one that is the number
\* of an operation (2 is NUEVO_PROCESO, 12 FINALIZACION) makes memory wait for
\* arguments that are not there, and that connection is not followed any more.
IgnorarPid ==
  /\ caida = "no"
  /\ conexion # <<>> /\ Head(conexion).op = "PID" /\ Head(conexion).arg \notin {2, 12}
  /\ conexion' = Tail(conexion)
  /\ UNCHANGED <<kernelVars, despacho, vueltas, pedidosVars, cpuVars, punteros, memVars>>

\* liberar_proceso.  "sirve_antes" assumes that the CPU's thread has by then served
\* what the process asked for without waiting for an answer.
LiberarProceso ==
  /\ caida = "no"
  /\ conexion # <<>> /\ Head(conexion).op = FINALIZACION
  /\ "sirve_antes" \in Cuidados => (proceso = Head(conexion).arg => aMemoria = <<>>)
  /\ conexion' = Tail(conexion)
  /\ cargados' = cargados \ {Head(conexion).arg}
  /\ caida' = IF Head(conexion).arg \in cargados \cup {NULL} THEN "no" ELSE "liberado"
  /\ UNCHANGED <<kernelVars, despacho, vueltas, pedidosVars, cpuVars, punteros, proceso>>

-----------------------------------------------------------------------------
Kernel_(p) ==
  \/ EnviarRuta(p) \/ EnviarPid(p) \/ RecibirPuntero(p) \/ Despachar(p)
  \/ RecibirPcb(p) \/ Desbloquear(p) \/ VenceTimer(p) \/ EnviarFinalizacion(p)

ContextoNext ==
  \/ \E p \in Procesos : CrearProceso(p) \/ Finalizar(p) \/ Kernel_(p)
  \/ RecibirDespacho \/ Fetch \/ Ejecutar
  \/ AtenderCpu \/ RecibirProceso \/ IgnorarPid \/ LiberarProceso

\* The threads advance, the timer of the process that runs expires and what a process waits for arrives.
ContextoFairness ==
  /\ \A p \in Procesos :
       /\ WF_contextoVars(EnviarRuta(p)) /\ WF_contextoVars(EnviarPid(p))
       /\ WF_contextoVars(RecibirPuntero(p)) /\ WF_contextoVars(Despachar(p))
       /\ WF_contextoVars(RecibirPcb(p)) /\ WF_contextoVars(Desbloquear(p))
       /\ WF_contextoVars(estado[p] = "RUNNING" /\ VenceTimer(p))
       /\ WF_contextoVars(EnviarFinalizacion(p))
  /\ WF_contextoVars(RecibirDespacho \/ Fetch \/ Ejecutar)
  /\ WF_contextoVars(AtenderCpu)
  /\ WF_contextoVars(RecibirProceso \/ IgnorarPid \/ LiberarProceso)

ContextoSpec == ContextoInit /\ [][ContextoNext]_contextoVars /\ ContextoFairness

-----------------------------------------------------------------------------
(***************************************************************************)
(* Properties                                                              *)
(***************************************************************************)

Pcbs == [pid : Punteros, registros : Contenidos, instrucciones : Punteros]
Intrs == [motivo : {"INTERRUPCION", "FIN_DE_QUANTUM"}, pid : Procesos]
Motivos == {"FINALIZACION", "IO", "500", "INTERRUPCION", "FIN_DE_QUANTUM"}
Cargas == [op : {NUEVO_PROCESO, "PID"}, arg : Procesos] \cup [op : {FINALIZACION}, arg : Punteros]

Guardados == [registros : Contenidos, instrucciones : Punteros]
Vueltas == [pcb : Pcbs, motivo : Motivos]
Pedidos == [op : {"PROCESO"}, arg : Punteros] \cup [op : {"FETCH", "MENOS_PAGINA"}, arg : Int]

\* Types; every copy of the registers keeps each within its width.
ContextoTypeOK ==
  /\ estado \in [Procesos -> Estados]
  /\ pcbs \in [Procesos -> Guardados]
  /\ cREADY \in Seq(Procesos)
  /\ despacho \in Seq(Pcbs) /\ vueltas \in Seq(Vueltas)
  /\ cIntr \in SUBSET Intrs
  /\ aMemoria \in Seq(Pedidos) /\ deMemoria \in Seq(Instrucciones)
  /\ conexion \in Seq(Cargas) /\ punteros \in Seq(Punteros)
  /\ pcb \in Pcbs /\ fase \in {"libre", "fetch", "espera"}
  /\ cargados \in SUBSET Procesos /\ proceso \in Punteros
  /\ caida \in {"no", "liberado", "sin_instruccion"}

\* Memory never uses a struct that is not allocated: neither the CPU's requests,
\* that work on the global pointer, nor a release reach a process that was freed,
\* however kills, ends and loads interleave on its two sockets.
MemoriaEnPie == caida # "liberado"

Finales == {"FINALIZACION", "500", "INTERRUPCION"}
VueltasDe(p) == {k \in DOMAIN vueltas : vueltas[k].pcb.pid = p}

\* The copy of p's registers that counts.
RegistrosDe(p) ==
  IF fase # "libre" /\ pcb.pid = p THEN pcb.registros
  ELSE IF VueltasDe(p) # {} THEN vueltas[Max(VueltasDe(p))].pcb.registros
  ELSE pcbs[p].registros

VidaDe(p) ==
  IF estado[p] \in {"SIN_CREAR", "NEW", "RUTA", "CARGA"} THEN "nuevo"
  ELSE IF estado[p] \in {"EXIT", "FINISHED"} \/ \E k \in VueltasDe(p) : vueltas[k].motivo \in Finales
  THEN "fin" ELSE "activo"

Propia == INSTANCE Maquina WITH
            Duenios <- Procesos, Anchos <- [r \in Registros8y32 |-> Modulo(r)],
            vida <- [p \in Procesos |-> VidaDe(p)],
            registros <- [p \in Procesos |-> RegistrosDe(p)]

\* Each process runs its own instructions, in order, on its own registers: no
\* dispatch, interrupt, kill or load of another mixes or loses a context.
CumpleMaquina == Propia!Especificacion

\* And each one that is alive keeps running, although others may run for ever.
TodosAvanzan == Propia!Avance
=============================================================================
