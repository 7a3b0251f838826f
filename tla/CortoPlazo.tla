----------------------------- MODULE CortoPlazo -----------------------------
(***************************************************************************)
(* The short-term scheduler: planificadorCP_FIFO, planificadorCP_RR and    *)
(* planificadorCP_VRR, which differ in the queues they serve and in the    *)
(* timer, and the timer threads of RR and VRR.  Time is not modelled: a    *)
(* timer may expire at any step after it was armed.                        *)
(***************************************************************************)
EXTENDS AtencionIO

CONSTANT MaxTimers    \* bound: live timer threads per process

ASSUME CortoPlazoAssumption == MaxTimers \in Nat

VARIABLES
  motivo,      \* the local variable motivo, with the operand that came with it
  timers,      \* live timer threads per process
  hiloTimer    \* the handle hilo_timer still names a live thread

cortoVars == <<motivo, timers, hiloTimer>>

CortoPlazoTypeOK ==
  /\ motivo \in Pedidos
  /\ timers \in [Pids -> Nat]
  /\ hiloTimer \in BOOLEAN

CortoPlazoInit ==
  /\ motivo = Sigue
  /\ timers = [p \in Pids |-> 0]
  /\ hiloTimer = FALSE

Despachado == mano["pcp"]

-----------------------------------------------------------------------------
(***************************************************************************)
(* Dispatching                                                             *)
(***************************************************************************)

ColaElegidaReady == "toma"   \* mutant: cREADY_PLUS is not looked at
ColaElegida == IF EsVrr /\ cREADY_PLUS # <<>> THEN "toma_plus" ELSE "toma"

\* sem_wait(&semPCP), and under VRR the unlocked look at cREADY_PLUS.
EsperaListo ==
  /\ pc["pcp"] = "espera"
  /\ semPCP > 0
  /\ semPCP' = semPCP - 1
  /\ Ir("pcp", ColaElegida)
  /\ UNCHANGED <<procesos, colas, recursosVars, semPLP, semEXIT, sMultiprogramacion, cerrojos,
                 mano, rec, desbl, caido, cpuVars, ioVars, cortoVars>>

\* mutant: the process is not marked RUNNING
ElegirSinEstado(p) ==
  /\ mano' = [mano EXCEPT !["pcp"] = p]
  /\ Ir("pcp", "marca")
  /\ UNCHANGED <<procesos, cNEW, cEXIT, lBlocked, recursosVars, semaforos, cerrojos,
                 rec, desbl, caido, cpuVars, ioVars, cortoVars>>

\* The process popped is RUNNING.
Elegir(p) ==
  /\ mano' = [mano EXCEPT !["pcp"] = p]
  /\ estado' = [estado EXCEPT ![p] = "RUNNING"]
  /\ Ir("pcp", "marca")
  /\ UNCHANGED <<idPCB, tenidos, cNEW, cEXIT, lBlocked, recursosVars, semaforos, cerrojos,
                 rec, desbl, caido, cpuVars, ioVars, cortoVars>>

TomaReady ==
  /\ pc["pcp"] = "toma"
  /\ PrimerosLibres
  /\ cREADY # <<>>
  /\ cREADY' = Tail(cREADY)
  /\ Elegir(Head(cREADY))
  /\ UNCHANGED cREADY_PLUS

TomaReadyPlus ==
  /\ pc["pcp"] = "toma_plus"
  /\ cREADY_PLUS # <<>>
  /\ cREADY_PLUS' = Tail(cREADY_PLUS)
  /\ Elegir(Head(cREADY_PLUS))
  /\ UNCHANGED cREADY

\* The queue chosen is empty: queue_pop gives NULL, which is used at once.
TomaNadie ==
  /\ \/ pc["pcp"] = "toma" /\ PrimerosLibres /\ cREADY = <<>>
     \/ pc["pcp"] = "toma_plus" /\ cREADY_PLUS = <<>>
  /\ Caer
  /\ UNCHANGED <<cpuVars, ioVars, cortoVars>>

\* pidRunning, the PCB sent to the CPU and, in RR and VRR, the timer armed.
Despacha ==
  /\ pc["pcp"] = "marca"
  /\ PrimerosLibres
  /\ ConTimer => timers[Despachado] < MaxTimers
  /\ pidRunning' = Despachado
  /\ enCpu' = Despachado
  /\ timers' = IF ConTimer THEN [timers EXCEPT ![Despachado] = @ + 1] ELSE timers
  /\ hiloTimer' = ConTimer
  /\ Ir("pcp", "cpu")
  /\ UNCHANGED <<procesos, colas, recursosVars, semaforos, planificacion, mBLOCKED, mano, rec,
                 desbl, caido, canalIntr, cIntr, dispatch, ioVars, motivo>>

\* The PCB comes back with its motive, and pidRunning is cleared.
Recibe ==
  /\ pc["pcp"] = "cpu"
  /\ dispatch # <<>>
  /\ Head(dispatch).tipo = "pcb"
  /\ PrimerosLibres
  /\ motivo' = Head(dispatch).motivo
  /\ dispatch' = Tail(dispatch)
  /\ pidRunning' = Nadie
  /\ Ir("pcp", "motivo")
  /\ UNCHANGED <<procesos, colas, recursosVars, semaforos, planificacion, mBLOCKED, mano, rec,
                 desbl, caido, enCpu, canalIntr, cIntr, ioVars, timers, hiloTimer>>

-----------------------------------------------------------------------------
(***************************************************************************)
(* The timer thread                                                        *)
(***************************************************************************)

\* setear_timer after its sleep.  It reads the pid of a process that may be
\* freed by then, and sends whatever pid that memory holds.
VenceTimer(p) ==
  /\ timers[p] > 0
  /\ timers' = [timers EXCEPT ![p] = @ - 1]
  /\ \E q \in IF estado[p] = "LIBERADO" THEN Pids \cup {Nadie} ELSE {p} :
       EnviarInt("FIN_DE_QUANTUM", q)
  /\ \/ p = Despachado /\ hiloTimer /\ hiloTimer' = FALSE
     \/ ~(p = Despachado /\ hiloTimer /\ timers[p] = 1) /\ UNCHANGED hiloTimer
  /\ UNCHANGED <<planVars, ioVars, enCpu, cIntr, dispatch, motivo>>

\* pthread_cancel(hilo_timer): nothing happens if that thread has ended.
CancelarTimer ==
  /\ timers' = IF hiloTimer THEN [timers EXCEPT ![Despachado] = @ - 1] ELSE timers
  /\ hiloTimer' = FALSE

\* A motive that does not cancel the timer leaves it running with no handle.
DejarTimer == hiloTimer' = FALSE /\ UNCHANGED timers

-----------------------------------------------------------------------------
(***************************************************************************)
(* The switch on the motive                                                *)
(***************************************************************************)
EsRecurso(m) == m.arg \in Recursos

\* The motives that end the process, and a WAIT or SIGNAL of an unknown resource.
EsFinal(m) ==
  \/ m.op \in {"FINALIZACION", "INTERRUPCION", "OOM", "OTRO"}
  \/ m.op \in {"PEDIRRECURSO", "DARRECURSO"} /\ ~EsRecurso(m)

\* matadero; the default case of the switch is the one that cancels no timer.
VuelveParaMorir ==
  /\ pc["pcp"] = "motivo"
  /\ EsFinal(motivo)
  /\ IF motivo.op = "OTRO" THEN DejarTimer ELSE CancelarTimer
  /\ Matar(Despachado)
  /\ Ir("pcp", "exit")
  /\ UNCHANGED <<idPCB, tenidos, colas, recursosVars, semPLP, semPCP, semEXIT, cerrojos, mano,
                 rec, desbl, caido, cpuVars, ioVars, motivo>>

VuelvePorIO ==
  /\ pc["pcp"] = "motivo"
  /\ motivo.op \in {"IO", "IO_VECTOR"}
  /\ CancelarTimer
  /\ estado' = [estado EXCEPT ![Despachado] = "BLOCKED"]
  /\ Ir("pcp", "io")
  /\ UNCHANGED <<idPCB, tenidos, colas, recursosVars, semaforos, cerrojos, mano, rec, desbl,
                 caido, cpuVars, ioVars, motivo>>

VuelvePorPedido ==
  /\ pc["pcp"] = "motivo"
  /\ motivo.op = "PEDIRRECURSO" /\ EsRecurso(motivo)
  /\ CancelarTimer
  /\ rec' = [rec EXCEPT !["pcp"] = motivo.arg]
  /\ Ir("pcp", "pide")
  /\ UNCHANGED <<procesos, colas, recursosVars, semaforos, cerrojos, mano, desbl, caido,
                 cpuVars, ioVars, motivo>>

\* mutant: the list keeps the resource
RecursosQueLeQuedanTodos(p, r) == tenidos[p]
RecursosQueLeQuedan(p, r) == Sin(tenidos[p], r)

\* The estado of the process stays RUNNING.
VuelvePorDevolucion ==
  /\ pc["pcp"] = "motivo"
  /\ motivo.op = "DARRECURSO" /\ EsRecurso(motivo)
  /\ CancelarTimer
  /\ tenidos' = [tenidos EXCEPT ![Despachado] = RecursosQueLeQuedan(Despachado, motivo.arg)]
  /\ rec' = [rec EXCEPT !["pcp"] = motivo.arg]
  /\ Ir("pcp", "libera")
  /\ UNCHANGED <<idPCB, estado, colas, recursosVars, semaforos, cerrojos, mano, desbl, caido,
                 cpuVars, ioVars, motivo>>

VuelvePorQuantum ==
  /\ pc["pcp"] = "motivo"
  /\ motivo.op = "FIN_DE_QUANTUM"
  /\ DejarTimer
  /\ estado' = [estado EXCEPT ![Despachado] = "READY"]
  /\ Ir("pcp", "a_ready")
  /\ UNCHANGED <<idPCB, tenidos, colas, recursosVars, semaforos, cerrojos, mano, rec, desbl,
                 caido, cpuVars, ioVars, motivo>>

-----------------------------------------------------------------------------
(***************************************************************************)
(* An I/O request: mBLOCKED is locked here and unlocked by the I/O thread, *)
(* and the scheduler waits for that before it goes on.                     *)
(***************************************************************************)
CreaHiloIO ==
  /\ pc["pcp"] = "io"
  /\ mBLOCKED = "libre"
  /\ mBLOCKED' = "pcp"
  /\ \/ lBlocked' = lBlocked \cup {Despachado}
     \/ ~ListasAtomicas /\ (\E q \in Pids : pcIO[q] \in {"mutex", "repone"}) /\ UNCHANGED lBlocked
  /\ IrIO(Despachado, "vector")
  /\ pedido' = [pedido EXCEPT ![Despachado] = motivo]
  /\ Ir("pcp", "io_cede")
  /\ UNCHANGED <<procesos, cNEW, cREADY, cREADY_PLUS, cEXIT, recursosVars, semaforos,
                 planificacion, pidRunning, mano, rec, desbl, caido, cpuVars, conexion, mIO,
                 cortoVars>>

VectorRecibidoSiempre == TRUE   \* mutant: the scheduler does not wait
VectorRecibido == mBLOCKED = "libre"

EsperaVector ==
  /\ pc["pcp"] = "io_cede"
  /\ VectorRecibido
  /\ IrSoltando("pcp", "espera")
  /\ UNCHANGED <<procesos, colas, recursosVars, semaforos, cerrojos, rec, desbl, caido, cpuVars,
                 ioVars, cortoVars>>

-----------------------------------------------------------------------------
(***************************************************************************)
(* pedir_recurso                                                           *)
(***************************************************************************)
DescuentaInstancia ==
  /\ pc["pcp"] = "pide"
  /\ UltimosLibres
  /\ instancias' = [instancias EXCEPT ![rec["pcp"]] = @ - 1]
  /\ Ir("pcp", "decide")
  /\ UNCHANGED <<procesos, colas, cBloqueados, semaforos, cerrojos, mano, rec, desbl, caido,
                 cpuVars, ioVars, cortoVars>>

AlcanzaDeMas(r) == instancias[r] >= -1   \* mutant: off by one
Alcanza(r) == instancias[r] >= 0

\* The counter is read again after the unlock; below zero the process waits.
DecideBloquear ==
  /\ pc["pcp"] = "decide"
  /\ ~Alcanza(rec["pcp"])
  /\ estado' = [estado EXCEPT ![Despachado] = "BLOCKED"]
  /\ Ir("pcp", "encola")
  /\ UNCHANGED <<idPCB, tenidos, colas, recursosVars, semaforos, cerrojos, mano, rec, desbl,
                 caido, cpuVars, ioVars, cortoVars>>

\* Otherwise it gets the resource; under VRR it is READY_PLUS, but the push that
\* follows is to cREADY, under mREADY_PLUS.
DecideOtorgar ==
  /\ pc["pcp"] = "decide"
  /\ Alcanza(rec["pcp"])
  /\ tenidos' = [tenidos EXCEPT ![Despachado] = Append(@, rec["pcp"])]
  /\ estado' = [estado EXCEPT ![Despachado] = EstadoAlDespertar]
  /\ Ir("pcp", IF EsVrr THEN "a_ready_sin_mutex" ELSE "a_ready")
  /\ UNCHANGED <<idPCB, colas, recursosVars, semaforos, cerrojos, mano, rec, desbl, caido,
                 cpuVars, ioVars, cortoVars>>

EncolaBloqueado ==
  /\ pc["pcp"] = "encola"
  /\ UltimosLibres
  /\ cBloqueados' = [cBloqueados EXCEPT ![rec["pcp"]] = Append(@, Despachado)]
  /\ IrSoltando("pcp", "espera")
  /\ rec' = [rec EXCEPT !["pcp"] = NingunRecurso]
  /\ UNCHANGED <<procesos, colas, instancias, semaforos, cerrojos, desbl, caido, cpuVars, ioVars,
                 cortoVars>>

-----------------------------------------------------------------------------
(***************************************************************************)
(* The process in hand goes back to a ready queue.                         *)
(***************************************************************************)
Reingreso ==
  /\ IrSoltando("pcp", "espera")
  /\ rec' = [rec EXCEPT !["pcp"] = NingunRecurso]
  /\ UNCHANGED <<procesos, cNEW, cEXIT, lBlocked, recursosVars, semPLP, semEXIT,
                 sMultiprogramacion, cerrojos, desbl, caido, cpuVars, ioVars, cortoVars>>

ReingresaReady == pc["pcp"] = "a_ready" /\ AReady(Despachado) /\ Reingreso

ReingresaPlus == pc["pcp"] = "a_plus" /\ APlus(Despachado) /\ Reingreso

\* queue_push(cREADY) under mREADY_PLUS, which nobody else locks for cREADY.
ReingresaSinMutex ==
  /\ pc["pcp"] = "a_ready_sin_mutex"
  /\ cREADY' = Append(cREADY, Despachado)
  /\ semPCP' = semPCP + 1
  /\ UNCHANGED cREADY_PLUS
  /\ Reingreso

\* The same push while another thread is at an operation on cREADY: the element
\* is lost, its token is not.
ReingresaPerdido ==
  /\ ~ListasAtomicas
  /\ pc["pcp"] = "a_ready_sin_mutex"
  /\ pc["plp"] = "ready" \/ pc["consola"] = "quita"
  /\ semPCP' = semPCP + 1
  /\ UNCHANGED <<cREADY, cREADY_PLUS>>
  /\ Reingreso

-----------------------------------------------------------------------------
PCP ==
  \/ EsperaListo \/ TomaReady \/ TomaReadyPlus \/ TomaNadie \/ Despacha \/ Recibe
  \/ VuelveParaMorir \/ VuelvePorIO \/ VuelvePorPedido \/ VuelvePorDevolucion \/ VuelvePorQuantum
  \/ CreaHiloIO \/ EsperaVector
  \/ DescuentaInstancia \/ DecideBloquear \/ DecideOtorgar \/ EncolaBloqueado
  \/ ReingresaReady \/ ReingresaPlus \/ ReingresaSinMutex \/ ReingresaPerdido
  \/ (TerminaMatadero("pcp") \/ LiberarRecurso("pcp")) /\ UNCHANGED <<cpuVars, ioVars, cortoVars>>
=============================================================================
