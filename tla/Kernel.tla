------------------------------- MODULE Kernel -------------------------------
(***************************************************************************)
(* The kernel with the CPU it schedules: the console, the long-term        *)
(* scheduler, the short-term scheduler with its timers, the carnicero and  *)
(* one thread per I/O request, interleaved.                                *)
(***************************************************************************)
EXTENDS LargoPlazo, CortoPlazo, Consola

CONSTANTS
  Disciplina,     \* what the programs are assumed to respect
  MaxInstancias   \* bound: the counter a SIGNAL may reach

\* "senal": a program signals only what it holds.  "salida": it ends, or asks for
\* I/O, which may end it, only holding nothing.
ASSUME KernelAssumption ==
  /\ Disciplina \in SUBSET {"senal", "salida"}
  /\ MaxInstancias \in Int

vars == <<cpuVars, planVars, ioVars, cortoVars, consolaVars>>

TypeOK ==
  /\ CpuTypeOK
  /\ PlanificacionTypeOK
  /\ AtencionIOTypeOK
  /\ CortoPlazoTypeOK
  /\ ConsolaTypeOK

Init ==
  /\ CpuInit
  /\ PlanificacionInit
  /\ AtencionIOInit
  /\ CortoPlazoInit
  /\ ConsolaInit

\* The instructions the running program may execute next.
Programa(m) ==
  /\ m.op = "DARRECURSO" /\ m.arg \in Recursos =>
       /\ instancias[m.arg] < MaxInstancias
       /\ "senal" \in Disciplina => \E i \in DOMAIN tenidos[enCpu] : tenidos[enCpu][i] = m.arg
  /\ (EsFinal(m) \/ m.op \in {"IO", "IO_VECTOR"}) /\ "salida" \in Disciplina =>
       tenidos[enCpu] = <<>>

CPU ==
  \/ CicloSigue
  \/ \E m \in Motivos \cup {Sigue} : enCpu # Nadie /\ Programa(m) /\ CicloVuelve(m)

\* The steps of each thread.  Nothing runs once the kernel has crashed.
PasoConsola == ~caido /\ ConsolaNext /\ UNCHANGED <<ioVars, cortoVars>>
PasoPLP == ~caido /\ PLP /\ UNCHANGED <<cpuVars, ioVars, cortoVars, consolaVars>>
PasoCarnicero == ~caido /\ Carnicero /\ UNCHANGED <<cpuVars, ioVars, cortoVars, consolaVars>>
PasoPCP == ~caido /\ PCP /\ UNCHANGED consolaVars
PasoTimer(p) == ~caido /\ VenceTimer(p) /\ UNCHANGED consolaVars
PasoIO(p) == ~caido /\ AtenderSolicitudIO(p) /\ UNCHANGED <<cortoVars, consolaVars>>
PasoConexion(i) == ~caido /\ ConectarIO(i) /\ UNCHANGED <<cortoVars, consolaVars>>
PasoCPU == ~caido /\ CPU /\ UNCHANGED <<planVars, ioVars, cortoVars, consolaVars>>
PasoInterrupciones ==
  ~caido /\ RecibirInterrupcion /\ UNCHANGED <<planVars, ioVars, cortoVars, consolaVars>>

Next ==
  \/ PasoConsola \/ PasoPLP \/ PasoCarnicero \/ PasoPCP \/ PasoCPU \/ PasoInterrupciones
  \/ \E p \in Pids : PasoTimer(p) \/ PasoIO(p)
  \/ \E i \in Interfaces : PasoConexion(i)

Spec == Init /\ [][Next]_vars

\* Every thread keeps running, and the CPU ends every cycle that finds an interrupt.
\* A program may go on for ever, and the operator need not type anything.
Equidad ==
  /\ WF_vars(PasoPLP)
  /\ WF_vars(PasoCarnicero)
  /\ WF_vars(PasoPCP)
  /\ WF_vars(PasoCPU /\ cIntr # {})
  /\ WF_vars(PasoInterrupciones)
  /\ \A p \in Pids : WF_vars(PasoTimer(p)) /\ WF_vars(PasoIO(p))

SpecJusta == Spec /\ Equidad

-----------------------------------------------------------------------------
(***************************************************************************)
(* Safety                                                                  *)
(***************************************************************************)

\* The scheduler and the I/O thread share the dispatch socket: when either is
\* about to read it, what comes next is what it expects (kernel.c:396, 854).
LecturaEnOrden ==
  /\ pc["pcp"] = "cpu" /\ dispatch # <<>> => Head(dispatch).tipo = "pcb"
  /\ \A p \in Pids : pcIO[p] = "vector" /\ pedido[p].op = "IO_VECTOR" =>
       dispatch # <<>> /\ Head(dispatch) = [tipo |-> "vector", pid |-> p]

\* An interface works for one process at a time.
AtencionSecuencial ==
  \A p, q \in Pids :
    p # q /\ {pcIO[p], pcIO[q]} \subseteq {"repone", "dispositivo"} =>
      pedido[p].arg # pedido[q].arg

Uno(condicion) == IF condicion THEN 1 ELSE 0

\* The places a process can be at: the queues, the list of those that wait for an
\* interface and the local variables of the threads.
Sitios ==
  ({"cNEW", "cREADY", "cREADY_PLUS", "cEXIT"} \X {"-"}) \cup ({"cBloqueados"} \X Recursos)
    \cup ({"lBlocked", "io"} \X Pids) \cup ({"mano", "desbl"} \X Hilos)

\* The thread has in hand a process that it took out of every list.
ConAlguien(h) ==
  /\ mano[h] # Nadie
  /\ h = "consola" => pc[h] \in {"token", "exit"}
  /\ pc[h] # "io_cede"

Si(condicion, p) == IF condicion THEN <<p>> ELSE <<>>

\* The processes at one place.
En(sitio) ==
  LET de == sitio[2] IN
    CASE sitio[1] = "cNEW"        -> cNEW
      [] sitio[1] = "cREADY"      -> cREADY
      [] sitio[1] = "cREADY_PLUS" -> cREADY_PLUS
      [] sitio[1] = "cEXIT"       -> cEXIT
      [] sitio[1] = "cBloqueados" -> cBloqueados[de]
      [] sitio[1] = "lBlocked"    -> Si(de \in lBlocked, de)
      [] sitio[1] = "io"    -> Si(pcIO[de] \in {"repone", "despierta", "exit", "exit_cae"}, de)
      [] sitio[1] = "mano"  -> Si(ConAlguien(de), mano[de])
      [] sitio[1] = "desbl" -> Si(desbl[de] # Nadie, desbl[de])

\* Where p is: a place and a position in it.
DondeEsta(p) ==
  UNION {{<<sitio, i>> : i \in {k \in DOMAIN En(sitio) : En(sitio)[k] = p}} : sitio \in Sitios}

\* A live process is in exactly one queue, list or thread's hand: none is lost,
\* none is scheduled twice (every queue_pop, queue_push and list_remove).
UnSoloLugar ==
  \A p \in Pids : estado[p] \notin {"SIN_CREAR", "LIBERADO"} => Cardinality(DondeEsta(p)) = 1

\* Every process in a ready queue has one token of semPCP, posted or already
\* taken by the scheduler that is about to pop it.
TokensPCP ==
  semPCP + Uno(pc["pcp"] \in {"toma", "toma_plus"})
    = Len(cREADY) + Len(cREADY_PLUS) + Uno(pc["consola"] = "token")

\* No thread uses a NULL or dangling pointer.
SinCaida == ~caido

\* The admitted processes and the free slots add up to the degree in force.
CuposMultiprogramacion ==
  sMultiprogramacion
    + Cardinality({p \in Pids : estado[p] \in {"READY", "READY_PLUS", "RUNNING", "BLOCKED"}})
    = multiprogramacion

\* Who holds r, and where in the list recursos: one element per instance held.
Tenencias(r) ==
  UNION {{<<p, i>> : i \in {k \in DOMAIN tenidos[p] : tenidos[p][k] = r}} : p \in Pids}

\* The threads that are asking for an instance of r, or giving one back.
Tramitan(r) == {h \in Hilos : rec[h] = r /\ pc[h] \in {"decide", "encola", "libera"}}

\* The instances of r that processes hold, wait for, or are asking for or giving
\* back at this moment.
Comprometidas(r) ==
  Cardinality(Tenencias(r)) + Len(cBloqueados[r]) + Cardinality(Tramitan(r))

\* The counter of a resource is what is left of its instances, whoever asks for
\* them or gives them back in between (pedir_recurso, liberar_recurso, carnicero).
InstanciasConservadas ==
  \A r \in Recursos : instancias[r] = Instancias0[r] - Comprometidas(r)

\* No more processes hold a resource than it has instances.
RecursosExclusivos == \A r \in Recursos : Cardinality(Tenencias(r)) <= Instancias0[r]

\* While nobody is inside pedir_recurso or liberar_recurso for r, a process waits
\* for r only if no instance is left: there are as many waiters as the counter is
\* below zero.
EsperaJustificada ==
  \A r \in Recursos :
    (\A h \in Hilos : rec[h] # r) /\ cBloqueados[r] # <<>> =>
      Len(cBloqueados[r]) = -instancias[r]

-----------------------------------------------------------------------------
(***************************************************************************)
(* Action properties                                                       *)
(***************************************************************************)

\* While the console keeps scheduling stopped, no other thread moves a process
\* of the queues it locked, nor a resource's counter, nor pidRunning.
DetenidaCongela ==
  [][ planificacion = "detenida" /\ planificacion' = "detenida"
        /\ pc'["consola"] = pc["consola"]
      => UNCHANGED <<cNEW, cREADY, cEXIT, cBloqueados, instancias, pidRunning>> ]_vars

\* A process that was killed or ended never gets another state.
MuertoNoRevive == [][ \A p \in Pids : Muerto(p) => Muerto(p)' ]_vars

-----------------------------------------------------------------------------
(***************************************************************************)
(* Liveness                                                                *)
(***************************************************************************)

\* A process that becomes READY gets the CPU, even if others never give it up.
TurnoDeTodos == \A p \in Pids : estado[p] = "READY" ~> estado[p] = "RUNNING"

\* A process that ends is freed, whatever the others do.
FinalizadoSeLibera == \A p \in Pids : estado[p] = "FINISHED" ~> estado[p] = "LIBERADO"

-----------------------------------------------------------------------------
(***************************************************************************)
(* Refinement                                                              *)
(***************************************************************************)

\* Where a process stands in the lifecycle.  A process in the scheduler's hand
\* whose estado is RUNNING is on the CPU; one that a SIGNAL put in a ready queue
\* is READY there although its estado still says RUNNING.
Vida(p) ==
  CASE estado[p] \in {"SIN_CREAR", "NEW", "BLOCKED"} -> estado[p]
    [] estado[p] \in {"READY", "READY_PLUS"} -> "READY"
    [] estado[p] = "RUNNING" -> IF Despachado = p THEN "EXEC" ELSE "READY"
    [] OTHER -> "EXIT"

Ciclo == INSTANCE CicloDeVida WITH
           Procesos <- Pids, Cupo <- Max(Grados \cup {Grado}), vida <- [p \in Pids |-> Vida(p)]

\* The kernel implements the lifecycle.
CumpleCicloDeVida == Ciclo!Especificacion
=============================================================================
