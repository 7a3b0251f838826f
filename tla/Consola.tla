------------------------------ MODULE Consola ------------------------------
(***************************************************************************)
(* The console, which runs in the kernel's main thread: the commands that  *)
(* create and kill processes, stop and resume scheduling and change the    *)
(* degree of multiprogramming (interactuar_consola).  One command runs to  *)
(* its end before the next is read; EJECUTAR_SCRIPT is a sequence of them. *)
(***************************************************************************)
EXTENDS Planificacion

CONSTANTS
  Comandos,   \* the commands the operator types
  Grados      \* the operands of MULTIPROGRAMACION

ASSUME ConsolaAssumption == Grados \in SUBSET Nat

VARIABLES
  orden,               \* the command that is stopping the scheduling
  multiprogramacion,   \* the degree in force
  gradoNuevo           \* the degree being set while slots are awaited

consolaVars == <<orden, multiprogramacion, gradoNuevo>>

Ordenes == {"ninguna", "DETENER_PLANIFICACION", "FINALIZAR_PROCESO", "PROCESO_ESTADO"}

ConsolaTypeOK ==
  /\ orden \in Ordenes
  /\ multiprogramacion \in Nat
  /\ gradoNuevo \in Nat

ConsolaInit ==
  /\ orden = "ninguna"
  /\ multiprogramacion = Grado
  /\ gradoNuevo = Grado

Lee(comando) == pc["consola"] = "lee" /\ comando \in Comandos

\* iniciar_planificacion
Reanudar == planificacion' = "activa" /\ mBLOCKED' = "libre"

-----------------------------------------------------------------------------
\* INICIAR_PROCESO, ignored while scheduling is stopped.
CrearProceso ==
  /\ Lee("INICIAR_PROCESO")
  /\ planificacion = "activa"
  /\ idPCB <= MaxPid
  /\ estado' = [estado EXCEPT ![idPCB] = "NEW"]
  /\ cNEW' = Append(cNEW, idPCB)
  /\ idPCB' = idPCB + 1
  /\ semPLP' = semPLP + 1
  /\ UNCHANGED <<tenidos, cREADY, cREADY_PLUS, cEXIT, lBlocked, recursosVars, semPCP, semEXIT,
                 sMultiprogramacion, cerrojos, locales, caido, cpuVars, consolaVars>>

-----------------------------------------------------------------------------
(***************************************************************************)
(* Stopping and resuming                                                   *)
(***************************************************************************)

\* detener_planificacion locks mNEW, mREADY and mRUNNING...
DetenerPara(comando) ==
  /\ planificacion = "activa"
  /\ planificacion' = "deteniendo"
  /\ orden' = comando
  /\ Ir("consola", "detiene")
  /\ UNCHANGED <<procesos, colas, recursosVars, semaforos, mBLOCKED, pidRunning, rec, desbl,
                 caido, cpuVars, multiprogramacion, gradoNuevo>>

DetenerPlanificacion ==
  /\ Lee("DETENER_PLANIFICACION")
  /\ DetenerPara("DETENER_PLANIFICACION")
  /\ UNCHANGED mano

\* ...and then mBLOCKED, the resources' mutexes and mEXIT.
TomaMutexes ==
  /\ pc["consola"] = "detiene"
  /\ mBLOCKED = "libre"
  /\ mBLOCKED' = "consola"
  /\ planificacion' = "detenida"
  /\ orden' = "ninguna"
  /\ Ir("consola", CASE orden = "FINALIZAR_PROCESO" -> "busca"
                     [] orden = "PROCESO_ESTADO" -> "lista"
                     [] OTHER -> "lee")
  /\ UNCHANGED <<procesos, colas, recursosVars, semaforos, pidRunning, mano, rec, desbl, caido,
                 cpuVars, multiprogramacion, gradoNuevo>>

IniciarPlanificacion ==
  /\ Lee("INICIAR_PLANIFICACION")
  /\ planificacion = "detenida"
  /\ Reanudar
  /\ UNCHANGED <<procesos, colas, recursosVars, semaforos, pidRunning, locales, caido, cpuVars,
                 consolaVars>>

\* PROCESO_ESTADO lists the queues with scheduling stopped, and resumes it if it
\* was not stopped before.
ProcesoEstado ==
  /\ Lee("PROCESO_ESTADO")
  /\ DetenerPara("PROCESO_ESTADO")
  /\ UNCHANGED mano

ListaProcesos ==
  /\ pc["consola"] = "lista"
  /\ Reanudar
  /\ Ir("consola", "lee")
  /\ UNCHANGED <<procesos, colas, recursosVars, semaforos, pidRunning, mano, rec, desbl, caido,
                 cpuVars, consolaVars>>

-----------------------------------------------------------------------------
(***************************************************************************)
(* FINALIZAR_PROCESO                                                       *)
(***************************************************************************)

\* The running process is interrupted; pidRunning is read without mRUNNING.
InterrumpirProceso(p) ==
  /\ Lee("FINALIZAR_PROCESO")
  /\ p = pidRunning
  /\ EnviarInt("INTERRUPCION", p)
  /\ UNCHANGED <<planVars, enCpu, cIntr, dispatch, consolaVars>>

\* Any other is searched for with scheduling stopped.
FinalizarProceso(p) ==
  /\ Lee("FINALIZAR_PROCESO")
  /\ p # pidRunning
  /\ mano' = [mano EXCEPT !["consola"] = p]
  /\ \/ DetenerPara("FINALIZAR_PROCESO")
     \/ /\ planificacion = "detenida"
        /\ Ir("consola", "busca")
        /\ UNCHANGED <<procesos, colas, recursosVars, semaforos, cerrojos, rec, desbl, caido,
                       cpuVars, consolaVars>>

Victima == mano["consola"]

EnRango(p, s) == \E i \in DOMAIN s : s[i] = p

\* Some list the console searches holds p.
Listado(p) ==
  \/ EnRango(p, cNEW) \/ EnRango(p, cREADY) \/ EnRango(p, cREADY_PLUS) \/ p \in lBlocked
  \/ \E r \in Recursos : EnRango(p, cBloqueados[r])

\* list_find in one list after another.
BuscaVictima ==
  /\ pc["consola"] = "busca"
  /\ Listado(Victima)
  /\ Ir("consola", "quita")
  /\ UNCHANGED <<procesos, colas, recursosVars, semaforos, cerrojos, mano, rec, desbl, caido,
                 cpuVars, consolaVars>>

\* "No se encontro el proceso": scheduling is resumed whoever had stopped it.
NoEncuentra ==
  /\ pc["consola"] = "busca"
  /\ ~Listado(Victima)
  /\ Reanudar
  /\ IrSoltando("consola", "lee")
  /\ UNCHANGED <<procesos, colas, recursosVars, semaforos, pidRunning, rec, desbl, caido,
                 cpuVars, consolaVars>>

\* list_remove_element.  The unlocked threads may have moved p since the search.
Quitar(p) ==
  /\ cNEW' = Sin(cNEW, p)
  /\ cREADY' = Sin(cREADY, p)
  /\ cREADY_PLUS' = Sin(cREADY_PLUS, p)
  /\ lBlocked' = lBlocked \ {p}
  /\ cBloqueados' = [r \in Recursos |-> Sin(cBloqueados[r], p)]

\* The victim is neither READY nor READY_PLUS: multifuncion is freed, scheduling
\* resumed and matadero called.
QuitaVictima ==
  /\ pc["consola"] = "quita"
  /\ estado[Victima] \in {"NEW", "BLOCKED", "RUNNING"}
  /\ Quitar(Victima)
  /\ Reanudar
  /\ Matar(Victima)
  /\ Ir("consola", "exit")
  /\ UNCHANGED <<idPCB, tenidos, cEXIT, instancias, semPLP, semPCP, semEXIT, pidRunning, mano,
                 rec, desbl, caido, cpuVars, consolaVars>>

\* A process that a SIGNAL left RUNNING in a ready queue has no multifuncion any
\* more, and the second free of that block may abort; the one of a dead process
\* is a string literal, and free aborts.
QuitaVictimaYaLibre ==
  /\ pc["consola"] = "quita"
  /\ estado[Victima] \in {"RUNNING", "FINISHED", "LIBERADO"}
  /\ Caer
  /\ UNCHANGED <<cpuVars, consolaVars>>

\* A READY victim also takes a token of the short-term scheduler, which the
\* console awaits with the mutexes still locked.
QuitaVictimaReady ==
  /\ pc["consola"] = "quita"
  /\ estado[Victima] \in {"READY", "READY_PLUS"}
  /\ Quitar(Victima)
  /\ Ir("consola", "token")
  /\ UNCHANGED <<procesos, cEXIT, instancias, semaforos, cerrojos, mano, rec, desbl, caido,
                 cpuVars, consolaVars>>

EsperaToken ==
  /\ pc["consola"] = "token"
  /\ semPCP > 0
  /\ semPCP' = semPCP - 1
  /\ Reanudar
  /\ Matar(Victima)
  /\ Ir("consola", "exit")
  /\ UNCHANGED <<idPCB, tenidos, colas, recursosVars, semPLP, semEXIT, pidRunning, mano, rec,
                 desbl, caido, cpuVars, consolaVars>>

-----------------------------------------------------------------------------
(***************************************************************************)
(* MULTIPROGRAMACION                                                       *)
(***************************************************************************)
SubirGrado(g) ==
  /\ Lee("MULTIPROGRAMACION")
  /\ g > multiprogramacion
  /\ sMultiprogramacion' = sMultiprogramacion + (g - multiprogramacion)
  /\ multiprogramacion' = g
  /\ gradoNuevo' = g
  /\ UNCHANGED <<procesos, colas, recursosVars, semPLP, semPCP, semEXIT, cerrojos, locales, caido,
                 cpuVars, orden>>

BajarGrado(g) ==
  /\ Lee("MULTIPROGRAMACION")
  /\ g < multiprogramacion
  /\ gradoNuevo' = g
  /\ Ir("consola", "baja")
  /\ UNCHANGED <<procesos, colas, recursosVars, semaforos, cerrojos, mano, rec, desbl, caido,
                 cpuVars, orden, multiprogramacion>>

\* One sem_wait per slot to withdraw; multiprogramacion stands here for the
\* degree still in force, which the code assigns only at the end.
RetiraCupo ==
  /\ pc["consola"] = "baja"
  /\ sMultiprogramacion > 0
  /\ sMultiprogramacion' = sMultiprogramacion - 1
  /\ multiprogramacion' = multiprogramacion - 1
  /\ Ir("consola", IF multiprogramacion' = gradoNuevo THEN "lee" ELSE "baja")
  /\ UNCHANGED <<procesos, colas, recursosVars, semPLP, semPCP, semEXIT, cerrojos, mano, rec,
                 desbl, caido, cpuVars, orden, gradoNuevo>>

ConsolaNext ==
  \/ CrearProceso
  \/ DetenerPlanificacion \/ TomaMutexes \/ IniciarPlanificacion
  \/ ProcesoEstado \/ ListaProcesos
  \/ \E p \in Pids : InterrumpirProceso(p) \/ FinalizarProceso(p)
  \/ BuscaVictima \/ NoEncuentra \/ QuitaVictima \/ QuitaVictimaYaLibre \/ QuitaVictimaReady
  \/ EsperaToken
  \/ \E g \in Grados : SubirGrado(g) \/ BajarGrado(g)
  \/ RetiraCupo
  \/ TerminaMatadero("consola") /\ UNCHANGED <<cpuVars, consolaVars>>
=============================================================================
