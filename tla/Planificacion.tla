--------------------------- MODULE Planificacion ---------------------------
(***************************************************************************)
(* The state the threads of the kernel share (utils/src/kernel/kernel.c)   *)
(* and the operations more than one of them performs: matadero,            *)
(* liberar_recurso and the moves into the ready queues.  The threads       *)
(* themselves are in Consola, LargoPlazo, CortoPlazo and AtencionIO, which *)
(* extend this module; Kernel composes them.                               *)
(*                                                                         *)
(* Locking.  A critical section that locks a mutex, works and unlocks is   *)
(* one step.  Only three holders keep a mutex from one step to another:    *)
(* the console, which holds every mutex but mREADY_PLUS while scheduling   *)
(* is stopped; the short-term scheduler, which locks mBLOCKED for an I/O   *)
(* thread to unlock; and an I/O thread, which holds its interface's mutex  *)
(* while the interface works.  The mutexes the console holds are therefore *)
(* given by the value of planificacion, mBLOCKED has a variable of its     *)
(* own, and so have the interfaces' mutexes (mIO, in AtencionIO).          *)
(***************************************************************************)
EXTENDS Cpu, FiniteSets, SequencesExt

CONSTANTS
  Recursos,       \* RECURSOS of kernel.config
  Instancias0,    \* INSTANCIAS_RECURSOS of kernel.config
  Interfaces,     \* the names of the I/O interfaces that may connect
  Grado,          \* GRADO_MULTIPROGRAMACION of kernel.config
  Algoritmo,      \* ALGORITMO_PLANIFICACION of kernel.config
  ListasAtomicas  \* FALSE: list operations that race may lose an element

ASSUME PlanificacionAssumption ==
  /\ Instancias0 \in [Recursos -> Int]
  /\ Grado \in Nat
  /\ Algoritmo \in {"FIFO", "RR", "VRR"}
  /\ ListasAtomicas \in BOOLEAN

EsVrr == Algoritmo = "VRR"        \* planiEsVrr
ConTimerVrr == EsVrr              \* mutant: only VRR arms a timer
ConTimer == Algoritmo # "FIFO"    \* RR and VRR arm a timer per dispatch

\* The threads whose program counter is in pc.
Hilos == {"plp", "pcp", "carnicero", "consola"}

\* Program locations, named for what the thread does next.
Lugares ==
  {"espera", "toma", "toma_plus", "cupo", "ready", "exit",
   "marca", "cpu", "motivo", "io", "io_cede", "pide", "decide", "encola",
   "a_ready", "a_plus", "a_ready_sin_mutex",
   "reparte", "libera", "mira", "saca", "despierta",
   "lee", "detiene", "lista", "busca", "quita", "token", "baja"}

\* The estado field of a process: SIN_CREAR before crear_proceso, LIBERADO after
\* the carnicero freed it.
Estados == {"SIN_CREAR", "NEW", "READY", "READY_PLUS", "RUNNING", "BLOCKED",
            "FINISHED", "LIBERADO"}

NingunRecurso == "-"

VARIABLES
  idPCB,                            \* the next pid
  estado,                           \* pcb.estado of each process
  tenidos,                          \* the list recursos of each process
  cNEW, cREADY, cREADY_PLUS, cEXIT, \* the queues of processes
  lBlocked,                         \* the list of processes waiting for an interface
  cBloqueados,                      \* per resource, the queue of waiting processes
  instancias,                       \* per resource, its counter
  semPLP, semPCP, semEXIT,          \* semaphores: work for each thread
  sMultiprogramacion,               \* semaphore: free multiprogramming slots
  planificacion,                    \* "activa", "deteniendo" or "detenida"
  mBLOCKED,                         \* the holder of mBLOCKED
  pidRunning,
  pc,                               \* the program location of each thread
  mano,                             \* the local variable proceso of each thread
  rec,                              \* the resource each thread is working on
  desbl,                            \* procesoDesbloqueado of liberar_recurso
  caido                             \* the kernel process has crashed

procesos == <<idPCB, estado, tenidos>>
colas == <<cNEW, cREADY, cREADY_PLUS, cEXIT, lBlocked>>
recursosVars == <<cBloqueados, instancias>>
semaforos == <<semPLP, semPCP, semEXIT, sMultiprogramacion>>
cerrojos == <<planificacion, mBLOCKED, pidRunning>>
locales == <<pc, mano, rec, desbl>>
planVars == <<procesos, colas, recursosVars, semaforos, cerrojos, locales, caido>>

ProcesosTypeOK ==
  /\ idPCB \in 1..(MaxPid + 1)
  /\ estado \in [Pids -> Estados]
  /\ tenidos \in [Pids -> Seq(Recursos)]

ColasTypeOK ==
  /\ cNEW \in Seq(Pids)
  /\ cREADY \in Seq(Pids)
  /\ cREADY_PLUS \in Seq(Pids)
  /\ cEXIT \in Seq(Pids)
  /\ lBlocked \in SUBSET Pids

RecursosTypeOK ==
  /\ cBloqueados \in [Recursos -> Seq(Pids)]
  /\ instancias \in [Recursos -> Int]

SemaforosTypeOK ==
  /\ semPLP \in Nat
  /\ semPCP \in Nat
  /\ semEXIT \in Nat
  /\ sMultiprogramacion \in Nat

CerrojosTypeOK ==
  /\ planificacion \in {"activa", "deteniendo", "detenida"}
  /\ mBLOCKED \in {"libre", "pcp", "consola"}
  /\ pidRunning \in Pids \cup {Nadie}

LocalesTypeOK ==
  /\ pc \in [Hilos -> Lugares]
  /\ mano \in [Hilos -> Pids \cup {Nadie}]
  /\ rec \in [Hilos -> Recursos \cup {NingunRecurso}]
  /\ desbl \in [Hilos -> Pids \cup {Nadie}]

PlanificacionTypeOK ==
  /\ ProcesosTypeOK
  /\ ColasTypeOK
  /\ RecursosTypeOK
  /\ SemaforosTypeOK
  /\ CerrojosTypeOK
  /\ LocalesTypeOK
  /\ caido \in BOOLEAN

PlanificacionInit ==
  /\ idPCB = 1
  /\ estado = [p \in Pids |-> "SIN_CREAR"]
  /\ tenidos = [p \in Pids |-> <<>>]
  /\ cNEW = <<>> /\ cREADY = <<>> /\ cREADY_PLUS = <<>> /\ cEXIT = <<>>
  /\ lBlocked = {}
  /\ cBloqueados = [r \in Recursos |-> <<>>]
  /\ instancias = Instancias0
  /\ semPLP = 0 /\ semPCP = 0 /\ semEXIT = 0
  /\ sMultiprogramacion = Grado
  /\ planificacion = "activa"
  /\ mBLOCKED = "libre"
  /\ pidRunning = Nadie
  /\ pc = [h \in Hilos |-> IF h = "consola" THEN "lee" ELSE "espera"]
  /\ mano = [h \in Hilos |-> Nadie]
  /\ rec = [h \in Hilos |-> NingunRecurso]
  /\ desbl = [h \in Hilos |-> Nadie]
  /\ caido = FALSE

-----------------------------------------------------------------------------
\* Which mutexes the console leaves free.  It locks mNEW, mREADY and mRUNNING
\* first, then mBLOCKED, the resources' mutexes and mEXIT.
PrimerosLibresSiempre == TRUE   \* mutant: detener_planificacion locks nothing first
PrimerosLibres == planificacion = "activa"
UltimosLibres == planificacion # "detenida"

Muerto(p) == estado[p] \in {"FINISHED", "LIBERADO"}

\* A NULL or dangling pointer is used, or a pointer that is no heap block is
\* freed: the kernel process dies and nothing runs after it.
Caer == caido' = TRUE /\ UNCHANGED <<procesos, colas, recursosVars, semaforos, cerrojos, locales>>

\* list_remove_element on a list of distinct processes, or of resource names.
Sin(s, x) ==
  IF \E i \in DOMAIN s : s[i] = x
  THEN RemoveAt(s, CHOOSE i \in DOMAIN s : s[i] = x)
  ELSE s

Ir(h, lugar) == pc' = [pc EXCEPT ![h] = lugar]
IrSoltando(h, lugar) == Ir(h, lugar) /\ mano' = [mano EXCEPT ![h] = Nadie]

\* mutant: the slot is not given back
MatarSinCupo(p) ==
  /\ estado' = [estado EXCEPT ![p] = "FINISHED"]
  /\ UNCHANGED sMultiprogramacion

\* mutant: the slot is given back even by a process that never took one
MatarSiempre(p) ==
  /\ sMultiprogramacion' = sMultiprogramacion + 1
  /\ estado' = [estado EXCEPT ![p] = "FINISHED"]

\* The first half of matadero: the slot comes back, unless the process never
\* left NEW, and the process is FINISHED.
Matar(p) ==
  /\ sMultiprogramacion' = IF estado[p] = "NEW" THEN sMultiprogramacion
                           ELSE sMultiprogramacion + 1
  /\ estado' = [estado EXCEPT ![p] = "FINISHED"]

\* mutant: the carnicero is not told
EncolarExitSinPost(p) ==
  /\ UltimosLibres
  /\ cEXIT' = Append(cEXIT, p)
  /\ UNCHANGED semEXIT

\* The second half: the process enters cEXIT and the carnicero is told.
EncolarExit(p) ==
  /\ UltimosLibres
  /\ cEXIT' = Append(cEXIT, p)
  /\ semEXIT' = semEXIT + 1

\* A thread finishes the call of matadero it is in.
TerminaMatadero(h) ==
  /\ pc[h] = "exit"
  /\ EncolarExit(mano[h])
  /\ IrSoltando(h, IF h = "consola" THEN "lee" ELSE "espera")
  /\ UNCHANGED <<procesos, cNEW, cREADY, cREADY_PLUS, lBlocked, recursosVars, semPLP, semPCP,
                 sMultiprogramacion, cerrojos, rec, desbl, caido>>

\* mutants: the short-term scheduler is not told
AReadySinPost(p) ==
  /\ PrimerosLibres
  /\ cREADY' = Append(cREADY, p)
  /\ UNCHANGED <<semPCP, cREADY_PLUS>>

APlusSinPost(p) ==
  /\ cREADY_PLUS' = Append(cREADY_PLUS, p)
  /\ UNCHANGED <<semPCP, cREADY>>

\* queue_push and sem_post into a ready queue.
AReady(p) ==
  /\ PrimerosLibres
  /\ cREADY' = Append(cREADY, p)
  /\ semPCP' = semPCP + 1
  /\ UNCHANGED cREADY_PLUS

APlus(p) ==
  /\ cREADY_PLUS' = Append(cREADY_PLUS, p)
  /\ semPCP' = semPCP + 1
  /\ UNCHANGED cREADY

\* A process leaves BLOCKED: READY, or READY_PLUS under VRR.
EstadoAlDespertar == IF EsVrr THEN "READY_PLUS" ELSE "READY"
Despertar(p) == IF EsVrr THEN APlus(p) ELSE AReady(p)

-----------------------------------------------------------------------------
(***************************************************************************)
(* liberar_recurso, called by the short-term scheduler for a SIGNAL and by *)
(* the carnicero for every resource a dead process still holds.            *)
(***************************************************************************)

\* The caller's next location once liberar_recurso returns.
TrasLiberar(h) ==
  IF h = "carnicero" THEN "reparte" ELSE IF EsVrr THEN "a_plus" ELSE "a_ready"

\* instancias++ under the resource's mutex.
LiberaInstancia(h) ==
  /\ pc[h] = "libera"
  /\ UltimosLibres
  /\ instancias' = [instancias EXCEPT ![rec[h]] = @ + 1]
  /\ Ir(h, "mira")
  /\ UNCHANGED <<procesos, colas, cBloqueados, semaforos, cerrojos, mano, rec, desbl, caido>>

\* mutant: off by one, the last waiter is not seen
HayQuienDespertarDeMenos(r) == instancias[r] < 0 /\ cBloqueados[r] # <<>>

HayQuienDespertar(r) == instancias[r] <= 0 /\ cBloqueados[r] # <<>>

\* The counter and the queue are read again after the unlock.
MiraBloqueados(h) ==
  /\ pc[h] = "mira"
  /\ Ir(h, IF HayQuienDespertar(rec[h]) THEN "saca" ELSE TrasLiberar(h))
  /\ UNCHANGED <<procesos, colas, recursosVars, semaforos, cerrojos, mano, rec, desbl, caido>>

\* queue_pop of the first waiter, which now holds the resource.
SacaBloqueado(h) ==
  /\ pc[h] = "saca"
  /\ UltimosLibres
  /\ cBloqueados[rec[h]] # <<>>
  /\ LET p == Head(cBloqueados[rec[h]]) IN
       /\ cBloqueados' = [cBloqueados EXCEPT ![rec[h]] = Tail(@)]
       /\ tenidos' = [tenidos EXCEPT ![p] = Append(@, rec[h])]
       /\ estado' = [estado EXCEPT ![p] = EstadoAlDespertar]
       /\ desbl' = [desbl EXCEPT ![h] = p]
  /\ Ir(h, "despierta")
  /\ UNCHANGED <<idPCB, colas, instancias, semaforos, cerrojos, mano, rec, caido>>

\* Another thread emptied the queue since the check: queue_pop gives NULL.
SacaNadie(h) ==
  /\ pc[h] = "saca"
  /\ UltimosLibres
  /\ cBloqueados[rec[h]] = <<>>
  /\ Caer

DespiertaBloqueado(h) ==
  /\ pc[h] = "despierta"
  /\ Despertar(desbl[h])
  /\ desbl' = [desbl EXCEPT ![h] = Nadie]
  /\ Ir(h, TrasLiberar(h))
  /\ UNCHANGED <<procesos, cNEW, cEXIT, lBlocked, recursosVars, semPLP, semEXIT,
                 sMultiprogramacion, cerrojos, mano, rec, caido>>

LiberarRecurso(h) ==
  \/ LiberaInstancia(h)
  \/ MiraBloqueados(h)
  \/ SacaBloqueado(h)
  \/ SacaNadie(h)
  \/ DespiertaBloqueado(h)
=============================================================================
