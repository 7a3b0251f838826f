----------------------------- MODULE LargoPlazo -----------------------------
(***************************************************************************)
(* The long-term scheduler (PLP), which admits processes from NEW to READY *)
(* while there are multiprogramming slots, and the carnicero, which frees  *)
(* the processes of EXIT and the resources they hold.                      *)
(***************************************************************************)
EXTENDS Planificacion

CONSTANT SinArchivo    \* the processes whose file the memory cannot open

ASSUME LargoPlazoAssumption == SinArchivo \in SUBSET Pids

HayNuevoSiempre == TRUE   \* mutant: the PLP does not wait
HayNuevo == semPLP > 0

\* sem_wait(&semPLP)
EsperaNuevo ==
  /\ pc["plp"] = "espera"
  /\ HayNuevo
  /\ semPLP' = semPLP - 1
  /\ Ir("plp", "toma")
  /\ UNCHANGED <<procesos, colas, recursosVars, semPCP, semEXIT, sMultiprogramacion, cerrojos,
                 mano, rec, desbl, caido>>

\* mutant: the process is read but not taken out of cNEW
NuevosQueQuedanTodos == cNEW

NuevosQueQuedan == IF cNEW = <<>> THEN <<>> ELSE Tail(cNEW)

\* queue_pop(cNEW) under mNEW; a NULL is kept, and used only after the next wait.
TomaNuevo ==
  /\ pc["plp"] = "toma"
  /\ PrimerosLibres
  /\ mano' = [mano EXCEPT !["plp"] = IF cNEW = <<>> THEN Nadie ELSE Head(cNEW)]
  /\ cNEW' = NuevosQueQuedan
  /\ Ir("plp", "cupo")
  /\ UNCHANGED <<procesos, cREADY, cREADY_PLUS, cEXIT, lBlocked, recursosVars, semaforos, cerrojos,
                 rec, desbl, caido>>

\* mutant: no slot is awaited
EsperaCupoSinEsperar == pc["plp"] = "cupo"

\* sem_wait(&sMultiprogramacion)
EsperaCupo ==
  /\ pc["plp"] = "cupo"
  /\ sMultiprogramacion > 0

\* The memory loaded the process, which becomes READY.
Admite ==
  /\ EsperaCupo
  /\ mano["plp"] \in Pids \ SinArchivo
  /\ sMultiprogramacion' = sMultiprogramacion - 1
  /\ estado' = [estado EXCEPT ![mano["plp"]] = "READY"]
  /\ Ir("plp", "ready")
  /\ UNCHANGED <<idPCB, tenidos, colas, recursosVars, semPLP, semPCP, semEXIT, cerrojos,
                 mano, rec, desbl, caido>>

\* The memory could not open the file: matadero of a process that is still NEW,
\* so the slot just taken is not given back.
Rechaza ==
  /\ EsperaCupo
  /\ mano["plp"] \in SinArchivo
  /\ sMultiprogramacion' = sMultiprogramacion - 1
  /\ estado' = [estado EXCEPT ![mano["plp"]] = "FINISHED"]
  /\ Ir("plp", "exit")
  /\ UNCHANGED <<idPCB, tenidos, colas, recursosVars, semPLP, semPCP, semEXIT, cerrojos,
                 mano, rec, desbl, caido>>

\* The NULL that TomaNuevo kept is used.
AdmiteNadie ==
  /\ EsperaCupo
  /\ mano["plp"] = Nadie
  /\ Caer

\* queue_push(cREADY) under mREADY.
IngresaReady ==
  /\ pc["plp"] = "ready"
  /\ AReady(mano["plp"])
  /\ IrSoltando("plp", "espera")
  /\ UNCHANGED <<procesos, cNEW, cEXIT, lBlocked, recursosVars, semPLP, semEXIT,
                 sMultiprogramacion, cerrojos, rec, desbl, caido>>

\* The same push while the short-term scheduler pushes to cREADY without mREADY
\* (pedir_recurso under VRR): the element is lost, its token is not.
IngresaReadyPerdido ==
  /\ ~ListasAtomicas
  /\ pc["plp"] = "ready"
  /\ pc["pcp"] = "a_ready_sin_mutex"
  /\ PrimerosLibres
  /\ semPCP' = semPCP + 1
  /\ IrSoltando("plp", "espera")
  /\ UNCHANGED <<procesos, colas, recursosVars, semPLP, semEXIT, sMultiprogramacion, cerrojos,
                 rec, desbl, caido>>

PLP ==
  \/ EsperaNuevo \/ TomaNuevo \/ Admite \/ Rechaza \/ AdmiteNadie
  \/ IngresaReady \/ IngresaReadyPerdido \/ TerminaMatadero("plp")

-----------------------------------------------------------------------------
\* sem_wait(&semEXIT)
EsperaFinalizado ==
  /\ pc["carnicero"] = "espera"
  /\ semEXIT > 0
  /\ semEXIT' = semEXIT - 1
  /\ Ir("carnicero", "toma")
  /\ UNCHANGED <<procesos, colas, recursosVars, semPLP, semPCP, sMultiprogramacion, cerrojos,
                 mano, rec, desbl, caido>>

\* queue_pop(cEXIT) under mEXIT; the memory is told to free the process.
TomaFinalizado ==
  /\ pc["carnicero"] = "toma"
  /\ UltimosLibres
  /\ mano' = [mano EXCEPT !["carnicero"] = Head(cEXIT)]
  /\ cEXIT' = Tail(cEXIT)
  /\ Ir("carnicero", "reparte")
  /\ UNCHANGED <<procesos, cNEW, cREADY, cREADY_PLUS, lBlocked, recursosVars, semaforos, cerrojos,
                 rec, desbl, caido>>

\* The next element of the list recursos; the list is not used again, so its
\* head stands for the loop's index.
SueltaRecurso ==
  /\ pc["carnicero"] = "reparte"
  /\ LET p == mano["carnicero"] IN
       /\ tenidos[p] # <<>>
       /\ rec' = [rec EXCEPT !["carnicero"] = Head(tenidos[p])]
       /\ tenidos' = [tenidos EXCEPT ![p] = Tail(@)]
  /\ Ir("carnicero", "libera")
  /\ UNCHANGED <<idPCB, estado, colas, recursosVars, semaforos, cerrojos, mano, desbl, caido>>

\* free(proceso)
LiberaProceso ==
  /\ pc["carnicero"] = "reparte"
  /\ tenidos[mano["carnicero"]] = <<>>
  /\ estado' = [estado EXCEPT ![mano["carnicero"]] = "LIBERADO"]
  /\ rec' = [rec EXCEPT !["carnicero"] = NingunRecurso]
  /\ IrSoltando("carnicero", "espera")
  /\ UNCHANGED <<idPCB, tenidos, colas, recursosVars, semaforos, cerrojos, desbl, caido>>

Carnicero ==
  \/ EsperaFinalizado \/ TomaFinalizado \/ SueltaRecurso \/ LiberaProceso
  \/ LiberarRecurso("carnicero")
=============================================================================
