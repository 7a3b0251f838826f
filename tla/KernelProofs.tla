---------------------------- MODULE KernelProofs ----------------------------
(***************************************************************************)
(* Theorems about Kernel, for every value of its constants.  IInv of       *)
(* KernelInv is inductive; it implies TypeOK and LecturaEnOrden.  Its two  *)
(* halves are proved one after the other: first that every step keeps the  *)
(* types (ITipo), with one lemma per thread and one step per action, then  *)
(* that it keeps the dispatch socket in order, which only the scheduler,   *)
(* the CPU and the I/O thread the scheduler waits for can disturb.         *)
(***************************************************************************)
EXTENDS KernelInv, TLAPS

-----------------------------------------------------------------------------
(***************************************************************************)
(* Queues, lists and timers                                                *)
(***************************************************************************)

\* What queue_push leaves.
LEMMA Agregado ==
  ASSUME NEW S, NEW s \in Seq(S), NEW x \in S
  PROVE  Append(s, x) \in Seq(S) /\ Len(Append(s, x)) = Len(s) + 1
  OBVIOUS

\* What queue_pop takes and what it leaves.
LEMMA Cola ==
  ASSUME NEW S, NEW s \in Seq(S), s # <<>>
  PROVE  Head(s) \in S /\ Tail(s) \in Seq(S) /\ Len(Tail(s)) = Len(s) - 1
  OBVIOUS

\* A push into a ready queue keeps its type and that of its semaphore.
LEMMA TipoDespertar ==
  ASSUME NEW p \in Pids, ColasTypeOK, SemaforosTypeOK, Despertar(p)
  PROVE  cREADY' \in Seq(Pids) /\ cREADY_PLUS' \in Seq(Pids) /\ semPCP' \in Nat
<1>1. CASE APlus(p)
  BY <1>1 DEF APlus, ColasTypeOK, SemaforosTypeOK
<1>2. CASE AReady(p)
  BY <1>2 DEF AReady, ColasTypeOK, SemaforosTypeOK
<1> QED  BY <1>1, <1>2 DEF Despertar

\* Cancelling the timer never takes its count below zero.
LEMMA TipoCancelar ==
  ASSUME CortoPlazoTypeOK, LocalesTypeOK, LocalesEnUso, TimerVivo, pc["pcp"] = "motivo",
         CancelarTimer
  PROVE  timers' \in [Pids -> Nat] /\ hiloTimer' = FALSE
  BY DEF CortoPlazoTypeOK, LocalesEnUso, TimerVivo, CancelarTimer, Despachado

\* list_remove_element leaves a list of the same kind.
LEMMA TipoSin ==
  ASSUME NEW S, NEW s \in Seq(S), NEW x
  PROVE  Sin(s, x) \in Seq(S)
<1>1. CASE \E i \in DOMAIN s : s[i] = x
  <2> DEFINE k == CHOOSE i \in DOMAIN s : s[i] = x
  <2>1. k \in 1..Len(s)
    BY <1>1
  <2> HIDE DEF k
  <2>2. SubSeq(s, 1, k - 1) \in Seq(S) /\ SubSeq(s, k + 1, Len(s)) \in Seq(S)
    BY <2>1
  <2>3. RemoveAt(s, k) \in Seq(S)
    BY <2>2 DEF RemoveAt
  <2> QED  BY <1>1, <2>3 DEF Sin, k
<1>2. CASE ~ \E i \in DOMAIN s : s[i] = x
  BY <1>2 DEF Sin
<1> QED  BY <1>1, <1>2

\* So do the removals of the console from every list.
LEMMA TipoQuitar ==
  ASSUME ColasTypeOK, RecursosTypeOK, NEW p, Quitar(p)
  PROVE  /\ cNEW' \in Seq(Pids) /\ cREADY' \in Seq(Pids) /\ cREADY_PLUS' \in Seq(Pids)
         /\ lBlocked' \in SUBSET Pids
         /\ cBloqueados' \in [Recursos -> Seq(Pids)]
<1>1. /\ Sin(cNEW, p) \in Seq(Pids)
      /\ Sin(cREADY, p) \in Seq(Pids)
      /\ Sin(cREADY_PLUS, p) \in Seq(Pids)
  BY TipoSin DEF ColasTypeOK
<1>2. \A r \in Recursos : Sin(cBloqueados[r], p) \in Seq(Pids)
  BY TipoSin DEF RecursosTypeOK
<1> QED  BY <1>1, <1>2 DEF Quitar, ColasTypeOK

-----------------------------------------------------------------------------
(***************************************************************************)
(* Types                                                                   *)
(***************************************************************************)

\* The initial states satisfy the invariant of types.
LEMMA TipoInit == Init => ITipo
<1> SUFFICES ASSUME Init PROVE ITipo
  OBVIOUS
<1> USE DEF Init
<1>1. CpuTypeOK
  BY DEF CpuInit, CpuTypeOK
<1>2. PlanificacionTypeOK
  <2>1. ProcesosTypeOK /\ ColasTypeOK
    BY CpuAssumption DEF PlanificacionInit, ProcesosTypeOK, ColasTypeOK, Estados
  <2>2. RecursosTypeOK
    BY PlanificacionAssumption DEF PlanificacionInit, RecursosTypeOK
  <2>3. SemaforosTypeOK /\ CerrojosTypeOK /\ caido \in BOOLEAN
    BY PlanificacionAssumption DEF PlanificacionInit, SemaforosTypeOK, CerrojosTypeOK
  <2>4. LocalesTypeOK
    BY DEF PlanificacionInit, LocalesTypeOK, Hilos, Lugares
  <2> QED  BY <2>1, <2>2, <2>3, <2>4 DEF PlanificacionTypeOK
<1>3. AtencionIOTypeOK
  BY DEF AtencionIOInit, AtencionIOTypeOK, LugaresIO, Pedidos
<1>4. CortoPlazoTypeOK
  BY DEF CortoPlazoInit, CortoPlazoTypeOK, Pedidos
<1>5. ConsolaTypeOK
  BY PlanificacionAssumption DEF ConsolaInit, ConsolaTypeOK, Ordenes
<1>6. LocalesEnUso /\ Recorridos /\ TokensEXIT
  BY DEF PlanificacionInit, LocalesEnUso, Recorridos, TokensEXIT, Hilos, Lugares
<1>7. BajaPendiente /\ TimerVivo
  BY DEF PlanificacionInit, CortoPlazoInit, BajaPendiente, TimerVivo, Hilos
<1> QED  BY <1>1, <1>2, <1>3, <1>4, <1>5, <1>6, <1>7 DEF ITipo, TypeOK

\* The end of matadero keeps the types.
LEMMA TipoTerminaMatadero ==
  ASSUME ITipo, NEW h \in {"plp", "pcp", "consola"}, TerminaMatadero(h),
         UNCHANGED <<cpuVars, ioVars, cortoVars, consolaVars>>
  PROVE  ITipo'
<1> USE DEF ITipo, TypeOK, PlanificacionTypeOK, Hilos
<1>0. UNCHANGED <<orden, multiprogramacion, gradoNuevo, timers, hiloTimer>>
  BY DEF cortoVars, consolaVars
<1>1. CpuTypeOK' /\ AtencionIOTypeOK' /\ CortoPlazoTypeOK' /\ ConsolaTypeOK'
  BY DEF CpuTypeOK, AtencionIOTypeOK, CortoPlazoTypeOK, ConsolaTypeOK, cpuVars, ioVars,
     cortoVars, consolaVars
<1>2. CASE TerminaMatadero(h)
  <2>0. Len(cEXIT') = Len(cEXIT) + 1
    BY <1>2, Agregado DEF TerminaMatadero, EncolarExit, ColasTypeOK, LocalesEnUso
  <2>1. /\ ProcesosTypeOK' /\ ColasTypeOK' /\ RecursosTypeOK' /\ SemaforosTypeOK'
        /\ CerrojosTypeOK' /\ caido' \in BOOLEAN
    BY <1>2, <1>0 DEF TerminaMatadero, EncolarExit, UltimosLibres, IrSoltando, Ir, procesos,
       recursosVars, cerrojos, ProcesosTypeOK, Estados, ColasTypeOK, RecursosTypeOK,
       SemaforosTypeOK, CerrojosTypeOK, LocalesEnUso
  <2>2. /\ LocalesTypeOK' /\ LocalesEnUso' /\ Recorridos'
        /\ TokensEXIT' /\ BajaPendiente' /\ TimerVivo'
    BY <1>2, <1>0, <2>0 DEF TerminaMatadero, EncolarExit, UltimosLibres, IrSoltando, Ir,
       procesos, recursosVars, cerrojos, LocalesTypeOK, Lugares, LocalesEnUso, Recorridos,
       TokensEXIT, BajaPendiente, TimerVivo, Despachado, ColasTypeOK, SemaforosTypeOK
  <2> QED  BY <2>1, <2>2, <1>1
<1> QED  BY <1>2 DEF TerminaMatadero

\* Every step of liberar_recurso keeps the types.
LEMMA TipoLiberarRecurso ==
  ASSUME ITipo, NEW h \in {"pcp", "carnicero"}, LiberarRecurso(h),
         UNCHANGED <<cpuVars, ioVars, cortoVars, consolaVars>>
  PROVE  ITipo'
<1> USE DEF ITipo, TypeOK, PlanificacionTypeOK, Hilos
<1>0. UNCHANGED <<orden, multiprogramacion, gradoNuevo, timers, hiloTimer>>
  BY DEF cortoVars, consolaVars
<1>1. CpuTypeOK' /\ AtencionIOTypeOK' /\ CortoPlazoTypeOK' /\ ConsolaTypeOK'
  BY DEF CpuTypeOK, AtencionIOTypeOK, CortoPlazoTypeOK, ConsolaTypeOK, cpuVars, ioVars,
     cortoVars, consolaVars
<1>2. CASE LiberaInstancia(h)
  <2>1. /\ ProcesosTypeOK' /\ ColasTypeOK' /\ RecursosTypeOK' /\ SemaforosTypeOK'
        /\ CerrojosTypeOK' /\ caido' \in BOOLEAN
    BY <1>2, <1>0 DEF LiberaInstancia, UltimosLibres, Ir, procesos, colas, semaforos,
       cerrojos, ProcesosTypeOK, Estados, ColasTypeOK, RecursosTypeOK, SemaforosTypeOK,
       CerrojosTypeOK, LocalesEnUso
  <2>2. /\ LocalesTypeOK' /\ LocalesEnUso' /\ Recorridos'
        /\ TokensEXIT' /\ BajaPendiente' /\ TimerVivo'
    BY <1>2, <1>0 DEF LiberaInstancia, UltimosLibres, Ir, procesos, colas, semaforos,
       cerrojos, LocalesTypeOK, Lugares, LocalesEnUso, Recorridos, TokensEXIT,
       BajaPendiente, TimerVivo, Despachado, ColasTypeOK, SemaforosTypeOK
  <2> QED  BY <2>1, <2>2, <1>1
<1>3. CASE MiraBloqueados(h)
  <2>1. /\ ProcesosTypeOK' /\ ColasTypeOK' /\ RecursosTypeOK' /\ SemaforosTypeOK'
        /\ CerrojosTypeOK' /\ caido' \in BOOLEAN
    BY <1>3, <1>0 DEF MiraBloqueados, Ir, TrasLiberar, procesos, colas, recursosVars,
       semaforos, cerrojos, ProcesosTypeOK, Estados, ColasTypeOK, RecursosTypeOK,
       SemaforosTypeOK, CerrojosTypeOK, LocalesEnUso
  <2>2. /\ LocalesTypeOK' /\ LocalesEnUso' /\ Recorridos'
        /\ TokensEXIT' /\ BajaPendiente' /\ TimerVivo'
    BY <1>3, <1>0 DEF MiraBloqueados, Ir, TrasLiberar, procesos, colas, recursosVars,
       semaforos, cerrojos, LocalesTypeOK, Lugares, LocalesEnUso, Recorridos, TokensEXIT,
       BajaPendiente, TimerVivo, Despachado, ColasTypeOK, SemaforosTypeOK
  <2> QED  BY <2>1, <2>2, <1>1
<1>4. CASE SacaBloqueado(h)
  <2>0. /\ Head(cBloqueados[rec[h]]) \in Pids
        /\ Tail(cBloqueados[rec[h]]) \in Seq(Pids)
        /\ Append(tenidos[Head(cBloqueados[rec[h]])], rec[h]) \in Seq(Recursos)
    BY <1>4, Cola, Agregado DEF SacaBloqueado, RecursosTypeOK, ProcesosTypeOK, LocalesEnUso
  <2>1. /\ ProcesosTypeOK' /\ ColasTypeOK' /\ RecursosTypeOK' /\ SemaforosTypeOK'
        /\ CerrojosTypeOK' /\ caido' \in BOOLEAN
    BY <1>4, <1>0, <2>0 DEF SacaBloqueado, UltimosLibres, EstadoAlDespertar, Ir, colas,
       semaforos, cerrojos, ProcesosTypeOK, Estados, ColasTypeOK, RecursosTypeOK,
       SemaforosTypeOK, CerrojosTypeOK, LocalesEnUso
  <2>2. /\ LocalesTypeOK' /\ LocalesEnUso' /\ Recorridos'
        /\ TokensEXIT' /\ BajaPendiente' /\ TimerVivo'
    BY <1>4, <1>0, <2>0 DEF SacaBloqueado, UltimosLibres, EstadoAlDespertar, Ir, colas,
       semaforos, cerrojos, LocalesTypeOK, Lugares, LocalesEnUso, Recorridos, TokensEXIT,
       BajaPendiente, TimerVivo, Despachado, ColasTypeOK, SemaforosTypeOK
  <2> QED  BY <2>1, <2>2, <1>1
<1>5. CASE SacaNadie(h)
  <2>1. /\ ProcesosTypeOK' /\ ColasTypeOK' /\ RecursosTypeOK' /\ SemaforosTypeOK'
        /\ CerrojosTypeOK' /\ caido' \in BOOLEAN
    BY <1>5, <1>0 DEF SacaNadie, UltimosLibres, Caer, procesos, colas, recursosVars,
       semaforos, cerrojos, locales, ProcesosTypeOK, Estados, ColasTypeOK, RecursosTypeOK,
       SemaforosTypeOK, CerrojosTypeOK, LocalesEnUso
  <2>2. /\ LocalesTypeOK' /\ LocalesEnUso' /\ Recorridos'
        /\ TokensEXIT' /\ BajaPendiente' /\ TimerVivo'
    BY <1>5, <1>0 DEF SacaNadie, UltimosLibres, Caer, procesos, colas, recursosVars,
       semaforos, cerrojos, locales, LocalesTypeOK, Lugares, LocalesEnUso, Recorridos,
       TokensEXIT, BajaPendiente, TimerVivo, Despachado, ColasTypeOK, SemaforosTypeOK
  <2> QED  BY <2>1, <2>2, <1>1
<1>6. CASE DespiertaBloqueado(h)
  <2>0. cREADY' \in Seq(Pids) /\ cREADY_PLUS' \in Seq(Pids) /\ semPCP' \in Nat
    BY <1>6, TipoDespertar DEF DespiertaBloqueado, LocalesEnUso
  <2>1. /\ ProcesosTypeOK' /\ ColasTypeOK' /\ RecursosTypeOK' /\ SemaforosTypeOK'
        /\ CerrojosTypeOK' /\ caido' \in BOOLEAN
    BY <1>6, <1>0, <2>0 DEF DespiertaBloqueado, Ir, TrasLiberar, procesos, recursosVars,
       cerrojos, ProcesosTypeOK, Estados, ColasTypeOK, RecursosTypeOK, SemaforosTypeOK,
       CerrojosTypeOK, LocalesEnUso
  <2>2. /\ LocalesTypeOK' /\ LocalesEnUso' /\ Recorridos'
        /\ TokensEXIT' /\ BajaPendiente' /\ TimerVivo'
    BY <1>6, <1>0, <2>0 DEF DespiertaBloqueado, Ir, TrasLiberar, procesos, recursosVars,
       cerrojos, LocalesTypeOK, Lugares, LocalesEnUso, Recorridos, TokensEXIT,
       BajaPendiente, TimerVivo, Despachado, ColasTypeOK, SemaforosTypeOK
  <2> QED  BY <2>1, <2>2, <1>1
<1> QED  BY <1>2, <1>3, <1>4, <1>5, <1>6 DEF LiberarRecurso

\* Every step of the long-term scheduler keeps the types.
LEMMA TipoPLP ==
  ASSUME ITipo, PLP, UNCHANGED <<cpuVars, ioVars, cortoVars, consolaVars>>
  PROVE  ITipo'
<1> USE DEF ITipo, TypeOK, PlanificacionTypeOK, Hilos
<1>0. UNCHANGED <<orden, multiprogramacion, gradoNuevo, timers, hiloTimer>>
  BY DEF cortoVars, consolaVars
<1>1. CpuTypeOK' /\ AtencionIOTypeOK' /\ CortoPlazoTypeOK' /\ ConsolaTypeOK'
  BY DEF CpuTypeOK, AtencionIOTypeOK, CortoPlazoTypeOK, ConsolaTypeOK, cpuVars, ioVars,
     cortoVars, consolaVars
<1>2. CASE EsperaNuevo
  <2>1. /\ ProcesosTypeOK' /\ ColasTypeOK' /\ RecursosTypeOK' /\ SemaforosTypeOK'
        /\ CerrojosTypeOK' /\ caido' \in BOOLEAN
    BY <1>2, <1>0 DEF EsperaNuevo, HayNuevo, Ir, procesos, colas, recursosVars, cerrojos,
       ProcesosTypeOK, Estados, ColasTypeOK, RecursosTypeOK, SemaforosTypeOK,
       CerrojosTypeOK, LocalesEnUso
  <2>2. /\ LocalesTypeOK' /\ LocalesEnUso' /\ Recorridos'
        /\ TokensEXIT' /\ BajaPendiente' /\ TimerVivo'
    BY <1>2, <1>0 DEF EsperaNuevo, HayNuevo, Ir, procesos, colas, recursosVars, cerrojos,
       LocalesTypeOK, Lugares, LocalesEnUso, Recorridos, TokensEXIT, BajaPendiente,
       TimerVivo, Despachado, ColasTypeOK, SemaforosTypeOK
  <2> QED  BY <2>1, <2>2, <1>1
<1>3. CASE TomaNuevo
  <2>1. /\ ProcesosTypeOK' /\ ColasTypeOK' /\ RecursosTypeOK' /\ SemaforosTypeOK'
        /\ CerrojosTypeOK' /\ caido' \in BOOLEAN
    BY <1>3, <1>0, Cola DEF TomaNuevo, PrimerosLibres, NuevosQueQuedan, Ir, procesos,
       recursosVars, semaforos, cerrojos, ProcesosTypeOK, Estados, ColasTypeOK,
       RecursosTypeOK, SemaforosTypeOK, CerrojosTypeOK, LocalesEnUso
  <2>2. /\ LocalesTypeOK' /\ LocalesEnUso' /\ Recorridos'
        /\ TokensEXIT' /\ BajaPendiente' /\ TimerVivo'
    BY <1>3, <1>0, Cola DEF TomaNuevo, PrimerosLibres, NuevosQueQuedan, Ir, procesos,
       recursosVars, semaforos, cerrojos, LocalesTypeOK, Lugares, LocalesEnUso, Recorridos,
       TokensEXIT, BajaPendiente, TimerVivo, Despachado, ColasTypeOK, SemaforosTypeOK
  <2> QED  BY <2>1, <2>2, <1>1
<1>4. CASE Admite
  <2>1. /\ ProcesosTypeOK' /\ ColasTypeOK' /\ RecursosTypeOK' /\ SemaforosTypeOK'
        /\ CerrojosTypeOK' /\ caido' \in BOOLEAN
    BY <1>4, <1>0 DEF Admite, EsperaCupo, Ir, colas, recursosVars, cerrojos, ProcesosTypeOK,
       Estados, ColasTypeOK, RecursosTypeOK, SemaforosTypeOK, CerrojosTypeOK, LocalesEnUso
  <2>2. /\ LocalesTypeOK' /\ LocalesEnUso' /\ Recorridos'
        /\ TokensEXIT' /\ BajaPendiente' /\ TimerVivo'
    BY <1>4, <1>0 DEF Admite, EsperaCupo, Ir, colas, recursosVars, cerrojos, LocalesTypeOK,
       Lugares, LocalesEnUso, Recorridos, TokensEXIT, BajaPendiente, TimerVivo, Despachado,
       ColasTypeOK, SemaforosTypeOK
  <2> QED  BY <2>1, <2>2, <1>1
<1>5. CASE Rechaza
  <2>1. /\ ProcesosTypeOK' /\ ColasTypeOK' /\ RecursosTypeOK' /\ SemaforosTypeOK'
        /\ CerrojosTypeOK' /\ caido' \in BOOLEAN
    BY <1>5, <1>0, LargoPlazoAssumption DEF Rechaza, EsperaCupo, Ir, colas, recursosVars,
       cerrojos, ProcesosTypeOK, Estados, ColasTypeOK, RecursosTypeOK, SemaforosTypeOK,
       CerrojosTypeOK, LocalesEnUso
  <2>2. /\ LocalesTypeOK' /\ LocalesEnUso' /\ Recorridos'
        /\ TokensEXIT' /\ BajaPendiente' /\ TimerVivo'
    BY <1>5, <1>0, LargoPlazoAssumption DEF Rechaza, EsperaCupo, Ir, colas, recursosVars,
       cerrojos, LocalesTypeOK, Lugares, LocalesEnUso, Recorridos, TokensEXIT,
       BajaPendiente, TimerVivo, Despachado, ColasTypeOK, SemaforosTypeOK
  <2> QED  BY <2>1, <2>2, <1>1
<1>6. CASE AdmiteNadie
  <2>1. /\ ProcesosTypeOK' /\ ColasTypeOK' /\ RecursosTypeOK' /\ SemaforosTypeOK'
        /\ CerrojosTypeOK' /\ caido' \in BOOLEAN
    BY <1>6, <1>0 DEF AdmiteNadie, EsperaCupo, Caer, procesos, colas, recursosVars,
       semaforos, cerrojos, locales, ProcesosTypeOK, Estados, ColasTypeOK, RecursosTypeOK,
       SemaforosTypeOK, CerrojosTypeOK, LocalesEnUso
  <2>2. /\ LocalesTypeOK' /\ LocalesEnUso' /\ Recorridos'
        /\ TokensEXIT' /\ BajaPendiente' /\ TimerVivo'
    BY <1>6, <1>0 DEF AdmiteNadie, EsperaCupo, Caer, procesos, colas, recursosVars,
       semaforos, cerrojos, locales, LocalesTypeOK, Lugares, LocalesEnUso, Recorridos,
       TokensEXIT, BajaPendiente, TimerVivo, Despachado, ColasTypeOK, SemaforosTypeOK
  <2> QED  BY <2>1, <2>2, <1>1
<1>7. CASE IngresaReady
  <2>1. /\ ProcesosTypeOK' /\ ColasTypeOK' /\ RecursosTypeOK' /\ SemaforosTypeOK'
        /\ CerrojosTypeOK' /\ caido' \in BOOLEAN
    BY <1>7, <1>0 DEF IngresaReady, AReady, PrimerosLibres, IrSoltando, Ir, procesos,
       recursosVars, cerrojos, ProcesosTypeOK, Estados, ColasTypeOK, RecursosTypeOK,
       SemaforosTypeOK, CerrojosTypeOK, LocalesEnUso
  <2>2. /\ LocalesTypeOK' /\ LocalesEnUso' /\ Recorridos'
        /\ TokensEXIT' /\ BajaPendiente' /\ TimerVivo'
    BY <1>7, <1>0 DEF IngresaReady, AReady, PrimerosLibres, IrSoltando, Ir, procesos,
       recursosVars, cerrojos, LocalesTypeOK, Lugares, LocalesEnUso, Recorridos, TokensEXIT,
       BajaPendiente, TimerVivo, Despachado, ColasTypeOK, SemaforosTypeOK
  <2> QED  BY <2>1, <2>2, <1>1
<1>8. CASE IngresaReadyPerdido
  <2>1. /\ ProcesosTypeOK' /\ ColasTypeOK' /\ RecursosTypeOK' /\ SemaforosTypeOK'
        /\ CerrojosTypeOK' /\ caido' \in BOOLEAN
    BY <1>8, <1>0 DEF IngresaReadyPerdido, PrimerosLibres, IrSoltando, Ir, procesos, colas,
       recursosVars, cerrojos, ProcesosTypeOK, Estados, ColasTypeOK, RecursosTypeOK,
       SemaforosTypeOK, CerrojosTypeOK, LocalesEnUso
  <2>2. /\ LocalesTypeOK' /\ LocalesEnUso' /\ Recorridos'
        /\ TokensEXIT' /\ BajaPendiente' /\ TimerVivo'
    BY <1>8, <1>0 DEF IngresaReadyPerdido, PrimerosLibres, IrSoltando, Ir, procesos, colas,
       recursosVars, cerrojos, LocalesTypeOK, Lugares, LocalesEnUso, Recorridos, TokensEXIT,
       BajaPendiente, TimerVivo, Despachado, ColasTypeOK, SemaforosTypeOK
  <2> QED  BY <2>1, <2>2, <1>1
<1>9. CASE TerminaMatadero("plp")
  BY <1>9, TipoTerminaMatadero
<1> QED  BY <1>2, <1>3, <1>4, <1>5, <1>6, <1>7, <1>8, <1>9 DEF PLP

\* Every step of the carnicero keeps the types.
LEMMA TipoCarnicero ==
  ASSUME ITipo, Carnicero,
         UNCHANGED <<cpuVars, ioVars, cortoVars, consolaVars>>
  PROVE  ITipo'
<1> USE DEF ITipo, TypeOK, PlanificacionTypeOK, Hilos
<1>0. UNCHANGED <<orden, multiprogramacion, gradoNuevo, timers, hiloTimer>>
  BY DEF cortoVars, consolaVars
<1>1. CpuTypeOK' /\ AtencionIOTypeOK' /\ CortoPlazoTypeOK' /\ ConsolaTypeOK'
  BY DEF CpuTypeOK, AtencionIOTypeOK, CortoPlazoTypeOK, ConsolaTypeOK, cpuVars, ioVars,
     cortoVars, consolaVars
<1>2. CASE EsperaFinalizado
  <2>1. /\ ProcesosTypeOK' /\ ColasTypeOK' /\ RecursosTypeOK' /\ SemaforosTypeOK'
        /\ CerrojosTypeOK' /\ caido' \in BOOLEAN
    BY <1>2, <1>0 DEF EsperaFinalizado, Ir, procesos, colas, recursosVars, cerrojos,
       ProcesosTypeOK, Estados, ColasTypeOK, RecursosTypeOK, SemaforosTypeOK,
       CerrojosTypeOK, LocalesEnUso
  <2>2. /\ LocalesTypeOK' /\ LocalesEnUso' /\ Recorridos'
        /\ TokensEXIT' /\ BajaPendiente' /\ TimerVivo'
    BY <1>2, <1>0 DEF EsperaFinalizado, Ir, procesos, colas, recursosVars, cerrojos,
       LocalesTypeOK, Lugares, LocalesEnUso, Recorridos, TokensEXIT, BajaPendiente,
       TimerVivo, Despachado, ColasTypeOK, SemaforosTypeOK
  <2> QED  BY <2>1, <2>2, <1>1
<1>3. CASE TomaFinalizado
  <2>0. Head(cEXIT) \in Pids /\ Tail(cEXIT) \in Seq(Pids) /\ Len(Tail(cEXIT)) = Len(cEXIT) - 1
    BY <1>3, Cola DEF TomaFinalizado, ColasTypeOK, TokensEXIT, SemaforosTypeOK
  <2>1. /\ ProcesosTypeOK' /\ ColasTypeOK' /\ RecursosTypeOK' /\ SemaforosTypeOK'
        /\ CerrojosTypeOK' /\ caido' \in BOOLEAN
    BY <1>3, <1>0, <2>0 DEF TomaFinalizado, UltimosLibres, Ir, procesos, recursosVars,
       semaforos, cerrojos, ProcesosTypeOK, Estados, ColasTypeOK, RecursosTypeOK,
       SemaforosTypeOK, CerrojosTypeOK, LocalesEnUso
  <2>2. /\ LocalesTypeOK' /\ LocalesEnUso' /\ Recorridos'
        /\ TokensEXIT' /\ BajaPendiente' /\ TimerVivo'
    BY <1>3, <1>0, <2>0 DEF TomaFinalizado, UltimosLibres, Ir, procesos, recursosVars,
       semaforos, cerrojos, LocalesTypeOK, Lugares, LocalesEnUso, Recorridos, TokensEXIT,
       BajaPendiente, TimerVivo, Despachado, ColasTypeOK, SemaforosTypeOK
  <2> QED  BY <2>1, <2>2, <1>1
<1>4. CASE SueltaRecurso
  <2>0. /\ mano["carnicero"] \in Pids
        /\ Head(tenidos[mano["carnicero"]]) \in Recursos
        /\ Tail(tenidos[mano["carnicero"]]) \in Seq(Recursos)
    BY <1>4, Cola DEF SueltaRecurso, ProcesosTypeOK, LocalesEnUso
  <2>1. /\ ProcesosTypeOK' /\ ColasTypeOK' /\ RecursosTypeOK' /\ SemaforosTypeOK'
        /\ CerrojosTypeOK' /\ caido' \in BOOLEAN
    BY <1>4, <1>0, <2>0 DEF SueltaRecurso, Ir, colas, recursosVars, semaforos, cerrojos,
       ProcesosTypeOK, Estados, ColasTypeOK, RecursosTypeOK, SemaforosTypeOK,
       CerrojosTypeOK, LocalesEnUso
  <2>2. /\ LocalesTypeOK' /\ LocalesEnUso' /\ Recorridos'
        /\ TokensEXIT' /\ BajaPendiente' /\ TimerVivo'
    BY <1>4, <1>0, <2>0 DEF SueltaRecurso, Ir, colas, recursosVars, semaforos, cerrojos,
       LocalesTypeOK, Lugares, LocalesEnUso, Recorridos, TokensEXIT, BajaPendiente,
       TimerVivo, Despachado, ColasTypeOK, SemaforosTypeOK
  <2> QED  BY <2>1, <2>2, <1>1
<1>5. CASE LiberaProceso
  <2>1. /\ ProcesosTypeOK' /\ ColasTypeOK' /\ RecursosTypeOK' /\ SemaforosTypeOK'
        /\ CerrojosTypeOK' /\ caido' \in BOOLEAN
    BY <1>5, <1>0 DEF LiberaProceso, IrSoltando, Ir, colas, recursosVars, semaforos,
       cerrojos, ProcesosTypeOK, Estados, ColasTypeOK, RecursosTypeOK, SemaforosTypeOK,
       CerrojosTypeOK, LocalesEnUso
  <2>2. /\ LocalesTypeOK' /\ LocalesEnUso' /\ Recorridos'
        /\ TokensEXIT' /\ BajaPendiente' /\ TimerVivo'
    BY <1>5, <1>0 DEF LiberaProceso, IrSoltando, Ir, colas, recursosVars, semaforos,
       cerrojos, LocalesTypeOK, Lugares, LocalesEnUso, Recorridos, TokensEXIT,
       BajaPendiente, TimerVivo, Despachado, ColasTypeOK, SemaforosTypeOK
  <2> QED  BY <2>1, <2>2, <1>1
<1>6. CASE LiberarRecurso("carnicero")
  BY <1>6, TipoLiberarRecurso
<1> QED  BY <1>2, <1>3, <1>4, <1>5, <1>6 DEF Carnicero

\* Every step of the short-term scheduler keeps the types.
LEMMA TipoPCP ==
  ASSUME ITipo, PCP, UNCHANGED consolaVars
  PROVE  ITipo'
<1> USE DEF ITipo, TypeOK, PlanificacionTypeOK, Hilos
<1>1. ConsolaTypeOK' /\ UNCHANGED <<orden, multiprogramacion, gradoNuevo>>
  BY DEF ConsolaTypeOK, consolaVars
<1>2. CASE EsperaListo
  <2>1. /\ ProcesosTypeOK' /\ ColasTypeOK' /\ RecursosTypeOK' /\ SemaforosTypeOK'
        /\ CerrojosTypeOK' /\ caido' \in BOOLEAN
    BY <1>2, <1>1 DEF EsperaListo, Ir, ColaElegida, procesos, colas, recursosVars, cerrojos,
       cpuVars, ioVars, cortoVars, ProcesosTypeOK, Estados, ColasTypeOK, RecursosTypeOK,
       SemaforosTypeOK, CerrojosTypeOK, LocalesEnUso
  <2>2. /\ LocalesTypeOK' /\ LocalesEnUso' /\ Recorridos'
        /\ TokensEXIT' /\ BajaPendiente' /\ TimerVivo'
    BY <1>2, <1>1 DEF EsperaListo, Ir, ColaElegida, procesos, colas, recursosVars, cerrojos,
       cpuVars, ioVars, cortoVars, LocalesTypeOK, Lugares, LocalesEnUso, Recorridos,
       TokensEXIT, BajaPendiente, TimerVivo, Despachado, ColasTypeOK, SemaforosTypeOK
  <2>3. CpuTypeOK' /\ AtencionIOTypeOK' /\ CortoPlazoTypeOK'
    BY <1>2, <1>1 DEF EsperaListo, Ir, ColaElegida, procesos, colas, recursosVars, cerrojos,
       cpuVars, ioVars, cortoVars, CpuTypeOK, AtencionIOTypeOK, CortoPlazoTypeOK, TimerVivo,
       Despachado, LocalesTypeOK, Lugares, LocalesEnUso
  <2> QED  BY <2>1, <2>2, <2>3, <1>1
<1>3. CASE TomaReady
  <2>1. /\ ProcesosTypeOK' /\ ColasTypeOK' /\ RecursosTypeOK' /\ SemaforosTypeOK'
        /\ CerrojosTypeOK' /\ caido' \in BOOLEAN
    BY <1>3, <1>1 DEF TomaReady, PrimerosLibres, Elegir, Ir, recursosVars, semaforos,
       cerrojos, cpuVars, ioVars, cortoVars, ProcesosTypeOK, Estados, ColasTypeOK,
       RecursosTypeOK, SemaforosTypeOK, CerrojosTypeOK, LocalesEnUso
  <2>2. /\ LocalesTypeOK' /\ LocalesEnUso' /\ Recorridos'
        /\ TokensEXIT' /\ BajaPendiente' /\ TimerVivo'
    BY <1>3, <1>1 DEF TomaReady, PrimerosLibres, Elegir, Ir, recursosVars, semaforos,
       cerrojos, cpuVars, ioVars, cortoVars, LocalesTypeOK, Lugares, LocalesEnUso,
       Recorridos, TokensEXIT, BajaPendiente, TimerVivo, Despachado, ColasTypeOK,
       SemaforosTypeOK
  <2>3. CpuTypeOK' /\ AtencionIOTypeOK' /\ CortoPlazoTypeOK'
    BY <1>3, <1>1 DEF TomaReady, PrimerosLibres, Elegir, Ir, recursosVars, semaforos,
       cerrojos, cpuVars, ioVars, cortoVars, CpuTypeOK, AtencionIOTypeOK, CortoPlazoTypeOK,
       TimerVivo, Despachado, LocalesTypeOK, Lugares, LocalesEnUso
  <2> QED  BY <2>1, <2>2, <2>3, <1>1
<1>4. CASE TomaReadyPlus
  <2>1. /\ ProcesosTypeOK' /\ ColasTypeOK' /\ RecursosTypeOK' /\ SemaforosTypeOK'
        /\ CerrojosTypeOK' /\ caido' \in BOOLEAN
    BY <1>4, <1>1 DEF TomaReadyPlus, Elegir, Ir, recursosVars, semaforos, cerrojos, cpuVars,
       ioVars, cortoVars, ProcesosTypeOK, Estados, ColasTypeOK, RecursosTypeOK,
       SemaforosTypeOK, CerrojosTypeOK, LocalesEnUso
  <2>2. /\ LocalesTypeOK' /\ LocalesEnUso' /\ Recorridos'
        /\ TokensEXIT' /\ BajaPendiente' /\ TimerVivo'
    BY <1>4, <1>1 DEF TomaReadyPlus, Elegir, Ir, recursosVars, semaforos, cerrojos, cpuVars,
       ioVars, cortoVars, LocalesTypeOK, Lugares, LocalesEnUso, Recorridos, TokensEXIT,
       BajaPendiente, TimerVivo, Despachado, ColasTypeOK, SemaforosTypeOK
  <2>3. CpuTypeOK' /\ AtencionIOTypeOK' /\ CortoPlazoTypeOK'
    BY <1>4, <1>1 DEF TomaReadyPlus, Elegir, Ir, recursosVars, semaforos, cerrojos, cpuVars,
       ioVars, cortoVars, CpuTypeOK, AtencionIOTypeOK, CortoPlazoTypeOK, TimerVivo,
       Despachado, LocalesTypeOK, Lugares, LocalesEnUso
  <2> QED  BY <2>1, <2>2, <2>3, <1>1
<1>5. CASE TomaNadie
  <2>1. /\ ProcesosTypeOK' /\ ColasTypeOK' /\ RecursosTypeOK' /\ SemaforosTypeOK'
        /\ CerrojosTypeOK' /\ caido' \in BOOLEAN
    BY <1>5, <1>1 DEF TomaNadie, PrimerosLibres, Caer, procesos, colas, recursosVars,
       semaforos, cerrojos, locales, cpuVars, ioVars, cortoVars, ProcesosTypeOK, Estados,
       ColasTypeOK, RecursosTypeOK, SemaforosTypeOK, CerrojosTypeOK, LocalesEnUso
  <2>2. /\ LocalesTypeOK' /\ LocalesEnUso' /\ Recorridos'
        /\ TokensEXIT' /\ BajaPendiente' /\ TimerVivo'
    BY <1>5, <1>1 DEF TomaNadie, PrimerosLibres, Caer, procesos, colas, recursosVars,
       semaforos, cerrojos, locales, cpuVars, ioVars, cortoVars, LocalesTypeOK, Lugares,
       LocalesEnUso, Recorridos, TokensEXIT, BajaPendiente, TimerVivo, Despachado,
       ColasTypeOK, SemaforosTypeOK
  <2>3. CpuTypeOK' /\ AtencionIOTypeOK' /\ CortoPlazoTypeOK'
    BY <1>5, <1>1 DEF TomaNadie, PrimerosLibres, Caer, procesos, colas, recursosVars,
       semaforos, cerrojos, locales, cpuVars, ioVars, cortoVars, CpuTypeOK,
       AtencionIOTypeOK, CortoPlazoTypeOK, TimerVivo, Despachado, LocalesTypeOK, Lugares,
       LocalesEnUso
  <2> QED  BY <2>1, <2>2, <2>3, <1>1
<1>6. CASE Despacha
  <2>0. Despachado \in Pids /\ Despachado = mano["pcp"]
    BY <1>6 DEF Despacha, LocalesEnUso, Despachado
  <2>1. /\ ProcesosTypeOK' /\ ColasTypeOK' /\ RecursosTypeOK' /\ SemaforosTypeOK'
        /\ CerrojosTypeOK' /\ caido' \in BOOLEAN
    BY <1>6, <1>1, <2>0 DEF Despacha, PrimerosLibres, ConTimer, Despachado, Ir, procesos,
       colas, recursosVars, semaforos, ioVars, ProcesosTypeOK, Estados, ColasTypeOK,
       RecursosTypeOK, SemaforosTypeOK, CerrojosTypeOK, LocalesEnUso
  <2>2. /\ LocalesTypeOK' /\ LocalesEnUso' /\ Recorridos'
        /\ TokensEXIT' /\ BajaPendiente' /\ TimerVivo'
    BY <1>6, <1>1, <2>0 DEF Despacha, PrimerosLibres, ConTimer, Despachado, Ir, procesos,
       colas, recursosVars, semaforos, ioVars, LocalesTypeOK, Lugares, LocalesEnUso,
       Recorridos, TokensEXIT, BajaPendiente, TimerVivo, ColasTypeOK, SemaforosTypeOK,
       CortoPlazoTypeOK
  <2>3. CpuTypeOK'
    BY <1>6, <1>1, <2>0 DEF Despacha, PrimerosLibres, ConTimer, Despachado, Ir, procesos,
       colas, recursosVars, semaforos, ioVars, CpuTypeOK, LocalesTypeOK, Lugares
  <2>4. AtencionIOTypeOK'
    BY <1>6, <1>1, <2>0 DEF Despacha, PrimerosLibres, ConTimer, Despachado, Ir, procesos,
       colas, recursosVars, semaforos, ioVars, AtencionIOTypeOK, CortoPlazoTypeOK
  <2>5. CortoPlazoTypeOK'
    BY <1>6, <1>1, <2>0 DEF Despacha, PrimerosLibres, ConTimer, Despachado, Ir, procesos,
       colas, recursosVars, semaforos, ioVars, CortoPlazoTypeOK
  <2> QED  BY <2>1, <2>2, <2>3, <2>4, <2>5, <1>1
<1>7. CASE Recibe
  <2>0. Head(dispatch).motivo \in Pedidos /\ Tail(dispatch) \in Seq(Mensajes)
    BY <1>7 DEF Recibe, CpuTypeOK, Mensajes, Pedidos
  <2>1. /\ ProcesosTypeOK' /\ ColasTypeOK' /\ RecursosTypeOK' /\ SemaforosTypeOK'
        /\ CerrojosTypeOK' /\ caido' \in BOOLEAN
    BY <1>7, <1>1, <2>0 DEF Recibe, PrimerosLibres, Ir, procesos, colas, recursosVars,
       semaforos, ioVars, ProcesosTypeOK, Estados, ColasTypeOK, RecursosTypeOK,
       SemaforosTypeOK, CerrojosTypeOK, LocalesEnUso
  <2>2. /\ LocalesTypeOK' /\ LocalesEnUso' /\ Recorridos'
        /\ TokensEXIT' /\ BajaPendiente' /\ TimerVivo'
    BY <1>7, <1>1, <2>0 DEF Recibe, PrimerosLibres, Ir, procesos, colas, recursosVars,
       semaforos, ioVars, LocalesTypeOK, Lugares, LocalesEnUso, Recorridos, TokensEXIT,
       BajaPendiente, TimerVivo, Despachado, ColasTypeOK, SemaforosTypeOK
  <2>3. CpuTypeOK' /\ AtencionIOTypeOK' /\ CortoPlazoTypeOK'
    BY <1>7, <1>1, <2>0 DEF Recibe, PrimerosLibres, Ir, procesos, colas, recursosVars,
       semaforos, ioVars, CpuTypeOK, AtencionIOTypeOK, CortoPlazoTypeOK, TimerVivo,
       Despachado, LocalesTypeOK, Lugares, LocalesEnUso
  <2> QED  BY <2>1, <2>2, <2>3, <1>1
<1>8. CASE VuelveParaMorir
  <2>0. timers' \in [Pids -> Nat] /\ hiloTimer' = FALSE
    BY <1>8, TipoCancelar DEF VuelveParaMorir, DejarTimer, CortoPlazoTypeOK
  <2>1. /\ ProcesosTypeOK' /\ ColasTypeOK' /\ RecursosTypeOK' /\ SemaforosTypeOK'
        /\ CerrojosTypeOK' /\ caido' \in BOOLEAN
    BY <1>8, <1>1, <2>0 DEF VuelveParaMorir, Matar, Despachado, Ir, colas, recursosVars,
       cerrojos, cpuVars, ioVars, ProcesosTypeOK, Estados, ColasTypeOK, RecursosTypeOK,
       SemaforosTypeOK, CerrojosTypeOK, LocalesEnUso
  <2>2. /\ LocalesTypeOK' /\ LocalesEnUso' /\ Recorridos'
        /\ TokensEXIT' /\ BajaPendiente' /\ TimerVivo'
    BY <1>8, <1>1, <2>0 DEF VuelveParaMorir, Matar, Despachado, Ir, colas, recursosVars,
       cerrojos, cpuVars, ioVars, LocalesTypeOK, Lugares, LocalesEnUso, Recorridos,
       TokensEXIT, BajaPendiente, TimerVivo, ColasTypeOK, SemaforosTypeOK
  <2>3. CpuTypeOK'
    BY <1>8, <1>1, <2>0 DEF VuelveParaMorir, Matar, Despachado, Ir, colas, recursosVars,
       cerrojos, cpuVars, ioVars, CpuTypeOK, LocalesTypeOK, Lugares
  <2>4. AtencionIOTypeOK'
    BY <1>8, <1>1, <2>0 DEF VuelveParaMorir, Matar, Despachado, Ir, colas, recursosVars,
       cerrojos, cpuVars, ioVars, AtencionIOTypeOK, CortoPlazoTypeOK
  <2>5. CortoPlazoTypeOK'
    BY <1>8, <1>1, <2>0 DEF VuelveParaMorir, Matar, Despachado, Ir, colas, recursosVars,
       cerrojos, cpuVars, ioVars, CortoPlazoTypeOK
  <2> QED  BY <2>1, <2>2, <2>3, <2>4, <2>5, <1>1
<1>9. CASE VuelvePorIO
  <2>0. timers' \in [Pids -> Nat] /\ hiloTimer' = FALSE
    BY <1>9, TipoCancelar DEF VuelvePorIO
  <2>1. /\ ProcesosTypeOK' /\ ColasTypeOK' /\ RecursosTypeOK' /\ SemaforosTypeOK'
        /\ CerrojosTypeOK' /\ caido' \in BOOLEAN
    BY <1>9, <1>1, <2>0 DEF VuelvePorIO, Despachado, Ir, colas, recursosVars, semaforos,
       cerrojos, cpuVars, ioVars, ProcesosTypeOK, Estados, ColasTypeOK, RecursosTypeOK,
       SemaforosTypeOK, CerrojosTypeOK, LocalesEnUso
  <2>2. /\ LocalesTypeOK' /\ LocalesEnUso' /\ Recorridos'
        /\ TokensEXIT' /\ BajaPendiente' /\ TimerVivo'
    BY <1>9, <1>1, <2>0 DEF VuelvePorIO, Despachado, Ir, colas, recursosVars, semaforos,
       cerrojos, cpuVars, ioVars, LocalesTypeOK, Lugares, LocalesEnUso, Recorridos,
       TokensEXIT, BajaPendiente, TimerVivo, ColasTypeOK, SemaforosTypeOK
  <2>3. CpuTypeOK' /\ AtencionIOTypeOK' /\ CortoPlazoTypeOK'
    BY <1>9, <1>1, <2>0, <2>0 DEF VuelvePorIO, Despachado, Ir, colas, recursosVars,
       semaforos, cerrojos, cpuVars, ioVars, CpuTypeOK, AtencionIOTypeOK, CortoPlazoTypeOK,
       TimerVivo, LocalesTypeOK, Lugares, LocalesEnUso
  <2> QED  BY <2>1, <2>2, <2>3, <1>1
<1>10. CASE VuelvePorPedido
  <2>0. timers' \in [Pids -> Nat] /\ hiloTimer' = FALSE
    BY <1>10, TipoCancelar DEF VuelvePorPedido
  <2>1. /\ ProcesosTypeOK' /\ ColasTypeOK' /\ RecursosTypeOK' /\ SemaforosTypeOK'
        /\ CerrojosTypeOK' /\ caido' \in BOOLEAN
    BY <1>10, <1>1, <2>0 DEF VuelvePorPedido, EsRecurso, Ir, procesos, colas, recursosVars,
       semaforos, cerrojos, cpuVars, ioVars, ProcesosTypeOK, Estados, ColasTypeOK,
       RecursosTypeOK, SemaforosTypeOK, CerrojosTypeOK, LocalesEnUso
  <2>2. /\ LocalesTypeOK' /\ LocalesEnUso' /\ Recorridos'
        /\ TokensEXIT' /\ BajaPendiente' /\ TimerVivo'
    BY <1>10, <1>1, <2>0 DEF VuelvePorPedido, EsRecurso, Ir, procesos, colas, recursosVars,
       semaforos, cerrojos, cpuVars, ioVars, LocalesTypeOK, Lugares, LocalesEnUso,
       Recorridos, TokensEXIT, BajaPendiente, TimerVivo, Despachado, ColasTypeOK,
       SemaforosTypeOK
  <2>3. CpuTypeOK' /\ AtencionIOTypeOK' /\ CortoPlazoTypeOK'
    BY <1>10, <1>1, <2>0 DEF VuelvePorPedido, EsRecurso, Ir, procesos, colas, recursosVars,
       semaforos, cerrojos, cpuVars, ioVars, CpuTypeOK, AtencionIOTypeOK, CortoPlazoTypeOK,
       TimerVivo, Despachado, LocalesTypeOK, Lugares, LocalesEnUso
  <2> QED  BY <2>1, <2>2, <2>3, <1>1
<1>11. CASE VuelvePorDevolucion
  <2>0. timers' \in [Pids -> Nat] /\ hiloTimer' = FALSE
    BY <1>11, TipoCancelar DEF VuelvePorDevolucion
  <2>1. /\ ProcesosTypeOK' /\ ColasTypeOK' /\ RecursosTypeOK' /\ SemaforosTypeOK'
        /\ CerrojosTypeOK' /\ caido' \in BOOLEAN
    BY <1>11, <1>1, <2>0, TipoSin DEF VuelvePorDevolucion, EsRecurso, Despachado,
       RecursosQueLeQuedan, Ir, colas, recursosVars, semaforos, cerrojos, cpuVars, ioVars,
       ProcesosTypeOK, Estados, ColasTypeOK, RecursosTypeOK, SemaforosTypeOK,
       CerrojosTypeOK, LocalesEnUso
  <2>2. /\ LocalesTypeOK' /\ LocalesEnUso' /\ Recorridos'
        /\ TokensEXIT' /\ BajaPendiente' /\ TimerVivo'
    BY <1>11, <1>1, <2>0 DEF VuelvePorDevolucion, EsRecurso, Despachado,
       RecursosQueLeQuedan, Ir, colas, recursosVars, semaforos, cerrojos, cpuVars, ioVars,
       LocalesTypeOK, Lugares, LocalesEnUso, Recorridos, TokensEXIT, BajaPendiente,
       TimerVivo, ColasTypeOK, SemaforosTypeOK
  <2>3. CpuTypeOK' /\ AtencionIOTypeOK' /\ CortoPlazoTypeOK'
    BY <1>11, <1>1, <2>0 DEF VuelvePorDevolucion, EsRecurso, Despachado,
       RecursosQueLeQuedan, Ir, colas, recursosVars, semaforos, cerrojos, cpuVars, ioVars,
       CpuTypeOK, AtencionIOTypeOK, CortoPlazoTypeOK, TimerVivo, LocalesTypeOK, Lugares,
       LocalesEnUso
  <2> QED  BY <2>1, <2>2, <2>3, <1>1
<1>12. CASE VuelvePorQuantum
  <2>1. /\ ProcesosTypeOK' /\ ColasTypeOK' /\ RecursosTypeOK' /\ SemaforosTypeOK'
        /\ CerrojosTypeOK' /\ caido' \in BOOLEAN
    BY <1>12, <1>1 DEF VuelvePorQuantum, DejarTimer, Despachado, Ir, colas, recursosVars,
       semaforos, cerrojos, cpuVars, ioVars, ProcesosTypeOK, Estados, ColasTypeOK,
       RecursosTypeOK, SemaforosTypeOK, CerrojosTypeOK, LocalesEnUso
  <2>2. /\ LocalesTypeOK' /\ LocalesEnUso' /\ Recorridos'
        /\ TokensEXIT' /\ BajaPendiente' /\ TimerVivo'
    BY <1>12, <1>1 DEF VuelvePorQuantum, DejarTimer, Despachado, Ir, colas, recursosVars,
       semaforos, cerrojos, cpuVars, ioVars, LocalesTypeOK, Lugares, LocalesEnUso,
       Recorridos, TokensEXIT, BajaPendiente, TimerVivo, ColasTypeOK, SemaforosTypeOK
  <2>3. CpuTypeOK' /\ AtencionIOTypeOK' /\ CortoPlazoTypeOK'
    BY <1>12, <1>1 DEF VuelvePorQuantum, DejarTimer, Despachado, Ir, colas, recursosVars,
       semaforos, cerrojos, cpuVars, ioVars, CpuTypeOK, AtencionIOTypeOK, CortoPlazoTypeOK,
       TimerVivo, LocalesTypeOK, Lugares, LocalesEnUso
  <2> QED  BY <2>1, <2>2, <2>3, <1>1
<1>13. CASE CreaHiloIO
  <2>0. Despachado \in Pids
    BY <1>13 DEF CreaHiloIO, LocalesEnUso, Despachado
  <2>1. /\ ProcesosTypeOK' /\ ColasTypeOK' /\ RecursosTypeOK' /\ SemaforosTypeOK'
        /\ CerrojosTypeOK' /\ caido' \in BOOLEAN
    BY <1>13, <1>1, <2>0 DEF CreaHiloIO, Despachado, IrIO, Ir, procesos, recursosVars,
       semaforos, cpuVars, cortoVars, ProcesosTypeOK, Estados, ColasTypeOK, RecursosTypeOK,
       SemaforosTypeOK, CerrojosTypeOK, LocalesEnUso
  <2>2. /\ LocalesTypeOK' /\ LocalesEnUso' /\ Recorridos'
        /\ TokensEXIT' /\ BajaPendiente' /\ TimerVivo'
    BY <1>13, <1>1, <2>0 DEF CreaHiloIO, Despachado, IrIO, Ir, procesos, recursosVars,
       semaforos, cpuVars, cortoVars, LocalesTypeOK, Lugares, LocalesEnUso, Recorridos,
       TokensEXIT, BajaPendiente, TimerVivo, ColasTypeOK, SemaforosTypeOK
  <2>3. CpuTypeOK'
    BY <1>13, <1>1, <2>0 DEF CreaHiloIO, Despachado, IrIO, Ir, procesos, recursosVars,
       semaforos, cpuVars, cortoVars, CpuTypeOK, LocalesTypeOK, Lugares
  <2>4. pcIO' \in [Pids -> LugaresIO]
    BY <1>13, <2>0 DEF CreaHiloIO, IrIO, AtencionIOTypeOK, LugaresIO
  <2>5. pedido' \in [Pids -> Pedidos]
    BY <1>13, <1>1, <2>0 DEF CreaHiloIO, Despachado, IrIO, Ir, procesos, recursosVars,
       semaforos, cpuVars, cortoVars, AtencionIOTypeOK, CortoPlazoTypeOK
  <2>6. CortoPlazoTypeOK'
    BY <1>13, <1>1, <2>0 DEF CreaHiloIO, Despachado, IrIO, Ir, procesos, recursosVars,
       semaforos, cpuVars, cortoVars, CortoPlazoTypeOK
  <2> QED  BY <2>1, <2>2, <2>3, <2>4, <2>5, <2>6, <1>1, <1>13 DEF AtencionIOTypeOK, CreaHiloIO
<1>14. CASE EsperaVector
  <2>1. /\ ProcesosTypeOK' /\ ColasTypeOK' /\ RecursosTypeOK' /\ SemaforosTypeOK'
        /\ CerrojosTypeOK' /\ caido' \in BOOLEAN
    BY <1>14, <1>1 DEF EsperaVector, IrSoltando, Ir, procesos, colas, recursosVars,
       semaforos, cerrojos, cpuVars, ioVars, cortoVars, ProcesosTypeOK, Estados,
       ColasTypeOK, RecursosTypeOK, SemaforosTypeOK, CerrojosTypeOK, LocalesEnUso
  <2>2. /\ LocalesTypeOK' /\ LocalesEnUso' /\ Recorridos'
        /\ TokensEXIT' /\ BajaPendiente' /\ TimerVivo'
    BY <1>14, <1>1 DEF EsperaVector, IrSoltando, Ir, procesos, colas, recursosVars,
       semaforos, cerrojos, cpuVars, ioVars, cortoVars, LocalesTypeOK, Lugares,
       LocalesEnUso, Recorridos, TokensEXIT, BajaPendiente, TimerVivo, Despachado,
       ColasTypeOK, SemaforosTypeOK
  <2>3. CpuTypeOK' /\ AtencionIOTypeOK' /\ CortoPlazoTypeOK'
    BY <1>14, <1>1 DEF EsperaVector, IrSoltando, Ir, procesos, colas, recursosVars,
       semaforos, cerrojos, cpuVars, ioVars, cortoVars, CpuTypeOK, AtencionIOTypeOK,
       CortoPlazoTypeOK, TimerVivo, Despachado, LocalesTypeOK, Lugares, LocalesEnUso
  <2> QED  BY <2>1, <2>2, <2>3, <1>1
<1>15. CASE DescuentaInstancia
  <2>0. rec["pcp"] \in Recursos
    BY <1>15 DEF DescuentaInstancia, LocalesEnUso
  <2>1. /\ ProcesosTypeOK' /\ ColasTypeOK' /\ RecursosTypeOK' /\ SemaforosTypeOK'
        /\ CerrojosTypeOK' /\ caido' \in BOOLEAN
    BY <1>15, <1>1, <2>0 DEF DescuentaInstancia, UltimosLibres, Ir, procesos, colas,
       semaforos, cerrojos, cpuVars, ioVars, cortoVars, ProcesosTypeOK, Estados,
       ColasTypeOK, RecursosTypeOK, SemaforosTypeOK, CerrojosTypeOK, LocalesEnUso
  <2>2. /\ LocalesTypeOK' /\ LocalesEnUso' /\ Recorridos'
        /\ TokensEXIT' /\ BajaPendiente' /\ TimerVivo'
    BY <1>15, <1>1, <2>0 DEF DescuentaInstancia, UltimosLibres, Ir, procesos, colas,
       semaforos, cerrojos, cpuVars, ioVars, cortoVars, LocalesTypeOK, Lugares,
       LocalesEnUso, Recorridos, TokensEXIT, BajaPendiente, TimerVivo, Despachado,
       ColasTypeOK, SemaforosTypeOK
  <2>3. CpuTypeOK' /\ AtencionIOTypeOK' /\ CortoPlazoTypeOK'
    BY <1>15, <1>1, <2>0 DEF DescuentaInstancia, UltimosLibres, Ir, procesos, colas,
       semaforos, cerrojos, cpuVars, ioVars, cortoVars, CpuTypeOK, AtencionIOTypeOK,
       CortoPlazoTypeOK, TimerVivo, Despachado, LocalesTypeOK, Lugares, LocalesEnUso
  <2> QED  BY <2>1, <2>2, <2>3, <1>1
<1>16. CASE DecideBloquear
  <2>1. /\ ProcesosTypeOK' /\ ColasTypeOK' /\ RecursosTypeOK' /\ SemaforosTypeOK'
        /\ CerrojosTypeOK' /\ caido' \in BOOLEAN
    BY <1>16, <1>1 DEF DecideBloquear, Despachado, Ir, colas, recursosVars, semaforos,
       cerrojos, cpuVars, ioVars, cortoVars, ProcesosTypeOK, Estados, ColasTypeOK,
       RecursosTypeOK, SemaforosTypeOK, CerrojosTypeOK, LocalesEnUso
  <2>2. /\ LocalesTypeOK' /\ LocalesEnUso' /\ Recorridos'
        /\ TokensEXIT' /\ BajaPendiente' /\ TimerVivo'
    BY <1>16, <1>1 DEF DecideBloquear, Despachado, Ir, colas, recursosVars, semaforos,
       cerrojos, cpuVars, ioVars, cortoVars, LocalesTypeOK, Lugares, LocalesEnUso,
       Recorridos, TokensEXIT, BajaPendiente, TimerVivo, ColasTypeOK, SemaforosTypeOK
  <2>3. CpuTypeOK' /\ AtencionIOTypeOK' /\ CortoPlazoTypeOK'
    BY <1>16, <1>1 DEF DecideBloquear, Despachado, Ir, colas, recursosVars, semaforos,
       cerrojos, cpuVars, ioVars, cortoVars, CpuTypeOK, AtencionIOTypeOK, CortoPlazoTypeOK,
       TimerVivo, LocalesTypeOK, Lugares, LocalesEnUso
  <2> QED  BY <2>1, <2>2, <2>3, <1>1
<1>17. CASE DecideOtorgar
  <2>1. /\ ProcesosTypeOK' /\ ColasTypeOK' /\ RecursosTypeOK' /\ SemaforosTypeOK'
        /\ CerrojosTypeOK' /\ caido' \in BOOLEAN
    BY <1>17, <1>1 DEF DecideOtorgar, Despachado, EstadoAlDespertar, Ir, colas,
       recursosVars, semaforos, cerrojos, cpuVars, ioVars, cortoVars, ProcesosTypeOK,
       Estados, ColasTypeOK, RecursosTypeOK, SemaforosTypeOK, CerrojosTypeOK, LocalesEnUso
  <2>2. /\ LocalesTypeOK' /\ LocalesEnUso' /\ Recorridos'
        /\ TokensEXIT' /\ BajaPendiente' /\ TimerVivo'
    BY <1>17, <1>1 DEF DecideOtorgar, Despachado, EstadoAlDespertar, Ir, colas,
       recursosVars, semaforos, cerrojos, cpuVars, ioVars, cortoVars, LocalesTypeOK,
       Lugares, LocalesEnUso, Recorridos, TokensEXIT, BajaPendiente, TimerVivo, ColasTypeOK,
       SemaforosTypeOK
  <2>3. CpuTypeOK' /\ AtencionIOTypeOK' /\ CortoPlazoTypeOK'
    BY <1>17, <1>1 DEF DecideOtorgar, Despachado, EstadoAlDespertar, Ir, colas,
       recursosVars, semaforos, cerrojos, cpuVars, ioVars, cortoVars, CpuTypeOK,
       AtencionIOTypeOK, CortoPlazoTypeOK, TimerVivo, LocalesTypeOK, Lugares, LocalesEnUso
  <2> QED  BY <2>1, <2>2, <2>3, <1>1
<1>18. CASE EncolaBloqueado
  <2>1. /\ ProcesosTypeOK' /\ ColasTypeOK' /\ RecursosTypeOK' /\ SemaforosTypeOK'
        /\ CerrojosTypeOK' /\ caido' \in BOOLEAN
    BY <1>18, <1>1 DEF EncolaBloqueado, UltimosLibres, Despachado, IrSoltando, Ir, procesos,
       colas, semaforos, cerrojos, cpuVars, ioVars, cortoVars, ProcesosTypeOK, Estados,
       ColasTypeOK, RecursosTypeOK, SemaforosTypeOK, CerrojosTypeOK, LocalesEnUso
  <2>2. /\ LocalesTypeOK' /\ LocalesEnUso' /\ Recorridos'
        /\ TokensEXIT' /\ BajaPendiente' /\ TimerVivo'
    BY <1>18, <1>1 DEF EncolaBloqueado, UltimosLibres, Despachado, IrSoltando, Ir, procesos,
       colas, semaforos, cerrojos, cpuVars, ioVars, cortoVars, LocalesTypeOK, Lugares,
       LocalesEnUso, Recorridos, TokensEXIT, BajaPendiente, TimerVivo, ColasTypeOK,
       SemaforosTypeOK
  <2>3. CpuTypeOK' /\ AtencionIOTypeOK' /\ CortoPlazoTypeOK'
    BY <1>18, <1>1 DEF EncolaBloqueado, UltimosLibres, Despachado, IrSoltando, Ir, procesos,
       colas, semaforos, cerrojos, cpuVars, ioVars, cortoVars, CpuTypeOK, AtencionIOTypeOK,
       CortoPlazoTypeOK, TimerVivo, LocalesTypeOK, Lugares, LocalesEnUso
  <2> QED  BY <2>1, <2>2, <2>3, <1>1
<1>19. CASE ReingresaReady
  <2>1. /\ ProcesosTypeOK' /\ ColasTypeOK' /\ RecursosTypeOK' /\ SemaforosTypeOK'
        /\ CerrojosTypeOK' /\ caido' \in BOOLEAN
    BY <1>19, <1>1 DEF ReingresaReady, AReady, PrimerosLibres, Despachado, Reingreso,
       IrSoltando, Ir, procesos, recursosVars, cerrojos, cpuVars, ioVars, cortoVars,
       ProcesosTypeOK, Estados, ColasTypeOK, RecursosTypeOK, SemaforosTypeOK,
       CerrojosTypeOK, LocalesEnUso
  <2>2. /\ LocalesTypeOK' /\ LocalesEnUso' /\ Recorridos'
        /\ TokensEXIT' /\ BajaPendiente' /\ TimerVivo'
    BY <1>19, <1>1 DEF ReingresaReady, AReady, PrimerosLibres, Despachado, Reingreso,
       IrSoltando, Ir, procesos, recursosVars, cerrojos, cpuVars, ioVars, cortoVars,
       LocalesTypeOK, Lugares, LocalesEnUso, Recorridos, TokensEXIT, BajaPendiente,
       TimerVivo, ColasTypeOK, SemaforosTypeOK
  <2>3. CpuTypeOK' /\ AtencionIOTypeOK' /\ CortoPlazoTypeOK'
    BY <1>19, <1>1 DEF ReingresaReady, AReady, PrimerosLibres, Despachado, Reingreso,
       IrSoltando, Ir, procesos, recursosVars, cerrojos, cpuVars, ioVars, cortoVars,
       CpuTypeOK, AtencionIOTypeOK, CortoPlazoTypeOK, TimerVivo, LocalesTypeOK, Lugares,
       LocalesEnUso
  <2> QED  BY <2>1, <2>2, <2>3, <1>1
<1>20. CASE ReingresaPlus
  <2>1. /\ ProcesosTypeOK' /\ ColasTypeOK' /\ RecursosTypeOK' /\ SemaforosTypeOK'
        /\ CerrojosTypeOK' /\ caido' \in BOOLEAN
    BY <1>20, <1>1 DEF ReingresaPlus, APlus, Despachado, Reingreso, IrSoltando, Ir,
       procesos, recursosVars, cerrojos, cpuVars, ioVars, cortoVars, ProcesosTypeOK,
       Estados, ColasTypeOK, RecursosTypeOK, SemaforosTypeOK, CerrojosTypeOK, LocalesEnUso
  <2>2. /\ LocalesTypeOK' /\ LocalesEnUso' /\ Recorridos'
        /\ TokensEXIT' /\ BajaPendiente' /\ TimerVivo'
    BY <1>20, <1>1 DEF ReingresaPlus, APlus, Despachado, Reingreso, IrSoltando, Ir,
       procesos, recursosVars, cerrojos, cpuVars, ioVars, cortoVars, LocalesTypeOK, Lugares,
       LocalesEnUso, Recorridos, TokensEXIT, BajaPendiente, TimerVivo, ColasTypeOK,
       SemaforosTypeOK
  <2>3. CpuTypeOK' /\ AtencionIOTypeOK' /\ CortoPlazoTypeOK'
    BY <1>20, <1>1 DEF ReingresaPlus, APlus, Despachado, Reingreso, IrSoltando, Ir,
       procesos, recursosVars, cerrojos, cpuVars, ioVars, cortoVars, CpuTypeOK,
       AtencionIOTypeOK, CortoPlazoTypeOK, TimerVivo, LocalesTypeOK, Lugares, LocalesEnUso
  <2> QED  BY <2>1, <2>2, <2>3, <1>1
<1>21. CASE ReingresaSinMutex
  <2>1. /\ ProcesosTypeOK' /\ ColasTypeOK' /\ RecursosTypeOK' /\ SemaforosTypeOK'
        /\ CerrojosTypeOK' /\ caido' \in BOOLEAN
    BY <1>21, <1>1 DEF ReingresaSinMutex, Despachado, Reingreso, IrSoltando, Ir, procesos,
       recursosVars, cerrojos, cpuVars, ioVars, cortoVars, ProcesosTypeOK, Estados,
       ColasTypeOK, RecursosTypeOK, SemaforosTypeOK, CerrojosTypeOK, LocalesEnUso
  <2>2. /\ LocalesTypeOK' /\ LocalesEnUso' /\ Recorridos'
        /\ TokensEXIT' /\ BajaPendiente' /\ TimerVivo'
    BY <1>21, <1>1 DEF ReingresaSinMutex, Despachado, Reingreso, IrSoltando, Ir, procesos,
       recursosVars, cerrojos, cpuVars, ioVars, cortoVars, LocalesTypeOK, Lugares,
       LocalesEnUso, Recorridos, TokensEXIT, BajaPendiente, TimerVivo, ColasTypeOK,
       SemaforosTypeOK
  <2>3. CpuTypeOK' /\ AtencionIOTypeOK' /\ CortoPlazoTypeOK'
    BY <1>21, <1>1 DEF ReingresaSinMutex, Despachado, Reingreso, IrSoltando, Ir, procesos,
       recursosVars, cerrojos, cpuVars, ioVars, cortoVars, CpuTypeOK, AtencionIOTypeOK,
       CortoPlazoTypeOK, TimerVivo, LocalesTypeOK, Lugares, LocalesEnUso
  <2> QED  BY <2>1, <2>2, <2>3, <1>1
<1>22. CASE ReingresaPerdido
  <2>1. /\ ProcesosTypeOK' /\ ColasTypeOK' /\ RecursosTypeOK' /\ SemaforosTypeOK'
        /\ CerrojosTypeOK' /\ caido' \in BOOLEAN
    BY <1>22, <1>1 DEF ReingresaPerdido, Reingreso, IrSoltando, Ir, procesos, recursosVars,
       cerrojos, cpuVars, ioVars, cortoVars, ProcesosTypeOK, Estados, ColasTypeOK,
       RecursosTypeOK, SemaforosTypeOK, CerrojosTypeOK, LocalesEnUso
  <2>2. /\ LocalesTypeOK' /\ LocalesEnUso' /\ Recorridos'
        /\ TokensEXIT' /\ BajaPendiente' /\ TimerVivo'
    BY <1>22, <1>1 DEF ReingresaPerdido, Reingreso, IrSoltando, Ir, procesos, recursosVars,
       cerrojos, cpuVars, ioVars, cortoVars, LocalesTypeOK, Lugares, LocalesEnUso,
       Recorridos, TokensEXIT, BajaPendiente, TimerVivo, Despachado, ColasTypeOK,
       SemaforosTypeOK
  <2>3. CpuTypeOK' /\ AtencionIOTypeOK' /\ CortoPlazoTypeOK'
    BY <1>22, <1>1 DEF ReingresaPerdido, Reingreso, IrSoltando, Ir, procesos, recursosVars,
       cerrojos, cpuVars, ioVars, cortoVars, CpuTypeOK, AtencionIOTypeOK, CortoPlazoTypeOK,
       TimerVivo, Despachado, LocalesTypeOK, Lugares, LocalesEnUso
  <2> QED  BY <2>1, <2>2, <2>3, <1>1
<1>23. CASE TerminaMatadero("pcp") /\ UNCHANGED <<cpuVars, ioVars, cortoVars>>
  BY <1>23, TipoTerminaMatadero DEF consolaVars
<1>24. CASE LiberarRecurso("pcp") /\ UNCHANGED <<cpuVars, ioVars, cortoVars>>
  BY <1>24, TipoLiberarRecurso DEF consolaVars
<1> QED  BY <1>2, <1>3, <1>4, <1>5, <1>6, <1>7, <1>8, <1>9, <1>10, <1>11, <1>12, <1>13,
           <1>14, <1>15, <1>16, <1>17, <1>18, <1>19, <1>20, <1>21, <1>22, <1>23, <1>24 DEF PCP

\* Every step of the console keeps the types.
LEMMA TipoConsola ==
  ASSUME ITipo, ConsolaNext, UNCHANGED <<ioVars, cortoVars>>
  PROVE  ITipo'
<1> USE DEF ITipo, TypeOK, PlanificacionTypeOK, Hilos
<1>1. AtencionIOTypeOK' /\ CortoPlazoTypeOK' /\ UNCHANGED <<timers, hiloTimer>>
  BY DEF AtencionIOTypeOK, CortoPlazoTypeOK, ioVars, cortoVars
<1>2. CASE CrearProceso
  <2>0. idPCB \in Pids /\ idPCB + 1 \in 1..(MaxPid + 1)
    BY <1>2, CpuAssumption DEF CrearProceso, ProcesosTypeOK, Pids
  <2>1. /\ ProcesosTypeOK' /\ ColasTypeOK' /\ RecursosTypeOK' /\ SemaforosTypeOK'
        /\ CerrojosTypeOK' /\ caido' \in BOOLEAN
    BY <1>2, <1>1, <2>0 DEF CrearProceso, Lee, recursosVars, cerrojos, locales, cpuVars,
       consolaVars, ProcesosTypeOK, Estados, ColasTypeOK, RecursosTypeOK, SemaforosTypeOK,
       CerrojosTypeOK, LocalesEnUso
  <2>2. /\ LocalesTypeOK' /\ LocalesEnUso' /\ Recorridos'
        /\ TokensEXIT' /\ BajaPendiente' /\ TimerVivo'
    BY <1>2, <1>1, <2>0 DEF CrearProceso, Lee, recursosVars, cerrojos, locales, cpuVars,
       consolaVars, LocalesTypeOK, Lugares, LocalesEnUso, Recorridos, TokensEXIT,
       BajaPendiente, TimerVivo, Despachado, ColasTypeOK, SemaforosTypeOK, ConsolaTypeOK,
       Ordenes
  <2>3. CpuTypeOK' /\ ConsolaTypeOK'
    BY <1>2, <1>1, <2>0 DEF CrearProceso, Lee, recursosVars, cerrojos, locales, cpuVars,
       consolaVars, CpuTypeOK, ConsolaTypeOK, Ordenes
  <2> QED  BY <2>1, <2>2, <2>3, <1>1
<1>3. CASE DetenerPlanificacion
  <2>1. /\ ProcesosTypeOK' /\ ColasTypeOK' /\ RecursosTypeOK' /\ SemaforosTypeOK'
        /\ CerrojosTypeOK' /\ caido' \in BOOLEAN
    BY <1>3, <1>1 DEF DetenerPlanificacion, Lee, DetenerPara, Ir, procesos, colas,
       recursosVars, semaforos, cpuVars, ProcesosTypeOK, Estados, ColasTypeOK,
       RecursosTypeOK, SemaforosTypeOK, CerrojosTypeOK, LocalesEnUso
  <2>2. /\ LocalesTypeOK' /\ LocalesEnUso' /\ Recorridos'
        /\ TokensEXIT' /\ BajaPendiente' /\ TimerVivo'
    BY <1>3, <1>1 DEF DetenerPlanificacion, Lee, DetenerPara, Ir, procesos, colas,
       recursosVars, semaforos, cpuVars, LocalesTypeOK, Lugares, LocalesEnUso, Recorridos,
       TokensEXIT, BajaPendiente, TimerVivo, Despachado, ColasTypeOK, SemaforosTypeOK,
       ConsolaTypeOK, Ordenes
  <2>3. CpuTypeOK' /\ ConsolaTypeOK'
    BY <1>3, <1>1 DEF DetenerPlanificacion, Lee, DetenerPara, Ir, procesos, colas,
       recursosVars, semaforos, cpuVars, CpuTypeOK, ConsolaTypeOK, Ordenes
  <2> QED  BY <2>1, <2>2, <2>3, <1>1
<1>4. CASE TomaMutexes
  <2>1. /\ ProcesosTypeOK' /\ ColasTypeOK' /\ RecursosTypeOK' /\ SemaforosTypeOK'
        /\ CerrojosTypeOK' /\ caido' \in BOOLEAN
    BY <1>4, <1>1 DEF TomaMutexes, Ir, procesos, colas, recursosVars, semaforos, cpuVars,
       ProcesosTypeOK, Estados, ColasTypeOK, RecursosTypeOK, SemaforosTypeOK,
       CerrojosTypeOK, LocalesEnUso
  <2>2. /\ LocalesTypeOK' /\ LocalesEnUso' /\ Recorridos'
        /\ TokensEXIT' /\ BajaPendiente' /\ TimerVivo'
    BY <1>4, <1>1 DEF TomaMutexes, Ir, procesos, colas, recursosVars, semaforos, cpuVars,
       LocalesTypeOK, Lugares, LocalesEnUso, Recorridos, TokensEXIT, BajaPendiente,
       TimerVivo, Despachado, ColasTypeOK, SemaforosTypeOK, ConsolaTypeOK, Ordenes
  <2>3. CpuTypeOK' /\ ConsolaTypeOK'
    BY <1>4, <1>1 DEF TomaMutexes, Ir, procesos, colas, recursosVars, semaforos, cpuVars,
       CpuTypeOK, ConsolaTypeOK, Ordenes
  <2> QED  BY <2>1, <2>2, <2>3, <1>1
<1>5. CASE IniciarPlanificacion
  <2>1. /\ ProcesosTypeOK' /\ ColasTypeOK' /\ RecursosTypeOK' /\ SemaforosTypeOK'
        /\ CerrojosTypeOK' /\ caido' \in BOOLEAN
    BY <1>5, <1>1 DEF IniciarPlanificacion, Lee, Reanudar, procesos, colas, recursosVars,
       semaforos, locales, cpuVars, consolaVars, ProcesosTypeOK, Estados, ColasTypeOK,
       RecursosTypeOK, SemaforosTypeOK, CerrojosTypeOK, LocalesEnUso
  <2>2. /\ LocalesTypeOK' /\ LocalesEnUso' /\ Recorridos'
        /\ TokensEXIT' /\ BajaPendiente' /\ TimerVivo'
    BY <1>5, <1>1 DEF IniciarPlanificacion, Lee, Reanudar, procesos, colas, recursosVars,
       semaforos, locales, cpuVars, consolaVars, LocalesTypeOK, Lugares, LocalesEnUso,
       Recorridos, TokensEXIT, BajaPendiente, TimerVivo, Despachado, ColasTypeOK,
       SemaforosTypeOK, ConsolaTypeOK, Ordenes
  <2>3. CpuTypeOK' /\ ConsolaTypeOK'
    BY <1>5, <1>1 DEF IniciarPlanificacion, Lee, Reanudar, procesos, colas, recursosVars,
       semaforos, locales, cpuVars, consolaVars, CpuTypeOK, ConsolaTypeOK, Ordenes
  <2> QED  BY <2>1, <2>2, <2>3, <1>1
<1>6. CASE ProcesoEstado
  <2>1. /\ ProcesosTypeOK' /\ ColasTypeOK' /\ RecursosTypeOK' /\ SemaforosTypeOK'
        /\ CerrojosTypeOK' /\ caido' \in BOOLEAN
    BY <1>6, <1>1 DEF ProcesoEstado, Lee, DetenerPara, Ir, procesos, colas, recursosVars,
       semaforos, cpuVars, ProcesosTypeOK, Estados, ColasTypeOK, RecursosTypeOK,
       SemaforosTypeOK, CerrojosTypeOK, LocalesEnUso
  <2>2. /\ LocalesTypeOK' /\ LocalesEnUso' /\ Recorridos'
        /\ TokensEXIT' /\ BajaPendiente' /\ TimerVivo'
    BY <1>6, <1>1 DEF ProcesoEstado, Lee, DetenerPara, Ir, procesos, colas, recursosVars,
       semaforos, cpuVars, LocalesTypeOK, Lugares, LocalesEnUso, Recorridos, TokensEXIT,
       BajaPendiente, TimerVivo, Despachado, ColasTypeOK, SemaforosTypeOK, ConsolaTypeOK,
       Ordenes
  <2>3. CpuTypeOK' /\ ConsolaTypeOK'
    BY <1>6, <1>1 DEF ProcesoEstado, Lee, DetenerPara, Ir, procesos, colas, recursosVars,
       semaforos, cpuVars, CpuTypeOK, ConsolaTypeOK, Ordenes
  <2> QED  BY <2>1, <2>2, <2>3, <1>1
<1>7. CASE ListaProcesos
  <2>1. /\ ProcesosTypeOK' /\ ColasTypeOK' /\ RecursosTypeOK' /\ SemaforosTypeOK'
        /\ CerrojosTypeOK' /\ caido' \in BOOLEAN
    BY <1>7, <1>1 DEF ListaProcesos, Reanudar, Ir, procesos, colas, recursosVars, semaforos,
       cpuVars, consolaVars, ProcesosTypeOK, Estados, ColasTypeOK, RecursosTypeOK,
       SemaforosTypeOK, CerrojosTypeOK, LocalesEnUso
  <2>2. /\ LocalesTypeOK' /\ LocalesEnUso' /\ Recorridos'
        /\ TokensEXIT' /\ BajaPendiente' /\ TimerVivo'
    BY <1>7, <1>1 DEF ListaProcesos, Reanudar, Ir, procesos, colas, recursosVars, semaforos,
       cpuVars, consolaVars, LocalesTypeOK, Lugares, LocalesEnUso, Recorridos, TokensEXIT,
       BajaPendiente, TimerVivo, Despachado, ColasTypeOK, SemaforosTypeOK, ConsolaTypeOK,
       Ordenes
  <2>3. CpuTypeOK' /\ ConsolaTypeOK'
    BY <1>7, <1>1 DEF ListaProcesos, Reanudar, Ir, procesos, colas, recursosVars, semaforos,
       cpuVars, consolaVars, CpuTypeOK, ConsolaTypeOK, Ordenes
  <2> QED  BY <2>1, <2>2, <2>3, <1>1
<1>8. CASE \E p \in Pids : InterrumpirProceso(p)
  <2>1. /\ ProcesosTypeOK' /\ ColasTypeOK' /\ RecursosTypeOK' /\ SemaforosTypeOK'
        /\ CerrojosTypeOK' /\ caido' \in BOOLEAN
    BY <1>8, <1>1 DEF InterrumpirProceso, Lee, EnviarInt, Intr, planVars, procesos, colas,
       recursosVars, semaforos, cerrojos, locales, consolaVars, ProcesosTypeOK, Estados,
       ColasTypeOK, RecursosTypeOK, SemaforosTypeOK, CerrojosTypeOK, LocalesEnUso
  <2>2. /\ LocalesTypeOK' /\ LocalesEnUso' /\ Recorridos'
        /\ TokensEXIT' /\ BajaPendiente' /\ TimerVivo'
    BY <1>8, <1>1 DEF InterrumpirProceso, Lee, EnviarInt, Intr, planVars, procesos, colas,
       recursosVars, semaforos, cerrojos, locales, consolaVars, LocalesTypeOK, Lugares,
       LocalesEnUso, Recorridos, TokensEXIT, BajaPendiente, TimerVivo, Despachado,
       ColasTypeOK, SemaforosTypeOK, ConsolaTypeOK, Ordenes
  <2>3. CpuTypeOK' /\ ConsolaTypeOK'
    BY <1>8, <1>1 DEF InterrumpirProceso, Lee, EnviarInt, Intr, planVars, procesos, colas,
       recursosVars, semaforos, cerrojos, locales, consolaVars, CpuTypeOK, Interrupciones,
       ConsolaTypeOK, Ordenes
  <2> QED  BY <2>1, <2>2, <2>3, <1>1
<1>9. CASE \E p \in Pids : FinalizarProceso(p)
  <2>1. /\ ProcesosTypeOK' /\ ColasTypeOK' /\ RecursosTypeOK' /\ SemaforosTypeOK'
        /\ CerrojosTypeOK' /\ caido' \in BOOLEAN
    BY <1>9, <1>1 DEF FinalizarProceso, Lee, DetenerPara, Ir, procesos, colas, recursosVars,
       semaforos, cpuVars, cerrojos, consolaVars, ProcesosTypeOK, Estados, ColasTypeOK,
       RecursosTypeOK, SemaforosTypeOK, CerrojosTypeOK, LocalesEnUso
  <2>2. /\ LocalesTypeOK' /\ LocalesEnUso' /\ Recorridos'
        /\ TokensEXIT' /\ BajaPendiente' /\ TimerVivo'
    BY <1>9, <1>1 DEF FinalizarProceso, Lee, DetenerPara, Ir, procesos, colas, recursosVars,
       semaforos, cpuVars, cerrojos, consolaVars, LocalesTypeOK, Lugares, LocalesEnUso,
       Recorridos, TokensEXIT, BajaPendiente, TimerVivo, Despachado, ColasTypeOK,
       SemaforosTypeOK, ConsolaTypeOK, Ordenes
  <2>3. CpuTypeOK' /\ ConsolaTypeOK'
    BY <1>9, <1>1 DEF FinalizarProceso, Lee, DetenerPara, Ir, procesos, colas, recursosVars,
       semaforos, cpuVars, cerrojos, consolaVars, CpuTypeOK, ConsolaTypeOK, Ordenes
  <2> QED  BY <2>1, <2>2, <2>3, <1>1
<1>10. CASE BuscaVictima
  <2>1. /\ ProcesosTypeOK' /\ ColasTypeOK' /\ RecursosTypeOK' /\ SemaforosTypeOK'
        /\ CerrojosTypeOK' /\ caido' \in BOOLEAN
    BY <1>10, <1>1 DEF BuscaVictima, Victima, Ir, procesos, colas, recursosVars, semaforos,
       cerrojos, cpuVars, consolaVars, ProcesosTypeOK, Estados, ColasTypeOK, RecursosTypeOK,
       SemaforosTypeOK, CerrojosTypeOK, LocalesEnUso
  <2>2. /\ LocalesTypeOK' /\ LocalesEnUso' /\ Recorridos'
        /\ TokensEXIT' /\ BajaPendiente' /\ TimerVivo'
    BY <1>10, <1>1 DEF BuscaVictima, Victima, Ir, procesos, colas, recursosVars, semaforos,
       cerrojos, cpuVars, consolaVars, LocalesTypeOK, Lugares, LocalesEnUso, Recorridos,
       TokensEXIT, BajaPendiente, TimerVivo, Despachado, ColasTypeOK, SemaforosTypeOK,
       ConsolaTypeOK, Ordenes
  <2>3. CpuTypeOK' /\ ConsolaTypeOK'
    BY <1>10, <1>1 DEF BuscaVictima, Victima, Ir, procesos, colas, recursosVars, semaforos,
       cerrojos, cpuVars, consolaVars, CpuTypeOK, ConsolaTypeOK, Ordenes
  <2> QED  BY <2>1, <2>2, <2>3, <1>1
<1>11. CASE NoEncuentra
  <2>1. /\ ProcesosTypeOK' /\ ColasTypeOK' /\ RecursosTypeOK' /\ SemaforosTypeOK'
        /\ CerrojosTypeOK' /\ caido' \in BOOLEAN
    BY <1>11, <1>1 DEF NoEncuentra, Victima, Reanudar, IrSoltando, Ir, procesos, colas,
       recursosVars, semaforos, cpuVars, consolaVars, ProcesosTypeOK, Estados, ColasTypeOK,
       RecursosTypeOK, SemaforosTypeOK, CerrojosTypeOK, LocalesEnUso
  <2>2. /\ LocalesTypeOK' /\ LocalesEnUso' /\ Recorridos'
        /\ TokensEXIT' /\ BajaPendiente' /\ TimerVivo'
    BY <1>11, <1>1 DEF NoEncuentra, Victima, Reanudar, IrSoltando, Ir, procesos, colas,
       recursosVars, semaforos, cpuVars, consolaVars, LocalesTypeOK, Lugares, LocalesEnUso,
       Recorridos, TokensEXIT, BajaPendiente, TimerVivo, Despachado, ColasTypeOK,
       SemaforosTypeOK, ConsolaTypeOK, Ordenes
  <2>3. CpuTypeOK' /\ ConsolaTypeOK'
    BY <1>11, <1>1 DEF NoEncuentra, Victima, Reanudar, IrSoltando, Ir, procesos, colas,
       recursosVars, semaforos, cpuVars, consolaVars, CpuTypeOK, ConsolaTypeOK, Ordenes
  <2> QED  BY <2>1, <2>2, <2>3, <1>1
<1>12. CASE QuitaVictima
  <2>0. /\ cNEW' \in Seq(Pids) /\ cREADY' \in Seq(Pids) /\ cREADY_PLUS' \in Seq(Pids)
        /\ lBlocked' \in SUBSET Pids
        /\ cBloqueados' \in [Recursos -> Seq(Pids)]
    BY <1>12, TipoQuitar DEF QuitaVictima
  <2>1. /\ ProcesosTypeOK' /\ ColasTypeOK' /\ RecursosTypeOK' /\ SemaforosTypeOK'
        /\ CerrojosTypeOK' /\ caido' \in BOOLEAN
    BY <1>12, <1>1, <2>0 DEF QuitaVictima, Victima, Reanudar, Matar, Ir, cpuVars,
       consolaVars, ProcesosTypeOK, Estados, ColasTypeOK, RecursosTypeOK, SemaforosTypeOK,
       CerrojosTypeOK, LocalesEnUso
  <2>2. /\ LocalesTypeOK' /\ LocalesEnUso' /\ Recorridos'
        /\ TokensEXIT' /\ BajaPendiente' /\ TimerVivo'
    BY <1>12, <1>1, <2>0 DEF QuitaVictima, Victima, Reanudar, Matar, Ir, cpuVars,
       consolaVars, LocalesTypeOK, Lugares, LocalesEnUso, Recorridos, TokensEXIT,
       BajaPendiente, TimerVivo, Despachado, ColasTypeOK, SemaforosTypeOK, ConsolaTypeOK,
       Ordenes
  <2>3. CpuTypeOK' /\ ConsolaTypeOK'
    BY <1>12, <1>1, <2>0 DEF QuitaVictima, Victima, Reanudar, Matar, Ir, cpuVars,
       consolaVars, CpuTypeOK, ConsolaTypeOK, Ordenes
  <2> QED  BY <2>1, <2>2, <2>3, <1>1
<1>13. CASE QuitaVictimaYaLibre
  <2>1. /\ ProcesosTypeOK' /\ ColasTypeOK' /\ RecursosTypeOK' /\ SemaforosTypeOK'
        /\ CerrojosTypeOK' /\ caido' \in BOOLEAN
    BY <1>13, <1>1 DEF QuitaVictimaYaLibre, Victima, Caer, procesos, colas, recursosVars,
       semaforos, cerrojos, locales, cpuVars, consolaVars, ProcesosTypeOK, Estados,
       ColasTypeOK, RecursosTypeOK, SemaforosTypeOK, CerrojosTypeOK, LocalesEnUso
  <2>2. /\ LocalesTypeOK' /\ LocalesEnUso' /\ Recorridos'
        /\ TokensEXIT' /\ BajaPendiente' /\ TimerVivo'
    BY <1>13, <1>1 DEF QuitaVictimaYaLibre, Victima, Caer, procesos, colas, recursosVars,
       semaforos, cerrojos, locales, cpuVars, consolaVars, LocalesTypeOK, Lugares,
       LocalesEnUso, Recorridos, TokensEXIT, BajaPendiente, TimerVivo, Despachado,
       ColasTypeOK, SemaforosTypeOK, ConsolaTypeOK, Ordenes
  <2>3. CpuTypeOK' /\ ConsolaTypeOK'
    BY <1>13, <1>1 DEF QuitaVictimaYaLibre, Victima, Caer, procesos, colas, recursosVars,
       semaforos, cerrojos, locales, cpuVars, consolaVars, CpuTypeOK, ConsolaTypeOK, Ordenes
  <2> QED  BY <2>1, <2>2, <2>3, <1>1
<1>14. CASE QuitaVictimaReady
  <2>0. /\ cNEW' \in Seq(Pids) /\ cREADY' \in Seq(Pids) /\ cREADY_PLUS' \in Seq(Pids)
        /\ lBlocked' \in SUBSET Pids
        /\ cBloqueados' \in [Recursos -> Seq(Pids)]
    BY <1>14, TipoQuitar DEF QuitaVictimaReady
  <2>1. /\ ProcesosTypeOK' /\ ColasTypeOK' /\ RecursosTypeOK' /\ SemaforosTypeOK'
        /\ CerrojosTypeOK' /\ caido' \in BOOLEAN
    BY <1>14, <1>1, <2>0 DEF QuitaVictimaReady, Victima, Ir, procesos, semaforos, cerrojos,
       cpuVars, consolaVars, ProcesosTypeOK, Estados, ColasTypeOK, RecursosTypeOK,
       SemaforosTypeOK, CerrojosTypeOK, LocalesEnUso
  <2>2. /\ LocalesTypeOK' /\ LocalesEnUso' /\ Recorridos'
        /\ TokensEXIT' /\ BajaPendiente' /\ TimerVivo'
    BY <1>14, <1>1, <2>0 DEF QuitaVictimaReady, Victima, Ir, procesos, semaforos, cerrojos,
       cpuVars, consolaVars, LocalesTypeOK, Lugares, LocalesEnUso, Recorridos, TokensEXIT,
       BajaPendiente, TimerVivo, Despachado, ColasTypeOK, SemaforosTypeOK, ConsolaTypeOK,
       Ordenes
  <2>3. CpuTypeOK' /\ ConsolaTypeOK'
    BY <1>14, <1>1, <2>0 DEF QuitaVictimaReady, Victima, Ir, procesos, semaforos, cerrojos,
       cpuVars, consolaVars, CpuTypeOK, ConsolaTypeOK, Ordenes
  <2> QED  BY <2>1, <2>2, <2>3, <1>1
<1>15. CASE EsperaToken
  <2>1. /\ ProcesosTypeOK' /\ ColasTypeOK' /\ RecursosTypeOK' /\ SemaforosTypeOK'
        /\ CerrojosTypeOK' /\ caido' \in BOOLEAN
    BY <1>15, <1>1 DEF EsperaToken, Reanudar, Matar, Victima, Ir, colas, recursosVars,
       cpuVars, consolaVars, ProcesosTypeOK, Estados, ColasTypeOK, RecursosTypeOK,
       SemaforosTypeOK, CerrojosTypeOK, LocalesEnUso
  <2>2. /\ LocalesTypeOK' /\ LocalesEnUso' /\ Recorridos'
        /\ TokensEXIT' /\ BajaPendiente' /\ TimerVivo'
    BY <1>15, <1>1 DEF EsperaToken, Reanudar, Matar, Victima, Ir, colas, recursosVars,
       cpuVars, consolaVars, LocalesTypeOK, Lugares, LocalesEnUso, Recorridos, TokensEXIT,
       BajaPendiente, TimerVivo, Despachado, ColasTypeOK, SemaforosTypeOK, ConsolaTypeOK,
       Ordenes
  <2>3. CpuTypeOK' /\ ConsolaTypeOK'
    BY <1>15, <1>1 DEF EsperaToken, Reanudar, Matar, Victima, Ir, colas, recursosVars,
       cpuVars, consolaVars, CpuTypeOK, ConsolaTypeOK, Ordenes
  <2> QED  BY <2>1, <2>2, <2>3, <1>1
<1>16. CASE \E g \in Grados : SubirGrado(g)
  <2>0. PICK g \in Grados : SubirGrado(g) /\ g \in Nat
    BY <1>16, ConsolaAssumption
  <2>1. /\ ProcesosTypeOK' /\ ColasTypeOK' /\ RecursosTypeOK' /\ SemaforosTypeOK'
        /\ CerrojosTypeOK' /\ caido' \in BOOLEAN
    BY <1>16, <1>1, <2>0 DEF SubirGrado, Lee, procesos, colas, recursosVars, cerrojos,
       locales, cpuVars, ProcesosTypeOK, Estados, ColasTypeOK, RecursosTypeOK,
       SemaforosTypeOK, CerrojosTypeOK, LocalesEnUso, ConsolaTypeOK, Ordenes
  <2>2. /\ LocalesTypeOK' /\ LocalesEnUso' /\ Recorridos'
        /\ TokensEXIT' /\ BajaPendiente' /\ TimerVivo'
    BY <1>16, <1>1, <2>0 DEF SubirGrado, Lee, procesos, colas, recursosVars, cerrojos,
       locales, cpuVars, LocalesTypeOK, Lugares, LocalesEnUso, Recorridos, TokensEXIT,
       BajaPendiente, TimerVivo, Despachado, ColasTypeOK, SemaforosTypeOK, ConsolaTypeOK,
       Ordenes
  <2>3. CpuTypeOK' /\ ConsolaTypeOK'
    BY <1>16, <1>1, <2>0 DEF SubirGrado, Lee, procesos, colas, recursosVars, cerrojos,
       locales, cpuVars, CpuTypeOK, ConsolaTypeOK, Ordenes
  <2> QED  BY <2>1, <2>2, <2>3, <1>1
<1>17. CASE \E g \in Grados : BajarGrado(g)
  <2>0. PICK g \in Grados : BajarGrado(g) /\ g \in Nat
    BY <1>17, ConsolaAssumption
  <2>1. /\ ProcesosTypeOK' /\ ColasTypeOK' /\ RecursosTypeOK' /\ SemaforosTypeOK'
        /\ CerrojosTypeOK' /\ caido' \in BOOLEAN
    BY <1>17, <1>1, <2>0 DEF BajarGrado, Lee, Ir, procesos, colas, recursosVars, semaforos,
       cerrojos, cpuVars, ProcesosTypeOK, Estados, ColasTypeOK, RecursosTypeOK,
       SemaforosTypeOK, CerrojosTypeOK, LocalesEnUso
  <2>2. /\ LocalesTypeOK' /\ LocalesEnUso' /\ Recorridos'
        /\ TokensEXIT' /\ BajaPendiente' /\ TimerVivo'
    BY <1>17, <1>1, <2>0 DEF BajarGrado, Lee, Ir, procesos, colas, recursosVars, semaforos,
       cerrojos, cpuVars, LocalesTypeOK, Lugares, LocalesEnUso, Recorridos, TokensEXIT,
       BajaPendiente, TimerVivo, Despachado, ColasTypeOK, SemaforosTypeOK, ConsolaTypeOK,
       Ordenes
  <2>3. CpuTypeOK' /\ ConsolaTypeOK'
    BY <1>17, <1>1, <2>0 DEF BajarGrado, Lee, Ir, procesos, colas, recursosVars, semaforos,
       cerrojos, cpuVars, CpuTypeOK, ConsolaTypeOK, Ordenes
  <2> QED  BY <2>1, <2>2, <2>3, <1>1
<1>18. CASE RetiraCupo
  <2>1. /\ ProcesosTypeOK' /\ ColasTypeOK' /\ RecursosTypeOK' /\ SemaforosTypeOK'
        /\ CerrojosTypeOK' /\ caido' \in BOOLEAN
    BY <1>18, <1>1 DEF RetiraCupo, Ir, procesos, colas, recursosVars, cerrojos, cpuVars,
       ProcesosTypeOK, Estados, ColasTypeOK, RecursosTypeOK, SemaforosTypeOK,
       CerrojosTypeOK, LocalesEnUso
  <2>2. /\ LocalesTypeOK' /\ LocalesEnUso' /\ Recorridos'
        /\ TokensEXIT' /\ BajaPendiente' /\ TimerVivo'
    BY <1>18, <1>1 DEF RetiraCupo, Ir, procesos, colas, recursosVars, cerrojos, cpuVars,
       LocalesTypeOK, Lugares, LocalesEnUso, Recorridos, TokensEXIT, BajaPendiente,
       TimerVivo, Despachado, ColasTypeOK, SemaforosTypeOK, ConsolaTypeOK, Ordenes
  <2>3. CpuTypeOK' /\ ConsolaTypeOK'
    BY <1>18, <1>1 DEF RetiraCupo, Ir, procesos, colas, recursosVars, cerrojos, cpuVars,
       CpuTypeOK, ConsolaTypeOK, Ordenes, BajaPendiente
  <2> QED  BY <2>1, <2>2, <2>3, <1>1
<1>19. CASE TerminaMatadero("consola") /\ UNCHANGED <<cpuVars, consolaVars>>
  BY <1>19, TipoTerminaMatadero DEF ioVars, cortoVars
<1> QED  BY <1>2, <1>3, <1>4, <1>5, <1>6, <1>7, <1>8, <1>9, <1>10, <1>11, <1>12, <1>13,
           <1>14, <1>15, <1>16, <1>17, <1>18, <1>19 DEF ConsolaNext

\* Every step of an I/O thread keeps the types.
LEMMA TipoIO ==
  ASSUME ITipo, NEW p \in Pids, AtenderSolicitudIO(p), UNCHANGED <<cortoVars, consolaVars>>
  PROVE  ITipo'
<1> USE DEF ITipo, TypeOK, PlanificacionTypeOK, Hilos
<1>1. /\ CortoPlazoTypeOK' /\ ConsolaTypeOK'
      /\ UNCHANGED <<orden, multiprogramacion, gradoNuevo, timers, hiloTimer>>
  BY DEF CortoPlazoTypeOK, ConsolaTypeOK, cortoVars, consolaVars
<1>2. CASE RecibeVector(p)
  <2>0. dispatch' \in Seq(Mensajes)
    BY <1>2 DEF RecibeVector, CpuTypeOK
  <2>1. /\ ProcesosTypeOK' /\ ColasTypeOK' /\ RecursosTypeOK' /\ SemaforosTypeOK'
        /\ CerrojosTypeOK' /\ caido' \in BOOLEAN
    BY <1>2, <1>1 DEF RecibeVector, IrIO, procesos, colas, recursosVars, semaforos, locales,
       ProcesosTypeOK, Estados, ColasTypeOK, RecursosTypeOK, SemaforosTypeOK,
       CerrojosTypeOK, LocalesEnUso
  <2>2. /\ LocalesTypeOK' /\ LocalesEnUso' /\ Recorridos'
        /\ TokensEXIT' /\ BajaPendiente' /\ TimerVivo'
    BY <1>2, <1>1 DEF RecibeVector, IrIO, procesos, colas, recursosVars, semaforos, locales,
       LocalesTypeOK, Lugares, LocalesEnUso, Recorridos, TokensEXIT, BajaPendiente,
       TimerVivo, Despachado, ColasTypeOK, SemaforosTypeOK
  <2>3. CpuTypeOK' /\ AtencionIOTypeOK'
    BY <1>2, <1>1, <2>0 DEF RecibeVector, IrIO, procesos, colas, recursosVars, semaforos,
       locales, CpuTypeOK, AtencionIOTypeOK, LugaresIO
  <2> QED  BY <2>1, <2>2, <2>3, <1>1
<1>3. CASE BuscaInterfaz(p)
  <2>1. /\ ProcesosTypeOK' /\ ColasTypeOK' /\ RecursosTypeOK' /\ SemaforosTypeOK'
        /\ CerrojosTypeOK' /\ caido' \in BOOLEAN
    BY <1>3, <1>1 DEF BuscaInterfaz, IrIO, planVars, procesos, colas, recursosVars,
       semaforos, cerrojos, locales, cpuVars, ProcesosTypeOK, Estados, ColasTypeOK,
       RecursosTypeOK, SemaforosTypeOK, CerrojosTypeOK, LocalesEnUso
  <2>2. /\ LocalesTypeOK' /\ LocalesEnUso' /\ Recorridos'
        /\ TokensEXIT' /\ BajaPendiente' /\ TimerVivo'
    BY <1>3, <1>1 DEF BuscaInterfaz, IrIO, planVars, procesos, colas, recursosVars,
       semaforos, cerrojos, locales, cpuVars, LocalesTypeOK, Lugares, LocalesEnUso,
       Recorridos, TokensEXIT, BajaPendiente, TimerVivo, Despachado, ColasTypeOK,
       SemaforosTypeOK
  <2>3. CpuTypeOK' /\ AtencionIOTypeOK'
    BY <1>3, <1>1 DEF BuscaInterfaz, IrIO, planVars, procesos, colas, recursosVars,
       semaforos, cerrojos, locales, cpuVars, CpuTypeOK, AtencionIOTypeOK, LugaresIO
  <2> QED  BY <2>1, <2>2, <2>3, <1>1
<1>4. CASE TomaInterfaz(p)
  <2>1. /\ ProcesosTypeOK' /\ ColasTypeOK' /\ RecursosTypeOK' /\ SemaforosTypeOK'
        /\ CerrojosTypeOK' /\ caido' \in BOOLEAN
    BY <1>4, <1>1 DEF TomaInterfaz, IrIO, procesos, recursosVars, semaforos, cerrojos,
       locales, cpuVars, ProcesosTypeOK, Estados, ColasTypeOK, RecursosTypeOK,
       SemaforosTypeOK, CerrojosTypeOK, LocalesEnUso
  <2>2. /\ LocalesTypeOK' /\ LocalesEnUso' /\ Recorridos'
        /\ TokensEXIT' /\ BajaPendiente' /\ TimerVivo'
    BY <1>4, <1>1 DEF TomaInterfaz, IrIO, procesos, recursosVars, semaforos, cerrojos,
       locales, cpuVars, LocalesTypeOK, Lugares, LocalesEnUso, Recorridos, TokensEXIT,
       BajaPendiente, TimerVivo, Despachado, ColasTypeOK, SemaforosTypeOK
  <2>3. CpuTypeOK' /\ AtencionIOTypeOK'
    BY <1>4, <1>1 DEF TomaInterfaz, IrIO, procesos, recursosVars, semaforos, cerrojos,
       locales, cpuVars, CpuTypeOK, AtencionIOTypeOK, LugaresIO
  <2> QED  BY <2>1, <2>2, <2>3, <1>1
<1>5. CASE UsaConexionLiberada(p)
  <2>1. /\ ProcesosTypeOK' /\ ColasTypeOK' /\ RecursosTypeOK' /\ SemaforosTypeOK'
        /\ CerrojosTypeOK' /\ caido' \in BOOLEAN
    BY <1>5, <1>1 DEF UsaConexionLiberada, Caer, procesos, colas, recursosVars, semaforos,
       cerrojos, locales, cpuVars, ioVars, ProcesosTypeOK, Estados, ColasTypeOK,
       RecursosTypeOK, SemaforosTypeOK, CerrojosTypeOK, LocalesEnUso
  <2>2. /\ LocalesTypeOK' /\ LocalesEnUso' /\ Recorridos'
        /\ TokensEXIT' /\ BajaPendiente' /\ TimerVivo'
    BY <1>5, <1>1 DEF UsaConexionLiberada, Caer, procesos, colas, recursosVars, semaforos,
       cerrojos, locales, cpuVars, ioVars, LocalesTypeOK, Lugares, LocalesEnUso, Recorridos,
       TokensEXIT, BajaPendiente, TimerVivo, Despachado, ColasTypeOK, SemaforosTypeOK
  <2>3. CpuTypeOK' /\ AtencionIOTypeOK'
    BY <1>5, <1>1 DEF UsaConexionLiberada, Caer, procesos, colas, recursosVars, semaforos,
       cerrojos, locales, cpuVars, ioVars, CpuTypeOK, AtencionIOTypeOK, LugaresIO
  <2> QED  BY <2>1, <2>2, <2>3, <1>1
<1>6. CASE Repone(p)
  <2>1. /\ ProcesosTypeOK' /\ ColasTypeOK' /\ RecursosTypeOK' /\ SemaforosTypeOK'
        /\ CerrojosTypeOK' /\ caido' \in BOOLEAN
    BY <1>6, <1>1 DEF Repone, IrIO, procesos, recursosVars, semaforos, cerrojos, locales,
       cpuVars, ProcesosTypeOK, Estados, ColasTypeOK, RecursosTypeOK, SemaforosTypeOK,
       CerrojosTypeOK, LocalesEnUso
  <2>2. /\ LocalesTypeOK' /\ LocalesEnUso' /\ Recorridos'
        /\ TokensEXIT' /\ BajaPendiente' /\ TimerVivo'
    BY <1>6, <1>1 DEF Repone, IrIO, procesos, recursosVars, semaforos, cerrojos, locales,
       cpuVars, LocalesTypeOK, Lugares, LocalesEnUso, Recorridos, TokensEXIT, BajaPendiente,
       TimerVivo, Despachado, ColasTypeOK, SemaforosTypeOK
  <2>3. CpuTypeOK' /\ AtencionIOTypeOK'
    BY <1>6, <1>1 DEF Repone, IrIO, procesos, recursosVars, semaforos, cerrojos, locales,
       cpuVars, CpuTypeOK, AtencionIOTypeOK, LugaresIO
  <2> QED  BY <2>1, <2>2, <2>3, <1>1
<1>7. CASE RespondeIO(p)
  <2>1. /\ ProcesosTypeOK' /\ ColasTypeOK' /\ RecursosTypeOK' /\ SemaforosTypeOK'
        /\ CerrojosTypeOK' /\ caido' \in BOOLEAN
    BY <1>7, <1>1, AtencionIOAssumption DEF RespondeIO, IrIO, planVars, procesos, colas,
       recursosVars, semaforos, cerrojos, locales, cpuVars, ProcesosTypeOK, Estados,
       ColasTypeOK, RecursosTypeOK, SemaforosTypeOK, CerrojosTypeOK, LocalesEnUso
  <2>2. /\ LocalesTypeOK' /\ LocalesEnUso' /\ Recorridos'
        /\ TokensEXIT' /\ BajaPendiente' /\ TimerVivo'
    BY <1>7, <1>1, AtencionIOAssumption DEF RespondeIO, IrIO, planVars, procesos, colas,
       recursosVars, semaforos, cerrojos, locales, cpuVars, LocalesTypeOK, Lugares,
       LocalesEnUso, Recorridos, TokensEXIT, BajaPendiente, TimerVivo, Despachado,
       ColasTypeOK, SemaforosTypeOK
  <2>3. CpuTypeOK' /\ AtencionIOTypeOK'
    BY <1>7, <1>1, AtencionIOAssumption DEF RespondeIO, IrIO, planVars, procesos, colas,
       recursosVars, semaforos, cerrojos, locales, cpuVars, CpuTypeOK, AtencionIOTypeOK,
       LugaresIO
  <2> QED  BY <2>1, <2>2, <2>3, <1>1
<1>8. CASE FallaIO(p)
  <2>1. /\ ProcesosTypeOK' /\ ColasTypeOK' /\ RecursosTypeOK' /\ SemaforosTypeOK'
        /\ CerrojosTypeOK' /\ caido' \in BOOLEAN
    BY <1>8, <1>1 DEF FallaIO, Matar, IrIO, recursosVars, cerrojos, locales, cpuVars,
       ProcesosTypeOK, Estados, ColasTypeOK, RecursosTypeOK, SemaforosTypeOK,
       CerrojosTypeOK, LocalesEnUso
  <2>2. /\ LocalesTypeOK' /\ LocalesEnUso' /\ Recorridos'
        /\ TokensEXIT' /\ BajaPendiente' /\ TimerVivo'
    BY <1>8, <1>1 DEF FallaIO, Matar, IrIO, recursosVars, cerrojos, locales, cpuVars,
       LocalesTypeOK, Lugares, LocalesEnUso, Recorridos, TokensEXIT, BajaPendiente,
       TimerVivo, Despachado, ColasTypeOK, SemaforosTypeOK
  <2>3. CpuTypeOK' /\ AtencionIOTypeOK'
    BY <1>8, <1>1 DEF FallaIO, Matar, IrIO, recursosVars, cerrojos, locales, cpuVars,
       CpuTypeOK, AtencionIOTypeOK, LugaresIO
  <2> QED  BY <2>1, <2>2, <2>3, <1>1
<1>9. CASE FallaIODeMuerto(p)
  <2>1. /\ ProcesosTypeOK' /\ ColasTypeOK' /\ RecursosTypeOK' /\ SemaforosTypeOK'
        /\ CerrojosTypeOK' /\ caido' \in BOOLEAN
    BY <1>9, <1>1 DEF FallaIODeMuerto, Caer, procesos, colas, recursosVars, semaforos,
       cerrojos, locales, cpuVars, ioVars, ProcesosTypeOK, Estados, ColasTypeOK,
       RecursosTypeOK, SemaforosTypeOK, CerrojosTypeOK, LocalesEnUso
  <2>2. /\ LocalesTypeOK' /\ LocalesEnUso' /\ Recorridos'
        /\ TokensEXIT' /\ BajaPendiente' /\ TimerVivo'
    BY <1>9, <1>1 DEF FallaIODeMuerto, Caer, procesos, colas, recursosVars, semaforos,
       cerrojos, locales, cpuVars, ioVars, LocalesTypeOK, Lugares, LocalesEnUso, Recorridos,
       TokensEXIT, BajaPendiente, TimerVivo, Despachado, ColasTypeOK, SemaforosTypeOK
  <2>3. CpuTypeOK' /\ AtencionIOTypeOK'
    BY <1>9, <1>1 DEF FallaIODeMuerto, Caer, procesos, colas, recursosVars, semaforos,
       cerrojos, locales, cpuVars, ioVars, CpuTypeOK, AtencionIOTypeOK, LugaresIO
  <2> QED  BY <2>1, <2>2, <2>3, <1>1
<1>10. CASE TerminaMataderoIO(p)
  <2>0. Len(cEXIT') = Len(cEXIT) + 1
    BY <1>10, Agregado DEF TerminaMataderoIO, EncolarExit, ColasTypeOK
  <2>1. /\ ProcesosTypeOK' /\ ColasTypeOK' /\ RecursosTypeOK' /\ SemaforosTypeOK'
        /\ CerrojosTypeOK' /\ caido' \in BOOLEAN
    BY <1>10, <1>1 DEF TerminaMataderoIO, EncolarExit, UltimosLibres, IrIO, procesos,
       recursosVars, cerrojos, locales, cpuVars, ProcesosTypeOK, Estados, ColasTypeOK,
       RecursosTypeOK, SemaforosTypeOK, CerrojosTypeOK, LocalesEnUso
  <2>2. /\ LocalesTypeOK' /\ LocalesEnUso' /\ Recorridos'
        /\ TokensEXIT' /\ BajaPendiente' /\ TimerVivo'
    BY <1>10, <1>1, <2>0 DEF TerminaMataderoIO, EncolarExit, UltimosLibres, IrIO, procesos,
       recursosVars, cerrojos, locales, cpuVars, LocalesTypeOK, Lugares, LocalesEnUso,
       Recorridos, TokensEXIT, BajaPendiente, TimerVivo, Despachado, ColasTypeOK,
       SemaforosTypeOK
  <2>3. CpuTypeOK' /\ AtencionIOTypeOK'
    BY <1>10, <1>1 DEF TerminaMataderoIO, EncolarExit, UltimosLibres, IrIO, procesos,
       recursosVars, cerrojos, locales, cpuVars, CpuTypeOK, AtencionIOTypeOK, LugaresIO
  <2> QED  BY <2>1, <2>2, <2>3, <1>1
<1>11. CASE CortaConexion(p)
  <2>1. /\ ProcesosTypeOK' /\ ColasTypeOK' /\ RecursosTypeOK' /\ SemaforosTypeOK'
        /\ CerrojosTypeOK' /\ caido' \in BOOLEAN
    BY <1>11, <1>1 DEF CortaConexion, IrIO, planVars, procesos, colas, recursosVars,
       semaforos, cerrojos, locales, cpuVars, ProcesosTypeOK, Estados, ColasTypeOK,
       RecursosTypeOK, SemaforosTypeOK, CerrojosTypeOK, LocalesEnUso
  <2>2. /\ LocalesTypeOK' /\ LocalesEnUso' /\ Recorridos'
        /\ TokensEXIT' /\ BajaPendiente' /\ TimerVivo'
    BY <1>11, <1>1 DEF CortaConexion, IrIO, planVars, procesos, colas, recursosVars,
       semaforos, cerrojos, locales, cpuVars, LocalesTypeOK, Lugares, LocalesEnUso,
       Recorridos, TokensEXIT, BajaPendiente, TimerVivo, Despachado, ColasTypeOK,
       SemaforosTypeOK
  <2>3. CpuTypeOK' /\ AtencionIOTypeOK'
    BY <1>11, <1>1 DEF CortaConexion, IrIO, planVars, procesos, colas, recursosVars,
       semaforos, cerrojos, locales, cpuVars, CpuTypeOK, AtencionIOTypeOK, LugaresIO
  <2> QED  BY <2>1, <2>2, <2>3, <1>1
<1>12. CASE ExitoIO(p)
  <2>1. /\ ProcesosTypeOK' /\ ColasTypeOK' /\ RecursosTypeOK' /\ SemaforosTypeOK'
        /\ CerrojosTypeOK' /\ caido' \in BOOLEAN
    BY <1>12, <1>1 DEF ExitoIO, SigueBloqueado, EstadoAlDespertar, IrIO, BlockedTrasExito,
       recursosVars, semaforos, cerrojos, locales, cpuVars, ProcesosTypeOK, Estados,
       ColasTypeOK, RecursosTypeOK, SemaforosTypeOK, CerrojosTypeOK, LocalesEnUso
  <2>2. /\ LocalesTypeOK' /\ LocalesEnUso' /\ Recorridos'
        /\ TokensEXIT' /\ BajaPendiente' /\ TimerVivo'
    BY <1>12, <1>1 DEF ExitoIO, SigueBloqueado, EstadoAlDespertar, IrIO, BlockedTrasExito,
       recursosVars, semaforos, cerrojos, locales, cpuVars, LocalesTypeOK, Lugares,
       LocalesEnUso, Recorridos, TokensEXIT, BajaPendiente, TimerVivo, Despachado,
       ColasTypeOK, SemaforosTypeOK
  <2>3. CpuTypeOK' /\ AtencionIOTypeOK'
    BY <1>12, <1>1 DEF ExitoIO, SigueBloqueado, EstadoAlDespertar, IrIO, BlockedTrasExito,
       recursosVars, semaforos, cerrojos, locales, cpuVars, CpuTypeOK, AtencionIOTypeOK,
       LugaresIO
  <2> QED  BY <2>1, <2>2, <2>3, <1>1
<1>13. CASE ExitoIODeMuerto(p)
  <2>1. /\ ProcesosTypeOK' /\ ColasTypeOK' /\ RecursosTypeOK' /\ SemaforosTypeOK'
        /\ CerrojosTypeOK' /\ caido' \in BOOLEAN
    BY <1>13, <1>1 DEF ExitoIODeMuerto, Caer, procesos, colas, recursosVars, semaforos,
       cerrojos, locales, cpuVars, ioVars, ProcesosTypeOK, Estados, ColasTypeOK,
       RecursosTypeOK, SemaforosTypeOK, CerrojosTypeOK, LocalesEnUso
  <2>2. /\ LocalesTypeOK' /\ LocalesEnUso' /\ Recorridos'
        /\ TokensEXIT' /\ BajaPendiente' /\ TimerVivo'
    BY <1>13, <1>1 DEF ExitoIODeMuerto, Caer, procesos, colas, recursosVars, semaforos,
       cerrojos, locales, cpuVars, ioVars, LocalesTypeOK, Lugares, LocalesEnUso, Recorridos,
       TokensEXIT, BajaPendiente, TimerVivo, Despachado, ColasTypeOK, SemaforosTypeOK
  <2>3. CpuTypeOK' /\ AtencionIOTypeOK'
    BY <1>13, <1>1 DEF ExitoIODeMuerto, Caer, procesos, colas, recursosVars, semaforos,
       cerrojos, locales, cpuVars, ioVars, CpuTypeOK, AtencionIOTypeOK, LugaresIO
  <2> QED  BY <2>1, <2>2, <2>3, <1>1
<1>14. CASE DespiertaDeIO(p)
  <2>0. cREADY' \in Seq(Pids) /\ cREADY_PLUS' \in Seq(Pids) /\ semPCP' \in Nat
    BY <1>14, TipoDespertar DEF DespiertaDeIO
  <2>1. /\ ProcesosTypeOK' /\ ColasTypeOK' /\ RecursosTypeOK' /\ SemaforosTypeOK'
        /\ CerrojosTypeOK' /\ caido' \in BOOLEAN
    BY <1>14, <1>1, <2>0 DEF DespiertaDeIO, IrIO, procesos, recursosVars, cerrojos, locales,
       cpuVars, ProcesosTypeOK, Estados, ColasTypeOK, RecursosTypeOK, SemaforosTypeOK,
       CerrojosTypeOK, LocalesEnUso
  <2>2. /\ LocalesTypeOK' /\ LocalesEnUso' /\ Recorridos'
        /\ TokensEXIT' /\ BajaPendiente' /\ TimerVivo'
    BY <1>14, <1>1, <2>0 DEF DespiertaDeIO, IrIO, procesos, recursosVars, cerrojos, locales,
       cpuVars, LocalesTypeOK, Lugares, LocalesEnUso, Recorridos, TokensEXIT, BajaPendiente,
       TimerVivo, Despachado, ColasTypeOK, SemaforosTypeOK
  <2>3. CpuTypeOK' /\ AtencionIOTypeOK'
    BY <1>14, <1>1, <2>0 DEF DespiertaDeIO, IrIO, procesos, recursosVars, cerrojos, locales,
       cpuVars, CpuTypeOK, AtencionIOTypeOK, LugaresIO
  <2> QED  BY <2>1, <2>2, <2>3, <1>1
<1> QED  BY <1>2, <1>3, <1>4, <1>5, <1>6, <1>7, <1>8, <1>9, <1>10, <1>11, <1>12, <1>13, <1>14 DEF AtenderSolicitudIO

\* A timer that expires keeps the types.
LEMMA TipoTimer ==
  ASSUME ITipo, NEW p \in Pids, VenceTimer(p), UNCHANGED consolaVars
  PROVE  ITipo'
<1> USE DEF ITipo, TypeOK, VenceTimer
<1>1. PlanificacionTypeOK'
  BY DEF PlanificacionTypeOK, planVars, procesos, colas, recursosVars, semaforos, cerrojos,
     locales, ProcesosTypeOK, ColasTypeOK, RecursosTypeOK, SemaforosTypeOK, CerrojosTypeOK,
     LocalesTypeOK
<1>2. CpuTypeOK'
  <2>1. PICK q \in Pids \cup {Nadie} : EnviarInt("FIN_DE_QUANTUM", q)
    OBVIOUS
  <2>2. Intr("FIN_DE_QUANTUM", q) \in Interrupciones
    BY DEF Intr, Interrupciones
  <2> QED  BY <2>1, <2>2 DEF CpuTypeOK, EnviarInt
<1>3. AtencionIOTypeOK' /\ ConsolaTypeOK'
  BY DEF AtencionIOTypeOK, ConsolaTypeOK, ioVars, consolaVars
<1>4. CortoPlazoTypeOK'
  <2>1. timers' \in [Pids -> Nat]
    BY DEF CortoPlazoTypeOK
  <2>2. hiloTimer' \in BOOLEAN /\ motivo' = motivo
    BY DEF CortoPlazoTypeOK
  <2> QED  BY <2>1, <2>2 DEF CortoPlazoTypeOK
<1>5. LocalesEnUso' /\ Recorridos' /\ TokensEXIT' /\ BajaPendiente'
  BY DEF LocalesEnUso, Recorridos, TokensEXIT, BajaPendiente, planVars, locales, colas,
     semaforos, consolaVars
<1>6. TimerVivo'
  <2>1. UNCHANGED <<pc, mano>>
    BY DEF planVars, locales
  <2>2. ASSUME hiloTimer' PROVE hiloTimer /\ ~(p = Despachado /\ timers[p] = 1)
    BY <2>2
  <2> QED  BY <2>1, <2>2 DEF TimerVivo, LocalesEnUso, CortoPlazoTypeOK, Despachado
<1> QED  BY <1>1, <1>2, <1>3, <1>4, <1>5, <1>6

\* What the CPU sends back is a sequence of messages.
LEMMA TipoVuelta ==
  ASSUME NEW p \in Pids, NEW m \in Motivos \cup {Interrupcion, FinDeQuantum}
  PROVE  Vuelta(p, m) \in Seq(Mensajes)
<1>1. /\ [tipo |-> "pcb", pid |-> p, motivo |-> m] \in Mensajes
      /\ [tipo |-> "vector", pid |-> p] \in Mensajes
  BY DEF Mensajes
<1> QED  BY <1>1 DEF Vuelta

\* Every step of the CPU keeps the types.
LEMMA TipoCPU ==
  ASSUME ITipo, CPU \/ RecibirInterrupcion, UNCHANGED <<planVars, ioVars, cortoVars, consolaVars>>
  PROVE  ITipo'
<1> USE DEF ITipo, TypeOK
<1>1. PlanificacionTypeOK'
  BY DEF PlanificacionTypeOK, planVars, procesos, colas, recursosVars, semaforos, cerrojos,
     locales, ProcesosTypeOK, ColasTypeOK, RecursosTypeOK, SemaforosTypeOK, CerrojosTypeOK,
     LocalesTypeOK
<1>2. AtencionIOTypeOK' /\ CortoPlazoTypeOK' /\ ConsolaTypeOK'
  BY DEF AtencionIOTypeOK, CortoPlazoTypeOK, ConsolaTypeOK, ioVars, cortoVars, consolaVars
<1>3. LocalesEnUso' /\ Recorridos' /\ TokensEXIT' /\ BajaPendiente' /\ TimerVivo'
  BY DEF LocalesEnUso, Recorridos, TokensEXIT, BajaPendiente, TimerVivo, Despachado, planVars,
     locales, colas, semaforos, cortoVars, consolaVars
<1>4. CpuTypeOK'
  <2>1. CASE CicloSigue
    BY <2>1 DEF CicloSigue, CpuTypeOK
  <2>2. CASE \E m \in Motivos \cup {Sigue} : enCpu # Nadie /\ Programa(m) /\ CicloVuelve(m)
    <3>1. PICK m \in Motivos \cup {Sigue} : CicloVuelve(m)
      BY <2>2
    <3>2. enCpu \in Pids /\ SeVa(enCpu, m) \in Motivos \cup {Interrupcion, FinDeQuantum}
      BY <3>1 DEF CicloVuelve, CpuTypeOK, SeVa
    <3>3. Vuelta(enCpu, SeVa(enCpu, m)) \in Seq(Mensajes)
      BY <3>2, TipoVuelta
    <3>4. dispatch' \in Seq(Mensajes)
      BY <3>1, <3>3 DEF CicloVuelve, CpuTypeOK
    <3> QED  BY <3>1, <3>4 DEF CicloVuelve, CpuTypeOK
  <2>3. CASE RecibirInterrupcion
    <3>1. Head(canalIntr) \in Interrupciones /\ Tail(canalIntr) \in Seq(Interrupciones)
      BY <2>3 DEF RecibirInterrupcion, CpuTypeOK
    <3> QED  BY <2>3, <3>1 DEF RecibirInterrupcion, CpuTypeOK
  <2> QED  BY <2>1, <2>2, <2>3 DEF CPU
<1> QED  BY <1>1, <1>2, <1>3, <1>4

\* A connection keeps the types.
LEMMA TipoConexion ==
  ASSUME ITipo, NEW i \in Interfaces, ConectarIO(i), UNCHANGED <<cortoVars, consolaVars>>
  PROVE  ITipo'
<1> USE DEF ITipo, TypeOK, ConectarIO
<1>1. PlanificacionTypeOK'
  BY DEF PlanificacionTypeOK, planVars, procesos, colas, recursosVars, semaforos, cerrojos,
     locales, ProcesosTypeOK, ColasTypeOK, RecursosTypeOK, SemaforosTypeOK, CerrojosTypeOK,
     LocalesTypeOK
<1>2. CpuTypeOK' /\ AtencionIOTypeOK' /\ CortoPlazoTypeOK' /\ ConsolaTypeOK'
  BY DEF CpuTypeOK, AtencionIOTypeOK, CortoPlazoTypeOK, ConsolaTypeOK, cpuVars, cortoVars,
     consolaVars
<1>3. LocalesEnUso' /\ Recorridos' /\ TokensEXIT' /\ BajaPendiente' /\ TimerVivo'
  BY DEF LocalesEnUso, Recorridos, TokensEXIT, BajaPendiente, TimerVivo, Despachado, planVars,
     locales, colas, semaforos, cortoVars, consolaVars
<1> QED  BY <1>1, <1>2, <1>3

\* Stuttering keeps the types.
LEMMA TipoVars ==
  ASSUME ITipo, UNCHANGED vars
  PROVE  ITipo'
<1> USE DEF ITipo, TypeOK, vars
<1>1. PlanificacionTypeOK'
  BY DEF PlanificacionTypeOK, planVars, procesos, colas, recursosVars, semaforos, cerrojos,
     locales, ProcesosTypeOK, ColasTypeOK, RecursosTypeOK, SemaforosTypeOK, CerrojosTypeOK,
     LocalesTypeOK
<1>2. CpuTypeOK' /\ AtencionIOTypeOK' /\ CortoPlazoTypeOK' /\ ConsolaTypeOK'
  BY DEF CpuTypeOK, AtencionIOTypeOK, CortoPlazoTypeOK, ConsolaTypeOK, cpuVars, ioVars,
     cortoVars, consolaVars
<1>3. LocalesEnUso' /\ Recorridos' /\ TokensEXIT' /\ BajaPendiente' /\ TimerVivo'
  BY DEF LocalesEnUso, Recorridos, TokensEXIT, BajaPendiente, TimerVivo, Despachado, planVars,
     locales, colas, semaforos, cortoVars, consolaVars
<1> QED  BY <1>1, <1>2, <1>3

-----------------------------------------------------------------------------
(***************************************************************************)
(* The dispatch socket                                                     *)
(***************************************************************************)

\* A step that leaves alone what the socket's order depends on keeps it.
LEMMA MarcoSocket ==
  ASSUME SocketEnOrden,
         pc'["pcp"] = pc["pcp"], Despachado' = Despachado,
         UNCHANGED <<enCpu, dispatch, motivo, pedido>>,
         mBLOCKED' = "pcp" <=> mBLOCKED = "pcp",
         \A p \in Pids : pcIO'[p] = "vector" => pcIO[p] = "vector"
  PROVE  SocketEnOrden'
<1>1. \A p : Vector(p, motivo)' = Vector(p, motivo)
  BY DEF Vector
<1>2. \A p \in Pids : EnVector(p) => EnVector(p)'
  BY DEF EnVector
<1>3. VectorPendiente' <=> VectorPendiente
  BY DEF VectorPendiente
<1> QED  BY <1>1, <1>2, <1>3 DEF SocketEnOrden, Vector

\* A step that leaves alone what the console holds keeps the order of its mutexes.
LEMMA MarcoCerrojos ==
  ASSUME CerrojosDeConsola, pc'["consola"] = pc["consola"], UNCHANGED planificacion,
         mBLOCKED' = "consola" <=> mBLOCKED = "consola"
  PROVE  CerrojosDeConsola'
  BY DEF CerrojosDeConsola

\* The socket is in order initially.
LEMMA SocketInit == Init => CerrojosDeConsola /\ SocketEnOrden
<1> SUFFICES ASSUME Init PROVE CerrojosDeConsola /\ SocketEnOrden
  OBVIOUS
<1>1. /\ pc["pcp"] = "espera" /\ pc["consola"] = "lee" /\ mBLOCKED = "libre"
      /\ planificacion = "activa"
  BY DEF Init, PlanificacionInit, Hilos
<1>2. enCpu = Nadie /\ dispatch = <<>> /\ \A p \in Pids : pcIO[p] = "nada"
  BY DEF Init, CpuInit, AtencionIOInit
<1> QED  BY <1>1, <1>2 DEF CerrojosDeConsola, SocketEnOrden, VectorPendiente

\* The threads that neither use the socket nor mBLOCKED keep the socket in order.
LEMMA SocketOtros ==
  ASSUME ITipo, CerrojosDeConsola, SocketEnOrden,
         \/ (PLP \/ Carnicero) /\ UNCHANGED <<cpuVars, ioVars, cortoVars>>
         \/ \E p \in Pids : VenceTimer(p)
         \/ RecibirInterrupcion /\ UNCHANGED <<planVars, ioVars, cortoVars>>
         \/ \E i \in Interfaces : ConectarIO(i) /\ UNCHANGED cortoVars
         \/ UNCHANGED vars
  PROVE  CerrojosDeConsola' /\ SocketEnOrden'
<1> USE DEF Despachado
<1> SUFFICES /\ pc'["pcp"] = pc["pcp"] /\ pc'["consola"] = pc["consola"]
             /\ mano'["pcp"] = mano["pcp"]
             /\ UNCHANGED <<enCpu, dispatch, motivo, pedido, pcIO, mBLOCKED, planificacion>>
  BY MarcoSocket, MarcoCerrojos
<1>1. pc \in [Hilos -> Lugares] /\ mano \in [Hilos -> Pids \cup {Nadie}]
  BY DEF ITipo, TypeOK, PlanificacionTypeOK, LocalesTypeOK
<1>2. CASE PLP /\ UNCHANGED <<cpuVars, ioVars, cortoVars>>
  BY <1>1, <1>2 DEF PLP, EsperaNuevo, TomaNuevo, Admite, Rechaza, AdmiteNadie, IngresaReady,
     IngresaReadyPerdido, TerminaMatadero, Ir, IrSoltando, Caer, Hilos, cpuVars, ioVars,
     cortoVars, cerrojos, locales
<1>3. CASE Carnicero /\ UNCHANGED <<cpuVars, ioVars, cortoVars>>
  BY <1>1, <1>3 DEF Carnicero, EsperaFinalizado, TomaFinalizado, SueltaRecurso, LiberaProceso,
     LiberarRecurso, LiberaInstancia, MiraBloqueados, SacaBloqueado, SacaNadie,
     DespiertaBloqueado, Ir, IrSoltando, Caer, Hilos, cpuVars, ioVars, cortoVars, cerrojos, locales
<1>4. CASE \E p \in Pids : VenceTimer(p)
  BY <1>4 DEF VenceTimer, planVars, ioVars, cerrojos, locales
<1>5. CASE RecibirInterrupcion /\ UNCHANGED <<planVars, ioVars, cortoVars>>
  BY <1>5 DEF RecibirInterrupcion, planVars, ioVars, cortoVars, cerrojos, locales
<1>6. CASE \E i \in Interfaces : ConectarIO(i) /\ UNCHANGED cortoVars
  BY <1>6 DEF ConectarIO, planVars, cpuVars, cortoVars, cerrojos, locales
<1>7. CASE UNCHANGED vars
  BY <1>7 DEF vars, planVars, cpuVars, ioVars, cortoVars, cerrojos, locales
<1> QED  BY <1>2, <1>3, <1>4, <1>5, <1>6, <1>7

\* The console keeps the socket in order: it never unlocks the scheduler's mBLOCKED.
LEMMA SocketConsola ==
  ASSUME ITipo, CerrojosDeConsola, SocketEnOrden, ConsolaNext, UNCHANGED <<ioVars, cortoVars>>
  PROVE  CerrojosDeConsola' /\ SocketEnOrden'
<1> USE DEF Despachado
<1>1. pc \in [Hilos -> Lugares] /\ mano \in [Hilos -> Pids \cup {Nadie}]
  BY DEF ITipo, TypeOK, PlanificacionTypeOK, LocalesTypeOK
<1>2. /\ pc'["pcp"] = pc["pcp"] /\ mano'["pcp"] = mano["pcp"]
      /\ UNCHANGED <<enCpu, dispatch, motivo, pedido, pcIO>>
  BY <1>1 DEF ConsolaNext, CrearProceso, DetenerPlanificacion, DetenerPara, TomaMutexes,
     IniciarPlanificacion, ProcesoEstado, ListaProcesos, InterrumpirProceso, FinalizarProceso,
     BuscaVictima, NoEncuentra, QuitaVictima, QuitaVictimaYaLibre, QuitaVictimaReady, EsperaToken,
     SubirGrado, BajarGrado, RetiraCupo, TerminaMatadero, Ir, IrSoltando, Caer, Hilos, cpuVars,
     ioVars, cortoVars, planVars, locales
<1>3. CerrojosDeConsola' /\ (mBLOCKED' = "pcp" <=> mBLOCKED = "pcp")
  BY <1>1 DEF ConsolaNext, CrearProceso, DetenerPlanificacion, DetenerPara, TomaMutexes,
     IniciarPlanificacion, ProcesoEstado, ListaProcesos, InterrumpirProceso, FinalizarProceso,
     BuscaVictima, NoEncuentra, QuitaVictima, QuitaVictimaYaLibre, QuitaVictimaReady, EsperaToken,
     SubirGrado, BajarGrado, RetiraCupo, TerminaMatadero, Ir, IrSoltando, Caer, Reanudar, Lee,
     Hilos, planVars, cerrojos, locales, CerrojosDeConsola
<1> QED  BY <1>2, <1>3, MarcoSocket

\* The I/O thread that reads a vector finds its own, and leaves the socket empty.
LEMMA SocketIO ==
  ASSUME ITipo, CerrojosDeConsola, SocketEnOrden, NEW p \in Pids, AtenderSolicitudIO(p),
         UNCHANGED cortoVars
  PROVE  CerrojosDeConsola' /\ SocketEnOrden'
<1> USE DEF Despachado
<1>1. pcIO \in [Pids -> LugaresIO]
  BY DEF ITipo, TypeOK, AtencionIOTypeOK
<1>2. CASE RecibeVector(p)
  <2>1. EnVector(p) /\ dispatch = Vector(p, motivo) /\ VectorPendiente
    BY <1>2 DEF RecibeVector, SocketEnOrden, EnVector, VectorPendiente
  <2>2. dispatch' = <<>>
    BY <1>2, <2>1 DEF RecibeVector, Vector, EnVector
  <2>3. /\ UNCHANGED <<pc, mano, enCpu, planificacion, motivo, pedido>>
        /\ mBLOCKED = "pcp" /\ mBLOCKED' = "libre"
    BY <1>2, <2>1 DEF RecibeVector, EnVector, locales, cortoVars
  <2>4. \A q \in Pids : pcIO'[q] # "vector"
    BY <1>1, <1>2, <2>1 DEF RecibeVector, IrIO, SocketEnOrden, EnVector
  <2> QED  BY <2>1, <2>2, <2>3, <2>4 DEF SocketEnOrden, CerrojosDeConsola, VectorPendiente, EnVector
<1>3. CASE ~RecibeVector(p)
  <2>1. /\ UNCHANGED <<pc, mano, enCpu, dispatch, motivo, pedido, mBLOCKED, planificacion>>
        /\ \A q \in Pids : pcIO'[q] = "vector" => pcIO[q] = "vector"
    BY <1>1, <1>3, AtencionIOAssumption DEF AtenderSolicitudIO, BuscaInterfaz, TomaInterfaz,
       UsaConexionLiberada, Repone, RespondeIO, FallaIO, FallaIODeMuerto, TerminaMataderoIO,
       CortaConexion, ExitoIO, ExitoIODeMuerto, DespiertaDeIO, IrIO, Caer, planVars, cpuVars, ioVars,
       cortoVars, cerrojos, locales
  <2> QED  BY <2>1, MarcoSocket, MarcoCerrojos
<1> QED  BY <1>2, <1>3

\* The CPU puts one answer on an empty socket.
LEMMA SocketCPU ==
  ASSUME ITipo, CerrojosDeConsola, SocketEnOrden, CPU, UNCHANGED <<planVars, ioVars, cortoVars>>
  PROVE  CerrojosDeConsola' /\ SocketEnOrden'
<1> USE DEF Despachado
<1>1. UNCHANGED <<pc, mano, motivo, pedido, pcIO, mBLOCKED, planificacion>>
  BY DEF planVars, ioVars, cortoVars, cerrojos, locales
<1>2. CerrojosDeConsola'
  BY <1>1, MarcoCerrojos
<1>3. CASE CicloSigue
  BY <1>1, <1>2, <1>3, MarcoSocket DEF CicloSigue
<1>4. CASE \E m \in Motivos \cup {Sigue} : enCpu # Nadie /\ Programa(m) /\ CicloVuelve(m)
  <2>1. PICK m \in Motivos \cup {Sigue} : enCpu # Nadie /\ CicloVuelve(m)
    BY <1>4
  <2>2. pc["pcp"] = "cpu" /\ enCpu = mano["pcp"] /\ dispatch = <<>>
    BY <2>1 DEF SocketEnOrden
  <2>3. SeVa(enCpu, m) \in Motivos \cup {Interrupcion, FinDeQuantum}
    BY <2>1 DEF CicloVuelve, SeVa
  <2>4. enCpu \in Pids /\ Vuelta(enCpu, SeVa(enCpu, m)) \in Seq(Mensajes)
    BY <2>1, <2>3, TipoVuelta DEF ITipo, TypeOK, CpuTypeOK
  <2>5. enCpu' = Nadie /\ dispatch' = Vuelta(mano["pcp"], SeVa(enCpu, m))
    BY <2>1, <2>2, <2>4 DEF CicloVuelve
  <2>6. \A p \in Pids : pcIO[p] # "vector"
    BY <2>2 DEF SocketEnOrden, EnVector
  <2> QED  BY <1>1, <1>2, <2>2, <2>3, <2>5, <2>6 DEF SocketEnOrden, VectorPendiente
<1> QED  BY <1>3, <1>4 DEF CPU

\* A step of the scheduler away from the socket keeps it empty.
LEMMA MarcoVacio ==
  ASSUME SocketEnOrden, pc["pcp"] \notin {"cpu", "io_cede"}, dispatch = <<>>,
         pc'["pcp"] \notin {"cpu", "motivo", "io", "io_cede"},
         UNCHANGED <<enCpu, dispatch, pcIO>>
  PROVE  SocketEnOrden'
  BY DEF SocketEnOrden, VectorPendiente, EnVector

\* What is left of the CPU's answer once the PCB is read.
LEMMA SocketVuelta ==
  ASSUME NEW p \in Pids, NEW m \in Motivos \cup {Interrupcion, FinDeQuantum}
  PROVE  /\ Head(Vuelta(p, m)).motivo = m
         /\ Tail(Vuelta(p, m)) = Vector(p, m)
<1>1. CASE m.op = "IO_VECTOR"
  BY <1>1 DEF Vuelta, Vector
<1>2. CASE m.op # "IO_VECTOR"
  BY <1>2 DEF Vuelta, Vector
<1> QED  BY <1>1, <1>2

\* Every step of the short-term scheduler keeps the socket in order.
LEMMA SocketPCP ==
  ASSUME ITipo, CerrojosDeConsola, SocketEnOrden, PCP
  PROVE  CerrojosDeConsola' /\ SocketEnOrden'
<1> USE DEF Despachado
<1>1. /\ pc \in [Hilos -> Lugares] /\ mano \in [Hilos -> Pids \cup {Nadie}]
      /\ pcIO \in [Pids -> LugaresIO] /\ pedido \in [Pids -> Pedidos]
      /\ LocalesEnUso
  BY DEF ITipo, TypeOK, PlanificacionTypeOK, LocalesTypeOK, AtencionIOTypeOK
<1>2. CerrojosDeConsola'
  <2>1. pc'["consola"] = pc["consola"] /\ UNCHANGED planificacion
    BY <1>1 DEF PCP, EsperaListo, TomaReady, TomaReadyPlus, Elegir, TomaNadie, Despacha, Recibe,
       VuelveParaMorir, VuelvePorIO, VuelvePorPedido, VuelvePorDevolucion, VuelvePorQuantum,
       CreaHiloIO, EsperaVector, DescuentaInstancia, DecideBloquear, DecideOtorgar,
       EncolaBloqueado, ReingresaReady, ReingresaPlus, ReingresaSinMutex, ReingresaPerdido,
       Reingreso, TerminaMatadero, LiberarRecurso, LiberaInstancia, MiraBloqueados, SacaBloqueado,
       SacaNadie, DespiertaBloqueado, Ir, IrSoltando, Caer, Hilos, cerrojos, locales
  <2>2. mBLOCKED' = "consola" <=> mBLOCKED = "consola"
    BY DEF PCP, EsperaListo, TomaReady, TomaReadyPlus, Elegir, TomaNadie, Despacha, Recibe,
       VuelveParaMorir, VuelvePorIO, VuelvePorPedido, VuelvePorDevolucion, VuelvePorQuantum,
       CreaHiloIO, EsperaVector, DescuentaInstancia, DecideBloquear, DecideOtorgar,
       EncolaBloqueado, ReingresaReady, ReingresaPlus, ReingresaSinMutex, ReingresaPerdido,
       Reingreso, TerminaMatadero, LiberarRecurso, LiberaInstancia, MiraBloqueados, SacaBloqueado,
       SacaNadie, DespiertaBloqueado, Caer, cerrojos
  <2> QED  BY <2>1, <2>2, MarcoCerrojos
<1>3. CASE EsperaListo \/ TomaReady \/ TomaReadyPlus \/ TomaNadie
  <2>1. /\ pc["pcp"] \in {"espera", "toma", "toma_plus"}
        /\ pc'["pcp"] \in {"espera", "toma", "toma_plus", "marca"}
        /\ UNCHANGED <<enCpu, dispatch, pcIO>>
    BY <1>1, <1>3 DEF EsperaListo, ColaElegida, TomaReady, TomaReadyPlus, Elegir, TomaNadie, Ir,
       Caer, Hilos, cpuVars, ioVars, locales
  <2>2. dispatch = <<>>
    BY <2>1 DEF SocketEnOrden, VectorPendiente
  <2> QED  BY <1>2, <2>1, <2>2, MarcoVacio
<1>4. CASE \/ DescuentaInstancia \/ DecideBloquear \/ DecideOtorgar \/ EncolaBloqueado
           \/ ReingresaReady \/ ReingresaPlus \/ ReingresaSinMutex \/ ReingresaPerdido
           \/ (TerminaMatadero("pcp") \/ LiberarRecurso("pcp"))
                /\ UNCHANGED <<cpuVars, ioVars, cortoVars>>
  <2>1. /\ pc["pcp"] \notin {"cpu", "motivo", "io", "io_cede"}
        /\ pc'["pcp"] \notin {"cpu", "motivo", "io", "io_cede"}
        /\ UNCHANGED <<enCpu, dispatch, pcIO>>
    BY <1>1, <1>4 DEF DescuentaInstancia, DecideBloquear, DecideOtorgar, EncolaBloqueado,
       ReingresaReady, ReingresaPlus, ReingresaSinMutex, ReingresaPerdido, Reingreso,
       TerminaMatadero, LiberarRecurso, LiberaInstancia, MiraBloqueados, SacaBloqueado, SacaNadie,
       DespiertaBloqueado, TrasLiberar, Ir, IrSoltando, Caer, Hilos, cpuVars, ioVars, locales
  <2>2. dispatch = <<>>
    BY <2>1 DEF SocketEnOrden, VectorPendiente
  <2> QED  BY <1>2, <2>1, <2>2, MarcoVacio
<1>5. CASE Despacha
  <2>1. /\ pc["pcp"] = "marca" /\ pc'["pcp"] = "cpu" /\ enCpu' = mano["pcp"] /\ mano["pcp"] \in Pids
        /\ UNCHANGED <<mano, dispatch, pcIO>>
    BY <1>1, <1>5 DEF Despacha, LocalesEnUso, Ir, Hilos, ioVars
  <2>2. dispatch = <<>> /\ \A p \in Pids : pcIO[p] # "vector"
    BY <2>1 DEF SocketEnOrden, VectorPendiente, EnVector
  <2>3. enCpu' # Nadie
    BY <2>1 DEF Pids, Nadie
  <2> QED  BY <1>2, <2>1, <2>2, <2>3 DEF SocketEnOrden, VectorPendiente
<1>6. CASE Recibe
  <2>1. /\ pc["pcp"] = "cpu" /\ dispatch # <<>> /\ pc'["pcp"] = "motivo" /\ mano["pcp"] \in Pids
        /\ motivo' = Head(dispatch).motivo /\ dispatch' = Tail(dispatch)
        /\ UNCHANGED <<mano, enCpu, pcIO>>
    BY <1>1, <1>6 DEF Recibe, LocalesEnUso, Ir, Hilos, ioVars
  <2>2. enCpu = Nadie
    BY <2>1 DEF SocketEnOrden
  <2>3. PICK m \in Motivos \cup {Interrupcion, FinDeQuantum} : dispatch = Vuelta(mano["pcp"], m)
    BY <2>1, <2>2 DEF SocketEnOrden
  <2>4. motivo' = m /\ dispatch' = Vector(mano["pcp"], m)
    BY <2>1, <2>3, SocketVuelta
  <2>5. dispatch' = Vector(Despachado, motivo)'
    BY <2>1, <2>4 DEF Vector
  <2>6. \A p \in Pids : pcIO[p] # "vector"
    BY <2>1 DEF SocketEnOrden, EnVector
  <2> QED  BY <1>2, <2>1, <2>2, <2>5, <2>6 DEF SocketEnOrden, VectorPendiente
<1>7. CASE VuelveParaMorir \/ VuelvePorPedido \/ VuelvePorDevolucion \/ VuelvePorQuantum
  <2>1. /\ pc["pcp"] = "motivo" /\ motivo.op # "IO_VECTOR"
        /\ pc'["pcp"] \notin {"cpu", "motivo", "io", "io_cede"}
        /\ UNCHANGED <<enCpu, dispatch, pcIO>>
    BY <1>1, <1>7 DEF VuelveParaMorir, VuelvePorPedido, VuelvePorDevolucion, VuelvePorQuantum,
       EsFinal, Ir, Hilos, cpuVars, ioVars
  <2>2. dispatch = <<>>
    BY <2>1 DEF SocketEnOrden, VectorPendiente, Vector
  <2> QED  BY <1>2, <2>1, <2>2, MarcoVacio
<1>8. CASE VuelvePorIO
  <2>1. /\ pc["pcp"] = "motivo" /\ pc'["pcp"] = "io" /\ motivo.op \in {"IO", "IO_VECTOR"}
        /\ UNCHANGED <<mano, motivo, enCpu, dispatch, pcIO>>
    BY <1>1, <1>8 DEF VuelvePorIO, Ir, Hilos, cpuVars, ioVars
  <2>2. dispatch' = Vector(Despachado, motivo)'
    BY <2>1 DEF SocketEnOrden, VectorPendiente, Vector
  <2> QED  BY <1>2, <2>1, <2>2 DEF SocketEnOrden, VectorPendiente, EnVector
<1>9. CASE CreaHiloIO
  <2>1. /\ pc["pcp"] = "io" /\ pc'["pcp"] = "io_cede" /\ mano["pcp"] \in Pids
        /\ mBLOCKED' = "pcp"
        /\ UNCHANGED <<mano, motivo, enCpu, dispatch>>
    BY <1>1, <1>9 DEF CreaHiloIO, LocalesEnUso, Ir, Hilos, cpuVars, cortoVars
  <2>2. dispatch' = Vector(Despachado, motivo)'
    BY <2>1 DEF SocketEnOrden, VectorPendiente, Vector
  <2>3. pedido'[mano["pcp"]] = motivo'
    BY <1>1, <1>9, <2>1 DEF CreaHiloIO
  <2>4. \A p \in Pids : pcIO'[p] = "vector" => p = mano["pcp"]
    BY <1>1, <1>9, <2>1 DEF CreaHiloIO, IrIO, SocketEnOrden, EnVector
  <2> QED  BY <1>2, <2>1, <2>2, <2>3, <2>4 DEF SocketEnOrden, VectorPendiente, EnVector
<1>10. CASE EsperaVector
  <2>1. /\ pc["pcp"] = "io_cede" /\ mBLOCKED = "libre" /\ pc'["pcp"] = "espera"
        /\ UNCHANGED <<enCpu, dispatch, pcIO>>
    BY <1>1, <1>10 DEF EsperaVector, VectorRecibido, IrSoltando, Ir, Hilos, cpuVars, ioVars
  <2>2. dispatch = <<>> /\ enCpu = Nadie /\ \A p \in Pids : pcIO[p] # "vector"
    BY <2>1 DEF SocketEnOrden, VectorPendiente, EnVector
  <2> QED  BY <1>2, <2>1, <2>2 DEF SocketEnOrden, VectorPendiente
<1> QED  BY <1>2, <1>3, <1>4, <1>5, <1>6, <1>7, <1>8, <1>9, <1>10 DEF PCP

-----------------------------------------------------------------------------
(***************************************************************************)
(* Theorems                                                                *)
(***************************************************************************)

\* Every step, stuttering included, keeps the inductive invariant.
LEMMA Paso ==
  ASSUME IInv, [Next]_vars
  PROVE  IInv'
<1> USE DEF IInv
<1>1. CASE PasoConsola
  BY <1>1, TipoConsola, SocketConsola DEF PasoConsola
<1>2. CASE PasoPLP
  BY <1>2, TipoPLP, SocketOtros DEF PasoPLP
<1>3. CASE PasoCarnicero
  BY <1>3, TipoCarnicero, SocketOtros DEF PasoCarnicero
<1>4. CASE PasoPCP
  BY <1>4, TipoPCP, SocketPCP DEF PasoPCP
<1>5. CASE PasoCPU
  BY <1>5, TipoCPU, SocketCPU DEF PasoCPU
<1>6. CASE PasoInterrupciones
  BY <1>6, TipoCPU, SocketOtros DEF PasoInterrupciones
<1>7. ASSUME NEW p \in Pids, PasoTimer(p) PROVE IInv'
  BY <1>7, TipoTimer, SocketOtros DEF PasoTimer
<1>8. ASSUME NEW p \in Pids, PasoIO(p) PROVE IInv'
  BY <1>8, TipoIO, SocketIO DEF PasoIO
<1>9. ASSUME NEW i \in Interfaces, PasoConexion(i) PROVE IInv'
  BY <1>9, TipoConexion, SocketOtros DEF PasoConexion
<1>10. CASE UNCHANGED vars
  BY <1>10, TipoVars, SocketOtros
<1> QED  BY <1>1, <1>2, <1>3, <1>4, <1>5, <1>6, <1>7, <1>8, <1>9, <1>10 DEF Next

\* The inductive invariant holds in every reachable state, whatever the number of
\* processes, resources and interfaces, the algorithm and the programs.
THEOREM Invariante == Spec => []IInv
<1>1. Init => IInv
  BY TipoInit, SocketInit DEF IInv
<1>2. IInv /\ [Next]_vars => IInv'
  BY Paso
<1> QED  BY <1>1, <1>2, PTL DEF Spec

\* Every variable of the kernel keeps its type, whatever the number of processes,
\* resources and interfaces, also after a pop that finds nothing (mano is then Nadie):
\* queues hold processes that exist, semaphores do not go below zero.
THEOREM TiposCorrectos == Spec => []TypeOK
<1>1. IInv => TypeOK
  BY DEF IInv, ITipo
<1> QED  BY <1>1, Invariante, PTL

\* The scheduler and the I/O threads never read from the dispatch socket what was
\* meant for the other.
THEOREM SocketCompartido == Spec => []LecturaEnOrden
<1>1. ASSUME IInv PROVE LecturaEnOrden
  <2>1. ASSUME pc["pcp"] = "cpu", dispatch # <<>> PROVE Head(dispatch).tipo = "pcb"
    <3>1. PICK m \in Motivos \cup {Interrupcion, FinDeQuantum} : dispatch = Vuelta(Despachado, m)
      BY <1>1, <2>1 DEF IInv, SocketEnOrden
    <3> QED  BY <3>1 DEF Vuelta
  <2>2. ASSUME NEW p \in Pids, pcIO[p] = "vector", pedido[p].op = "IO_VECTOR"
        PROVE  dispatch # <<>> /\ Head(dispatch) = [tipo |-> "vector", pid |-> p]
    <3>1. EnVector(p)
      BY <1>1, <2>2 DEF IInv, SocketEnOrden
    <3>2. dispatch = Vector(p, motivo)
      BY <1>1, <3>1 DEF IInv, SocketEnOrden, VectorPendiente, EnVector
    <3> QED  BY <2>2, <3>1, <3>2 DEF Vector, EnVector
  <2> QED  BY <2>1, <2>2 DEF LecturaEnOrden
<1> QED  BY <1>1, Invariante, PTL

-----------------------------------------------------------------------------
(***************************************************************************)
(* The interfaces                                                          *)
(***************************************************************************)

\* The thread of a request locks the interface's mutex, and is the only one that
\* unlocks it.
LEMMA InterfazIO ==
  ASSUME TypeOK, MutexDeInterfaz, NEW p \in Pids, AtenderSolicitudIO(p)
  PROVE  MutexDeInterfaz'
<1>1. /\ pcIO \in [Pids -> LugaresIO] /\ mIO \in [Interfaces -> Pids \cup {Nadie}]
      /\ p # Nadie
  BY CpuAssumption DEF TypeOK, AtencionIOTypeOK, Pids, Nadie
<1>2. CASE BuscaInterfaz(p)
  BY <1>1, <1>2 DEF BuscaInterfaz, IrIO, MutexDeInterfaz
<1>3. CASE TomaInterfaz(p)
  <2> DEFINE i == pedido[p].arg
  <2>1. i \in Interfaces /\ mIO[i] = Nadie /\ UNCHANGED pedido
    BY <1>3 DEF TomaInterfaz, InterfazLibre, MutexDeInterfaz
  <2>2. CASE p \in lBlocked
    <3>1. pcIO' = [pcIO EXCEPT ![p] = "repone"] /\ mIO' = [mIO EXCEPT ![i] = p]
      BY <1>3, <2>2 DEF TomaInterfaz, IrIO
    <3>2. ASSUME NEW q \in Pids, q # p, pcIO[q] \in {"repone", "dispositivo"}
          PROVE  pedido[q].arg # i
      <4>1. q # Nadie
        BY DEF Pids, Nadie
      <4> QED  BY <2>1, <3>2, <4>1 DEF MutexDeInterfaz
    <3> QED  BY <1>1, <2>1, <3>1, <3>2 DEF MutexDeInterfaz
  <2>3. CASE p \notin lBlocked
    BY <1>1, <1>3, <2>1, <2>3 DEF TomaInterfaz, IrIO, MutexDeInterfaz
  <2> QED  BY <2>2, <2>3
<1>4. CASE Repone(p)
  BY <1>1, <1>4 DEF Repone, IrIO, MutexDeInterfaz
<1>5. CASE RespondeIO(p)
  <2> DEFINE i == pedido[p].arg
  <2>1. /\ pcIO[p] = "dispositivo" /\ mIO[i] = p /\ UNCHANGED pedido
        /\ mIO' = [mIO EXCEPT ![i] = Nadie]
    BY <1>5 DEF RespondeIO, MutexDeInterfaz
  <2>2. /\ \A q \in Pids \ {p} : pcIO'[q] = pcIO[q]
        /\ pcIO'[p] \in {"exito", "falla", "falla_cae"}
    BY <1>1, <1>5, AtencionIOAssumption DEF RespondeIO, IrIO
  <2>3. ASSUME NEW q \in Pids, q # p, pcIO[q] \in {"repone", "dispositivo"}
        PROVE  pedido[q].arg # i
    BY <2>1, <2>3 DEF MutexDeInterfaz
  <2> QED  BY <1>1, <2>1, <2>2, <2>3 DEF MutexDeInterfaz
<1>6. CASE ~(BuscaInterfaz(p) \/ TomaInterfaz(p) \/ Repone(p) \/ RespondeIO(p))
  <2>1. /\ UNCHANGED <<pedido, mIO>>
        /\ \A q \in Pids : \/ pcIO'[q] = pcIO[q]
                          \/ pcIO'[q] \notin {"mutex", "repone", "dispositivo"}
    BY <1>1, <1>6 DEF AtenderSolicitudIO, RecibeVector, UsaConexionLiberada, FallaIO,
       FallaIODeMuerto, TerminaMataderoIO, CortaConexion, ExitoIO, ExitoIODeMuerto,
       DespiertaDeIO, IrIO, ioVars
  <2> QED  BY <2>1 DEF MutexDeInterfaz
<1> QED  BY <1>2, <1>3, <1>4, <1>5, <1>6

\* No other thread touches those mutexes, and a request that the scheduler creates
\* starts before it has any.
LEMMA InterfazOtros ==
  ASSUME IInv, MutexDeInterfaz, [Next]_vars, \A p \in Pids : ~PasoIO(p)
  PROVE  MutexDeInterfaz'
<1>1. /\ pcIO \in [Pids -> LugaresIO] /\ pedido \in [Pids -> Pedidos]
  BY DEF IInv, ITipo, TypeOK, AtencionIOTypeOK
<1>2. CASE CreaHiloIO
  <2>1. Despachado \in Pids
    BY <1>2 DEF CreaHiloIO, IInv, ITipo, LocalesEnUso, Despachado
  <2>2. /\ UNCHANGED mIO
        /\ pcIO'[Despachado] = "vector"
        /\ \A q \in Pids \ {Despachado} : pcIO'[q] = pcIO[q] /\ pedido'[q] = pedido[q]
    BY <1>1, <1>2, <2>1 DEF CreaHiloIO, IrIO
  <2> QED  BY <2>1, <2>2 DEF MutexDeInterfaz
<1>3. CASE ~CreaHiloIO
  <2>1. UNCHANGED <<pcIO, mIO, pedido>>
    <3>1. CASE PasoPCP
      BY <1>3, <3>1 DEF PasoPCP, PCP, EsperaListo, TomaReady, TomaReadyPlus, Elegir, TomaNadie,
         Despacha, Recibe, VuelveParaMorir, VuelvePorIO, VuelvePorPedido, VuelvePorDevolucion,
         VuelvePorQuantum, EsperaVector, DescuentaInstancia, DecideBloquear, DecideOtorgar,
         EncolaBloqueado, ReingresaReady, ReingresaPlus, ReingresaSinMutex, ReingresaPerdido,
         Reingreso, ioVars
    <3>2. CASE ~PasoPCP
      BY <3>2 DEF Next, PasoConsola, PasoPLP, PasoCarnicero, PasoTimer, VenceTimer,
         PasoConexion, ConectarIO, PasoCPU, PasoInterrupciones, ioVars, vars
    <3> QED  BY <3>1, <3>2
  <2> QED  BY <2>1 DEF MutexDeInterfaz
<1> QED  BY <1>2, <1>3

\* The invariant of the interfaces' mutexes holds in every behaviour.
LEMMA MutexSiempre == Spec => []MutexDeInterfaz
<1>1. Init => MutexDeInterfaz
  BY DEF Init, AtencionIOInit, MutexDeInterfaz
<1>2. ASSUME IInv, MutexDeInterfaz, [Next]_vars PROVE MutexDeInterfaz'
  <2>1. ASSUME NEW p \in Pids, PasoIO(p) PROVE MutexDeInterfaz'
    BY <1>2, <2>1, InterfazIO DEF PasoIO, IInv, ITipo
  <2> QED  BY <1>2, <2>1, InterfazOtros
<1> QED  BY <1>1, <1>2, Invariante, PTL DEF Spec

\* An interface works for one process at a time, however many ask for it, are
\* killed meanwhile or lose their place in lBlocked (kernel.c:884, 911).
THEOREM InterfazDeAUno == Spec => []AtencionSecuencial
<1>1. ASSUME MutexDeInterfaz PROVE AtencionSecuencial
  BY <1>1 DEF MutexDeInterfaz, AtencionSecuencial
<1> QED  BY <1>1, MutexSiempre, PTL

-----------------------------------------------------------------------------
(***************************************************************************)
(* Stopping and resuming                                                   *)
(***************************************************************************)


\* Without VRR nothing is ever pushed to cREADY without mREADY.
LEMMA SinPushDesprotegido ==
  ASSUME ITipo, Algoritmo # "VRR", pc["pcp"] # "a_ready_sin_mutex", [Next]_vars
  PROVE  pc'["pcp"] # "a_ready_sin_mutex"
<1>1. pc \in [Hilos -> Lugares]
  BY DEF ITipo, TypeOK, PlanificacionTypeOK, LocalesTypeOK
<1>2. CASE PasoPCP
  BY <1>1, <1>2 DEF PasoPCP, PCP, EsperaListo, ColaElegida, TomaReady, TomaReadyPlus, Elegir,
     TomaNadie, Despacha, Recibe, VuelveParaMorir, VuelvePorIO, VuelvePorPedido,
     VuelvePorDevolucion, VuelvePorQuantum, CreaHiloIO, EsperaVector, DescuentaInstancia,
     DecideBloquear, DecideOtorgar, EncolaBloqueado, ReingresaReady, ReingresaPlus,
     ReingresaSinMutex, ReingresaPerdido, Reingreso, TerminaMatadero, LiberarRecurso,
     LiberaInstancia, MiraBloqueados, SacaBloqueado, SacaNadie, DespiertaBloqueado,
     TrasLiberar, Ir, IrSoltando, Caer, Hilos, locales, EsVrr
<1>3. CASE ~PasoPCP
  <2>1. pc'["pcp"] = pc["pcp"]
    BY <1>1, <1>3 DEF Next, PasoConsola, ConsolaNext, CrearProceso, DetenerPlanificacion,
       DetenerPara, TomaMutexes, IniciarPlanificacion, ProcesoEstado, ListaProcesos,
       InterrumpirProceso, FinalizarProceso, BuscaVictima, NoEncuentra, QuitaVictima,
       QuitaVictimaYaLibre, QuitaVictimaReady, EsperaToken, SubirGrado, BajarGrado,
       RetiraCupo, TerminaMatadero, PasoPLP, PLP, EsperaNuevo, TomaNuevo, Admite, Rechaza,
       AdmiteNadie, IngresaReady, IngresaReadyPerdido, PasoCarnicero, Carnicero,
       EsperaFinalizado, TomaFinalizado, SueltaRecurso, LiberaProceso, LiberarRecurso,
       LiberaInstancia, MiraBloqueados, SacaBloqueado, SacaNadie, DespiertaBloqueado,
       PasoTimer, VenceTimer, PasoIO, AtenderSolicitudIO, RecibeVector, BuscaInterfaz,
       TomaInterfaz, UsaConexionLiberada, Repone, RespondeIO, FallaIO, FallaIODeMuerto,
       TerminaMataderoIO, CortaConexion, ExitoIO, ExitoIODeMuerto, DespiertaDeIO,
       PasoConexion, ConectarIO, PasoCPU, PasoInterrupciones, Ir, IrSoltando, Caer, Hilos,
       vars, planVars, locales
  <2> QED  BY <2>1
<1> QED  BY <1>2, <1>3

\* What the stopped scheduling leaves alone.
Congelado == UNCHANGED <<cNEW, cREADY, cEXIT, cBloqueados, instancias, pidRunning>>

\* While the console keeps scheduling stopped and does nothing, no step moves it.
LEMMA PasoCongelado ==
  ASSUME ITipo, Algoritmo # "VRR", pc["pcp"] # "a_ready_sin_mutex", [Next]_vars,
         planificacion = "detenida", planificacion' = "detenida", pc'["consola"] = pc["consola"]
  PROVE  Congelado
<1> USE DEF Congelado, PrimerosLibres, UltimosLibres
<1>1. pc \in [Hilos -> Lugares]
  BY DEF ITipo, TypeOK, PlanificacionTypeOK, LocalesTypeOK
<1>2. CASE PasoConsola
  BY <1>1, <1>2 DEF PasoConsola, ConsolaNext, CrearProceso, DetenerPlanificacion,
     DetenerPara, TomaMutexes, IniciarPlanificacion, ProcesoEstado, ListaProcesos,
     InterrumpirProceso, FinalizarProceso, BuscaVictima, NoEncuentra, QuitaVictima,
     QuitaVictimaYaLibre, QuitaVictimaReady, EsperaToken, SubirGrado, BajarGrado, RetiraCupo,
     TerminaMatadero, Reanudar, Ir, IrSoltando, Caer, Hilos, planVars, colas, recursosVars,
     cerrojos, EncolarExit
<1>3. CASE PasoPLP
  BY <1>1, <1>3 DEF PasoPLP, PLP, EsperaNuevo, TomaNuevo, Admite, Rechaza, AdmiteNadie,
     IngresaReady, AReady, IngresaReadyPerdido, TerminaMatadero, EncolarExit, colas,
     recursosVars, cerrojos, Caer
<1>4. CASE PasoCarnicero
  BY <1>1, <1>4 DEF PasoCarnicero, Carnicero, EsperaFinalizado, TomaFinalizado,
     SueltaRecurso, LiberaProceso, LiberarRecurso, LiberaInstancia, MiraBloqueados,
     SacaBloqueado, SacaNadie, DespiertaBloqueado, Despertar, EsVrr, AReady, colas,
     recursosVars, cerrojos, Caer
<1>5. CASE PasoPCP
  BY <1>1, <1>5 DEF PasoPCP, PCP, EsperaListo, ColaElegida, TomaReady, TomaReadyPlus, Elegir,
     TomaNadie, Despacha, Recibe, VuelveParaMorir, VuelvePorIO, VuelvePorPedido,
     VuelvePorDevolucion, VuelvePorQuantum, CreaHiloIO, EsperaVector, DescuentaInstancia,
     DecideBloquear, DecideOtorgar, EncolaBloqueado, ReingresaReady, ReingresaPlus,
     ReingresaSinMutex, ReingresaPerdido, Reingreso, TerminaMatadero, LiberarRecurso,
     LiberaInstancia, MiraBloqueados, SacaBloqueado, SacaNadie, DespiertaBloqueado,
     Despertar, AReady, APlus, EncolarExit, Caer, EsVrr, colas, recursosVars, cerrojos
<1>6. ASSUME NEW p \in Pids, PasoTimer(p) PROVE Congelado
  BY <1>6 DEF PasoTimer, VenceTimer, planVars, colas, recursosVars, cerrojos
<1>7. ASSUME NEW p \in Pids, PasoIO(p) PROVE Congelado
  BY <1>7 DEF PasoIO, AtenderSolicitudIO, RecibeVector, BuscaInterfaz, TomaInterfaz,
     UsaConexionLiberada, Repone, RespondeIO, FallaIO, FallaIODeMuerto, TerminaMataderoIO,
     CortaConexion, ExitoIO, ExitoIODeMuerto, DespiertaDeIO, Despertar, AReady, EsVrr,
     EncolarExit, Caer, planVars, colas, recursosVars, cerrojos
<1>8. CASE PasoCPU \/ PasoInterrupciones \/ UNCHANGED vars \/ \E i \in Interfaces : PasoConexion(i)
  BY <1>8 DEF PasoCPU, PasoInterrupciones, PasoConexion, ConectarIO, vars, planVars, colas,
     recursosVars, cerrojos
<1> QED  BY <1>2, <1>3, <1>4, <1>5, <1>6, <1>7, <1>8 DEF Next

\* Under FIFO and RR, stopped scheduling really is stopped: no thread moves a
\* process of cNEW, cREADY, cEXIT or a resource's queue until the console resumes.
\* (Under VRR pedir_recurso pushes to cREADY without mREADY, so this is false.)
THEOREM PausaCongela ==
  ASSUME Algoritmo # "VRR"
  PROVE  Spec => DetenidaCongela
<1> DEFINE J == pc["pcp"] # "a_ready_sin_mutex"
<1>1. Init => J
  BY DEF Init, PlanificacionInit, Hilos
<1>2. IInv /\ J /\ [Next]_vars => J'
  BY SinPushDesprotegido DEF IInv
<1>3. IInv /\ J /\ [Next]_vars =>
        [ planificacion = "detenida" /\ planificacion' = "detenida"
            /\ pc'["consola"] = pc["consola"]
          => UNCHANGED <<cNEW, cREADY, cEXIT, cBloqueados, instancias, pidRunning>> ]_vars
  BY PasoCongelado DEF IInv, Congelado
<1> HIDE DEF J
<1> QED  BY <1>1, <1>2, <1>3, Invariante, PTL DEF Spec, DetenidaCongela
=============================================================================
