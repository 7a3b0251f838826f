--------------------------- MODULE RecursosProofs ---------------------------
(***************************************************************************)
(* Theorems about resources and about waiting, for them and for work, for  *)
(* every value of the constants of Kernel.  Besides the assumptions of     *)
(* LugaresProofs, those about instances need that programs signal only     *)
(* what they hold, and those about who waits that they hold nothing when   *)
(* they end or ask for I/O: then only the short-term scheduler is in       *)
(* pedir_recurso and liberar_recurso, whose checks outside the mutex       *)
(* cannot be overtaken by the carnicero.                                   *)
(***************************************************************************)
EXTENDS LugaresProofs

-----------------------------------------------------------------------------
(***************************************************************************)
(* Who ends holds nothing                                                  *)
(***************************************************************************)

\* Only timers write to the interrupt socket.
LEMMA SigueSoloQuantum ==
  ASSUME Supuestos, ITipo, SinBajas, SoloQuantum, [Next]_vars
  PROVE  SoloQuantum'
<1>1. canalIntr \in Seq(Interrupciones)
  BY DEF ITipo, TypeOK, CpuTypeOK
<1>2. CASE UNCHANGED <<canalIntr, cIntr>>
  BY <1>2 DEF SoloQuantum
<1>3. CASE PasoConsola
  <2>1. UNCHANGED <<canalIntr, cIntr>>
    BY <1>3 DEF Supuestos, SinBajas, PasoConsola, ConsolaNext, CrearProceso,
       DetenerPlanificacion, DetenerPara, TomaMutexes, IniciarPlanificacion, ProcesoEstado,
       ListaProcesos, InterrumpirProceso, FinalizarProceso, Lee, BuscaVictima, NoEncuentra,
       QuitaVictima, QuitaVictimaYaLibre, QuitaVictimaReady, EsperaToken, SubirGrado,
       BajarGrado, RetiraCupo, TerminaMatadero, cpuVars
  <2> QED  BY <1>2, <2>1
<1>4. CASE \/ PasoPLP \/ PasoCarnicero \/ PasoPCP \/ UNCHANGED vars
           \/ \E i \in Interfaces : PasoConexion(i)
  <2>1. UNCHANGED <<canalIntr, cIntr>>
    BY <1>4 DEF PasoPLP, PasoCarnicero, PasoPCP, PCP, EsperaListo, TomaReady, TomaReadyPlus,
       Elegir, TomaNadie, Despacha, Recibe, VuelveParaMorir, VuelvePorIO, VuelvePorPedido,
       VuelvePorDevolucion, VuelvePorQuantum, CreaHiloIO, EsperaVector, DescuentaInstancia,
       DecideBloquear, DecideOtorgar, EncolaBloqueado, ReingresaReady, ReingresaPlus,
       ReingresaSinMutex, ReingresaPerdido, Reingreso, PasoConexion, ConectarIO, vars, cpuVars
  <2> QED  BY <1>2, <2>1
<1>5. ASSUME NEW p \in Pids, PasoIO(p) PROVE SoloQuantum'
  <2>1. UNCHANGED <<canalIntr, cIntr>>
    BY <1>5 DEF PasoIO, AtenderSolicitudIO, RecibeVector, BuscaInterfaz, TomaInterfaz,
       UsaConexionLiberada, Repone, RespondeIO, FallaIO, FallaIODeMuerto, TerminaMataderoIO,
       CortaConexion, ExitoIO, ExitoIODeMuerto, DespiertaDeIO, cpuVars
  <2> QED  BY <1>2, <2>1
<1>6. ASSUME NEW p \in Pids, PasoTimer(p) PROVE SoloQuantum'
  <2>1. PICK q \in Pids \cup {Nadie} : EnviarInt("FIN_DE_QUANTUM", q)
    BY <1>6 DEF PasoTimer, VenceTimer
  <2>2. /\ canalIntr' = Append(canalIntr, [motivo |-> "FIN_DE_QUANTUM", pid |-> q])
        /\ UNCHANGED cIntr
    BY <1>6, <2>1 DEF PasoTimer, VenceTimer, EnviarInt, Intr
  <2> DEFINE i == [motivo |-> "FIN_DE_QUANTUM", pid |-> q]
  <2>3. i \in Interrupciones
    BY DEF Interrupciones
  <2>4. /\ DOMAIN canalIntr = 1..Len(canalIntr) /\ Len(canalIntr) \in Nat
        /\ DOMAIN canalIntr' = 1..(Len(canalIntr) + 1)
        /\ canalIntr'[Len(canalIntr) + 1] = i
        /\ \A k \in 1..Len(canalIntr) : canalIntr'[k] = canalIntr[k]
    BY <1>1, <2>2, <2>3, ElementosAgregado
  <2>5. \A k \in DOMAIN canalIntr' : canalIntr'[k].motivo = "FIN_DE_QUANTUM"
    BY <2>4 DEF SoloQuantum
  <2> QED  BY <2>2, <2>5 DEF SoloQuantum
<1>7. CASE PasoCPU
  <2>1. UNCHANGED canalIntr /\ cIntr' = {}
    BY <1>7 DEF PasoCPU, CPU, CicloSigue, CicloVuelve
  <2> QED  BY <2>1 DEF SoloQuantum
<1>8. CASE PasoInterrupciones
  <2>1. /\ canalIntr # <<>> /\ canalIntr' = Tail(canalIntr)
        /\ cIntr' = cIntr \cup {Head(canalIntr)}
    BY <1>8 DEF PasoInterrupciones, RecibirInterrupcion
  <2>2. /\ Len(canalIntr) \in Nat /\ Len(canalIntr) >= 1 /\ DOMAIN canalIntr = 1..Len(canalIntr)
        /\ DOMAIN canalIntr' = 1..(Len(canalIntr) - 1) /\ Head(canalIntr) = canalIntr[1]
        /\ \A k \in 1..(Len(canalIntr) - 1) : canalIntr'[k] = canalIntr[k + 1]
    BY <1>1, <2>1, ElementosCola
  <2>3. \A k \in DOMAIN canalIntr' : canalIntr'[k].motivo = "FIN_DE_QUANTUM"
    <3> TAKE k \in DOMAIN canalIntr'
    <3>1. k + 1 \in DOMAIN canalIntr /\ canalIntr'[k] = canalIntr[k + 1]
      BY <2>2
    <3> QED  BY <3>1 DEF SoloQuantum
  <2>4. canalIntr[1].motivo = "FIN_DE_QUANTUM"
    BY <2>2 DEF SoloQuantum
  <2> QED  BY <2>1, <2>2, <2>3, <2>4 DEF SoloQuantum
<1> QED  BY <1>3, <1>4, <1>5, <1>6, <1>7, <1>8 DEF Next, vars, cpuVars

\* A step of others does not change what the scheduler is doing, nor who holds what.
LEMMA DeudasQuietas ==
  ASSUME SinDeudas, UNCHANGED <<tenidos, motivo, dispatch>>, pc'["pcp"] = pc["pcp"],
         mano'["pcp"] = mano["pcp"],
         \A p \in Pids :
           \/ estado'[p] \in {"SIN_CREAR", "NEW", "FINISHED", "LIBERADO"}
           \/ p \in lBlocked' \/ pcIO'[p] = "repone"
           => \/ estado[p] \in {"SIN_CREAR", "NEW", "FINISHED", "LIBERADO"}
              \/ p \in lBlocked \/ pcIO[p] = "repone"
  PROVE  SinDeudas'
  BY DEF SinDeudas, Despachado
\* The long-term scheduler rejects only processes that never ran.
LEMMA DeudasPLP ==
  ASSUME Supuestos, ITipo, ILugares, SinDeudas, PLP, UNCHANGED <<cpuVars, ioVars, cortoVars>>
  PROVE  SinDeudas'
<1>1. /\ pc \in [Hilos -> Lugares] /\ mano \in [Hilos -> Pids \cup {Nadie}]
      /\ estado \in [Pids -> Estados] /\ {"plp", "pcp"} \subseteq Hilos
  BY DEF ITipo, TypeOK, PlanificacionTypeOK, LocalesTypeOK, ProcesosTypeOK, Hilos
<1>2. /\ UNCHANGED <<tenidos, motivo, dispatch, lBlocked, pcIO>>
      /\ pc'["pcp"] = pc["pcp"] /\ mano'["pcp"] = mano["pcp"]
  BY <1>1 DEF PLP, EsperaNuevo, TomaNuevo, Admite, Rechaza, AdmiteNadie, IngresaReady, AReady,
     IngresaReadyPerdido, TerminaMatadero, EncolarExit, IrSoltando, Ir, Caer, procesos, colas,
     locales, cpuVars, ioVars, cortoVars
<1>3. CASE Admite \/ Rechaza
  <2>1. PICK p \in Pids : p = mano["plp"]
    BY <1>3, LargoPlazoAssumption DEF Admite, Rechaza
  <2>2. estado[p] = "NEW"
    <3>1. estado[p] \in EstadosEnMano("plp")
      BY <2>1, EnManoDe
    <3> QED  BY <1>3, <3>1 DEF Admite, Rechaza, EsperaCupo, EstadosEnMano
  <2>3. \A q \in Pids \ {p} : estado'[q] = estado[q]
    BY <1>1, <1>3, <2>1 DEF Admite, Rechaza
  <2> QED  BY <1>2, <2>2, <2>3, DeudasQuietas
<1>4. CASE ~(Admite \/ Rechaza)
  <2>1. UNCHANGED estado
    BY <1>4 DEF PLP, EsperaNuevo, TomaNuevo, AdmiteNadie, IngresaReady, IngresaReadyPerdido,
       TerminaMatadero, Caer, procesos
  <2> QED  BY <1>2, <2>1, DeudasQuietas
<1> QED  BY <1>3, <1>4

\* The carnicero has nothing to release.
LEMMA DeudasCarnicero ==
  ASSUME ITipo, ILugares, SinDeudas, UnoSolo, Carnicero, UNCHANGED <<cpuVars, ioVars, cortoVars>>
  PROVE  SinDeudas' /\ UnoSolo' /\ ~LiberarRecurso("carnicero")
<1>1. /\ pc \in [Hilos -> Lugares] /\ mano \in [Hilos -> Pids \cup {Nadie}]
      /\ estado \in [Pids -> Estados] /\ {"carnicero", "pcp"} \subseteq Hilos
      /\ Nadie \notin Pids /\ LocalesEnUso
  BY DEF ITipo, TypeOK, PlanificacionTypeOK, LocalesTypeOK, ProcesosTypeOK, Hilos, Nadie, Pids
<1>2. ~LiberarRecurso("carnicero")
  BY DEF UnoSolo, LiberarRecurso, LiberaInstancia, MiraBloqueados, SacaBloqueado, SacaNadie,
     DespiertaBloqueado
<1>3. ASSUME pc["carnicero"] = "reparte"
      PROVE  /\ mano["carnicero"] \in Pids
             /\ estado[mano["carnicero"]] = "FINISHED" /\ tenidos[mano["carnicero"]] = <<>>
  <2>1. PICK p \in Pids : p = mano["carnicero"]
    BY <1>1, <1>3 DEF LocalesEnUso
  <2>2. <<"mano", "carnicero">> \in Sitios /\ En(<<"mano", "carnicero">>) = <<p>>
    <3>1. ConAlguien("carnicero") /\ mano["carnicero"] = p
      BY <1>1, <1>3, <2>1 DEF ConAlguien
    <3> QED  BY <1>1, <3>1, Contenido DEF Sitios, Si
  <2>3. estado[p] = "FINISHED"
    BY <2>2, EnVariable, ClaseDelCarnicero DEF ILugares
  <2> QED  BY <2>1, <2>3 DEF SinDeudas
<1>4. ~SueltaRecurso
  BY <1>3 DEF SueltaRecurso
<1>5. /\ UNCHANGED <<tenidos, motivo, dispatch, lBlocked, pcIO>>
      /\ pc'["pcp"] = pc["pcp"] /\ mano'["pcp"] = mano["pcp"]
  BY <1>1, <1>2, <1>4 DEF Carnicero, EsperaFinalizado, TomaFinalizado, LiberaProceso,
     IrSoltando, Ir, procesos, colas, cpuVars, ioVars, cortoVars
<1>6. UnoSolo'
  BY <1>1, <1>2, <1>4 DEF Carnicero, EsperaFinalizado, TomaFinalizado, LiberaProceso,
     IrSoltando, Ir, UnoSolo
<1>7. CASE LiberaProceso
  <2>1. PICK p \in Pids : p = mano["carnicero"] /\ estado[p] = "FINISHED"
    BY <1>3, <1>7 DEF LiberaProceso
  <2>2. \A q \in Pids \ {p} : estado'[q] = estado[q]
    BY <1>1, <1>7, <2>1 DEF LiberaProceso
  <2> QED  BY <1>2, <1>5, <1>6, <2>1, <2>2, DeudasQuietas
<1>8. CASE ~LiberaProceso
  <2>1. UNCHANGED estado
    BY <1>2, <1>4, <1>8 DEF Carnicero, EsperaFinalizado, TomaFinalizado, procesos
  <2> QED  BY <1>2, <1>5, <1>6, <2>1, DeudasQuietas
<1> QED  BY <1>7, <1>8

\* Who fails an I/O request was in lBlocked.
LEMMA DeudasHiloIO ==
  ASSUME IInv, ILugares, SinDeudas, NEW p \in Pids, AtenderSolicitudIO(p), UNCHANGED cortoVars
  PROVE  SinDeudas'
<1>1. /\ pcIO \in [Pids -> LugaresIO] /\ estado \in [Pids -> Estados] /\ EnListaDeIO
      /\ SocketEnOrden
  BY DEF IInv, ITipo, TypeOK, PlanificacionTypeOK, ProcesosTypeOK, AtencionIOTypeOK, ILugares
<1>2. /\ UNCHANGED <<tenidos, motivo, pc, mano>>
  BY DEF AtenderSolicitudIO, RecibeVector, BuscaInterfaz, TomaInterfaz, UsaConexionLiberada,
     Repone, RespondeIO, FallaIO, FallaIODeMuerto, TerminaMataderoIO, CortaConexion, ExitoIO,
     ExitoIODeMuerto, DespiertaDeIO, Caer, planVars, procesos, locales, cortoVars
<1>3. /\ \A q \in Pids \ {p} : pcIO'[q] = pcIO[q] /\ estado'[q] = estado[q]
      /\ \A q \in Pids \ {p} : q \in lBlocked' <=> q \in lBlocked
  BY <1>1 DEF AtenderSolicitudIO, RecibeVector, BuscaInterfaz, TomaInterfaz, UsaConexionLiberada,
     Repone, RespondeIO, FallaIO, FallaIODeMuerto, TerminaMataderoIO, CortaConexion, ExitoIO,
     ExitoIODeMuerto, DespiertaDeIO, BlockedTrasExito, Matar, Caer, IrIO, planVars, procesos,
     colas, ioVars
<1>4. CASE RecibeVector(p)
  <2>1. pc["pcp"] = "io_cede"
    BY <1>1, <1>4 DEF RecibeVector, SocketEnOrden, EnVector
  <2>2. UNCHANGED <<estado, lBlocked>> /\ pcIO'[p] = "busca"
    BY <1>1, <1>4 DEF RecibeVector, IrIO, procesos, colas
  <2> QED  BY <1>2, <1>3, <2>1, <2>2 DEF SinDeudas
<1>5. CASE ~RecibeVector(p)
  <2>1. UNCHANGED dispatch
    BY <1>5 DEF AtenderSolicitudIO, BuscaInterfaz, TomaInterfaz, UsaConexionLiberada,
       Repone, RespondeIO, FallaIO, FallaIODeMuerto, TerminaMataderoIO, CortaConexion, ExitoIO,
       ExitoIODeMuerto, DespiertaDeIO, cpuVars
  <2>2. \/ estado'[p] \in {"SIN_CREAR", "NEW", "FINISHED", "LIBERADO"}
        \/ p \in lBlocked' \/ pcIO'[p] = "repone"
        => \/ estado[p] \in {"SIN_CREAR", "NEW", "FINISHED", "LIBERADO"}
           \/ p \in lBlocked \/ pcIO[p] = "repone"
    <3>1. CASE FallaIO(p)
      BY <1>1, <3>1 DEF FallaIO, EnListaDeIO
    <3>2. CASE ExitoIO(p)
      BY <1>1, <3>2 DEF ExitoIO, EstadoAlDespertar, BlockedTrasExito, IrIO
    <3>3. CASE BuscaInterfaz(p) \/ TomaInterfaz(p) \/ Repone(p) \/ RespondeIO(p)
      BY <1>1, <3>3 DEF BuscaInterfaz, TomaInterfaz, Repone, RespondeIO, IrIO, EnListaDeIO,
         planVars, procesos, colas
    <3>4. CASE \/ UsaConexionLiberada(p) \/ FallaIODeMuerto(p) \/ TerminaMataderoIO(p)
               \/ CortaConexion(p) \/ ExitoIODeMuerto(p) \/ DespiertaDeIO(p)
      BY <1>1, <3>4 DEF UsaConexionLiberada, FallaIODeMuerto, TerminaMataderoIO, CortaConexion,
         ExitoIODeMuerto, DespiertaDeIO, Caer, IrIO, planVars, procesos, colas, ioVars
    <3> QED  BY <1>5, <3>1, <3>2, <3>3, <3>4 DEF AtenderSolicitudIO
  <2> QED  BY <1>2, <1>3, <2>1, <2>2, DeudasQuietas
<1> QED  BY <1>4, <1>5
\* The console creates processes that hold nothing.
LEMMA DeudasConsola ==
  ASSUME Supuestos, ITipo, ILugares, SinDeudas, ConsolaNext, UNCHANGED <<ioVars, cortoVars>>
  PROVE  SinDeudas'
<1>1. /\ pc \in [Hilos -> Lugares] /\ estado \in [Pids -> Estados]
      /\ {"consola", "pcp"} \subseteq Hilos /\ SinBajas /\ PorCrear
      /\ idPCB \in Nat /\ idPCB >= 1
  BY DEF ITipo, TypeOK, PlanificacionTypeOK, LocalesTypeOK, ProcesosTypeOK, Hilos, ILugares,
     Ubicados
<1>2. /\ UNCHANGED <<tenidos, motivo, dispatch, lBlocked, pcIO>>
      /\ pc'["pcp"] = pc["pcp"] /\ mano'["pcp"] = mano["pcp"]
  BY <1>1 DEF Supuestos, SinBajas, ConsolaNext, CrearProceso, DetenerPlanificacion, DetenerPara,
     TomaMutexes, IniciarPlanificacion, ProcesoEstado, ListaProcesos, InterrumpirProceso,
     FinalizarProceso, Lee, BuscaVictima, NoEncuentra, QuitaVictima, QuitaVictimaYaLibre,
     QuitaVictimaReady, EsperaToken, SubirGrado, BajarGrado, RetiraCupo, TerminaMatadero, Ir,
     procesos, colas, locales, cpuVars, ioVars, cortoVars
<1>3. CASE CrearProceso
  <2>1. PICK p \in Pids : p = idPCB
    BY <1>1, <1>3, CpuAssumption DEF CrearProceso, Pids
  <2>2. estado[p] = "SIN_CREAR" /\ \A q \in Pids \ {p} : estado'[q] = estado[q]
    BY <1>1, <1>3, <2>1 DEF CrearProceso, PorCrear, Pids
  <2> QED  BY <1>2, <2>2, DeudasQuietas
<1>4. CASE ~CrearProceso
  <2>1. UNCHANGED estado
    BY <1>1, <1>4 DEF Supuestos, SinBajas, ConsolaNext, DetenerPlanificacion, DetenerPara,
       TomaMutexes, IniciarPlanificacion, ProcesoEstado, ListaProcesos, InterrumpirProceso,
       FinalizarProceso, Lee, BuscaVictima, NoEncuentra, QuitaVictima, QuitaVictimaYaLibre,
       QuitaVictimaReady, EsperaToken, SubirGrado, BajarGrado, RetiraCupo, TerminaMatadero,
       procesos
  <2> QED  BY <1>2, <2>1, DeudasQuietas
<1> QED  BY <1>3, <1>4

\* The CPU gives back a process that ends or asks for I/O only if it holds nothing.
LEMMA DeudasCPU ==
  ASSUME "salida" \in Disciplina, IInv, SoloQuantum, SinDeudas, CPU,
         UNCHANGED <<planVars, ioVars, cortoVars>>
  PROVE  SinDeudas'
<1>1. /\ UNCHANGED <<tenidos, estado, lBlocked, pcIO, motivo, pc, mano>>
  BY DEF planVars, procesos, colas, locales, ioVars, cortoVars
<1>2. CASE CicloSigue
  BY <1>1, <1>2, DeudasQuietas DEF CicloSigue
<1>3. ASSUME NEW m \in Motivos \cup {Sigue}, enCpu # Nadie, Programa(m), CicloVuelve(m)
      PROVE  SinDeudas'
  <2>1. enCpu = Despachado /\ dispatch = <<>> /\ pc["pcp"] = "cpu"
    BY <1>3 DEF IInv, SocketEnOrden
  <2> DEFINE n == SeVa(enCpu, m)
  <2>2. Intr("INTERRUPCION", enCpu) \notin cIntr
    BY DEF SoloQuantum, Intr
  <2>3. n = m \/ n = FinDeQuantum
    BY <2>2 DEF SeVa
  <2>4. Cierra(n) => tenidos[Despachado] = <<>>
    <3>1. ~Cierra(FinDeQuantum)
      BY DEF Cierra, EsFinal, FinDeQuantum
    <3>2. Cierra(m) => tenidos[enCpu] = <<>>
      BY <1>3 DEF Programa, Cierra
    <3> QED  BY <2>1, <2>3, <3>1, <3>2
  <2>5. dispatch' = Vuelta(enCpu, n)
    <3>1. n \in Motivos \cup {Interrupcion, FinDeQuantum}
      BY <1>3 DEF CicloVuelve, SeVa
    <3>2. enCpu \in Pids /\ Vuelta(enCpu, n) \in Seq(Mensajes)
      <4> HIDE DEF n
      <4> QED  BY <1>3, <3>1, TipoVuelta DEF IInv, ITipo, TypeOK, CpuTypeOK
    <3>3. dispatch' = dispatch \o Vuelta(enCpu, n)
      BY <1>3 DEF CicloVuelve
    <3> HIDE DEF n
    <3> QED  BY <2>1, <3>2, <3>3
  <2>6. Head(Vuelta(enCpu, n)).motivo = n
    BY DEF Vuelta
  <2> QED  BY <1>1, <2>1, <2>4, <2>5, <2>6 DEF SinDeudas, Despachado
<1> QED  BY <1>2, <1>3 DEF CPU

\* A place holds its head alone.
LEMMA SoloEnCabeza ==
  ASSUME ITipo, ILugares, NEW a \in Sitios, NEW p \in Pids, En(a) # <<>>, p = Head(En(a)),
         a[1] \notin {"lBlocked", "io"}
  PROVE  p \notin lBlocked /\ pcIO[p] # "repone"
<1>1. \A t \in Sitios \ {a} : \A i \in DOMAIN En(t) : En(t)[i] # p
  BY EnCabeza DEF ILugares
<1>2. <<"lBlocked", p>> \in Sitios \ {a} /\ <<"io", p>> \in Sitios \ {a}
  BY DEF Sitios
<1>3. ASSUME p \in lBlocked PROVE FALSE
  <2>1. En(<<"lBlocked", p>>) = <<p>>
    BY <1>3, Contenido DEF Si
  <2>2. 1 \in DOMAIN <<p>> /\ <<p>>[1] = p
    OBVIOUS
  <2> QED  BY <1>1, <1>2, <2>1, <2>2
<1>4. ASSUME pcIO[p] = "repone" PROVE FALSE
  <2>1. En(<<"io", p>>) = <<p>>
    BY <1>4, Contenido DEF Si
  <2>2. 1 \in DOMAIN <<p>> /\ <<p>>[1] = p
    OBVIOUS
  <2> QED  BY <1>1, <1>2, <2>1, <2>2
<1> QED  BY <1>3, <1>4

\* The scheduler takes a process on, and what it grants goes to one that is READY.
LEMMA DeudasPCP ==
  ASSUME Supuestos, IInv, ILugares, SinDeudas, PCP
  PROVE  SinDeudas'
<1>1. /\ pc \in [Hilos -> Lugares] /\ mano \in [Hilos -> Pids \cup {Nadie}]
      /\ estado \in [Pids -> Estados] /\ tenidos \in [Pids -> Seq(Recursos)]
      /\ cBloqueados \in [Recursos -> Seq(Pids)] /\ pcIO \in [Pids -> LugaresIO]
      /\ dispatch \in Seq(Mensajes)
      /\ "pcp" \in Hilos /\ ITipo /\ LocalesEnUso
  BY DEF IInv, ITipo, TypeOK, PlanificacionTypeOK, LocalesTypeOK, ProcesosTypeOK, RecursosTypeOK,
     AtencionIOTypeOK, CpuTypeOK, Hilos
<1>2. ASSUME pc["pcp"] \notin {"espera", "toma", "toma_plus", "io_cede"}
      PROVE  Despachado \in Pids /\ Despachado \notin lBlocked /\ pcIO[Despachado] # "repone"
  <2>1. PICK p \in Pids : p = mano["pcp"]
    BY <1>1, <1>2 DEF LocalesEnUso
  <2>2. <<"mano", "pcp">> \in Sitios /\ En(<<"mano", "pcp">>) = <<p>>
    <3>1. ConAlguien("pcp") /\ mano["pcp"] = p
      BY <1>2, <2>1 DEF ConAlguien, Nadie, Pids
    <3> QED  BY <1>1, <3>1, Contenido DEF Sitios, Si
  <2>3. En(<<"mano", "pcp">>) # <<>> /\ p = Head(En(<<"mano", "pcp">>))
    BY <2>2
  <2> QED  BY <1>1, <2>1, <2>2, <2>3, SoloEnCabeza DEF Despachado
<1>3. CASE \/ EsperaListo \/ TomaNadie \/ VuelvePorPedido \/ VuelvePorQuantum \/ EsperaVector
           \/ TomaReady \/ TomaReadyPlus
           \/ DescuentaInstancia \/ DecideBloquear \/ EncolaBloqueado
           \/ ReingresaReady \/ ReingresaPlus \/ ReingresaSinMutex
  <2>1. UNCHANGED <<tenidos, lBlocked, pcIO>>
    BY <1>3 DEF EsperaListo, TomaNadie, VuelvePorPedido, VuelvePorQuantum, EsperaVector,
       TomaReady, TomaReadyPlus, Elegir, DescuentaInstancia, DecideBloquear, EncolaBloqueado,
       ReingresaReady, ReingresaPlus, ReingresaSinMutex, AReady, APlus, Reingreso, Caer,
       procesos, colas, ioVars
  <2>2. /\ pc'["pcp"] \notin {"io", "motivo", "cpu"}
        /\ \A q \in Pids :
             estado'[q] \in {"SIN_CREAR", "NEW", "FINISHED", "LIBERADO"} => estado'[q] = estado[q]
    <3>1. CASE TomaReady \/ TomaReadyPlus
      BY <1>1, <3>1 DEF TomaReady, TomaReadyPlus, Elegir, Ir
    <3>2. CASE VuelvePorQuantum \/ DecideBloquear
      BY <1>1, <3>2 DEF VuelvePorQuantum, DecideBloquear, Ir
    <3>3. CASE TomaNadie
      BY <1>1, <3>3 DEF TomaNadie, Caer, procesos, locales
    <3>4. CASE \/ EsperaListo \/ VuelvePorPedido \/ EsperaVector
               \/ DescuentaInstancia \/ EncolaBloqueado
               \/ ReingresaReady \/ ReingresaPlus \/ ReingresaSinMutex
      BY <1>1, <3>4 DEF EsperaListo, ColaElegida, VuelvePorPedido, EsperaVector,
         DescuentaInstancia, EncolaBloqueado, ReingresaReady, ReingresaPlus, ReingresaSinMutex,
         Reingreso, IrSoltando, Ir, procesos
    <3> QED  BY <1>3, <3>1, <3>2, <3>3, <3>4
  <2> QED  BY <2>1, <2>2 DEF SinDeudas
<1>4. CASE Despacha
  <2>1. /\ UNCHANGED <<tenidos, estado, lBlocked, pcIO, mano, dispatch>> /\ pc["pcp"] = "marca"
        /\ pc'["pcp"] = "cpu"
    BY <1>1, <1>4 DEF Despacha, Ir, procesos, colas, ioVars
  <2>2. dispatch = <<>>
    BY <2>1 DEF IInv, SocketEnOrden, VectorPendiente
  <2> QED  BY <2>1, <2>2 DEF SinDeudas
<1>5. CASE Recibe
  <2>1. /\ UNCHANGED <<tenidos, estado, lBlocked, pcIO, mano>> /\ pc["pcp"] = "cpu"
        /\ pc'["pcp"] = "motivo" /\ motivo' = Head(dispatch).motivo /\ dispatch # <<>>
    BY <1>1, <1>5 DEF Recibe, Ir, procesos, colas, ioVars
  <2> QED  BY <2>1 DEF SinDeudas, Despachado
<1>6. CASE VuelveParaMorir \/ VuelvePorIO
  <2>1. /\ UNCHANGED <<tenidos, lBlocked, pcIO, mano>> /\ pc["pcp"] = "motivo" /\ Cierra(motivo)
        /\ pc'["pcp"] \in {"exit", "io"}
        /\ \A q \in Pids \ {Despachado} : estado'[q] = estado[q]
    BY <1>1, <1>6 DEF VuelveParaMorir, VuelvePorIO, Cierra, Matar, Ir, colas, ioVars
  <2>2. tenidos[Despachado] = <<>>
    BY <2>1 DEF SinDeudas
  <2> QED  BY <2>1, <2>2 DEF SinDeudas, Despachado
<1>7. CASE VuelvePorDevolucion
  <2>1. /\ UNCHANGED <<estado, lBlocked, pcIO, mano>> /\ pc["pcp"] = "motivo"
        /\ pc'["pcp"] = "libera" /\ \A q \in Pids \ {Despachado} : tenidos'[q] = tenidos[q]
    BY <1>1, <1>7 DEF VuelvePorDevolucion, Ir, colas, ioVars
  <2>2. Despachado \in Pids /\ Despachado \notin lBlocked /\ pcIO[Despachado] # "repone"
    BY <1>2, <2>1
  <2>3. estado[Despachado] \notin {"SIN_CREAR", "NEW", "FINISHED", "LIBERADO"}
    <3>1. estado[Despachado] \in EstadosEnMano("pcp")
      BY <1>1, <2>1, <2>2, EnManoDe DEF Despachado
    <3> QED  BY <2>1, <3>1 DEF EstadosEnMano
  <2> QED  BY <2>1, <2>2, <2>3 DEF SinDeudas
<1>8. CASE CreaHiloIO
  <2>1. /\ UNCHANGED <<tenidos, estado, mano>> /\ pc["pcp"] = "io" /\ pc'["pcp"] = "io_cede"
        /\ lBlocked' = lBlocked \cup {Despachado}
        /\ pcIO' = [pcIO EXCEPT ![Despachado] = "vector"]
    BY <1>1, <1>8 DEF Supuestos, CreaHiloIO, Ir, IrIO, procesos
  <2>2. tenidos[Despachado] = <<>>
    BY <2>1 DEF SinDeudas
  <2> QED  BY <1>1, <2>1, <2>2 DEF SinDeudas
<1>9. CASE DecideOtorgar
  <2>1. /\ UNCHANGED <<lBlocked, pcIO, mano>> /\ pc["pcp"] = "decide"
        /\ pc'["pcp"] \notin {"io", "motivo", "cpu"}
        /\ \A q \in Pids \ {Despachado} : tenidos'[q] = tenidos[q] /\ estado'[q] = estado[q]
    BY <1>1, <1>9 DEF DecideOtorgar, Ir, colas, ioVars
  <2>2. Despachado \in Pids /\ Despachado \notin lBlocked /\ pcIO[Despachado] # "repone"
    BY <1>2, <2>1
  <2>3. estado'[Despachado] \in {"READY", "READY_PLUS"}
    BY <1>1, <1>9, <2>2 DEF DecideOtorgar, EstadoAlDespertar
  <2> QED  BY <2>1, <2>2, <2>3 DEF SinDeudas
<1>10. CASE TerminaMatadero("pcp") /\ UNCHANGED <<cpuVars, ioVars, cortoVars>>
  <2>1. /\ UNCHANGED <<tenidos, estado, lBlocked, pcIO>> /\ pc'["pcp"] = "espera"
    BY <1>1, <1>10 DEF TerminaMatadero, IrSoltando, Ir, procesos, ioVars
  <2> QED  BY <2>1 DEF SinDeudas
<1>11. CASE LiberarRecurso("pcp") /\ UNCHANGED <<cpuVars, ioVars, cortoVars>>
  <2>1. UNCHANGED <<lBlocked, pcIO, mano>> /\ pc'["pcp"] \notin {"io", "motivo", "cpu"}
    BY <1>1, <1>11 DEF LiberarRecurso, LiberaInstancia, MiraBloqueados, SacaBloqueado, SacaNadie,
       DespiertaBloqueado, TrasLiberar, Caer, Ir, Despertar, AReady, APlus, colas, locales, ioVars
  <2>2. CASE SacaBloqueado("pcp")
    <3>1. PICK r \in Recursos : r = rec["pcp"]
      BY <1>1, <2>2 DEF SacaBloqueado, LocalesEnUso
    <3>2. cBloqueados[r] # <<>> /\ cBloqueados[r] \in Seq(Pids)
      BY <1>1, <2>2, <3>1 DEF SacaBloqueado
    <3>3. PICK p \in Pids : p = Head(cBloqueados[r])
      BY <3>2, Cola
    <3>4. <<"cBloqueados", r>> \in Sitios /\ En(<<"cBloqueados", r>>) = cBloqueados[r]
      BY Contenido DEF Sitios
    <3>5. p \notin lBlocked /\ pcIO[p] # "repone"
      BY <1>1, <3>2, <3>3, <3>4, SoloEnCabeza
    <3>6. /\ estado'[p] \in {"READY", "READY_PLUS"}
          /\ \A q \in Pids \ {p} : tenidos'[q] = tenidos[q] /\ estado'[q] = estado[q]
      BY <1>1, <2>2, <3>1, <3>3 DEF SacaBloqueado, EstadoAlDespertar
    <3> QED  BY <2>1, <3>5, <3>6 DEF SinDeudas
  <2>3. CASE ~SacaBloqueado("pcp")
    <3>1. UNCHANGED <<estado, tenidos>>
      BY <1>11, <2>3 DEF LiberarRecurso, LiberaInstancia, MiraBloqueados, SacaNadie,
         DespiertaBloqueado, Caer, procesos
    <3> QED  BY <2>1, <3>1 DEF SinDeudas
  <2> QED  BY <2>2, <2>3
<1> QED  BY <1>3, <1>4, <1>5, <1>6, <1>7, <1>8, <1>9, <1>10, <1>11
         DEF PCP, ReingresaPerdido, Supuestos

\* Every step.
LEMMA PasoSalida ==
  ASSUME Supuestos, "salida" \in Disciplina, IInv, ILugares, ISalida, [Next]_vars
  PROVE  ISalida'
<1>1. SoloQuantum'
  BY SigueSoloQuantum DEF IInv, ISalida, ILugares
<1>2. /\ ITipo /\ SinDeudas /\ UnoSolo /\ SoloQuantum
      /\ pc \in [Hilos -> Lugares] /\ "carnicero" \in Hilos
  BY DEF IInv, ISalida, ITipo, TypeOK, PlanificacionTypeOK, LocalesTypeOK, Hilos
<1>3. CASE UNCHANGED <<planVars, dispatch, pcIO, motivo>>
  <2>1. SinDeudas'
    BY <1>2, <1>3, DeudasQuietas DEF planVars, procesos, colas, locales
  <2>2. UnoSolo'
    BY <1>2, <1>3 DEF UnoSolo, planVars, locales
  <2> QED  BY <1>1, <2>1, <2>2 DEF ISalida
<1>4. CASE \/ PasoInterrupciones \/ UNCHANGED vars
           \/ \E p \in Pids : PasoTimer(p)
           \/ \E i \in Interfaces : PasoConexion(i)
  <2>1. UNCHANGED <<planVars, dispatch, pcIO, motivo>>
    BY <1>4 DEF PasoInterrupciones, RecibirInterrupcion, PasoTimer, VenceTimer, PasoConexion,
       ConectarIO, vars, cpuVars, ioVars, cortoVars
  <2> QED  BY <1>3, <2>1
<1>5. CASE PasoCarnicero
  BY <1>1, <1>2, <1>5, DeudasCarnicero DEF PasoCarnicero, ISalida
<1>6. ASSUME ~PasoCarnicero, Next PROVE UnoSolo'
  <2>1. pc'["carnicero"] = pc["carnicero"]
    <3>1. CASE PasoPLP
      BY <1>2, <3>1 DEF PasoPLP, PLP, EsperaNuevo, TomaNuevo, Admite, Rechaza, AdmiteNadie,
         IngresaReady, IngresaReadyPerdido, TerminaMatadero, IrSoltando, Ir, Caer, locales
    <3>2. CASE PasoPCP
      BY <1>2, <3>2 DEF PasoPCP, PCP, EsperaListo, TomaReady, TomaReadyPlus,
         Elegir, TomaNadie, Despacha, Recibe, VuelveParaMorir, VuelvePorIO, VuelvePorPedido,
         VuelvePorDevolucion, VuelvePorQuantum, CreaHiloIO, EsperaVector, DescuentaInstancia,
         DecideBloquear, DecideOtorgar, EncolaBloqueado, ReingresaReady, ReingresaPlus,
         ReingresaSinMutex, ReingresaPerdido, Reingreso, TerminaMatadero, LiberarRecurso,
         LiberaInstancia, MiraBloqueados, SacaBloqueado, SacaNadie, DespiertaBloqueado,
         IrSoltando, Ir, Caer, locales
    <3>3. CASE PasoConsola
      BY <1>2, <3>3 DEF PasoConsola, ConsolaNext, CrearProceso, DetenerPlanificacion,
         DetenerPara, TomaMutexes, IniciarPlanificacion, ProcesoEstado, ListaProcesos,
         InterrumpirProceso, FinalizarProceso, BuscaVictima, NoEncuentra, QuitaVictima,
         QuitaVictimaYaLibre, QuitaVictimaReady, EsperaToken, SubirGrado, BajarGrado,
         RetiraCupo, TerminaMatadero, IrSoltando, Ir, Caer, locales, planVars
    <3>4. ASSUME NEW p \in Pids, PasoIO(p) PROVE UNCHANGED pc
      BY <3>4 DEF PasoIO, AtenderSolicitudIO, RecibeVector, BuscaInterfaz, TomaInterfaz,
         UsaConexionLiberada, Repone, RespondeIO, FallaIO, FallaIODeMuerto, TerminaMataderoIO,
         CortaConexion, ExitoIO, ExitoIODeMuerto, DespiertaDeIO, Caer, planVars, locales
    <3>5. CASE PasoCPU \/ PasoInterrupciones \/ (\E i \in Interfaces : PasoConexion(i))
                 \/ \E p \in Pids : PasoTimer(p)
      BY <3>5 DEF PasoCPU, PasoInterrupciones, PasoTimer, VenceTimer, PasoConexion, ConectarIO,
         planVars, locales
    <3> QED  BY <1>6, <3>1, <3>2, <3>3, <3>4, <3>5 DEF Next
  <2> QED  BY <1>2, <2>1 DEF UnoSolo
<1>7. ASSUME PasoPLP \/ PasoPCP \/ PasoConsola \/ PasoCPU \/ \E p \in Pids : PasoIO(p)
      PROVE  SinDeudas'
  <2>1. CASE PasoPLP
    BY <1>2, <2>1, DeudasPLP DEF PasoPLP
  <2>2. CASE PasoPCP
    BY <1>2, <2>2, DeudasPCP DEF PasoPCP
  <2>3. CASE PasoConsola
    BY <1>2, <2>3, DeudasConsola DEF PasoConsola
  <2>4. CASE PasoCPU
    BY <1>2, <2>4, DeudasCPU DEF PasoCPU
  <2>5. ASSUME NEW p \in Pids, PasoIO(p) PROVE SinDeudas'
    BY <1>2, <2>5, DeudasHiloIO DEF PasoIO
  <2> QED  BY <1>7, <2>1, <2>2, <2>3, <2>4, <2>5
<1> QED  BY <1>1, <1>4, <1>5, <1>6, <1>7 DEF ISalida, Next

LEMMA SalidaInit == Init => ISalida
  BY DEF Init, PlanificacionInit, CpuInit, AtencionIOInit, Hilos, ISalida, SoloQuantum, SinDeudas,
     UnoSolo

\* Who ended, waits for an interface or is about to do either holds no resource, so
\* the carnicero never calls liberar_recurso (kernel.c:355).
THEOREM NadieSeVaConRecursos ==
  ASSUME Supuestos, "salida" \in Disciplina
  PROVE  Spec => []ISalida
<1>1. IInv /\ ILugares /\ ISalida /\ [Next]_vars => ISalida'
  BY PasoSalida
<1> QED  BY <1>1, SalidaInit, Invariante, InvarianteDeLugares, PTL DEF Spec

-----------------------------------------------------------------------------
(***************************************************************************)
(* Nobody uses a NULL pointer                                              *)
(***************************************************************************)

\* What belongs to the scheduler moves only with it.
LEMMA SoloPCP ==
  ASSUME Supuestos, ITipo, SinBajas, UnoSolo, [Next]_vars, ~PasoPCP
  PROVE  /\ pc'["pcp"] = pc["pcp"] /\ rec'["pcp"] = rec["pcp"]
         /\ UNCHANGED <<instancias, cBloqueados>>
<1>1. /\ pc \in [Hilos -> Lugares] /\ "pcp" \in Hilos
      /\ rec \in [Hilos -> Recursos \cup {NingunRecurso}]
  BY DEF ITipo, TypeOK, PlanificacionTypeOK, LocalesTypeOK, Hilos
<1>2. CASE PasoConsola
  BY <1>1, <1>2 DEF Supuestos, SinBajas, PasoConsola, ConsolaNext, CrearProceso,
     DetenerPlanificacion, DetenerPara, TomaMutexes, IniciarPlanificacion, ProcesoEstado,
     ListaProcesos, InterrumpirProceso, FinalizarProceso, Lee, BuscaVictima, NoEncuentra,
     QuitaVictima, QuitaVictimaYaLibre, QuitaVictimaReady, EsperaToken, SubirGrado, BajarGrado,
     RetiraCupo, TerminaMatadero, IrSoltando, Ir, planVars, locales, recursosVars
<1>3. CASE PasoPLP
  BY <1>1, <1>3 DEF PasoPLP, PLP, EsperaNuevo, TomaNuevo, Admite, Rechaza, AdmiteNadie,
     IngresaReady, IngresaReadyPerdido, TerminaMatadero, IrSoltando, Ir, Caer, locales,
     recursosVars
<1>4. CASE PasoCarnicero
  BY <1>1, <1>4 DEF UnoSolo, PasoCarnicero, Carnicero, EsperaFinalizado, TomaFinalizado,
     SueltaRecurso, LiberaProceso, LiberarRecurso, LiberaInstancia, MiraBloqueados,
     SacaBloqueado, SacaNadie, DespiertaBloqueado, IrSoltando, Ir, recursosVars
<1>5. ASSUME NEW p \in Pids, PasoIO(p) PROVE UNCHANGED <<pc, rec, instancias, cBloqueados>>
  BY <1>5 DEF PasoIO, AtenderSolicitudIO, RecibeVector, BuscaInterfaz, TomaInterfaz,
     UsaConexionLiberada, Repone, RespondeIO, FallaIO, FallaIODeMuerto, TerminaMataderoIO,
     CortaConexion, ExitoIO, ExitoIODeMuerto, DespiertaDeIO, Caer, planVars, locales, recursosVars
<1>6. CASE \/ PasoCPU \/ PasoInterrupciones \/ UNCHANGED vars
           \/ \E p \in Pids : PasoTimer(p)
           \/ \E i \in Interfaces : PasoConexion(i)
  BY <1>6 DEF PasoCPU, PasoInterrupciones, PasoTimer, VenceTimer, PasoConexion, ConectarIO,
     vars, planVars, locales, recursosVars
<1> QED  BY <1>2, <1>3, <1>4, <1>5, <1>6 DEF Next

\* The other threads only push to the ready queues.
LEMMA SoloEncolan ==
  ASSUME Supuestos, ITipo, SinBajas, UnoSolo, [Next]_vars, ~PasoPCP
  PROVE  /\ cREADY # <<>> => cREADY' # <<>>
         /\ cREADY_PLUS # <<>> => cREADY_PLUS' # <<>>
         /\ ~EsVrr => UNCHANGED cREADY_PLUS
<1>1. cREADY \in Seq(Pids) /\ cREADY_PLUS \in Seq(Pids) /\ LocalesEnUso
  BY DEF ITipo, TypeOK, PlanificacionTypeOK, ColasTypeOK
<1>2. ASSUME NEW p \in Pids, AReady(p) \/ (EsVrr /\ APlus(p))
      PROVE  /\ cREADY # <<>> => cREADY' # <<>>
             /\ cREADY_PLUS # <<>> => cREADY_PLUS' # <<>>
             /\ ~EsVrr => UNCHANGED cREADY_PLUS
  <2>1. Append(cREADY, p) # <<>> /\ Append(cREADY_PLUS, p) # <<>>
    BY <1>1
  <2> QED  BY <1>2, <2>1 DEF AReady, APlus
<1>3. CASE PasoPLP
  <2>1. CASE IngresaReady
    BY <1>1, <1>2, <2>1 DEF IngresaReady, LocalesEnUso
  <2>2. CASE ~IngresaReady
    BY <1>3, <2>2 DEF Supuestos, PasoPLP, PLP, EsperaNuevo, TomaNuevo, Admite, Rechaza,
       AdmiteNadie, IngresaReadyPerdido, TerminaMatadero, Caer, colas
  <2> QED  BY <2>1, <2>2
<1>4. ASSUME NEW p \in Pids, PasoIO(p), ~DespiertaDeIO(p) PROVE UNCHANGED <<cREADY, cREADY_PLUS>>
  BY <1>4 DEF PasoIO, AtenderSolicitudIO, RecibeVector, BuscaInterfaz, TomaInterfaz,
     UsaConexionLiberada, Repone, RespondeIO, FallaIO, FallaIODeMuerto, TerminaMataderoIO,
     CortaConexion, ExitoIO, ExitoIODeMuerto, Caer, planVars, colas
<1>5. ASSUME NEW p \in Pids, DespiertaDeIO(p) PROVE AReady(p) \/ (EsVrr /\ APlus(p))
  BY <1>5 DEF DespiertaDeIO, Despertar
<1>6. CASE \/ PasoConsola \/ PasoCarnicero \/ PasoCPU \/ PasoInterrupciones \/ UNCHANGED vars
           \/ \E p \in Pids : PasoTimer(p)
           \/ \E i \in Interfaces : PasoConexion(i)
  BY <1>6 DEF Supuestos, SinBajas, UnoSolo, PasoConsola, ConsolaNext, CrearProceso,
     DetenerPlanificacion, DetenerPara, TomaMutexes, IniciarPlanificacion, ProcesoEstado,
     ListaProcesos, InterrumpirProceso, FinalizarProceso, Lee, BuscaVictima, NoEncuentra,
     QuitaVictima, QuitaVictimaYaLibre, QuitaVictimaReady, EsperaToken, SubirGrado, BajarGrado,
     RetiraCupo, TerminaMatadero, PasoCarnicero, Carnicero, EsperaFinalizado, TomaFinalizado,
     SueltaRecurso, LiberaProceso, LiberarRecurso, LiberaInstancia, MiraBloqueados,
     SacaBloqueado, SacaNadie, DespiertaBloqueado, PasoCPU, PasoInterrupciones, PasoTimer,
     VenceTimer, PasoConexion, ConectarIO, vars, planVars, colas
<1> QED  BY <1>2, <1>3, <1>4, <1>5, <1>6 DEF Next

\* semPLP counts the processes of cNEW that the long-term scheduler has not gone for.
LEMMA SiguenTokensPLP ==
  ASSUME Supuestos, ITipo, SinBajas, TokensPLP, [Next]_vars
  PROVE  TokensPLP'
<1>1. /\ pc \in [Hilos -> Lugares] /\ {"plp", "pcp", "consola", "carnicero"} = Hilos
      /\ cNEW \in Seq(Pids) /\ semPLP \in Nat /\ idPCB \in 1..(MaxPid + 1) /\ Recorridos
  BY DEF ITipo, TypeOK, PlanificacionTypeOK, LocalesTypeOK, ColasTypeOK, SemaforosTypeOK,
     ProcesosTypeOK, Hilos
<1>2. ASSUME UNCHANGED <<cNEW, semPLP>>, pc'["plp"] = "toma" <=> pc["plp"] = "toma"
      PROVE  TokensPLP'
  BY <1>2 DEF TokensPLP, Uno
<1>3. CASE PasoPLP
  <2>1. CASE EsperaNuevo
    <3>1. /\ pc["plp"] = "espera" /\ pc'["plp"] = "toma" /\ semPLP' = semPLP - 1
          /\ UNCHANGED cNEW
      BY <1>1, <2>1 DEF EsperaNuevo, Ir, colas
    <3> QED  BY <1>1, <3>1 DEF TokensPLP, Uno
  <2>2. CASE TomaNuevo
    <3>1. pc["plp"] = "toma" /\ pc'["plp"] = "cupo" /\ UNCHANGED semPLP
      BY <1>1, <2>2 DEF TomaNuevo, Ir, semaforos
    <3>2. Len(cNEW) = semPLP + 1
      BY <3>1 DEF TokensPLP, Uno
    <3>3. cNEW # <<>>
      BY <1>1, <3>2
    <3>4. Len(cNEW') = Len(cNEW) - 1
      BY <1>1, <2>2, <3>3, Cola DEF TomaNuevo, NuevosQueQuedan
    <3> QED  BY <1>1, <3>1, <3>2, <3>4 DEF TokensPLP, Uno
  <2>3. CASE ~EsperaNuevo /\ ~TomaNuevo
    BY <1>1, <1>2, <1>3, <2>3 DEF PasoPLP, PLP, Admite, Rechaza, AdmiteNadie, EsperaCupo,
       IngresaReady, IngresaReadyPerdido, TerminaMatadero, IrSoltando, Ir, Caer, colas,
       semaforos, locales
  <2> QED  BY <2>1, <2>2, <2>3
<1>4. CASE PasoConsola
  <2>1. CASE CrearProceso
    <3>1. /\ idPCB \in Pids /\ cNEW' = Append(cNEW, idPCB) /\ semPLP' = semPLP + 1
          /\ UNCHANGED pc
      BY <1>1, <2>1, CpuAssumption DEF CrearProceso, Pids, locales
    <3>2. Len(cNEW') = Len(cNEW) + 1
      BY <1>1, <3>1, Agregado
    <3> QED  BY <1>1, <3>1, <3>2 DEF TokensPLP, Uno
  <2>2. CASE ~CrearProceso
    BY <1>1, <1>2, <1>4, <2>2 DEF Supuestos, SinBajas, PasoConsola, ConsolaNext,
       DetenerPlanificacion, DetenerPara, TomaMutexes, IniciarPlanificacion, ProcesoEstado,
       ListaProcesos, InterrumpirProceso, FinalizarProceso, Lee, BuscaVictima, NoEncuentra,
       QuitaVictima, QuitaVictimaYaLibre, QuitaVictimaReady, EsperaToken, SubirGrado, BajarGrado,
       RetiraCupo, TerminaMatadero, IrSoltando, Ir, planVars, colas, semaforos, locales
  <2> QED  BY <2>1, <2>2
<1>5. CASE PasoPCP
  BY <1>1, <1>2, <1>5 DEF PasoPCP, PCP, EsperaListo, TomaReady, TomaReadyPlus, Elegir, TomaNadie,
     Despacha, Recibe, VuelveParaMorir, VuelvePorIO, VuelvePorPedido, VuelvePorDevolucion,
     VuelvePorQuantum, Matar, CreaHiloIO, EsperaVector, DescuentaInstancia, DecideBloquear,
     DecideOtorgar, EncolaBloqueado, ReingresaReady, ReingresaPlus, ReingresaSinMutex,
     ReingresaPerdido, Reingreso, TerminaMatadero, EncolarExit, LiberarRecurso, LiberaInstancia,
     MiraBloqueados, SacaBloqueado, SacaNadie, DespiertaBloqueado, Despertar, AReady, APlus,
     IrSoltando, Ir, Caer, locales, colas, semaforos
<1>6. CASE PasoCarnicero
  BY <1>1, <1>2, <1>6 DEF PasoCarnicero, Carnicero, EsperaFinalizado, TomaFinalizado,
     SueltaRecurso, LiberaProceso, LiberarRecurso, LiberaInstancia, MiraBloqueados,
     SacaBloqueado, SacaNadie, DespiertaBloqueado, Despertar, AReady, APlus, IrSoltando, Ir, Caer,
     locales, colas, semaforos
<1>7. ASSUME NEW p \in Pids, PasoIO(p) PROVE UNCHANGED <<pc, cNEW, semPLP>>
  BY <1>7 DEF PasoIO, AtenderSolicitudIO, RecibeVector, BuscaInterfaz, TomaInterfaz,
     UsaConexionLiberada, Repone, RespondeIO, FallaIO, FallaIODeMuerto, Matar, EncolarExit,
     TerminaMataderoIO, CortaConexion, ExitoIO, ExitoIODeMuerto, DespiertaDeIO, Despertar, AReady,
     APlus, Caer, planVars, locales, colas, semaforos
<1>8. CASE \/ PasoCPU \/ PasoInterrupciones \/ UNCHANGED vars
           \/ \E p \in Pids : PasoTimer(p)
           \/ \E i \in Interfaces : PasoConexion(i)
  BY <1>2, <1>8 DEF PasoCPU, PasoInterrupciones, PasoTimer, VenceTimer, PasoConexion, ConectarIO,
     vars, planVars, locales, colas, semaforos
<1> QED  BY <1>2, <1>3, <1>4, <1>5, <1>6, <1>7, <1>8 DEF Next

\* No request ends with its interface's socket closed.
LEMMA SigueSinCortes ==
  ASSUME Supuestos, ITipo, "DESCONEXION" \notin RespuestasIO, SinCortes, [Next]_vars
  PROVE  SinCortes'
<1>1. /\ pcIO \in [Pids -> LugaresIO]
      /\ conexion \in [Interfaces -> {"ausente", "conectada", "cortada", "retirada"}]
  BY DEF ITipo, TypeOK, AtencionIOTypeOK
<1>2. ASSUME UNCHANGED <<pcIO, conexion>> PROVE SinCortes'
  BY <1>2 DEF SinCortes
<1>3. ASSUME NEW p \in Pids, NEW l, pcIO' = [pcIO EXCEPT ![p] = l], UNCHANGED conexion,
             l \notin {"falla_cae", "exit_cae", "corta", "retira"}
      PROVE  SinCortes'
  BY <1>1, <1>3 DEF SinCortes
<1>4. ASSUME NEW p \in Pids, PasoIO(p) PROVE SinCortes'
  <2>1. pcIO[p] \notin {"falla_cae", "exit_cae", "corta", "retira"}
    BY DEF SinCortes
  <2>2. CASE RespondeIO(p)
    <3>1. PICK resp \in RespuestasIO :
            IrIO(p, CASE resp = "IO_SUCCESS" -> "exito"
                      [] resp = "IO_FAILURE" -> "falla"
                      [] resp = "DESCONEXION" -> "falla_cae")
      BY <2>2 DEF RespondeIO
    <3>2. \E l \in {"exito", "falla"} : pcIO' = [pcIO EXCEPT ![p] = l]
      BY <3>1, AtencionIOAssumption DEF IrIO
    <3> QED  BY <1>3, <2>2, <3>2 DEF RespondeIO
  <2>3. CASE UsaConexionLiberada(p) \/ FallaIODeMuerto(p) \/ ExitoIODeMuerto(p)
    BY <1>2, <2>3 DEF UsaConexionLiberada, FallaIODeMuerto, ExitoIODeMuerto, ioVars
  <2>4. CASE CortaConexion(p)
    BY <2>1, <2>4 DEF CortaConexion
  <2>5. CASE \/ RecibeVector(p) \/ BuscaInterfaz(p) \/ TomaInterfaz(p) \/ Repone(p) \/ FallaIO(p)
             \/ TerminaMataderoIO(p) \/ ExitoIO(p) \/ DespiertaDeIO(p)
    <3>1. /\ UNCHANGED conexion
          /\ \E l \in {"busca", "mutex", "falla", "repone", "nada", "dispositivo", "exit",
                       "despierta"} : pcIO' = [pcIO EXCEPT ![p] = l]
      BY <2>1, <2>5 DEF RecibeVector, BuscaInterfaz, TomaInterfaz, Repone, FallaIO,
         TerminaMataderoIO, ExitoIO, DespiertaDeIO, IrIO
    <3> QED  BY <1>3, <3>1
  <2> QED  BY <1>4, <2>2, <2>3, <2>4, <2>5 DEF PasoIO, AtenderSolicitudIO
<1>5. ASSUME NEW i \in Interfaces, PasoConexion(i) PROVE SinCortes'
  BY <1>1, <1>5 DEF PasoConexion, ConectarIO, SinCortes
<1>6. CASE PasoPCP
  <2>1. CASE CreaHiloIO
    <3>1. pcIO' = [pcIO EXCEPT ![Despachado] = "vector"] /\ UNCHANGED conexion
      BY <2>1 DEF CreaHiloIO, IrIO
    <3> QED  BY <1>1, <3>1 DEF SinCortes
  <2>2. CASE ~CreaHiloIO
    BY <1>2, <1>6, <2>2 DEF PasoPCP, PCP, EsperaListo, TomaReady, TomaReadyPlus, Elegir,
       TomaNadie, Despacha, Recibe, VuelveParaMorir, VuelvePorIO, VuelvePorPedido,
       VuelvePorDevolucion, VuelvePorQuantum, EsperaVector, DescuentaInstancia, DecideBloquear,
       DecideOtorgar, EncolaBloqueado, ReingresaReady, ReingresaPlus, ReingresaSinMutex,
       ReingresaPerdido, Reingreso, TerminaMatadero, LiberarRecurso, LiberaInstancia,
       MiraBloqueados, SacaBloqueado, SacaNadie, DespiertaBloqueado, ioVars
  <2> QED  BY <2>1, <2>2
<1>7. CASE \/ PasoConsola \/ PasoPLP \/ PasoCarnicero \/ PasoCPU \/ PasoInterrupciones
           \/ UNCHANGED vars \/ \E p \in Pids : PasoTimer(p)
  BY <1>2, <1>7 DEF PasoConsola, PasoPLP, PasoCarnicero, PasoCPU, PasoInterrupciones, PasoTimer,
     VenceTimer, vars, ioVars
<1> QED  BY <1>4, <1>5, <1>6, <1>7 DEF Next

\* The long-term scheduler has in hand the process it took.
LEMMA NuevoEnMano ==
  ASSUME Supuestos, ITipo, TokensPLP, SinBajas, [Next]_vars,
         pc["plp"] = "cupo" => mano["plp"] # Nadie
  PROVE  pc'["plp"] = "cupo" => mano'["plp"] # Nadie
<1>1. /\ pc \in [Hilos -> Lugares] /\ mano \in [Hilos -> Pids \cup {Nadie}]
      /\ {"plp", "pcp", "consola", "carnicero"} = Hilos
      /\ cNEW \in Seq(Pids) /\ semPLP \in Nat
  BY DEF ITipo, TypeOK, PlanificacionTypeOK, LocalesTypeOK, ColasTypeOK, SemaforosTypeOK, Hilos
<1>2. CASE PasoPLP
  <2>1. CASE TomaNuevo
    <3>1. Len(cNEW) = semPLP + 1
      BY <2>1 DEF TomaNuevo, TokensPLP, Uno
    <3>2. cNEW # <<>>
      BY <1>1, <3>1
    <3>3. Head(cNEW) \in Pids
      BY <1>1, <3>2, Cola
    <3>4. Head(cNEW) # Nadie
      BY <3>3, CpuAssumption DEF Pids, Nadie
    <3> QED  BY <1>1, <2>1, <3>2, <3>4 DEF TomaNuevo
  <2>2. CASE AdmiteNadie
    BY <2>2 DEF AdmiteNadie, Caer, locales
  <2>3. CASE ~TomaNuevo /\ ~AdmiteNadie
    BY <1>1, <1>2, <2>3 DEF PasoPLP, PLP, EsperaNuevo, Admite, Rechaza, EsperaCupo,
       IngresaReady, IngresaReadyPerdido, TerminaMatadero, IrSoltando, Ir
  <2> QED  BY <2>1, <2>2, <2>3
<1>3. ASSUME pc'["plp"] = pc["plp"], mano'["plp"] = mano["plp"]
      PROVE  pc'["plp"] = "cupo" => mano'["plp"] # Nadie
  BY <1>3
<1>4. CASE PasoConsola
  BY <1>1, <1>3, <1>4 DEF Supuestos, SinBajas, PasoConsola, ConsolaNext, CrearProceso,
     DetenerPlanificacion, DetenerPara, TomaMutexes, IniciarPlanificacion, ProcesoEstado,
     ListaProcesos, InterrumpirProceso, FinalizarProceso, Lee, BuscaVictima, NoEncuentra,
     QuitaVictima, QuitaVictimaYaLibre, QuitaVictimaReady, EsperaToken, SubirGrado, BajarGrado,
     RetiraCupo, TerminaMatadero, IrSoltando, Ir, planVars, locales
<1>5. CASE PasoPCP
  BY <1>1, <1>3, <1>5 DEF PasoPCP, PCP, EsperaListo, TomaReady, TomaReadyPlus, Elegir, TomaNadie,
     Despacha, Recibe, VuelveParaMorir, VuelvePorIO, VuelvePorPedido, VuelvePorDevolucion,
     VuelvePorQuantum, CreaHiloIO, EsperaVector, DescuentaInstancia, DecideBloquear,
     DecideOtorgar, EncolaBloqueado, ReingresaReady, ReingresaPlus, ReingresaSinMutex,
     ReingresaPerdido, Reingreso, TerminaMatadero, LiberarRecurso, LiberaInstancia,
     MiraBloqueados, SacaBloqueado, SacaNadie, DespiertaBloqueado, IrSoltando, Ir, Caer, locales
<1>6. CASE PasoCarnicero
  BY <1>1, <1>3, <1>6 DEF PasoCarnicero, Carnicero, EsperaFinalizado, TomaFinalizado,
     SueltaRecurso, LiberaProceso, LiberarRecurso, LiberaInstancia, MiraBloqueados,
     SacaBloqueado, SacaNadie, DespiertaBloqueado, IrSoltando, Ir, Caer, locales
<1>7. ASSUME NEW p \in Pids, PasoIO(p) PROVE UNCHANGED <<pc, mano>>
  BY <1>7 DEF PasoIO, AtenderSolicitudIO, RecibeVector, BuscaInterfaz, TomaInterfaz,
     UsaConexionLiberada, Repone, RespondeIO, FallaIO, FallaIODeMuerto, TerminaMataderoIO,
     CortaConexion, ExitoIO, ExitoIODeMuerto, DespiertaDeIO, Caer, planVars, locales
<1>8. CASE \/ PasoCPU \/ PasoInterrupciones \/ UNCHANGED vars
           \/ \E p \in Pids : PasoTimer(p)
           \/ \E i \in Interfaces : PasoConexion(i)
  BY <1>3, <1>8 DEF PasoCPU, PasoInterrupciones, PasoTimer, VenceTimer, PasoConexion, ConectarIO,
     vars, planVars, locales
<1> QED  BY <1>2, <1>3, <1>4, <1>5, <1>6, <1>7, <1>8 DEF Next

\* What the scheduler is about to pop.
QuePopea ==
  /\ pc["pcp"] = "toma" => cREADY # <<>>
  /\ pc["pcp"] = "toma_plus" => cREADY_PLUS # <<>>
  /\ pc["pcp"] = "saca" => cBloqueados[rec["pcp"]] # <<>>
  /\ ~EsVrr => cREADY_PLUS = <<>> /\ pc["pcp"] # "a_plus"

\* The scheduler's own steps choose a queue that has somebody.
LEMMA EligeConAlguien ==
  ASSUME Supuestos, ITipo, SinBajas, TokensPCP, QuePopea, PCP
  PROVE  QuePopea'
<1>1. /\ pc \in [Hilos -> Lugares] /\ "pcp" \in Hilos /\ cREADY \in Seq(Pids)
      /\ cREADY_PLUS \in Seq(Pids) /\ semPCP \in Nat
  BY DEF ITipo, TypeOK, PlanificacionTypeOK, LocalesTypeOK, ColasTypeOK, SemaforosTypeOK, Hilos
<1>2. CASE EsperaListo
  <2>1. /\ pc["pcp"] = "espera" /\ semPCP > 0 /\ pc'["pcp"] = ColaElegida
        /\ UNCHANGED <<cREADY, cREADY_PLUS>>
    BY <1>1, <1>2 DEF EsperaListo, Ir, colas
  <2>2. semPCP = Len(cREADY) + Len(cREADY_PLUS)
    BY <1>1, <2>1 DEF TokensPCP, Uno, SinBajas
  <2>3. cREADY # <<>> \/ cREADY_PLUS # <<>>
    BY <1>1, <2>1, <2>2
  <2> QED  BY <2>1, <2>3 DEF QuePopea, ColaElegida
<1>3. CASE MiraBloqueados("pcp") /\ UNCHANGED <<cpuVars, ioVars, cortoVars>>
  <2>1. /\ UNCHANGED <<cREADY_PLUS, cBloqueados, rec>>
        /\ pc'["pcp"] = IF HayQuienDespertar(rec["pcp"]) THEN "saca" ELSE TrasLiberar("pcp")
    BY <1>1, <1>3 DEF MiraBloqueados, Ir, colas, recursosVars
  <2> QED  BY <2>1 DEF QuePopea, TrasLiberar, HayQuienDespertar
<1>4. CASE TomaNadie \/ SacaNadie("pcp")
  BY <1>4 DEF TomaNadie, SacaNadie, Caer, QuePopea, colas, locales, recursosVars
<1>5. CASE TomaReady \/ TomaReadyPlus
  <2>1. pc'["pcp"] = "marca" /\ (UNCHANGED cREADY_PLUS \/ TomaReadyPlus)
    BY <1>1, <1>5 DEF TomaReady, TomaReadyPlus, Elegir, Ir
  <2>2. TomaReadyPlus => EsVrr
    BY DEF TomaReadyPlus, QuePopea
  <2> QED  BY <2>1, <2>2 DEF QuePopea
<1>6. CASE DespiertaBloqueado("pcp") \/ ReingresaPlus
  <2>1. pc'["pcp"] \notin {"toma", "toma_plus", "saca"} /\ (pc'["pcp"] = "a_plus" => EsVrr)
    BY <1>1, <1>6 DEF DespiertaBloqueado, ReingresaPlus, Reingreso, IrSoltando, Ir, TrasLiberar
  <2>2. ~EsVrr => UNCHANGED cREADY_PLUS
    BY <1>6 DEF DespiertaBloqueado, ReingresaPlus, Despertar, AReady, QuePopea
  <2> QED  BY <2>1, <2>2 DEF QuePopea
<1>7. CASE \/ Despacha \/ Recibe \/ VuelveParaMorir \/ VuelvePorIO \/ VuelvePorPedido
           \/ VuelvePorDevolucion \/ VuelvePorQuantum \/ CreaHiloIO \/ EsperaVector
           \/ DescuentaInstancia \/ DecideBloquear \/ DecideOtorgar \/ EncolaBloqueado
           \/ ReingresaReady \/ ReingresaSinMutex \/ TerminaMatadero("pcp")
           \/ LiberaInstancia("pcp") \/ SacaBloqueado("pcp")
  <2>1. pc'["pcp"] \notin {"toma", "toma_plus", "saca", "a_plus"} /\ UNCHANGED cREADY_PLUS
    BY <1>1, <1>7 DEF Despacha, Recibe, VuelveParaMorir, VuelvePorIO, VuelvePorPedido,
       VuelvePorDevolucion, VuelvePorQuantum, Matar, CreaHiloIO, EsperaVector,
       DescuentaInstancia, DecideBloquear, DecideOtorgar, EncolaBloqueado, ReingresaReady,
       ReingresaSinMutex, Reingreso, AReady, TerminaMatadero, LiberaInstancia, SacaBloqueado,
       IrSoltando, Ir, colas
  <2> QED  BY <2>1 DEF QuePopea
<1> QED  BY <1>2, <1>3, <1>4, <1>5, <1>6, <1>7 DEF PCP, LiberarRecurso, ReingresaPerdido, Supuestos

\* Every step leaves somebody where a thread is about to pop.
LEMMA SigueHayQuien ==
  ASSUME Supuestos, ITipo, SinBajas, UnoSolo, TokensPLP, TokensPCP, HayQuien, [Next]_vars
  PROVE  HayQuien'
<1>1. QuePopea
  BY DEF HayQuien, QuePopea
<1>2. QuePopea'
  <2>1. CASE PasoPCP
    BY <1>1, <2>1, EligeConAlguien DEF PasoPCP
  <2>2. CASE ~PasoPCP
    BY <1>1, <2>2, SoloPCP, SoloEncolan DEF QuePopea
  <2> QED  BY <2>1, <2>2
<1>3. pc'["plp"] = "cupo" => mano'["plp"] # Nadie
  BY NuevoEnMano DEF HayQuien
<1> QED  BY <1>2, <1>3 DEF HayQuien, QuePopea

\* None of the steps that use a NULL or dangling pointer can be taken.
LEMMA SigueEnPie ==
  ASSUME Supuestos, IInv, ILugares, MutexDeInterfaz, HayQuien, SinCortes, SinCaida, UnoSolo,
         [Next]_vars
  PROVE  SinCaida'
<1>1. /\ pcIO \in [Pids -> LugaresIO] /\ lBlocked \in SUBSET Pids /\ EnListaDeIO /\ SinBajas
      /\ EstadosSegunSitio
  BY DEF IInv, ITipo, TypeOK, PlanificacionTypeOK, ColasTypeOK, AtencionIOTypeOK, ILugares, Ubicados
<1>2. ASSUME UNCHANGED caido PROVE SinCaida'
  BY <1>2 DEF SinCaida
<1>3. ASSUME NEW p \in lBlocked PROVE ~Muerto(p)
  <2>1. <<"lBlocked", p>> \in Sitios /\ En(<<"lBlocked", p>>) = <<p>>
    BY <1>1, <1>3, Contenido DEF Sitios, Si
  <2>2. 1 \in DOMAIN <<p>> /\ <<p>>[1] = p
    OBVIOUS
  <2>3. estado[p] \in EstadosEn(<<"lBlocked", p>>)
    BY <1>1, <2>1, <2>2 DEF EstadosSegunSitio
  <2>4. EstadosEn(<<"lBlocked", p>>) = {"BLOCKED"}
    BY Clases
  <2> QED  BY <2>3, <2>4 DEF Muerto
<1>4. CASE PasoPLP
  BY <1>2, <1>4 DEF HayQuien, PasoPLP, PLP, EsperaNuevo, TomaNuevo, Admite, Rechaza, AdmiteNadie,
     EsperaCupo, IngresaReady, IngresaReadyPerdido, TerminaMatadero
<1>5. CASE PasoPCP
  BY <1>2, <1>5 DEF HayQuien, PasoPCP, PCP, EsperaListo, TomaReady, TomaReadyPlus, Elegir,
     TomaNadie, Despacha, Recibe, VuelveParaMorir, VuelvePorIO, VuelvePorPedido,
     VuelvePorDevolucion, VuelvePorQuantum, CreaHiloIO, EsperaVector, DescuentaInstancia,
     DecideBloquear, DecideOtorgar, EncolaBloqueado, ReingresaReady, ReingresaPlus,
     ReingresaSinMutex, ReingresaPerdido, Reingreso, TerminaMatadero, LiberarRecurso,
     LiberaInstancia, MiraBloqueados, SacaBloqueado, SacaNadie, DespiertaBloqueado
<1>6. CASE PasoCarnicero
  BY <1>2, <1>6 DEF UnoSolo, PasoCarnicero, Carnicero, EsperaFinalizado, TomaFinalizado,
     SueltaRecurso, LiberaProceso, LiberarRecurso, LiberaInstancia, MiraBloqueados,
     SacaBloqueado, SacaNadie, DespiertaBloqueado
<1>7. ASSUME NEW p \in Pids, PasoIO(p) PROVE SinCaida'
  <2>1. ~UsaConexionLiberada(p)
    BY DEF UsaConexionLiberada, MutexDeInterfaz, SinCortes
  <2>2. ~FallaIODeMuerto(p) /\ ~ExitoIODeMuerto(p)
    BY <1>1, <1>3 DEF FallaIODeMuerto, ExitoIODeMuerto, EnListaDeIO
  <2> QED  BY <1>2, <1>7, <2>1, <2>2 DEF PasoIO, AtenderSolicitudIO, RecibeVector, BuscaInterfaz,
           TomaInterfaz, Repone, RespondeIO, FallaIO, TerminaMataderoIO, CortaConexion, ExitoIO,
           DespiertaDeIO, planVars
<1>8. CASE PasoConsola
  BY <1>1, <1>2, <1>8 DEF Supuestos, SinBajas, PasoConsola, ConsolaNext, CrearProceso,
     DetenerPlanificacion, DetenerPara, TomaMutexes, IniciarPlanificacion, ProcesoEstado,
     ListaProcesos, InterrumpirProceso, FinalizarProceso, Lee, BuscaVictima, NoEncuentra,
     QuitaVictima, QuitaVictimaYaLibre, QuitaVictimaReady, EsperaToken, SubirGrado, BajarGrado,
     RetiraCupo, TerminaMatadero, planVars
<1>9. CASE \/ PasoCPU \/ PasoInterrupciones \/ UNCHANGED vars
           \/ \E p \in Pids : PasoTimer(p)
           \/ \E i \in Interfaces : PasoConexion(i)
  BY <1>2, <1>9 DEF PasoCPU, PasoInterrupciones, PasoTimer, VenceTimer, PasoConexion, ConectarIO,
     vars, planVars
<1> QED  BY <1>4, <1>5, <1>6, <1>7, <1>8, <1>9 DEF Next

\* Every step keeps the process alive.
LEMMA PasoEnPie ==
  ASSUME Supuestos, "DESCONEXION" \notin RespuestasIO, IInv, ILugares, ISalida,
         MutexDeInterfaz, IEnPie, [Next]_vars
  PROVE  IEnPie'
<1>1. ITipo /\ SinBajas /\ UnoSolo /\ TokensPLP /\ TokensPCP /\ HayQuien /\ SinCortes /\ SinCaida
  BY DEF IInv, ILugares, ISalida, IEnPie
<1>2. TokensPLP' /\ TokensPCP' /\ HayQuien' /\ SinCortes' /\ SinCaida'
  BY <1>1, SiguenTokensPLP, PasoTokens, SigueHayQuien, SigueSinCortes, SigueEnPie
<1> QED  BY <1>2 DEF IEnPie

\* While no process is killed, no list operation races, no interface disconnects and
\* programs end and ask for I/O holding nothing, no thread of the kernel pops an empty
\* queue, uses a freed connection or frees what is no heap block: none of the
\* unchecked queue_pop and list_remove_element of kernel.c needs a check.
THEOREM NadieCae ==
  ASSUME Supuestos, "salida" \in Disciplina, "DESCONEXION" \notin RespuestasIO
  PROVE  Spec => []SinCaida
<1>1. Init => IEnPie
  BY DEF Init, PlanificacionInit, AtencionIOInit, ConsolaInit, IEnPie, TokensPLP, TokensPCP, Uno,
     HayQuien, SinCortes, SinCaida, Hilos
<1>2. IInv /\ ILugares /\ ISalida /\ MutexDeInterfaz /\ IEnPie /\ [Next]_vars => IEnPie'
  BY PasoEnPie
<1>3. IEnPie => SinCaida
  BY DEF IEnPie
<1>4. Spec => []ISalida
  BY NadieSeVaConRecursos
<1> QED  BY <1>1, <1>2, <1>3, <1>4, Invariante, InvarianteDeLugares, MutexSiempre, PTL DEF Spec

-----------------------------------------------------------------------------
(***************************************************************************)
(* Who waits for a resource                                                *)
(***************************************************************************)

\* The counter of one resource, its waiters and what is under way for it.
Cuadra(n, esperan) == esperan = IF n < 0 THEN -n ELSE 0

\* Every step of the scheduler keeps the waiters in step with the counter.
LEMMA EsperaEnPCP ==
  ASSUME Supuestos, ITipo, EsperanLosQueFaltan, PCP
  PROVE  EsperanLosQueFaltan'
<1> USE DEF Cuadra
<1>1. /\ pc \in [Hilos -> Lugares] /\ "pcp" \in Hilos /\ LocalesEnUso
      /\ rec \in [Hilos -> Recursos \cup {NingunRecurso}]
      /\ mano \in [Hilos -> Pids \cup {Nadie}]
      /\ instancias \in [Recursos -> Int] /\ cBloqueados \in [Recursos -> Seq(Pids)]
      /\ \A r \in Recursos : Len(cBloqueados[r]) \in Nat
  BY DEF ITipo, TypeOK, PlanificacionTypeOK, LocalesTypeOK, RecursosTypeOK, Hilos
<1>2. \A r \in Recursos : Cuadra(instancias[r] + EnTramite(r), Len(cBloqueados[r]))
  BY DEF EsperanLosQueFaltan
<1> DEFINE Cuadran == \A r \in Recursos : Cuadra(instancias[r] + EnTramite(r), Len(cBloqueados[r]))
<1>3. ASSUME Cuadran', pc'["pcp"] = "encola" => instancias'[rec'["pcp"]] < 0,
             pc'["pcp"] = "saca" => instancias'[rec'["pcp"]] <= 0
      PROVE  EsperanLosQueFaltan'
  BY <1>3 DEF EsperanLosQueFaltan
<1>4. ASSUME UNCHANGED <<instancias, cBloqueados>>,
             pc["pcp"] \notin {"decide", "encola", "mira", "saca"},
             pc'["pcp"] \notin {"decide", "encola", "mira", "saca"}
      PROVE  EsperanLosQueFaltan'
  <2>1. \A r \in Recursos : EnTramite(r) = 0 /\ EnTramite(r)' = 0
    BY <1>4 DEF EnTramite
  <2>2. Cuadran'
    BY <1>2, <1>4, <2>1
  <2> QED  BY <1>3, <1>4, <2>2
<1>5. CASE TomaNadie \/ SacaNadie("pcp")
  BY <1>5 DEF TomaNadie, SacaNadie, Caer, EsperanLosQueFaltan, EnTramite, locales, recursosVars
<1>6. CASE \/ EsperaListo \/ TomaReady \/ TomaReadyPlus \/ Despacha \/ Recibe
           \/ VuelveParaMorir \/ VuelvePorIO \/ VuelvePorPedido \/ VuelvePorDevolucion
           \/ VuelvePorQuantum \/ CreaHiloIO \/ EsperaVector
           \/ ReingresaReady \/ ReingresaPlus \/ ReingresaSinMutex \/ TerminaMatadero("pcp")
           \/ DespiertaBloqueado("pcp")
  BY <1>1, <1>4, <1>6 DEF EsperaListo, ColaElegida, TomaReady, TomaReadyPlus, Elegir, Despacha,
     Recibe, VuelveParaMorir, VuelvePorIO, VuelvePorPedido, VuelvePorDevolucion,
     VuelvePorQuantum, CreaHiloIO, EsperaVector, ReingresaReady, ReingresaPlus,
     ReingresaSinMutex, Reingreso, TerminaMatadero, DespiertaBloqueado, TrasLiberar, IrSoltando,
     Ir, recursosVars
<1>7. CASE pc["pcp"] \in {"pide", "decide", "encola", "libera", "mira", "saca"}
  <2>1. PICK r \in Recursos : r = rec["pcp"]
    BY <1>1, <1>7 DEF LocalesEnUso
  <2>2. \A q \in Recursos \ {r} : EnTramite(q) = 0
    BY <2>1 DEF EnTramite
  <2>3. Cuadra(instancias[r] + EnTramite(r), Len(cBloqueados[r]))
    BY <1>2
  <2>4. ASSUME rec'["pcp"] = r \/ pc'["pcp"] \notin {"decide", "encola", "mira", "saca"},
               \A q \in Recursos \ {r} :
                 instancias'[q] = instancias[q] /\ cBloqueados'[q] = cBloqueados[q],
               Cuadra(instancias[r] + EnTramite(r), Len(cBloqueados[r]))'
        PROVE  Cuadran'
    <3>1. \A q \in Recursos \ {r} : EnTramite(q)' = 0
      BY <2>4 DEF EnTramite
    <3>2. ASSUME NEW q \in Recursos
          PROVE  Cuadra(instancias[q] + EnTramite(q), Len(cBloqueados[q]))'
      BY <1>2, <2>2, <2>4, <3>1
    <3> QED  BY <3>2
  <2>5. CASE DescuentaInstancia
    <3>1. /\ instancias' = [instancias EXCEPT ![r] = @ - 1] /\ UNCHANGED <<cBloqueados, rec>>
          /\ pc["pcp"] = "pide" /\ pc'["pcp"] = "decide"
      BY <1>1, <2>1, <2>5 DEF DescuentaInstancia, Ir
    <3>2. EnTramite(r) = 0 /\ EnTramite(r)' = 1
      BY <2>1, <3>1 DEF EnTramite
    <3> QED  BY <1>1, <1>3, <2>1, <2>3, <2>4, <3>1, <3>2
  <2>6. CASE DecideBloquear
    <3>1. /\ UNCHANGED <<instancias, cBloqueados, rec>> /\ instancias[r] < 0
          /\ pc["pcp"] = "decide" /\ pc'["pcp"] = "encola"
      BY <1>1, <2>1, <2>6 DEF DecideBloquear, Alcanza, Ir, recursosVars
    <3>2. EnTramite(r) = 1 /\ EnTramite(r)' = 1
      BY <2>1, <3>1 DEF EnTramite
    <3> QED  BY <1>1, <1>3, <2>1, <2>3, <2>4, <3>1, <3>2
  <2>7. CASE DecideOtorgar
    <3>1. /\ UNCHANGED <<instancias, cBloqueados, rec>> /\ instancias[r] >= 0
          /\ pc["pcp"] = "decide" /\ pc'["pcp"] \in {"a_ready", "a_ready_sin_mutex"}
      BY <1>1, <2>1, <2>7 DEF DecideOtorgar, Alcanza, Ir, recursosVars
    <3>2. EnTramite(r) = 1 /\ EnTramite(r)' = 0
      BY <2>1, <3>1 DEF EnTramite
    <3> QED  BY <1>1, <1>3, <2>1, <2>3, <2>4, <3>1, <3>2
  <2>8. CASE EncolaBloqueado
    <3>1. /\ UNCHANGED instancias /\ instancias[r] < 0
          /\ pc["pcp"] = "encola" /\ pc'["pcp"] = "espera"
          /\ cBloqueados' = [cBloqueados EXCEPT ![r] = Append(@, Despachado)]
      BY <1>1, <2>1, <2>8 DEF EncolaBloqueado, EsperanLosQueFaltan, IrSoltando, Ir
    <3>2. EnTramite(r) = 1 /\ EnTramite(r)' = 0
      BY <2>1, <3>1 DEF EnTramite
    <3>3. Despachado \in Pids
      BY <1>1, <3>1 DEF LocalesEnUso, Despachado
    <3>4. Len(cBloqueados'[r]) = Len(cBloqueados[r]) + 1
      BY <1>1, <3>1, <3>3, Agregado
    <3> QED  BY <1>1, <1>3, <2>1, <2>3, <2>4, <3>1, <3>2, <3>4
  <2>9. CASE LiberaInstancia("pcp")
    <3>1. /\ instancias' = [instancias EXCEPT ![r] = @ + 1] /\ UNCHANGED <<cBloqueados, rec>>
          /\ pc["pcp"] = "libera" /\ pc'["pcp"] = "mira"
      BY <1>1, <2>1, <2>9 DEF LiberaInstancia, Ir
    <3>2. EnTramite(r) = 0 /\ EnTramite(r)' = -1
      BY <2>1, <3>1 DEF EnTramite
    <3> QED  BY <1>1, <1>3, <2>1, <2>3, <2>4, <3>1, <3>2
  <2>10. CASE MiraBloqueados("pcp")
    <3>1. UNCHANGED <<instancias, cBloqueados, rec>> /\ pc["pcp"] = "mira" /\ EnTramite(r) = -1
      BY <2>1, <2>10 DEF MiraBloqueados, EnTramite, recursosVars
    <3>2. CASE HayQuienDespertar(r)
      <4>1. pc'["pcp"] = "saca" /\ instancias[r] <= 0 /\ EnTramite(r)' = -1
        BY <1>1, <2>1, <2>10, <3>1, <3>2 DEF MiraBloqueados, HayQuienDespertar, Ir, EnTramite
      <4> QED  BY <1>1, <1>3, <2>1, <2>3, <2>4, <3>1, <4>1
    <3>3. CASE ~HayQuienDespertar(r)
      <4>1. /\ pc'["pcp"] \in {"a_plus", "a_ready"} /\ EnTramite(r)' = 0
            /\ instancias[r] > 0 \/ cBloqueados[r] = <<>>
        BY <1>1, <2>1, <2>10, <3>3 DEF MiraBloqueados, HayQuienDespertar, TrasLiberar, Ir, EnTramite
      <4>2. instancias[r] > 0
        BY <1>1, <2>3, <3>1, <4>1
      <4> QED  BY <1>1, <1>3, <2>1, <2>3, <2>4, <3>1, <4>1, <4>2
    <3> QED  BY <3>2, <3>3
  <2>11. CASE SacaBloqueado("pcp")
    <3>1. /\ UNCHANGED <<instancias, rec>> /\ instancias[r] <= 0 /\ cBloqueados[r] # <<>>
          /\ pc["pcp"] = "saca" /\ pc'["pcp"] = "despierta"
          /\ cBloqueados' = [cBloqueados EXCEPT ![r] = Tail(@)]
      BY <1>1, <2>1, <2>11 DEF SacaBloqueado, EsperanLosQueFaltan, Ir
    <3>2. EnTramite(r) = -1 /\ EnTramite(r)' = 0
      BY <2>1, <3>1 DEF EnTramite
    <3>3. Len(cBloqueados'[r]) = Len(cBloqueados[r]) - 1
      BY <1>1, <3>1, Cola
    <3> QED  BY <1>1, <1>3, <2>1, <2>3, <2>4, <3>1, <3>2, <3>3
  <2> QED  BY <1>5, <1>6, <2>5, <2>6, <2>7, <2>8, <2>9, <2>10, <2>11
           DEF PCP, LiberarRecurso, ReingresaPerdido, Supuestos
<1>8. CASE pc["pcp"] \notin {"pide", "decide", "encola", "libera", "mira", "saca"}
  BY <1>5, <1>6, <1>8 DEF PCP, LiberarRecurso, ReingresaPerdido, Supuestos, DescuentaInstancia,
     DecideBloquear, DecideOtorgar, EncolaBloqueado, LiberaInstancia, MiraBloqueados, SacaBloqueado
<1> QED  BY <1>7, <1>8

\* So does every other step: nobody else touches them.
LEMMA PasoEspera ==
  ASSUME Supuestos, ITipo, SinBajas, UnoSolo, EsperanLosQueFaltan, [Next]_vars
  PROVE  EsperanLosQueFaltan'
<1>1. CASE PasoPCP
  BY <1>1, EsperaEnPCP DEF PasoPCP
<1>2. CASE ~PasoPCP
  BY <1>2, SoloPCP DEF EsperanLosQueFaltan, EnTramite
<1> QED  BY <1>1, <1>2

\* While no process is killed, no list operation races and programs end and ask for
\* I/O holding nothing, whoever waits for a resource waits because its instances are
\* all taken: the checks that pedir_recurso and liberar_recurso make after they unlock
\* the mutex leave nobody waiting for a free instance (kernel.c:751, 790).
THEOREM EsperaExacta ==
  ASSUME Supuestos, "salida" \in Disciplina, Instancias0 \in [Recursos -> Nat]
  PROVE  Spec => []EsperaJustificada
<1>1. Init => EsperanLosQueFaltan
  BY DEF Init, PlanificacionInit, EsperanLosQueFaltan, EnTramite, Hilos
<1>2. IInv /\ ILugares /\ ISalida /\ EsperanLosQueFaltan /\ [Next]_vars => EsperanLosQueFaltan'
  BY PasoEspera DEF IInv, ILugares, ISalida
<1>3. ASSUME IInv, EsperanLosQueFaltan PROVE EsperaJustificada
  <2> SUFFICES ASSUME NEW r \in Recursos, \A h \in Hilos : rec[h] # r, cBloqueados[r] # <<>>
               PROVE  Len(cBloqueados[r]) = -instancias[r]
    BY DEF EsperaJustificada
  <2>1. /\ cBloqueados[r] \in Seq(Pids) /\ instancias[r] \in Int
    BY <1>3 DEF IInv, ITipo, TypeOK, PlanificacionTypeOK, RecursosTypeOK
  <2>2. EnTramite(r) = 0
    BY DEF EnTramite, Hilos
  <2>3. Len(cBloqueados[r]) = IF instancias[r] < 0 THEN -instancias[r] ELSE 0
    BY <1>3, <2>1, <2>2 DEF EsperanLosQueFaltan
  <2> QED  BY <2>1, <2>3
<1>4. Spec => []ISalida
  BY NadieSeVaConRecursos
<1> QED  BY <1>1, <1>2, <1>3, <1>4, Invariante, InvarianteDeLugares, PTL DEF Spec

-----------------------------------------------------------------------------
(***************************************************************************)
(* The instances of a resource                                             *)
(***************************************************************************)

\* The places where r is in a family of lists, of which Tenencias is an instance.
Apariciones(listas, r) ==
  UNION {{<<p, i>> : i \in {k \in DOMAIN listas[p] : listas[p][k] = r}} : p \in Pids}

LEMMA Aparece ==
  ASSUME NEW listas, NEW r, NEW x
  PROVE  x \in Apariciones(listas, r)
           <=> \E p \in Pids : \E i \in DOMAIN listas[p] : x = <<p, i>> /\ listas[p][i] = r
  BY DEF Apariciones

\* One more element in one of the lists.
LEMMA UnaAparicionMas ==
  ASSUME NEW f \in [Pids -> Seq(Recursos)], NEW q \in Pids, NEW s \in Recursos,
         NEW r \in Recursos, IsFiniteSet(Apariciones(f, r)),
         NEW g \in [Pids -> Seq(Recursos)], \A p \in Pids \ {q} : g[p] = f[p],
         g[q] = Append(f[q], s)
  PROVE  /\ IsFiniteSet(Apariciones(g, r))
         /\ s = r => Cardinality(Apariciones(g, r)) = Cardinality(Apariciones(f, r)) + 1
         /\ s # r => Cardinality(Apariciones(g, r)) = Cardinality(Apariciones(f, r))
<1> DEFINE n == Len(f[q])
<1>1. /\ n \in Nat /\ DOMAIN f[q] = 1..n /\ DOMAIN g[q] = 1..(n + 1) /\ g[q][n + 1] = s
      /\ \A i \in 1..n : g[q][i] = f[q][i]
      /\ \A p \in Pids \ {q} : g[p] = f[p]
  BY ElementosAgregado
<1> HIDE DEF n
<1>2. \A p \in Pids : \A i : i \in DOMAIN g[p] <=> i \in DOMAIN f[p] \/ (p = q /\ i = n + 1)
  <2> SUFFICES ASSUME NEW p \in Pids, NEW i
               PROVE  i \in DOMAIN g[p] <=> i \in DOMAIN f[p] \/ (p = q /\ i = n + 1)
    OBVIOUS
  <2>1. CASE p = q
    BY <1>1, <2>1
  <2>2. CASE p # q
    BY <1>1, <2>2
  <2> QED  BY <2>1, <2>2
<1>3. \A p \in Pids : \A i \in DOMAIN f[p] : g[p][i] = f[p][i] /\ ~(p = q /\ i = n + 1)
  <2> SUFFICES ASSUME NEW p \in Pids, NEW i \in DOMAIN f[p]
               PROVE  g[p][i] = f[p][i] /\ ~(p = q /\ i = n + 1)
    OBVIOUS
  <2>1. CASE p = q
    BY <1>1, <2>1
  <2>2. CASE p # q
    BY <1>1, <2>2
  <2> QED  BY <2>1, <2>2
<1> DEFINE nueva == <<q, n + 1>>
<1>4. \A x : x \in Apariciones(g, r) <=> x \in Apariciones(f, r) \/ (x = nueva /\ s = r)
  <2> SUFFICES ASSUME NEW x
               PROVE x \in Apariciones(g, r) <=> x \in Apariciones(f, r) \/ (x = nueva /\ s = r)
    OBVIOUS
  <2>1. ASSUME NEW p \in Pids, NEW i \in DOMAIN g[p], x = <<p, i>>, g[p][i] = r
        PROVE  x \in Apariciones(f, r) \/ (x = nueva /\ s = r)
    <3>1. CASE i \in DOMAIN f[p]
      BY <1>3, <2>1, <3>1, Aparece
    <3>2. CASE p = q /\ i = n + 1
      BY <1>1, <2>1, <3>2
    <3> QED  BY <1>2, <3>1, <3>2
  <2>2. ASSUME NEW p \in Pids, NEW i \in DOMAIN f[p], x = <<p, i>>, f[p][i] = r
        PROVE  x \in Apariciones(g, r)
    BY <1>2, <1>3, <2>2, Aparece
  <2>3. ASSUME x = nueva, s = r PROVE x \in Apariciones(g, r)
    BY <1>1, <1>2, <2>3, Aparece
  <2>4. x \in Apariciones(g, r) => x \in Apariciones(f, r) \/ (x = nueva /\ s = r)
    BY <2>1, Aparece
  <2>5. x \in Apariciones(f, r) => x \in Apariciones(g, r)
    BY <2>2, Aparece
  <2> QED  BY <2>3, <2>4, <2>5
<1>5. nueva \notin Apariciones(f, r)
  BY <1>3, Aparece
<1>6. CASE s = r
  <2>1. Apariciones(g, r) = Apariciones(f, r) \cup {nueva}
    BY <1>4, <1>6
  <2> HIDE DEF nueva
  <2> QED  BY <1>5, <1>6, <2>1, FS_AddElement
<1>7. CASE s # r
  <2>1. Apariciones(g, r) = Apariciones(f, r)
    BY <1>4, <1>7
  <2> QED  BY <1>7, <2>1
<1> QED  BY <1>6, <1>7

\* One element less in one of the lists: those after it move one place down.
LEMMA UnaAparicionMenos ==
  ASSUME NEW f \in [Pids -> Seq(Recursos)], NEW q \in Pids, NEW k \in DOMAIN f[q],
         NEW r \in Recursos, IsFiniteSet(Apariciones(f, r)),
         NEW g \in [Pids -> Seq(Recursos)], \A p \in Pids \ {q} : g[p] = f[p],
         DOMAIN g[q] = 1..(Len(f[q]) - 1),
         \A i \in 1..(Len(f[q]) - 1) : i < k => g[q][i] = f[q][i],
         \A i \in 1..(Len(f[q]) - 1) : i >= k => g[q][i] = f[q][i + 1]
  PROVE  /\ IsFiniteSet(Apariciones(g, r))
         /\ f[q][k] = r => Cardinality(Apariciones(g, r)) = Cardinality(Apariciones(f, r)) - 1
         /\ f[q][k] # r => Cardinality(Apariciones(g, r)) = Cardinality(Apariciones(f, r))
<1> DEFINE n == Len(f[q])
           S == Apariciones(f, r) \ {<<q, k>>}
           T == Apariciones(g, r)
           Baja(p, i) == IF p = q /\ i > k THEN i - 1 ELSE i
           h == [x \in S |-> <<x[1], Baja(x[1], x[2])>>]
<1>1. n \in Nat /\ DOMAIN f[q] = 1..n /\ k \in 1..n
  OBVIOUS
<1>2. ASSUME NEW x \in S
      PROVE  \E p \in Pids : \E i \in DOMAIN f[p] : x = <<p, i>> /\ f[p][i] = r /\ ~(p = q /\ i = k)
  BY Aparece
<1>3. ASSUME NEW p \in Pids, NEW i \in DOMAIN f[p], f[p][i] = r, ~(p = q /\ i = k)
      PROVE  <<p, Baja(p, i)>> \in T
  <2>1. Baja(p, i) \in DOMAIN g[p] /\ g[p][Baja(p, i)] = r
    <3>1. CASE p # q
      BY <1>3, <3>1
    <3>2. CASE p = q /\ i < k
      BY <1>1, <1>3, <3>2
    <3>3. CASE p = q /\ i > k
      <4>1. Baja(p, i) = i - 1 /\ i - 1 \in 1..(n - 1) /\ ~(i - 1 < k) /\ (i - 1) + 1 = i
        BY <1>1, <1>3, <3>3
      <4> QED  BY <1>3, <3>3, <4>1
    <3> QED  BY <1>1, <1>3, <3>1, <3>2, <3>3
  <2> QED  BY <2>1, Aparece
<1>4. h \in [S -> T]
  <2>1. ASSUME NEW x \in S PROVE h[x] \in T
    <3>1. PICK p \in Pids : \E i \in DOMAIN f[p] : x = <<p, i>> /\ f[p][i] = r /\ ~(p = q /\ i = k)
      BY <1>2
    <3>2. PICK i \in DOMAIN f[p] : x = <<p, i>> /\ f[p][i] = r /\ ~(p = q /\ i = k)
      BY <3>1
    <3>3. h[x] = <<p, Baja(p, i)>>
      BY <3>2
    <3> QED  BY <1>3, <3>2, <3>3
  <2> HIDE DEF S, T, Baja
  <2> QED  BY <2>1
<1>5. \A x, y \in S : h[x] = h[y] => x = y
  <2> SUFFICES ASSUME NEW x \in S, NEW y \in S, h[x] = h[y] PROVE x = y
    OBVIOUS
  <2>1. PICK p \in Pids : \E i \in DOMAIN f[p] : x = <<p, i>> /\ f[p][i] = r /\ ~(p = q /\ i = k)
    BY <1>2
  <2>2. PICK i \in DOMAIN f[p] : x = <<p, i>> /\ ~(p = q /\ i = k)
    BY <2>1
  <2>3. PICK u \in Pids : \E j \in DOMAIN f[u] : y = <<u, j>> /\ f[u][j] = r /\ ~(u = q /\ j = k)
    BY <1>2
  <2>4. PICK j \in DOMAIN f[u] : y = <<u, j>> /\ ~(u = q /\ j = k)
    BY <2>3
  <2>5. h[x] = <<p, Baja(p, i)>> /\ h[y] = <<u, Baja(u, j)>>
    BY <2>2, <2>4
  <2>6. p = u /\ Baja(p, i) = Baja(p, j)
    BY <2>5
  <2>7. i \in Nat /\ j \in Nat
    BY <2>2, <2>4
  <2>8. i = j
    BY <1>1, <2>2, <2>4, <2>6, <2>7
  <2> QED  BY <2>2, <2>4, <2>6, <2>8
<1>6. \A y \in T : \E x \in S : h[x] = y
  <2> SUFFICES ASSUME NEW y \in T PROVE \E x \in S : h[x] = y
    OBVIOUS
  <2>1. PICK p \in Pids : \E j \in DOMAIN g[p] : y = <<p, j>> /\ g[p][j] = r
    BY Aparece
  <2>2. PICK j \in DOMAIN g[p] : y = <<p, j>> /\ g[p][j] = r
    BY <2>1
  <2> DEFINE i == IF p = q /\ j >= k THEN j + 1 ELSE j
  <2>3. j \in Nat
    BY <2>2
  <2>4. i \in DOMAIN f[p] /\ f[p][i] = r /\ ~(p = q /\ i = k) /\ Baja(p, i) = j
    <3>1. CASE p # q
      BY <2>2, <3>1
    <3>2. CASE p = q /\ j < k
      BY <1>1, <2>2, <2>3, <3>2
    <3>3. CASE p = q /\ j >= k
      <4>1. i = j + 1 /\ j \in 1..(n - 1) /\ i \in 1..n /\ g[q][j] = f[q][j + 1] /\ i > k
        BY <1>1, <2>2, <3>3
      <4> QED  BY <1>1, <2>2, <3>3, <4>1
    <3> QED  BY <1>1, <2>3, <3>1, <3>2, <3>3
  <2>5. <<p, i>> \in S
    BY <2>4, Aparece
  <2>6. h[<<p, i>>] = <<p, Baja(p, i)>>
    BY <2>5
  <2> QED  BY <2>2, <2>4, <2>5, <2>6
<1>7. ExistsBijection(S, T)
  <2> HIDE DEF S, T, h
  <2> QED  BY <1>4, <1>5, <1>6 DEF ExistsBijection, Bijection, Injection, Surjection, IsInjective
<1>8. IsFiniteSet(S) /\ Cardinality(S) =
        IF <<q, k>> \in Apariciones(f, r) THEN Cardinality(Apariciones(f, r)) - 1
        ELSE Cardinality(Apariciones(f, r))
  BY FS_RemoveElement
<1>9. <<q, k>> \in Apariciones(f, r) <=> f[q][k] = r
  BY Aparece
<1>10. IsFiniteSet(T) /\ Cardinality(T) = Cardinality(S)
  <2> HIDE DEF S, T, h
  <2> QED  BY <1>7, <1>8, FS_Bijection
<1> QED  BY <1>8, <1>9, <1>10

LEMMA ElementosPegados ==
  ASSUME NEW P, NEW a \in Seq(P), NEW b \in Seq(P)
  PROVE  /\ a \o b \in Seq(P) /\ Len(a \o b) = Len(a) + Len(b)
         /\ \A i \in 1..Len(a) : (a \o b)[i] = a[i]
         /\ \A i \in 1..Len(b) : (a \o b)[Len(a) + i] = b[i]
  OBVIOUS

\* l is s without its element at k.
SinElDe(s, k, l) ==
  /\ DOMAIN l = 1..(Len(s) - 1)
  /\ \A i \in 1..(Len(s) - 1) : i < k => l[i] = s[i]
  /\ \A i \in 1..(Len(s) - 1) : i >= k => l[i] = s[i + 1]

\* The elements of a sequence after list_remove_element.
LEMMA ElementosSin ==
  ASSUME NEW P, NEW s \in Seq(P), NEW x, NEW j \in DOMAIN s, s[j] = x
  PROVE  \E k \in DOMAIN s : s[k] = x /\ SinElDe(s, k, Sin(s, x))
<1> DEFINE k == CHOOSE i \in DOMAIN s : s[i] = x
<1>1. k \in DOMAIN s /\ s[k] = x
  OBVIOUS
<1>2. Sin(s, x) = RemoveAt(s, k)
  BY DEF Sin
<1> HIDE DEF k
<1> DEFINE a == SubSeq(s, 1, k - 1)
           b == SubSeq(s, k + 1, Len(s))
<1>3. k \in 1..Len(s) /\ Len(s) \in Nat
  BY <1>1
<1>4. /\ a \in Seq(P) /\ Len(a) = k - 1 /\ \A i \in 1..(k - 1) : a[i] = s[i]
      /\ b \in Seq(P) /\ Len(b) = Len(s) - k /\ \A i \in 1..(Len(s) - k) : b[i] = s[k + i]
  BY <1>3
<1> HIDE DEF a, b
<1>5. /\ DOMAIN (a \o b) = 1..(Len(s) - 1)
      /\ \A i \in 1..(Len(s) - 1) : i < k => (a \o b)[i] = a[i]
      /\ \A i \in 1..(Len(s) - 1) : i >= k => (a \o b)[i] = b[i - (k - 1)]
  <2>1. /\ a \o b \in Seq(P) /\ Len(a \o b) = Len(a) + Len(b)
        /\ \A i \in 1..Len(a) : (a \o b)[i] = a[i]
        /\ \A i \in 1..Len(b) : (a \o b)[Len(a) + i] = b[i]
    <3>1. a \in Seq(P) /\ b \in Seq(P)
      BY <1>4
    <3> QED  BY ONLY <3>1, ElementosPegados
  <2>2. Len(a) + Len(b) = Len(s) - 1
    BY <1>3, <1>4
  <2>3. DOMAIN (a \o b) = 1..(Len(s) - 1)
    BY <2>1, <2>2
  <2>4. ASSUME NEW i \in 1..(Len(s) - 1), i < k PROVE (a \o b)[i] = a[i]
    BY <1>3, <1>4, <2>1, <2>4
  <2>5. ASSUME NEW i \in 1..(Len(s) - 1), i >= k PROVE (a \o b)[i] = b[i - (k - 1)]
    <3>1. i - (k - 1) \in 1..Len(b) /\ Len(a) + (i - (k - 1)) = i
      BY <1>3, <1>4, <2>5
    <3> QED  BY <2>1, <3>1
  <2> QED  BY <2>3, <2>4, <2>5
<1>6. Sin(s, x) = a \o b
  BY <1>2 DEF RemoveAt, a, b
<1>7. ASSUME NEW i \in 1..(Len(s) - 1), i < k PROVE Sin(s, x)[i] = s[i]
  BY <1>3, <1>4, <1>5, <1>6, <1>7
<1>8. ASSUME NEW i \in 1..(Len(s) - 1), i >= k PROVE Sin(s, x)[i] = s[i + 1]
  <2>1. i - (k - 1) \in 1..(Len(s) - k) /\ k + (i - (k - 1)) = i + 1
    BY <1>3, <1>8
  <2> QED  BY <1>4, <1>5, <1>6, <1>8, <2>1
<1> QED  BY <1>1, <1>5, <1>6, <1>7, <1>8 DEF SinElDe

-----------------------------------------------------------------------------
\* The threads are finitely many.
LEMMA TramitanFinitos == \A r : IsFiniteSet(Tramitan(r)) /\ Cardinality(Tramitan(r)) \in Nat
<1>1. IsFiniteSet(Hilos)
  <2>1. IsFiniteSet((({} \cup {"plp"}) \cup {"pcp"}) \cup {"carnicero"})
    BY FS_EmptySet, FS_AddElement
  <2>2. Hilos = ((({} \cup {"plp"}) \cup {"pcp"}) \cup {"carnicero"}) \cup {"consola"}
    BY DEF Hilos
  <2> QED  BY <2>1, <2>2, FS_AddElement
<1>2. \A r : Tramitan(r) \subseteq Hilos
  BY DEF Tramitan
<1> QED  BY <1>1, <1>2, FS_Subset, FS_CardinalityType

Tramites == {"decide", "encola", "libera"}

\* A step in which no thread starts or ends asking for an instance or giving one back.
LEMMA TramitanIgual ==
  ASSUME \A h \in Hilos : /\ pc'[h] \in Tramites <=> pc[h] \in Tramites
                          /\ pc[h] \in Tramites => rec'[h] = rec[h]
  PROVE  \A r : Tramitan(r)' = Tramitan(r)
  BY DEF Tramitan, Tramites

\* A step in which one starts...
LEMMA UnoTramita ==
  ASSUME NEW h \in Hilos, pc[h] \notin Tramites, pc'[h] \in Tramites,
         \A k \in Hilos \ {h} : pc'[k] = pc[k] /\ rec'[k] = rec[k], NEW r
  PROVE  /\ rec'[h] = r => Cardinality(Tramitan(r)') = Cardinality(Tramitan(r)) + 1
         /\ rec'[h] # r => Cardinality(Tramitan(r)') = Cardinality(Tramitan(r))
<1>1. IsFiniteSet(Tramitan(r)) /\ h \notin Tramitan(r)
  BY TramitanFinitos DEF Tramitan, Tramites
<1>2. rec'[h] = r => Tramitan(r)' = Tramitan(r) \cup {h}
  BY DEF Tramitan, Tramites
<1>3. rec'[h] # r => Tramitan(r)' = Tramitan(r)
  BY DEF Tramitan, Tramites
<1> QED  BY <1>1, <1>2, <1>3, FS_AddElement

\* ...and one in which one ends.
LEMMA UnoDejaDeTramitar ==
  ASSUME NEW h \in Hilos, pc[h] \in Tramites, pc'[h] \notin Tramites,
         \A k \in Hilos \ {h} : pc'[k] = pc[k] /\ rec'[k] = rec[k], NEW r
  PROVE  /\ rec[h] = r => Cardinality(Tramitan(r)') = Cardinality(Tramitan(r)) - 1
         /\ rec[h] # r => Cardinality(Tramitan(r)') = Cardinality(Tramitan(r))
<1>1. IsFiniteSet(Tramitan(r)) /\ (rec[h] = r => h \in Tramitan(r))
  BY TramitanFinitos DEF Tramitan, Tramites
<1>2. rec[h] = r => Tramitan(r)' = Tramitan(r) \ {h}
  BY DEF Tramitan, Tramites
<1>3. rec[h] # r => Tramitan(r)' = Tramitan(r)
  BY DEF Tramitan, Tramites
<1> QED  BY <1>1, <1>2, <1>3, FS_RemoveElement

-----------------------------------------------------------------------------
TenenciasFinitas == \A r \in Recursos : IsFiniteSet(Tenencias(r))

\* A process gets an instance of s.
LEMMA UnaTenenciaMas ==
  ASSUME tenidos \in [Pids -> Seq(Recursos)], TenenciasFinitas, NEW q \in Pids, NEW s \in Recursos,
         tenidos' = [tenidos EXCEPT ![q] = Append(@, s)]
  PROVE  /\ TenenciasFinitas'
         /\ \A r \in Recursos :
              /\ s = r => Cardinality(Tenencias(r)') = Cardinality(Tenencias(r)) + 1
              /\ s # r => Cardinality(Tenencias(r)') = Cardinality(Tenencias(r))
<1> DEFINE f == tenidos
           g == tenidos'
<1>1. /\ f \in [Pids -> Seq(Recursos)] /\ g \in [Pids -> Seq(Recursos)]
      /\ \A p \in Pids \ {q} : g[p] = f[p]
      /\ g[q] = Append(f[q], s)
  <2>1. Append(tenidos[q], s) \in Seq(Recursos)
    BY Agregado
  <2> QED  BY <2>1
<1>2. \A r : Tenencias(r) = Apariciones(f, r) /\ Tenencias(r)' = Apariciones(g, r)
  BY DEF Tenencias, Apariciones
<1> HIDE DEF f, g
<1>3. ASSUME NEW r \in Recursos
      PROVE  /\ IsFiniteSet(Tenencias(r)')
             /\ s = r => Cardinality(Tenencias(r)') = Cardinality(Tenencias(r)) + 1
             /\ s # r => Cardinality(Tenencias(r)') = Cardinality(Tenencias(r))
  <2>1. IsFiniteSet(Apariciones(f, r))
    BY <1>2 DEF TenenciasFinitas
  <2>2. /\ IsFiniteSet(Apariciones(g, r))
        /\ s = r => Cardinality(Apariciones(g, r)) = Cardinality(Apariciones(f, r)) + 1
        /\ s # r => Cardinality(Apariciones(g, r)) = Cardinality(Apariciones(f, r))
    BY ONLY <1>1, <2>1, q \in Pids, s \in Recursos, r \in Recursos, UnaAparicionMas, ZenonT(90)
  <2> QED  BY <1>2, <2>2
<1> QED  BY <1>3 DEF TenenciasFinitas

\* A process loses one: its list is the same without the element at k.
LEMMA UnaTenenciaMenos ==
  ASSUME tenidos \in [Pids -> Seq(Recursos)], TenenciasFinitas, NEW q \in Pids,
         NEW l \in Seq(Recursos), tenidos' = [tenidos EXCEPT ![q] = l],
         NEW k \in DOMAIN tenidos[q], DOMAIN l = 1..(Len(tenidos[q]) - 1),
         \A i \in 1..(Len(tenidos[q]) - 1) : i < k => l[i] = tenidos[q][i],
         \A i \in 1..(Len(tenidos[q]) - 1) : i >= k => l[i] = tenidos[q][i + 1]
  PROVE  /\ TenenciasFinitas'
         /\ \A r \in Recursos :
              /\ tenidos[q][k] = r => Cardinality(Tenencias(r)') = Cardinality(Tenencias(r)) - 1
              /\ tenidos[q][k] # r => Cardinality(Tenencias(r)') = Cardinality(Tenencias(r))
<1> DEFINE f == tenidos
           g == tenidos'
<1>1. /\ f \in [Pids -> Seq(Recursos)] /\ g \in [Pids -> Seq(Recursos)] /\ k \in DOMAIN f[q]
      /\ \A p \in Pids \ {q} : g[p] = f[p]
      /\ DOMAIN g[q] = 1..(Len(f[q]) - 1)
      /\ \A i \in 1..(Len(f[q]) - 1) : i < k => g[q][i] = f[q][i]
      /\ \A i \in 1..(Len(f[q]) - 1) : i >= k => g[q][i] = f[q][i + 1]
  OBVIOUS
<1>2. \A r : Tenencias(r) = Apariciones(f, r) /\ Tenencias(r)' = Apariciones(g, r)
  BY DEF Tenencias, Apariciones
<1>3. f[q] = tenidos[q]
  OBVIOUS
<1> HIDE DEF f, g
<1>4. ASSUME NEW r \in Recursos
      PROVE  /\ IsFiniteSet(Tenencias(r)')
             /\ f[q][k] = r => Cardinality(Tenencias(r)') = Cardinality(Tenencias(r)) - 1
             /\ f[q][k] # r => Cardinality(Tenencias(r)') = Cardinality(Tenencias(r))
  <2>1. IsFiniteSet(Apariciones(f, r))
    BY <1>2 DEF TenenciasFinitas
  <2>2. /\ IsFiniteSet(Apariciones(g, r))
        /\ f[q][k] = r => Cardinality(Apariciones(g, r)) = Cardinality(Apariciones(f, r)) - 1
        /\ f[q][k] # r => Cardinality(Apariciones(g, r)) = Cardinality(Apariciones(f, r))
    BY ONLY <1>1, <2>1, q \in Pids, r \in Recursos, UnaAparicionMenos, ZenonT(90)
  <2> QED  BY <1>2, <2>2
<1> QED  BY <1>3, <1>4 DEF TenenciasFinitas

-----------------------------------------------------------------------------
\* A step of others takes nothing away from the process on the CPU.
LEMMA DevuelveQuieto ==
  ASSUME DevuelveLoSuyo, UNCHANGED <<motivo, dispatch>>, pc'["pcp"] = pc["pcp"],
         mano'["pcp"] = mano["pcp"],
         pc["pcp"] \in {"cpu", "motivo"} =>
           \A r : Tiene(Despachado, r) => (\E i \in DOMAIN tenidos'[Despachado] :
                                             tenidos'[Despachado][i] = r)
  PROVE  DevuelveLoSuyo'
<1>1. Despachado' = Despachado
  BY DEF Despachado
<1>2. \A m : Devuelve(m)' <=> Devuelve(m)
  BY DEF Devuelve, EsRecurso
<1> QED  BY <1>1, <1>2 DEF DevuelveLoSuyo, Tiene

\* The scheduler.
LEMMA DevuelvePCP ==
  ASSUME Supuestos, IInv, DevuelveLoSuyo, PCP
  PROVE  DevuelveLoSuyo'
<1>1. /\ pc \in [Hilos -> Lugares] /\ "pcp" \in Hilos
  BY DEF IInv, ITipo, TypeOK, PlanificacionTypeOK, LocalesTypeOK, Hilos
<1>2. CASE Despacha
  <2>1. UNCHANGED dispatch /\ pc["pcp"] = "marca" /\ pc'["pcp"] = "cpu"
    BY <1>1, <1>2 DEF Despacha, Ir
  <2>2. dispatch = <<>>
    BY <2>1 DEF IInv, SocketEnOrden, VectorPendiente
  <2> QED  BY <2>1, <2>2 DEF DevuelveLoSuyo
<1>3. CASE Recibe
  <2>1. /\ UNCHANGED <<tenidos, mano>> /\ pc["pcp"] = "cpu"
        /\ pc'["pcp"] = "motivo" /\ motivo' = Head(dispatch).motivo /\ dispatch # <<>>
    BY <1>1, <1>3 DEF Recibe, Ir, procesos
  <2> QED  BY <2>1 DEF DevuelveLoSuyo, Despachado, Tiene, Devuelve, EsRecurso
<1>4. CASE TomaNadie \/ (SacaNadie("pcp") /\ UNCHANGED <<cpuVars, ioVars, cortoVars>>)
  <2>1. UNCHANGED <<tenidos, mano, pc, motivo, dispatch>>
    BY <1>4 DEF TomaNadie, SacaNadie, Caer, procesos, locales, cpuVars, cortoVars
  <2> QED  BY <2>1, DevuelveQuieto DEF Tiene
<1>5. CASE \/ EsperaListo \/ TomaReady \/ TomaReadyPlus \/ VuelveParaMorir \/ VuelvePorIO
           \/ VuelvePorPedido \/ VuelvePorDevolucion \/ VuelvePorQuantum \/ CreaHiloIO
           \/ EsperaVector \/ DescuentaInstancia \/ DecideBloquear \/ DecideOtorgar
           \/ EncolaBloqueado \/ ReingresaReady \/ ReingresaPlus \/ ReingresaSinMutex
           \/ TerminaMatadero("pcp") \/ LiberaInstancia("pcp") \/ MiraBloqueados("pcp")
           \/ SacaBloqueado("pcp") \/ DespiertaBloqueado("pcp")
  <2>1. pc'["pcp"] \notin {"cpu", "motivo"}
    BY <1>1, <1>5 DEF EsperaListo, ColaElegida, TomaReady, TomaReadyPlus, Elegir,
       VuelveParaMorir, VuelvePorIO, VuelvePorPedido, VuelvePorDevolucion, VuelvePorQuantum,
       CreaHiloIO, EsperaVector, DescuentaInstancia, DecideBloquear, DecideOtorgar,
       EncolaBloqueado, ReingresaReady, ReingresaPlus, ReingresaSinMutex, Reingreso,
       TerminaMatadero, LiberaInstancia, MiraBloqueados, SacaBloqueado, DespiertaBloqueado,
       TrasLiberar, IrSoltando, Ir
  <2> QED  BY <2>1 DEF DevuelveLoSuyo
<1> QED  BY <1>2, <1>3, <1>4, <1>5 DEF PCP, LiberarRecurso, ReingresaPerdido, Supuestos

\* The carnicero takes instances only from a process that has ended.
LEMMA DevuelveCarnicero ==
  ASSUME ITipo, ILugares, DevuelveLoSuyo, Carnicero, UNCHANGED <<cpuVars, ioVars, cortoVars>>
  PROVE  DevuelveLoSuyo'
<1>1. /\ pc \in [Hilos -> Lugares] /\ mano \in [Hilos -> Pids \cup {Nadie}]
      /\ tenidos \in [Pids -> Seq(Recursos)] /\ cBloqueados \in [Recursos -> Seq(Pids)]
      /\ {"carnicero", "pcp"} \subseteq Hilos /\ LocalesEnUso
  BY DEF ITipo, TypeOK, PlanificacionTypeOK, LocalesTypeOK, ProcesosTypeOK, RecursosTypeOK, Hilos
<1>2. UNCHANGED <<motivo, dispatch>> /\ pc'["pcp"] = pc["pcp"] /\ mano'["pcp"] = mano["pcp"]
  BY <1>1 DEF Carnicero, EsperaFinalizado, TomaFinalizado, SueltaRecurso, LiberaProceso,
     LiberarRecurso, LiberaInstancia, MiraBloqueados, SacaBloqueado, SacaNadie,
     DespiertaBloqueado, IrSoltando, Ir, Caer, locales, cpuVars, cortoVars
<1>3. CASE UNCHANGED tenidos
  BY <1>2, <1>3, DevuelveQuieto DEF Tiene
<1>4. CASE SueltaRecurso
  <2>1. PICK p \in Pids : p = mano["carnicero"]
    BY <1>1, <1>4 DEF SueltaRecurso, LocalesEnUso
  <2>2. <<"mano", "carnicero">> \in Sitios /\ En(<<"mano", "carnicero">>) = <<p>>
    <3>1. ConAlguien("carnicero") /\ mano["carnicero"] = p
      BY <1>4, <2>1, CpuAssumption DEF SueltaRecurso, ConAlguien, Nadie, Pids
    <3> QED  BY <1>1, <3>1, Contenido DEF Sitios, Si
  <2>3. estado[p] = "FINISHED"
    BY <2>2, EnVariable, ClaseDelCarnicero DEF ILugares
  <2>4. ASSUME pc["pcp"] \in {"cpu", "motivo"} PROVE Despachado # p
    <3>1. PICK q \in Pids : q = mano["pcp"]
      BY <1>1, <2>4 DEF LocalesEnUso
    <3>2. estado[q] \in EstadosEnMano("pcp")
      BY <2>4, <3>1, EnManoDe
    <3>3. EstadosEnMano("pcp") = {"RUNNING"}
      BY <2>4 DEF EstadosEnMano
    <3> QED  BY <2>3, <3>1, <3>2, <3>3 DEF Despachado
  <2>5. pc["pcp"] \in {"cpu", "motivo"} => tenidos'[Despachado] = tenidos[Despachado]
    <3>1. pc["pcp"] \in {"cpu", "motivo"} => Despachado \in Pids
      BY <1>1 DEF LocalesEnUso, Despachado
    <3> QED  BY <1>1, <1>4, <2>1, <2>4, <3>1 DEF SueltaRecurso
  <2> QED  BY <1>2, <2>5, DevuelveQuieto DEF Tiene
<1>5. CASE SacaBloqueado("carnicero")
  <2>1. PICK r \in Recursos : r = rec["carnicero"]
    BY <1>1, <1>5 DEF SacaBloqueado, LocalesEnUso
  <2>2. PICK p \in Pids : p = Head(cBloqueados[r])
    BY <1>1, <1>5, <2>1, Cola DEF SacaBloqueado
  <2>3. tenidos' = [tenidos EXCEPT ![p] = Append(@, r)]
    BY <1>5, <2>1, <2>2 DEF SacaBloqueado
  <2>4. ASSUME NEW q \in Pids, NEW i \in DOMAIN tenidos[q]
        PROVE  i \in DOMAIN tenidos'[q] /\ tenidos'[q][i] = tenidos[q][i]
    <3>1. CASE q = p
      BY <1>1, <2>3, <3>1, ElementosAgregado
    <3>2. CASE q # p
      BY <1>1, <2>3, <3>2
    <3> QED  BY <3>1, <3>2
  <2>5. pc["pcp"] \in {"cpu", "motivo"} => Despachado \in Pids
    BY <1>1 DEF LocalesEnUso, Despachado
  <2>6. pc["pcp"] \in {"cpu", "motivo"} =>
           \A s : Tiene(Despachado, s) => (\E i \in DOMAIN tenidos'[Despachado] :
                                             tenidos'[Despachado][i] = s)
    BY <2>4, <2>5 DEF Tiene
  <2> QED  BY <1>2, <2>6, DevuelveQuieto
<1>6. CASE ~SueltaRecurso /\ ~SacaBloqueado("carnicero")
  BY <1>3, <1>6 DEF Carnicero, EsperaFinalizado, TomaFinalizado, LiberaProceso, LiberarRecurso,
     LiberaInstancia, MiraBloqueados, SacaNadie, DespiertaBloqueado, Caer, procesos
<1> QED  BY <1>4, <1>5, <1>6

\* The CPU executes a SIGNAL only of what the process holds.
LEMMA DevuelveCPU ==
  ASSUME "senal" \in Disciplina, IInv, DevuelveLoSuyo, CPU,
         UNCHANGED <<planVars, ioVars, cortoVars>>
  PROVE  DevuelveLoSuyo'
<1>1. UNCHANGED <<tenidos, motivo, pc, mano>>
  BY DEF planVars, procesos, locales, cortoVars
<1>2. CASE CicloSigue
  BY <1>1, <1>2, DevuelveQuieto DEF CicloSigue, Tiene
<1>3. ASSUME NEW m \in Motivos \cup {Sigue}, enCpu # Nadie, Programa(m), CicloVuelve(m)
      PROVE  DevuelveLoSuyo'
  <2>1. enCpu = Despachado /\ dispatch = <<>> /\ pc["pcp"] = "cpu"
    BY <1>3 DEF IInv, SocketEnOrden
  <2> DEFINE n == SeVa(enCpu, m)
  <2>2. n = m \/ n = FinDeQuantum \/ n = Interrupcion
    BY DEF SeVa
  <2>3. Devuelve(n) => Tiene(Despachado, n.arg)
    <3>1. ~Devuelve(FinDeQuantum) /\ ~Devuelve(Interrupcion)
      BY DEF Devuelve, FinDeQuantum, Interrupcion
    <3>2. Devuelve(m) => Tiene(enCpu, m.arg)
      BY <1>3 DEF Programa, Devuelve, EsRecurso, Tiene
    <3> QED  BY <2>1, <2>2, <3>1, <3>2
  <2>4. dispatch' = Vuelta(enCpu, n)
    <3>1. n \in Motivos \cup {Interrupcion, FinDeQuantum}
      BY <1>3 DEF CicloVuelve, SeVa
    <3>2. enCpu \in Pids /\ Vuelta(enCpu, n) \in Seq(Mensajes)
      <4> HIDE DEF n
      <4> QED  BY <1>3, <3>1, TipoVuelta DEF IInv, ITipo, TypeOK, CpuTypeOK
    <3>3. dispatch' = dispatch \o Vuelta(enCpu, n)
      BY <1>3 DEF CicloVuelve
    <3> HIDE DEF n
    <3> QED  BY <2>1, <3>2, <3>3
  <2>5. Head(Vuelta(enCpu, n)).motivo = n
    BY DEF Vuelta
  <2> HIDE DEF n
  <2> QED  BY <1>1, <2>1, <2>3, <2>4, <2>5 DEF DevuelveLoSuyo, Despachado, Tiene, Devuelve,
           EsRecurso
<1> QED  BY <1>2, <1>3 DEF CPU

\* Every step.
LEMMA SigueDevuelve ==
  ASSUME Supuestos, "senal" \in Disciplina, IInv, ILugares, DevuelveLoSuyo, [Next]_vars
  PROVE  DevuelveLoSuyo'
<1>1. ITipo /\ SinBajas /\ SocketEnOrden
  BY DEF IInv, ILugares
<1>2. /\ pc \in [Hilos -> Lugares] /\ {"plp", "pcp", "consola"} \subseteq Hilos
      /\ mano \in [Hilos -> Pids \cup {Nadie}]
  BY <1>1 DEF ITipo, TypeOK, PlanificacionTypeOK, LocalesTypeOK, Hilos
<1>3. ASSUME UNCHANGED <<tenidos, motivo, dispatch>>, pc'["pcp"] = pc["pcp"],
             mano'["pcp"] = mano["pcp"]
      PROVE  DevuelveLoSuyo'
  BY <1>3, DevuelveQuieto DEF Tiene
<1>4. CASE PasoPCP
  BY <1>4, DevuelvePCP DEF PasoPCP
<1>5. CASE PasoCarnicero
  BY <1>1, <1>5, DevuelveCarnicero DEF PasoCarnicero
<1>6. CASE PasoCPU
  BY <1>6, DevuelveCPU DEF PasoCPU
<1>7. CASE PasoConsola
  BY <1>1, <1>2, <1>3, <1>7 DEF Supuestos, SinBajas, PasoConsola, ConsolaNext, CrearProceso,
     DetenerPlanificacion, DetenerPara, TomaMutexes, IniciarPlanificacion, ProcesoEstado,
     ListaProcesos, InterrumpirProceso, FinalizarProceso, Lee, BuscaVictima, NoEncuentra,
     QuitaVictima, QuitaVictimaYaLibre, QuitaVictimaReady, EsperaToken, SubirGrado, BajarGrado,
     RetiraCupo, TerminaMatadero, IrSoltando, Ir, planVars, procesos, locales, cpuVars, cortoVars
<1>8. CASE PasoPLP
  BY <1>2, <1>3, <1>8 DEF PasoPLP, PLP, EsperaNuevo, TomaNuevo, Admite, Rechaza, AdmiteNadie,
     IngresaReady, IngresaReadyPerdido, TerminaMatadero, IrSoltando, Ir, Caer, procesos, locales,
     cpuVars, cortoVars
<1>9. ASSUME NEW p \in Pids, PasoIO(p) PROVE DevuelveLoSuyo'
  <2>1. UNCHANGED <<tenidos, pc, mano, motivo>>
    BY <1>9 DEF PasoIO, AtenderSolicitudIO, RecibeVector, BuscaInterfaz, TomaInterfaz,
       UsaConexionLiberada, Repone, RespondeIO, FallaIO, FallaIODeMuerto, TerminaMataderoIO,
       CortaConexion, ExitoIO, ExitoIODeMuerto, DespiertaDeIO, Caer, planVars, procesos, locales,
       cortoVars
  <2>2. CASE RecibeVector(p)
    <3>1. pc["pcp"] = "io_cede"
      BY <1>1, <2>2 DEF RecibeVector, SocketEnOrden, EnVector
    <3> QED  BY <2>1, <3>1 DEF DevuelveLoSuyo
  <2>3. CASE ~RecibeVector(p)
    <3>1. UNCHANGED dispatch
      BY <1>9, <2>3 DEF PasoIO, AtenderSolicitudIO, BuscaInterfaz, TomaInterfaz,
         UsaConexionLiberada, Repone, RespondeIO, FallaIO, FallaIODeMuerto, TerminaMataderoIO,
         CortaConexion, ExitoIO, ExitoIODeMuerto, DespiertaDeIO, cpuVars
    <3> QED  BY <1>3, <2>1, <3>1
  <2> QED  BY <2>2, <2>3
<1>10. CASE \/ PasoInterrupciones \/ UNCHANGED vars
            \/ \E p \in Pids : PasoTimer(p)
            \/ \E i \in Interfaces : PasoConexion(i)
  BY <1>3, <1>10 DEF PasoInterrupciones, RecibirInterrupcion, PasoTimer, VenceTimer,
     PasoConexion, ConectarIO, vars, planVars, procesos, locales, cpuVars, cortoVars
<1> QED  BY <1>4, <1>5, <1>6, <1>7, <1>8, <1>9, <1>10 DEF Next

-----------------------------------------------------------------------------
\* What the numbers are.
LEMMA Numeros ==
  ASSUME ITipo, TenenciasFinitas
  PROVE  \A r \in Recursos : /\ Cardinality(Tenencias(r)) \in Nat /\ Len(cBloqueados[r]) \in Nat
                             /\ Cardinality(Tramitan(r)) \in Nat
                             /\ instancias[r] \in Int /\ Instancias0[r] \in Int
  BY TramitanFinitos, FS_CardinalityType, PlanificacionAssumption
     DEF TenenciasFinitas, ITipo, TypeOK, PlanificacionTypeOK, RecursosTypeOK

Reparto(r, tienen, esperan, tramitan, quedan) ==
  /\ Cardinality(Tenencias(r)') = Cardinality(Tenencias(r)) + tienen
  /\ Len(cBloqueados'[r]) = Len(cBloqueados[r]) + esperan
  /\ Cardinality(Tramitan(r)') = Cardinality(Tramitan(r)) + tramitan
  /\ instancias'[r] = instancias[r] + quedan

\* A step that takes an instance from one account puts it in another.
LEMMA Balance ==
  ASSUME ITipo, TenenciasFinitas, InstanciasConservadas, TenenciasFinitas',
         \A r \in Recursos : \E a, b, c, d \in {-1, 0, 1} :
           a + b + c + d = 0 /\ Reparto(r, a, b, c, d)
  PROVE  TenenciasFinitas' /\ InstanciasConservadas'
<1> SUFFICES ASSUME NEW r \in Recursos PROVE instancias'[r] = Instancias0[r] - Comprometidas(r)'
  BY DEF InstanciasConservadas
<1> DEFINE t == Cardinality(Tenencias(r))
           e == Len(cBloqueados[r])
           m == Cardinality(Tramitan(r))
           n == instancias[r]
           t1 == Cardinality(Tenencias(r)')
           e1 == Len(cBloqueados'[r])
           m1 == Cardinality(Tramitan(r)')
           n1 == instancias'[r]
           n0 == Instancias0[r]
<1>1. t \in Nat /\ e \in Nat /\ m \in Nat /\ n \in Int /\ n0 \in Int
  BY Numeros
<1>2. n = n0 - (t + e + m)
  BY DEF InstanciasConservadas, Comprometidas
<1>3. PICK a, b, c, d \in {-1, 0, 1} : a + b + c + d = 0 /\ Reparto(r, a, b, c, d)
  OBVIOUS
<1>4. t1 = t + a /\ e1 = e + b /\ m1 = m + c /\ n1 = n + d
  BY <1>3 DEF Reparto
<1>5. Comprometidas(r)' = t1 + e1 + m1
  BY DEF Comprometidas
<1> HIDE DEF t, e, m, n, t1, e1, m1, n1, n0
<1>6. a \in Int /\ b \in Int /\ c \in Int /\ d \in Int
  OBVIOUS
<1>7. n1 = n0 - (t1 + e1 + m1)
  BY <1>1, <1>2, <1>3, <1>4, <1>6
<1> QED  BY <1>5, <1>7 DEF n1, n0

\* A step that touches no account.
LEMMA BalanceQuieto ==
  ASSUME ITipo, TenenciasFinitas, InstanciasConservadas,
         UNCHANGED <<tenidos, cBloqueados, instancias>>,
         \A h \in Hilos : /\ pc'[h] \in Tramites <=> pc[h] \in Tramites
                          /\ pc[h] \in Tramites => rec'[h] = rec[h]
  PROVE  TenenciasFinitas' /\ InstanciasConservadas'
<1>1. \A r : Tramitan(r)' = Tramitan(r)
  BY TramitanIgual
<1>2. \A r : Tenencias(r)' = Tenencias(r)
  BY DEF Tenencias
<1>3. \A r \in Recursos : Comprometidas(r)' = Comprometidas(r)
  BY <1>1, <1>2 DEF Comprometidas
<1> QED  BY <1>2, <1>3 DEF InstanciasConservadas, TenenciasFinitas

\* liberar_recurso, whoever calls it.
LEMMA ConservaLiberar ==
  ASSUME ITipo, TenenciasFinitas, InstanciasConservadas, NEW h \in {"pcp", "carnicero"},
         LiberarRecurso(h)
  PROVE  TenenciasFinitas' /\ InstanciasConservadas'
<1>1. /\ pc \in [Hilos -> Lugares] /\ h \in Hilos /\ LocalesEnUso
      /\ tenidos \in [Pids -> Seq(Recursos)] /\ instancias \in [Recursos -> Int]
      /\ cBloqueados \in [Recursos -> Seq(Pids)]
  BY DEF ITipo, TypeOK, PlanificacionTypeOK, LocalesTypeOK, ProcesosTypeOK, RecursosTypeOK, Hilos
<1>2. \A k \in Hilos \ {h} : ~SacaNadie(h) => pc'[k] = pc[k] /\ rec'[k] = rec[k]
  BY <1>1 DEF LiberarRecurso, LiberaInstancia, MiraBloqueados, SacaBloqueado,
     DespiertaBloqueado, Ir
<1>3. CASE LiberaInstancia(h)
  <2>1. PICK s \in Recursos : s = rec[h]
    BY <1>1, <1>3 DEF LiberaInstancia, LocalesEnUso
  <2>2. /\ UNCHANGED <<tenidos, cBloqueados>> /\ instancias' = [instancias EXCEPT ![s] = @ + 1]
        /\ pc[h] \in Tramites /\ pc'[h] \notin Tramites /\ ~SacaNadie(h)
    BY <1>1, <1>3, <2>1 DEF LiberaInstancia, SacaNadie, Tramites, Ir, procesos
  <2>3. \A r : Tenencias(r)' = Tenencias(r)
    BY <2>2 DEF Tenencias
  <2>6. \A k \in Hilos \ {h} : pc'[k] = pc[k] /\ rec'[k] = rec[k]
    BY <1>2, <2>2
  <2>4. ASSUME NEW r \in Recursos
        PROVE  \E a, b, c, d \in {-1, 0, 1} : a + b + c + d = 0 /\ Reparto(r, a, b, c, d)
    <3>1. /\ Cardinality(Tenencias(r)) \in Nat /\ Len(cBloqueados[r]) \in Nat
          /\ Cardinality(Tramitan(r)) \in Nat /\ instancias[r] \in Int
      BY Numeros
    <3>2. CASE s = r
      <4>1. Cardinality(Tramitan(r)') = Cardinality(Tramitan(r)) - 1
        BY <1>1, <2>1, <2>2, <2>6, <3>2, UnoDejaDeTramitar
      <4>2. Reparto(r, 0, 0, -1, 1)
        BY <1>1, <2>2, <2>3, <3>1, <3>2, <4>1 DEF Reparto
      <4> QED  BY <4>2
    <3>3. CASE s # r
      <4>1. Cardinality(Tramitan(r)') = Cardinality(Tramitan(r))
        BY <1>1, <2>1, <2>2, <2>6, <3>3, UnoDejaDeTramitar
      <4>2. Reparto(r, 0, 0, 0, 0)
        BY <1>1, <2>2, <2>3, <3>1, <3>3, <4>1 DEF Reparto
      <4> QED  BY <4>2
    <3> QED  BY <3>2, <3>3
  <2>5. TenenciasFinitas'
    BY <2>3 DEF TenenciasFinitas
  <2> QED  BY <2>4, <2>5, Balance
<1>4. CASE SacaBloqueado(h)
  <2>1. PICK s \in Recursos : s = rec[h]
    BY <1>1, <1>4 DEF SacaBloqueado, LocalesEnUso
  <2>2. PICK p \in Pids : p = Head(cBloqueados[s])
    BY <1>1, <1>4, <2>1, Cola DEF SacaBloqueado
  <2>3. /\ cBloqueados' = [cBloqueados EXCEPT ![s] = Tail(@)] /\ cBloqueados[s] # <<>>
        /\ tenidos' = [tenidos EXCEPT ![p] = Append(@, s)] /\ UNCHANGED <<instancias, rec>>
        /\ pc[h] \notin Tramites /\ pc'[h] \notin Tramites /\ ~SacaNadie(h)
    BY <1>1, <1>4, <2>1, <2>2 DEF SacaBloqueado, SacaNadie, Tramites, Ir
  <2>4. /\ TenenciasFinitas'
        /\ \A r \in Recursos :
             /\ s = r => Cardinality(Tenencias(r)') = Cardinality(Tenencias(r)) + 1
             /\ s # r => Cardinality(Tenencias(r)') = Cardinality(Tenencias(r))
    BY <1>1, <2>3, UnaTenenciaMas
  <2>5. \A r : Tramitan(r)' = Tramitan(r)
    BY <1>2, <2>3, TramitanIgual DEF Tramites
  <2>6. Len(Tail(cBloqueados[s])) = Len(cBloqueados[s]) - 1
    BY <1>1, <2>3, Cola
  <2>7. ASSUME NEW r \in Recursos
        PROVE  \E a, b, c, d \in {-1, 0, 1} : a + b + c + d = 0 /\ Reparto(r, a, b, c, d)
    <3>1. /\ Cardinality(Tenencias(r)) \in Nat /\ Len(cBloqueados[r]) \in Nat
          /\ Cardinality(Tramitan(r)) \in Nat /\ instancias[r] \in Int
      BY Numeros
    <3>2. CASE s = r
      <4>1. Reparto(r, 1, -1, 0, 0)
        BY <1>1, <2>3, <2>4, <2>5, <2>6, <3>1, <3>2 DEF Reparto
      <4> QED  BY <4>1
    <3>3. CASE s # r
      <4>1. Reparto(r, 0, 0, 0, 0)
        BY <1>1, <2>3, <2>4, <2>5, <3>1, <3>3 DEF Reparto
      <4> QED  BY <4>1
    <3> QED  BY <3>2, <3>3
  <2> QED  BY <2>4, <2>7, Balance
<1>5. CASE MiraBloqueados(h) \/ DespiertaBloqueado(h)
  <2>1. /\ UNCHANGED <<tenidos, cBloqueados, instancias, rec>>
        /\ pc[h] \notin Tramites /\ pc'[h] \notin Tramites /\ ~SacaNadie(h)
    BY <1>1, <1>5 DEF MiraBloqueados, DespiertaBloqueado, SacaNadie, TrasLiberar, Tramites, Ir,
       procesos, recursosVars
  <2> QED  BY <1>2, <2>1, BalanceQuieto DEF Tramites
<1>6. CASE SacaNadie(h)
  BY <1>6, BalanceQuieto DEF SacaNadie, Caer, Tramites, procesos, locales, recursosVars
<1> QED  BY <1>3, <1>4, <1>5, <1>6 DEF LiberarRecurso

\* The carnicero gives back one by one the instances of a process that ended.
LEMMA ConservaCarnicero ==
  ASSUME ITipo, TenenciasFinitas, InstanciasConservadas, Carnicero
  PROVE  TenenciasFinitas' /\ InstanciasConservadas'
<1>1. /\ pc \in [Hilos -> Lugares] /\ "carnicero" \in Hilos /\ LocalesEnUso
      /\ rec \in [Hilos -> Recursos \cup {NingunRecurso}]
      /\ tenidos \in [Pids -> Seq(Recursos)] /\ instancias \in [Recursos -> Int]
      /\ cBloqueados \in [Recursos -> Seq(Pids)]
  BY DEF ITipo, TypeOK, PlanificacionTypeOK, LocalesTypeOK, ProcesosTypeOK, RecursosTypeOK, Hilos
<1>2. CASE LiberarRecurso("carnicero")
  BY <1>2, ConservaLiberar
<1>3. CASE EsperaFinalizado \/ TomaFinalizado \/ LiberaProceso
  <2>1. /\ UNCHANGED <<tenidos, cBloqueados, instancias>>
        /\ pc["carnicero"] \notin Tramites /\ pc'["carnicero"] \notin Tramites
        /\ \A k \in Hilos \ {"carnicero"} : pc'[k] = pc[k] /\ rec'[k] = rec[k]
    BY <1>1, <1>3 DEF EsperaFinalizado, TomaFinalizado, LiberaProceso, Tramites, IrSoltando, Ir,
       procesos, recursosVars
  <2> QED  BY <2>1, BalanceQuieto DEF Tramites
<1>4. CASE SueltaRecurso
  <2>1. PICK p \in Pids : p = mano["carnicero"]
    BY <1>1, <1>4 DEF SueltaRecurso, LocalesEnUso
  <2>2. PICK s \in Recursos : s = Head(tenidos[p])
    BY <1>1, <1>4, <2>1, Cola DEF SueltaRecurso
  <2>3. /\ UNCHANGED <<cBloqueados, instancias>> /\ tenidos[p] # <<>>
        /\ tenidos' = [tenidos EXCEPT ![p] = Tail(tenidos[p])] /\ rec'["carnicero"] = s
        /\ pc["carnicero"] \notin Tramites /\ pc'["carnicero"] \in Tramites
        /\ \A k \in Hilos \ {"carnicero"} : pc'[k] = pc[k] /\ rec'[k] = rec[k]
    BY <1>1, <1>4, <2>1, <2>2 DEF SueltaRecurso, Tramites, Ir, recursosVars
  <2>4. /\ Tail(tenidos[p]) \in Seq(Recursos) /\ 1 \in DOMAIN tenidos[p] /\ tenidos[p][1] = s
        /\ DOMAIN Tail(tenidos[p]) = 1..(Len(tenidos[p]) - 1)
        /\ \A i \in 1..(Len(tenidos[p]) - 1) : i >= 1 => Tail(tenidos[p])[i] = tenidos[p][i + 1]
        /\ \A i \in 1..(Len(tenidos[p]) - 1) : i < 1 => Tail(tenidos[p])[i] = tenidos[p][i]
    BY <1>1, <2>2, <2>3, ElementosCola
  <2>5. /\ TenenciasFinitas'
        /\ \A r \in Recursos :
             /\ tenidos[p][1] = r => Cardinality(Tenencias(r)') = Cardinality(Tenencias(r)) - 1
             /\ tenidos[p][1] # r => Cardinality(Tenencias(r)') = Cardinality(Tenencias(r))
    BY <1>1, <2>3, <2>4, UnaTenenciaMenos
  <2>6. ASSUME NEW r \in Recursos
        PROVE  \E a, b, c, d \in {-1, 0, 1} : a + b + c + d = 0 /\ Reparto(r, a, b, c, d)
    <3>1. /\ Cardinality(Tenencias(r)) \in Nat /\ Len(cBloqueados[r]) \in Nat
          /\ Cardinality(Tramitan(r)) \in Nat /\ instancias[r] \in Int
      BY Numeros
    <3>2. CASE s = r
      <4>1. Cardinality(Tramitan(r)') = Cardinality(Tramitan(r)) + 1
        BY <1>1, <2>3, <3>2, UnoTramita
      <4>2. Reparto(r, -1, 0, 1, 0)
        BY <2>3, <2>4, <2>5, <3>1, <3>2, <4>1 DEF Reparto
      <4> QED  BY <4>2
    <3>3. CASE s # r
      <4>1. Cardinality(Tramitan(r)') = Cardinality(Tramitan(r))
        BY <1>1, <2>3, <3>3, UnoTramita
      <4>2. Reparto(r, 0, 0, 0, 0)
        BY <2>3, <2>4, <2>5, <3>1, <3>3, <4>1 DEF Reparto
      <4> QED  BY <4>2
    <3> QED  BY <3>2, <3>3
  <2> QED  BY <2>5, <2>6, Balance
<1> QED  BY <1>2, <1>3, <1>4 DEF Carnicero

\* pedir_recurso, and the SIGNAL that takes the instance out of the process's list.
LEMMA ConservaPCP ==
  ASSUME Supuestos, ITipo, TenenciasFinitas, DevuelveLoSuyo, InstanciasConservadas, PCP
  PROVE  TenenciasFinitas' /\ InstanciasConservadas'
<1>1. /\ pc \in [Hilos -> Lugares] /\ "pcp" \in Hilos /\ LocalesEnUso
      /\ rec \in [Hilos -> Recursos \cup {NingunRecurso}]
      /\ tenidos \in [Pids -> Seq(Recursos)] /\ instancias \in [Recursos -> Int]
      /\ cBloqueados \in [Recursos -> Seq(Pids)]
  BY DEF ITipo, TypeOK, PlanificacionTypeOK, LocalesTypeOK, ProcesosTypeOK, RecursosTypeOK, Hilos
<1>2. CASE LiberarRecurso("pcp")
  BY <1>2, ConservaLiberar
<1>3. CASE TomaNadie
  BY <1>3, BalanceQuieto DEF TomaNadie, Caer, procesos, locales, recursosVars
<1>4. CASE DecideBloquear
  <2>1. /\ UNCHANGED <<tenidos, cBloqueados, instancias, rec>>
        /\ pc["pcp"] \in Tramites /\ pc'["pcp"] \in Tramites
        /\ \A k \in Hilos \ {"pcp"} : pc'[k] = pc[k]
    BY <1>1, <1>4 DEF DecideBloquear, Tramites, Ir, recursosVars
  <2> QED  BY <2>1, BalanceQuieto
<1>5. CASE \/ EsperaListo \/ TomaReady \/ TomaReadyPlus \/ Despacha \/ Recibe
           \/ VuelveParaMorir \/ VuelvePorIO \/ VuelvePorPedido \/ VuelvePorQuantum
           \/ CreaHiloIO \/ EsperaVector \/ ReingresaReady \/ ReingresaPlus \/ ReingresaSinMutex
           \/ TerminaMatadero("pcp")
  <2>1. /\ UNCHANGED <<tenidos, cBloqueados, instancias>>
        /\ pc["pcp"] \notin Tramites /\ pc'["pcp"] \notin Tramites
        /\ \A k \in Hilos \ {"pcp"} : pc'[k] = pc[k] /\ rec'[k] = rec[k]
    BY <1>1, <1>5 DEF EsperaListo, ColaElegida, TomaReady, TomaReadyPlus, Elegir, Despacha,
       Recibe, VuelveParaMorir, VuelvePorIO, VuelvePorPedido, VuelvePorQuantum, CreaHiloIO,
       EsperaVector, ReingresaReady, ReingresaPlus, ReingresaSinMutex, Reingreso,
       TerminaMatadero, IrSoltando, Ir, Tramites, procesos, recursosVars
  <2> QED  BY <2>1, BalanceQuieto
<1>6. CASE DescuentaInstancia
  <2>1. PICK s \in Recursos : s = rec["pcp"]
    BY <1>1, <1>6 DEF DescuentaInstancia, LocalesEnUso
  <2>2. /\ UNCHANGED <<tenidos, cBloqueados, rec>>
        /\ instancias' = [instancias EXCEPT ![s] = @ - 1]
        /\ pc["pcp"] \notin Tramites /\ pc'["pcp"] \in Tramites
        /\ \A k \in Hilos \ {"pcp"} : pc'[k] = pc[k] /\ rec'[k] = rec[k]
    BY <1>1, <1>6, <2>1 DEF DescuentaInstancia, Tramites, Ir, procesos
  <2>3. \A r : Tenencias(r)' = Tenencias(r)
    BY <2>2 DEF Tenencias
  <2>4. ASSUME NEW r \in Recursos
        PROVE  \E a, b, c, d \in {-1, 0, 1} : a + b + c + d = 0 /\ Reparto(r, a, b, c, d)
    <3>1. /\ Cardinality(Tenencias(r)) \in Nat /\ Len(cBloqueados[r]) \in Nat
          /\ Cardinality(Tramitan(r)) \in Nat /\ instancias[r] \in Int
      BY Numeros
    <3>2. CASE s = r
      <4>1. Cardinality(Tramitan(r)') = Cardinality(Tramitan(r)) + 1
        BY <1>1, <2>1, <2>2, <3>2, UnoTramita
      <4>2. Reparto(r, 0, 0, 1, -1)
        BY <1>1, <2>2, <2>3, <3>1, <3>2, <4>1 DEF Reparto
      <4> QED  BY <4>2
    <3>3. CASE s # r
      <4>1. Cardinality(Tramitan(r)') = Cardinality(Tramitan(r))
        BY <1>1, <2>1, <2>2, <3>3, UnoTramita
      <4>2. Reparto(r, 0, 0, 0, 0)
        BY <1>1, <2>2, <2>3, <3>1, <3>3, <4>1 DEF Reparto
      <4> QED  BY <4>2
    <3> QED  BY <3>2, <3>3
  <2>5. TenenciasFinitas'
    BY <2>3 DEF TenenciasFinitas
  <2> QED  BY <2>4, <2>5, Balance
<1>7. CASE DecideOtorgar
  <2>1. PICK s \in Recursos : s = rec["pcp"]
    BY <1>1, <1>7 DEF DecideOtorgar, LocalesEnUso
  <2>2. PICK p \in Pids : p = Despachado
    BY <1>1, <1>7 DEF DecideOtorgar, LocalesEnUso, Despachado
  <2>3. /\ UNCHANGED <<cBloqueados, instancias, rec>>
        /\ tenidos' = [tenidos EXCEPT ![p] = Append(@, s)]
        /\ pc["pcp"] \in Tramites /\ pc'["pcp"] \notin Tramites
        /\ \A k \in Hilos \ {"pcp"} : pc'[k] = pc[k] /\ rec'[k] = rec[k]
    BY <1>1, <1>7, <2>1, <2>2 DEF DecideOtorgar, Tramites, Ir, recursosVars
  <2>4. /\ TenenciasFinitas'
        /\ \A r \in Recursos :
             /\ s = r => Cardinality(Tenencias(r)') = Cardinality(Tenencias(r)) + 1
             /\ s # r => Cardinality(Tenencias(r)') = Cardinality(Tenencias(r))
    BY <1>1, <2>3, UnaTenenciaMas
  <2>5. ASSUME NEW r \in Recursos
        PROVE  \E a, b, c, d \in {-1, 0, 1} : a + b + c + d = 0 /\ Reparto(r, a, b, c, d)
    <3>1. /\ Cardinality(Tenencias(r)) \in Nat /\ Len(cBloqueados[r]) \in Nat
          /\ Cardinality(Tramitan(r)) \in Nat /\ instancias[r] \in Int
      BY Numeros
    <3>2. CASE s = r
      <4>1. Cardinality(Tramitan(r)') = Cardinality(Tramitan(r)) - 1
        BY <1>1, <2>1, <2>3, <3>2, UnoDejaDeTramitar
      <4>2. Reparto(r, 1, 0, -1, 0)
        BY <2>3, <2>4, <3>1, <3>2, <4>1 DEF Reparto
      <4> QED  BY <4>2
    <3>3. CASE s # r
      <4>1. Cardinality(Tramitan(r)') = Cardinality(Tramitan(r))
        BY <1>1, <2>1, <2>3, <3>3, UnoDejaDeTramitar
      <4>2. Reparto(r, 0, 0, 0, 0)
        BY <2>3, <2>4, <3>1, <3>3, <4>1 DEF Reparto
      <4> QED  BY <4>2
    <3> QED  BY <3>2, <3>3
  <2> QED  BY <2>4, <2>5, Balance
<1>8. CASE EncolaBloqueado
  <2>1. PICK s \in Recursos : s = rec["pcp"]
    BY <1>1, <1>8 DEF EncolaBloqueado, LocalesEnUso
  <2>2. PICK p \in Pids : p = Despachado
    BY <1>1, <1>8 DEF EncolaBloqueado, LocalesEnUso, Despachado
  <2>3. /\ UNCHANGED <<tenidos, instancias>>
        /\ cBloqueados' = [cBloqueados EXCEPT ![s] = Append(@, p)]
        /\ pc["pcp"] \in Tramites /\ pc'["pcp"] \notin Tramites
        /\ \A k \in Hilos \ {"pcp"} : pc'[k] = pc[k] /\ rec'[k] = rec[k]
    BY <1>1, <1>8, <2>1, <2>2 DEF EncolaBloqueado, Tramites, IrSoltando, Ir, procesos
  <2>4. \A r : Tenencias(r)' = Tenencias(r)
    BY <2>3 DEF Tenencias
  <2>5. Len(Append(cBloqueados[s], p)) = Len(cBloqueados[s]) + 1
    BY <1>1, Agregado
  <2>6. ASSUME NEW r \in Recursos
        PROVE  \E a, b, c, d \in {-1, 0, 1} : a + b + c + d = 0 /\ Reparto(r, a, b, c, d)
    <3>1. /\ Cardinality(Tenencias(r)) \in Nat /\ Len(cBloqueados[r]) \in Nat
          /\ Cardinality(Tramitan(r)) \in Nat /\ instancias[r] \in Int
      BY Numeros
    <3>2. CASE s = r
      <4>1. Cardinality(Tramitan(r)') = Cardinality(Tramitan(r)) - 1
        BY <1>1, <2>1, <2>3, <3>2, UnoDejaDeTramitar
      <4>2. Reparto(r, 0, 1, -1, 0)
        BY <1>1, <2>3, <2>4, <2>5, <3>1, <3>2, <4>1 DEF Reparto
      <4> QED  BY <4>2
    <3>3. CASE s # r
      <4>1. Cardinality(Tramitan(r)') = Cardinality(Tramitan(r))
        BY <1>1, <2>1, <2>3, <3>3, UnoDejaDeTramitar
      <4>2. Reparto(r, 0, 0, 0, 0)
        BY <1>1, <2>3, <2>4, <3>1, <3>3, <4>1 DEF Reparto
      <4> QED  BY <4>2
    <3> QED  BY <3>2, <3>3
  <2>7. TenenciasFinitas'
    BY <2>4 DEF TenenciasFinitas
  <2> QED  BY <2>6, <2>7, Balance
<1>9. CASE VuelvePorDevolucion
  <2>1. PICK s \in Recursos : s = motivo.arg
    BY <1>9 DEF VuelvePorDevolucion, EsRecurso
  <2>2. PICK p \in Pids : p = Despachado
    BY <1>1, <1>9 DEF VuelvePorDevolucion, LocalesEnUso, Despachado
  <2>3. PICK j \in DOMAIN tenidos[p] : tenidos[p][j] = s
    BY <1>9, <2>1, <2>2 DEF VuelvePorDevolucion, DevuelveLoSuyo, Devuelve, Tiene
  <2>4. /\ UNCHANGED <<cBloqueados, instancias>>
        /\ tenidos' = [tenidos EXCEPT ![p] = Sin(tenidos[p], s)] /\ rec'["pcp"] = s
        /\ pc["pcp"] \notin Tramites /\ pc'["pcp"] \in Tramites
        /\ \A k \in Hilos \ {"pcp"} : pc'[k] = pc[k] /\ rec'[k] = rec[k]
    BY <1>1, <1>9, <2>1, <2>2 DEF VuelvePorDevolucion, RecursosQueLeQuedan, Tramites, Ir,
       recursosVars
  <2> DEFINE l == Sin(tenidos[p], s)
  <2>5. l \in Seq(Recursos)
    BY <1>1, TipoSin
  <2>6. PICK k \in DOMAIN tenidos[p] :
          /\ tenidos[p][k] = s /\ DOMAIN l = 1..(Len(tenidos[p]) - 1)
          /\ \A i \in 1..(Len(tenidos[p]) - 1) : i < k => l[i] = tenidos[p][i]
          /\ \A i \in 1..(Len(tenidos[p]) - 1) : i >= k => l[i] = tenidos[p][i + 1]
    <3>1. tenidos[p] \in Seq(Recursos)
      BY <1>1
    <3>2. \E k \in DOMAIN tenidos[p] : tenidos[p][k] = s /\ SinElDe(tenidos[p], k, l)
      BY ONLY <2>3, <3>1, j \in DOMAIN tenidos[p], ElementosSin
    <3> QED  BY <3>2 DEF SinElDe
  <2> HIDE DEF l
  <2>7. tenidos' = [tenidos EXCEPT ![p] = l]
    BY <2>4 DEF l
  <2>8. /\ TenenciasFinitas'
        /\ \A r \in Recursos :
             /\ tenidos[p][k] = r => Cardinality(Tenencias(r)') = Cardinality(Tenencias(r)) - 1
             /\ tenidos[p][k] # r => Cardinality(Tenencias(r)') = Cardinality(Tenencias(r))
    BY <1>1, <2>5, <2>6, <2>7, UnaTenenciaMenos
  <2>9. ASSUME NEW r \in Recursos
        PROVE  \E a, b, c, d \in {-1, 0, 1} : a + b + c + d = 0 /\ Reparto(r, a, b, c, d)
    <3>1. /\ Cardinality(Tenencias(r)) \in Nat /\ Len(cBloqueados[r]) \in Nat
          /\ Cardinality(Tramitan(r)) \in Nat /\ instancias[r] \in Int
      BY Numeros
    <3>2. CASE s = r
      <4>1. Cardinality(Tramitan(r)') = Cardinality(Tramitan(r)) + 1
        BY <1>1, <2>4, <3>2, UnoTramita
      <4>2. Reparto(r, -1, 0, 1, 0)
        BY <2>4, <2>6, <2>8, <3>1, <3>2, <4>1 DEF Reparto
      <4> QED  BY <4>2
    <3>3. CASE s # r
      <4>1. Cardinality(Tramitan(r)') = Cardinality(Tramitan(r))
        BY <1>1, <2>4, <3>3, UnoTramita
      <4>2. Reparto(r, 0, 0, 0, 0)
        BY <2>4, <2>6, <2>8, <3>1, <3>3, <4>1 DEF Reparto
      <4> QED  BY <4>2
    <3> QED  BY <3>2, <3>3
  <2> QED  BY <2>8, <2>9, Balance
<1> QED  BY <1>2, <1>3, <1>4, <1>5, <1>6, <1>7, <1>8, <1>9 DEF PCP, ReingresaPerdido, Supuestos

\* Nobody else touches an account.
LEMMA PasoConserva ==
  ASSUME Supuestos, ITipo, SinBajas, TenenciasFinitas, DevuelveLoSuyo, InstanciasConservadas,
         [Next]_vars
  PROVE  TenenciasFinitas' /\ InstanciasConservadas'
<1>1. /\ pc \in [Hilos -> Lugares] /\ Hilos = {"plp", "pcp", "carnicero", "consola"}
      /\ rec \in [Hilos -> Recursos \cup {NingunRecurso}] /\ Recorridos
  BY DEF ITipo, TypeOK, PlanificacionTypeOK, LocalesTypeOK, Hilos
<1>2. CASE PasoPCP
  BY <1>2, ConservaPCP DEF PasoPCP
<1>3. CASE PasoCarnicero
  BY <1>3, ConservaCarnicero DEF PasoCarnicero
<1>4. CASE PasoPLP
  <2>1. /\ UNCHANGED <<tenidos, cBloqueados, instancias>>
        /\ pc["plp"] \notin Tramites /\ pc'["plp"] \notin Tramites
        /\ \A k \in Hilos \ {"plp"} : pc'[k] = pc[k] /\ rec'[k] = rec[k]
    BY <1>1, <1>4 DEF PasoPLP, PLP, EsperaNuevo, TomaNuevo, Admite, Rechaza, AdmiteNadie,
       IngresaReady, IngresaReadyPerdido, TerminaMatadero, IrSoltando, Ir, Caer, procesos, locales,
       recursosVars, Recorridos, Tramites
  <2> QED  BY <2>1, BalanceQuieto
<1>5. CASE PasoConsola
  <2>1. /\ UNCHANGED <<tenidos, cBloqueados, instancias>>
        /\ pc["consola"] \notin Tramites /\ pc'["consola"] \notin Tramites
        /\ \A k \in Hilos \ {"consola"} : pc'[k] = pc[k] /\ rec'[k] = rec[k]
    BY <1>1, <1>5 DEF Supuestos, SinBajas, PasoConsola, ConsolaNext, CrearProceso,
       DetenerPlanificacion, DetenerPara, TomaMutexes, IniciarPlanificacion, ProcesoEstado,
       ListaProcesos, InterrumpirProceso, FinalizarProceso, Lee, BuscaVictima, NoEncuentra,
       QuitaVictima, QuitaVictimaYaLibre, QuitaVictimaReady, EsperaToken, SubirGrado, BajarGrado,
       RetiraCupo, TerminaMatadero, IrSoltando, Ir, planVars, procesos, locales, recursosVars,
       Recorridos, Tramites
  <2> QED  BY <2>1, BalanceQuieto
<1>6. ASSUME NEW p \in Pids, PasoIO(p) PROVE TenenciasFinitas' /\ InstanciasConservadas'
  <2>1. UNCHANGED <<tenidos, cBloqueados, instancias, pc, rec>>
    BY <1>6 DEF PasoIO, AtenderSolicitudIO, RecibeVector, BuscaInterfaz, TomaInterfaz,
       UsaConexionLiberada, Repone, RespondeIO, FallaIO, FallaIODeMuerto, TerminaMataderoIO,
       CortaConexion, ExitoIO, ExitoIODeMuerto, DespiertaDeIO, Caer, planVars, procesos, locales,
       recursosVars
  <2> QED  BY <2>1, BalanceQuieto
<1>7. CASE \/ PasoCPU \/ PasoInterrupciones \/ UNCHANGED vars
           \/ \E p \in Pids : PasoTimer(p)
           \/ \E i \in Interfaces : PasoConexion(i)
  <2>1. UNCHANGED <<tenidos, cBloqueados, instancias, pc, rec>>
    BY <1>7 DEF PasoCPU, PasoInterrupciones, PasoTimer, VenceTimer, PasoConexion, ConectarIO,
       vars, planVars, procesos, locales, recursosVars
  <2> QED  BY <2>1, BalanceQuieto
<1> QED  BY <1>2, <1>3, <1>4, <1>5, <1>6, <1>7 DEF Next

LEMMA ConservaInit == Init => TenenciasFinitas /\ IConserva
<1> SUFFICES ASSUME Init PROVE TenenciasFinitas /\ IConserva
  OBVIOUS
<1>1. \A r : Tenencias(r) = {}
  BY DEF Init, PlanificacionInit, Tenencias
<1>2. \A r : Tramitan(r) = {}
  BY DEF Init, PlanificacionInit, Tramitan, Hilos
<1>3. IsFiniteSet({}) /\ Cardinality({}) = 0
  BY FS_EmptySet
<1>4. \A r \in Recursos : Len(cBloqueados[r]) = 0 /\ instancias[r] = Instancias0[r]
  BY DEF Init, PlanificacionInit
<1>5. ASSUME NEW r \in Recursos PROVE Comprometidas(r) = 0
  <2>1. Tenencias(r) = {} /\ Tramitan(r) = {}
    BY <1>1, <1>2
  <2>2. Cardinality(Tenencias(r)) = 0 /\ Cardinality(Tramitan(r)) = 0
    BY <1>3, <2>1
  <2> QED  BY <1>4, <2>2 DEF Comprometidas
<1>6. \A r \in Recursos : Instancias0[r] \in Int
  BY PlanificacionAssumption
<1>7. InstanciasConservadas
  BY <1>4, <1>5, <1>6 DEF InstanciasConservadas
<1>8. DevuelveLoSuyo
  BY DEF Init, PlanificacionInit, DevuelveLoSuyo, Hilos
<1> QED  BY <1>1, <1>3, <1>7, <1>8 DEF TenenciasFinitas, IConserva

\* While no process is killed, no list operation races and programs signal only what
\* they hold, no instance of a resource is lost or made up: however WAIT, SIGNAL and
\* the carnicero's releases interleave, what the counter lacks of its initial value
\* is held, waited for or under way in some thread (kernel.c:355, 744, 782).
THEOREM NingunaInstanciaSePierde ==
  ASSUME Supuestos, "senal" \in Disciplina
  PROVE  Spec => []InstanciasConservadas
<1> DEFINE J == TenenciasFinitas /\ IConserva
<1>1. Init => J
  BY ConservaInit
<1>2. IInv /\ ILugares /\ J /\ [Next]_vars => J'
  BY PasoConserva, SigueDevuelve DEF IInv, ILugares, IConserva
<1>3. J => InstanciasConservadas
  BY DEF IConserva
<1> QED  BY <1>1, <1>2, <1>3, Invariante, InvarianteDeLugares, PTL DEF Spec

\* If besides they end and ask for I/O holding nothing, a resource is never in more
\* hands than it has instances: the checks that pedir_recurso and liberar_recurso make
\* after they unlock the mutex grant an instance only when there is one.
THEOREM NadieTieneDeMas ==
  ASSUME Supuestos, {"senal", "salida"} \subseteq Disciplina, Instancias0 \in [Recursos -> Nat]
  PROVE  Spec => []RecursosExclusivos
<1> DEFINE J == TenenciasFinitas /\ IConserva
<1>1. Init => J /\ EsperanLosQueFaltan
  <2>1. Init => EsperanLosQueFaltan
    BY DEF Init, PlanificacionInit, EsperanLosQueFaltan, EnTramite, Hilos
  <2> QED  BY <2>1, ConservaInit
<1>2. /\ IInv /\ ILugares /\ ISalida /\ J /\ EsperanLosQueFaltan /\ [Next]_vars
        => J' /\ EsperanLosQueFaltan'
  BY PasoConserva, SigueDevuelve, PasoEspera DEF IInv, ILugares, ISalida, IConserva
<1>3. ASSUME IInv, J, EsperanLosQueFaltan PROVE RecursosExclusivos
  <2> SUFFICES ASSUME NEW r \in Recursos PROVE Cardinality(Tenencias(r)) <= Instancias0[r]
    BY DEF RecursosExclusivos
  <2> DEFINE t == Cardinality(Tenencias(r))
             e == Len(cBloqueados[r])
             m == Cardinality(Tramitan(r))
             n == instancias[r]
             n0 == Instancias0[r]
             x == EnTramite(r)
  <2>1. t \in Nat /\ e \in Nat /\ m \in Nat /\ n \in Int /\ n0 \in Int
    BY <1>3, Numeros DEF IInv
  <2>2. n = n0 - (t + e + m)
    BY <1>3 DEF IConserva, InstanciasConservadas, Comprometidas
  <2>3. e = IF n + x < 0 THEN -(n + x) ELSE 0
    BY <1>3 DEF EsperanLosQueFaltan
  <2>4. x \in {-1, 0, 1} /\ (x = 1 => "pcp" \in Tramitan(r))
    BY DEF EnTramite, Tramitan, Hilos
  <2>5. x = 1 => m >= 1
    <3>1. "pcp" \in Tramitan(r) => Cardinality(Tramitan(r)) # 0
      BY TramitanFinitos, FS_EmptySet
    <3> QED  BY <2>1, <2>4, <3>1
  <2> HIDE DEF t, e, m, n, n0, x
  <2>6. x \in Int /\ x <= m
    BY <2>1, <2>4, <2>5
  <2>7. e + (n + x) >= 0
    BY <2>1, <2>3, <2>6
  <2>8. t <= n0
    BY <2>1, <2>2, <2>6, <2>7
  <2> QED  BY <2>8 DEF t, n0
<1>4. Spec => []ISalida
  BY NadieSeVaConRecursos
<1> QED  BY <1>1, <1>2, <1>3, <1>4, Invariante, InvarianteDeLugares, PTL DEF Spec
=============================================================================
