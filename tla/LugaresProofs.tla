--------------------------- MODULE LugaresProofs ---------------------------
(***************************************************************************)
(* Theorems about the queues of Kernel, the processes in them, the slots   *)
(* of multiprogramming and the lifecycle that all of it implements, for    *)
(* every value of its constants: they assume that nobody kills a process   *)
(* (FINALIZAR_PROCESO) and that no list operation loses an element, the    *)
(* two things that make them false.                                        *)
(***************************************************************************)
EXTENDS KernelProofs, FiniteSetTheorems

\* What the operator and the list operations are assumed to do.
Supuestos == ListasAtomicas /\ "FINALIZAR_PROCESO" \notin Comandos

\* No step takes the console into FINALIZAR_PROCESO.
LEMMA SigueSinBajas ==
  ASSUME Supuestos, ITipo, SinBajas, [Next]_vars
  PROVE  SinBajas'
<1> USE DEF SinBajas
<1>1. pc \in [Hilos -> Lugares]
  BY DEF ITipo, TypeOK, PlanificacionTypeOK, LocalesTypeOK
<1>2. CASE PasoConsola
  BY <1>1, <1>2 DEF Supuestos, PasoConsola, ConsolaNext, CrearProceso, DetenerPlanificacion,
     DetenerPara, TomaMutexes, IniciarPlanificacion, ProcesoEstado, ListaProcesos,
     InterrumpirProceso, FinalizarProceso, BuscaVictima, NoEncuentra, QuitaVictima,
     QuitaVictimaYaLibre, QuitaVictimaReady, EsperaToken, SubirGrado, BajarGrado, RetiraCupo,
     TerminaMatadero, Lee, Ir, IrSoltando, Hilos, consolaVars, locales
<1>3. CASE ~PasoConsola
  <2>1. pc'["consola"] = pc["consola"] /\ UNCHANGED orden
    BY <1>1, <1>3 DEF Next, PasoPLP, PLP, EsperaNuevo, TomaNuevo, Admite, Rechaza,
       AdmiteNadie, IngresaReady, IngresaReadyPerdido, PasoCarnicero, Carnicero,
       EsperaFinalizado, TomaFinalizado, SueltaRecurso, LiberaProceso, LiberarRecurso,
       LiberaInstancia, MiraBloqueados, SacaBloqueado, SacaNadie, DespiertaBloqueado,
       PasoPCP, PCP, EsperaListo, TomaReady, TomaReadyPlus, Elegir, TomaNadie, Despacha,
       Recibe, VuelveParaMorir, VuelvePorIO, VuelvePorPedido, VuelvePorDevolucion,
       VuelvePorQuantum, CreaHiloIO, EsperaVector, DescuentaInstancia, DecideBloquear,
       DecideOtorgar, EncolaBloqueado, ReingresaReady, ReingresaPlus, ReingresaSinMutex,
       ReingresaPerdido, Reingreso, TerminaMatadero, PasoTimer, VenceTimer, PasoIO,
       AtenderSolicitudIO, RecibeVector, BuscaInterfaz, TomaInterfaz, UsaConexionLiberada,
       Repone, RespondeIO, FallaIO, FallaIODeMuerto, TerminaMataderoIO, CortaConexion,
       ExitoIO, ExitoIODeMuerto, DespiertaDeIO, PasoConexion, ConectarIO, PasoCPU,
       PasoInterrupciones, Ir, IrSoltando, Caer, Hilos, vars, planVars, locales, consolaVars
  <2> QED  BY <2>1
<1> QED  BY <1>2, <1>3

-----------------------------------------------------------------------------
(***************************************************************************)
(* The tokens of the short-term scheduler                                  *)
(***************************************************************************)

\* A push into a ready queue posts one token.
LEMMA TokenAlDespertar ==
  ASSUME ColasTypeOK, SemaforosTypeOK, NEW p \in Pids, Despertar(p)
  PROVE  semPCP' - semPCP = (Len(cREADY') + Len(cREADY_PLUS')) - (Len(cREADY) + Len(cREADY_PLUS))
<1>1. CASE APlus(p)
  BY <1>1, Agregado DEF APlus, ColasTypeOK, SemaforosTypeOK
<1>2. CASE AReady(p)
  BY <1>2, Agregado DEF AReady, ColasTypeOK, SemaforosTypeOK
<1> QED  BY <1>1, <1>2 DEF Despertar

\* A step that leaves semPCP and the ready queues alone keeps the tokens.
LEMMA MarcoTokens ==
  ASSUME TokensPCP, pc["consola"] # "token", pc'["consola"] # "token",
         UNCHANGED <<semPCP, cREADY, cREADY_PLUS>>,
         pc["pcp"] \notin {"toma", "toma_plus"}, pc'["pcp"] \notin {"toma", "toma_plus"}
  PROVE  TokensPCP'
  BY DEF TokensPCP, Uno

\* So does a push that posts its token.
LEMMA PushTokens ==
  ASSUME TokensPCP, pc["consola"] # "token", pc'["consola"] # "token",
         ColasTypeOK, SemaforosTypeOK, NEW p \in Pids, AReady(p) \/ APlus(p),
         pc'["pcp"] \in {"toma", "toma_plus"} <=> pc["pcp"] \in {"toma", "toma_plus"}
  PROVE  TokensPCP'
<1>1. CASE APlus(p)
  <2>1. Len(cREADY_PLUS') = Len(cREADY_PLUS) + 1 /\ UNCHANGED cREADY /\ semPCP' = semPCP + 1
    BY <1>1, Agregado DEF APlus, ColasTypeOK
  <2>2. Len(cREADY) \in Nat /\ Len(cREADY_PLUS) \in Nat /\ semPCP \in Nat
    BY DEF ColasTypeOK, SemaforosTypeOK
  <2> QED  BY <2>1, <2>2 DEF TokensPCP, Uno
<1>2. CASE AReady(p)
  <2>1. Len(cREADY') = Len(cREADY) + 1 /\ UNCHANGED cREADY_PLUS /\ semPCP' = semPCP + 1
    BY <1>2, Agregado DEF AReady, ColasTypeOK
  <2>2. Len(cREADY) \in Nat /\ Len(cREADY_PLUS) \in Nat /\ semPCP \in Nat
    BY DEF ColasTypeOK, SemaforosTypeOK
  <2> QED  BY <2>1, <2>2 DEF TokensPCP, Uno
<1> QED  BY <1>1, <1>2

\* Every step of the short-term scheduler keeps the tokens.
LEMMA TokensEnPCP ==
  ASSUME Supuestos, ITipo, TokensPCP, PCP,
         pc["consola"] # "token", pc'["consola"] # "token"
  PROVE  TokensPCP'
<1> USE DEF Supuestos
<1>1. /\ pc \in [Hilos -> Lugares] /\ ColasTypeOK /\ SemaforosTypeOK
      /\ pc["pcp"] \notin {"espera", "toma", "toma_plus"} => Despachado \in Pids
      /\ pc["pcp"] = "despierta" => desbl["pcp"] \in Pids
  BY DEF ITipo, TypeOK, PlanificacionTypeOK, LocalesTypeOK, LocalesEnUso, Despachado, Hilos
<1>2. CASE EsperaListo
  <2>1. UNCHANGED <<cREADY, cREADY_PLUS>> /\ semPCP' = semPCP - 1
    BY <1>2 DEF EsperaListo, colas
  <2>2. pc["pcp"] = "espera" /\ pc'["pcp"] \in {"toma", "toma_plus"}
    BY <1>1, <1>2 DEF EsperaListo, ColaElegida, Ir, Hilos
  <2> QED  BY <1>1, <2>1, <2>2 DEF TokensPCP, Uno, ColasTypeOK, SemaforosTypeOK
<1>3. CASE TomaReady
  <2>1. Len(cREADY') = Len(cREADY) - 1 /\ UNCHANGED <<cREADY_PLUS, semPCP>>
    BY <1>1, <1>3, Cola DEF TomaReady, Elegir, ColasTypeOK, semaforos
  <2>2. pc["pcp"] = "toma" /\ pc'["pcp"] = "marca"
    BY <1>1, <1>3 DEF TomaReady, Elegir, Ir, Hilos
  <2> QED  BY <1>1, <2>1, <2>2 DEF TokensPCP, Uno, ColasTypeOK, SemaforosTypeOK
<1>4. CASE TomaReadyPlus
  <2>1. Len(cREADY_PLUS') = Len(cREADY_PLUS) - 1 /\ UNCHANGED <<cREADY, semPCP>>
    BY <1>1, <1>4, Cola DEF TomaReadyPlus, Elegir, ColasTypeOK, semaforos
  <2>2. pc["pcp"] = "toma_plus" /\ pc'["pcp"] = "marca"
    BY <1>1, <1>4 DEF TomaReadyPlus, Elegir, Ir, Hilos
  <2> QED  BY <1>1, <2>1, <2>2 DEF TokensPCP, Uno, ColasTypeOK, SemaforosTypeOK
<1>5. CASE TomaNadie
  BY <1>5 DEF TomaNadie, Caer, colas, semaforos, locales, TokensPCP, Uno
<1>6. CASE \/ Despacha \/ Recibe \/ VuelveParaMorir \/ VuelvePorIO \/ VuelvePorPedido
           \/ VuelvePorDevolucion \/ VuelvePorQuantum \/ CreaHiloIO \/ EsperaVector
           \/ DescuentaInstancia \/ DecideBloquear \/ DecideOtorgar \/ EncolaBloqueado
           \/ TerminaMatadero("pcp")
  BY <1>1, <1>6, MarcoTokens DEF Despacha, Recibe, VuelveParaMorir, VuelvePorIO,
     VuelvePorPedido, VuelvePorDevolucion, VuelvePorQuantum, CreaHiloIO, EsperaVector,
     DescuentaInstancia, DecideBloquear, DecideOtorgar, EncolaBloqueado, TerminaMatadero,
     EncolarExit, Matar, Ir, IrSoltando, Hilos, colas, semaforos
<1>7. CASE ReingresaReady \/ ReingresaPlus \/ ReingresaSinMutex
  <2>1. /\ pc["pcp"] \in {"a_ready", "a_plus", "a_ready_sin_mutex"} /\ pc'["pcp"] = "espera"
        /\ Despachado \in Pids
    BY <1>1, <1>7 DEF ReingresaReady, ReingresaPlus, ReingresaSinMutex, Reingreso, IrSoltando,
       Ir, Hilos
  <2>2. CASE ReingresaReady \/ ReingresaPlus
    BY <1>1, <2>1, <2>2, PushTokens DEF ReingresaReady, ReingresaPlus
  <2>3. CASE ReingresaSinMutex
    <3>1. Len(cREADY') = Len(cREADY) + 1 /\ UNCHANGED cREADY_PLUS /\ semPCP' = semPCP + 1
      BY <1>1, <2>1, <2>3, Agregado DEF ReingresaSinMutex, ColasTypeOK
    <3> QED  BY <1>1, <2>1, <3>1 DEF TokensPCP, Uno, ColasTypeOK, SemaforosTypeOK
  <2> QED  BY <1>7, <2>2, <2>3
<1>8. CASE ReingresaPerdido
  BY <1>8 DEF ReingresaPerdido
<1>9. CASE LiberarRecurso("pcp")
  <2>1. CASE DespiertaBloqueado("pcp")
    <3>1. Despertar(desbl["pcp"]) /\ desbl["pcp"] \in Pids
      BY <1>1, <2>1 DEF DespiertaBloqueado
    <3>2. pc["pcp"] = "despierta" /\ pc'["pcp"] \notin {"toma", "toma_plus"}
      BY <1>1, <2>1 DEF DespiertaBloqueado, TrasLiberar, Ir, Hilos
    <3> QED  BY <1>1, <3>1, <3>2, PushTokens DEF Despertar
  <2>2. CASE SacaNadie("pcp")
    BY <2>2 DEF SacaNadie, Caer, colas, semaforos, locales, TokensPCP, Uno
  <2>3. CASE LiberaInstancia("pcp") \/ MiraBloqueados("pcp") \/ SacaBloqueado("pcp")
    BY <1>1, <2>3, MarcoTokens DEF LiberaInstancia, MiraBloqueados, SacaBloqueado, TrasLiberar,
       Ir, Hilos, colas, semaforos
  <2> QED  BY <1>9, <2>1, <2>2, <2>3 DEF LiberarRecurso
<1> QED  BY <1>2, <1>3, <1>4, <1>5, <1>6, <1>7, <1>8, <1>9 DEF PCP

\* So does every other step.
LEMMA PasoTokens ==
  ASSUME Supuestos, ITipo, SinBajas, TokensPCP, [Next]_vars
  PROVE  TokensPCP'
<1>1. /\ pc \in [Hilos -> Lugares] /\ ColasTypeOK /\ SemaforosTypeOK /\ LocalesEnUso
      /\ pc["consola"] # "token" /\ pc'["consola"] # "token"
  BY SigueSinBajas DEF ITipo, TypeOK, PlanificacionTypeOK, LocalesTypeOK, SinBajas
<1>2. CASE PasoPCP
  BY <1>1, <1>2, TokensEnPCP DEF PasoPCP
<1>3. ASSUME ~PasoPCP PROVE pc'["pcp"] = pc["pcp"]
  BY <1>1, <1>3 DEF Next, PasoConsola, ConsolaNext, CrearProceso, DetenerPlanificacion,
     DetenerPara, TomaMutexes, IniciarPlanificacion, ProcesoEstado, ListaProcesos,
     InterrumpirProceso, FinalizarProceso, BuscaVictima, NoEncuentra, QuitaVictima,
     QuitaVictimaYaLibre, QuitaVictimaReady, EsperaToken, SubirGrado, BajarGrado,
     RetiraCupo, TerminaMatadero, PasoPLP, PLP, EsperaNuevo, TomaNuevo, Admite, Rechaza,
     AdmiteNadie, IngresaReady, IngresaReadyPerdido, PasoCarnicero, Carnicero,
     EsperaFinalizado, TomaFinalizado, SueltaRecurso, LiberaProceso, LiberarRecurso,
     LiberaInstancia, MiraBloqueados, SacaBloqueado, SacaNadie, DespiertaBloqueado,
     PasoTimer, VenceTimer, PasoIO, AtenderSolicitudIO, RecibeVector, BuscaInterfaz,
     TomaInterfaz, UsaConexionLiberada, Repone, RespondeIO, FallaIO, FallaIODeMuerto,
     TerminaMataderoIO, CortaConexion, ExitoIO, ExitoIODeMuerto, DespiertaDeIO,
     PasoConexion, ConectarIO, PasoCPU, PasoInterrupciones, Ir, IrSoltando, Caer, Hilos,
     vars, planVars, locales
<1>4. ASSUME NEW p \in Pids, AReady(p) \/ APlus(p), ~PasoPCP PROVE TokensPCP'
  BY <1>1, <1>3, <1>4, PushTokens
<1>5. ASSUME UNCHANGED <<semPCP, cREADY, cREADY_PLUS>>, ~PasoPCP PROVE TokensPCP'
  BY <1>1, <1>3, <1>5 DEF TokensPCP, Uno
<1>6. CASE ~PasoPCP /\ PasoPLP
  <2>1. CASE IngresaReady
    BY <1>1, <1>4, <1>6, <2>1 DEF IngresaReady, LocalesEnUso
  <2>2. CASE ~IngresaReady
    BY <1>5, <1>6, <2>2 DEF Supuestos, PasoPLP, PLP, EsperaNuevo, TomaNuevo, Admite, Rechaza,
       AdmiteNadie, IngresaReadyPerdido, TerminaMatadero, EncolarExit, Caer, colas, semaforos
  <2> QED  BY <2>1, <2>2
<1>7. CASE ~PasoPCP /\ PasoCarnicero
  <2>1. CASE DespiertaBloqueado("carnicero")
    BY <1>1, <1>4, <1>7, <2>1 DEF DespiertaBloqueado, Despertar, LocalesEnUso, Hilos
  <2>2. CASE ~DespiertaBloqueado("carnicero")
    BY <1>5, <1>7, <2>2 DEF PasoCarnicero, Carnicero, EsperaFinalizado, TomaFinalizado,
       SueltaRecurso, LiberaProceso, LiberarRecurso, LiberaInstancia, MiraBloqueados,
       SacaBloqueado, SacaNadie, Caer, colas, semaforos
  <2> QED  BY <2>1, <2>2
<1>8. ASSUME NEW p \in Pids, ~PasoPCP, PasoIO(p) PROVE TokensPCP'
  <2>1. CASE DespiertaDeIO(p)
    BY <1>4, <1>8, <2>1 DEF DespiertaDeIO, Despertar
  <2>2. CASE ~DespiertaDeIO(p)
    BY <1>5, <1>8, <2>2 DEF PasoIO, AtenderSolicitudIO, RecibeVector, BuscaInterfaz,
       TomaInterfaz, UsaConexionLiberada, Repone, RespondeIO, FallaIO, FallaIODeMuerto,
       TerminaMataderoIO, CortaConexion, ExitoIO, ExitoIODeMuerto, EncolarExit, Matar, Caer,
       planVars, colas, semaforos
  <2> QED  BY <2>1, <2>2
<1>9. CASE ~PasoPCP /\ PasoConsola
  BY <1>1, <1>5, <1>9 DEF SinBajas, PasoConsola, ConsolaNext, CrearProceso,
     DetenerPlanificacion, DetenerPara, TomaMutexes, IniciarPlanificacion, ProcesoEstado,
     ListaProcesos, InterrumpirProceso, FinalizarProceso, BuscaVictima, NoEncuentra,
     QuitaVictima, QuitaVictimaYaLibre, QuitaVictimaReady, EsperaToken, SubirGrado,
     BajarGrado, RetiraCupo, TerminaMatadero, Caer, planVars, colas, semaforos
<1>10. ASSUME ~PasoPCP, \/ PasoCPU \/ PasoInterrupciones \/ UNCHANGED vars
                        \/ \E p \in Pids : PasoTimer(p)
                        \/ \E i \in Interfaces : PasoConexion(i)
       PROVE  TokensPCP'
  BY <1>5, <1>10 DEF PasoCPU, PasoInterrupciones, PasoTimer, VenceTimer, PasoConexion,
     ConectarIO, vars, planVars, colas, semaforos
<1> QED  BY <1>2, <1>6, <1>7, <1>8, <1>9, <1>10 DEF Next

\* While no process is killed and no list operation races, semPCP counts exactly the
\* processes of the ready queues that no scheduler is about to pop (kernel.c:595-610).
THEOREM TokensExactos ==
  ASSUME Supuestos
  PROVE  Spec => []TokensPCP
<1>1. Init => SinBajas /\ TokensPCP
  BY DEF Init, PlanificacionInit, ConsolaInit, SinBajas, TokensPCP, Uno, Hilos
<1>2. IInv /\ SinBajas /\ TokensPCP /\ [Next]_vars => SinBajas' /\ TokensPCP'
  BY SigueSinBajas, PasoTokens DEF IInv
<1> QED  BY <1>1, <1>2, Invariante, PTL DEF Spec

-----------------------------------------------------------------------------
(***************************************************************************)
(* Moves between places                                                    *)
(***************************************************************************)

\* The elements of a sequence after queue_push...
LEMMA ElementosAgregado ==
  ASSUME NEW P, NEW s \in Seq(P), NEW x \in P
  PROVE  /\ Len(s) \in Nat /\ DOMAIN s = 1..Len(s) /\ DOMAIN Append(s, x) = 1..(Len(s) + 1)
         /\ Append(s, x)[Len(s) + 1] = x
         /\ \A i \in 1..Len(s) : Append(s, x)[i] = s[i]
  OBVIOUS

\* ...and after queue_pop.
LEMMA ElementosCola ==
  ASSUME NEW P, NEW s \in Seq(P), s # <<>>
  PROVE  /\ Len(s) \in Nat /\ Len(s) >= 1 /\ DOMAIN s = 1..Len(s)
         /\ DOMAIN Tail(s) = 1..(Len(s) - 1)
         /\ Head(s) = s[1]
         /\ \A i \in 1..(Len(s) - 1) : Tail(s)[i] = s[i + 1]
  OBVIOUS

\* The head of one place becomes the last of another: nobody is repeated, nobody
\* appears and nobody is lost.
LEMMA Mueve ==
  ASSUME NEW F \in [Sitios -> Seq(Pids)], NEW G \in [Sitios -> Seq(Pids)], SinRepetir(F),
         NEW a \in Sitios, NEW b \in Sitios, a # b, F[a] # <<>>,
         G[a] = Tail(F[a]), G[b] = Append(F[b], Head(F[a])),
         \A s \in Sitios \ {a, b} : G[s] = F[s]
  PROVE  SinRepetir(G) /\ \A p \in Pids : Presente(G, p) <=> Presente(F, p)
<1>0. /\ Head(F[a]) \in Pids
      /\ Len(F[a]) \in Nat /\ Len(F[a]) >= 1 /\ DOMAIN F[a] = 1..Len(F[a])
      /\ DOMAIN G[a] = 1..(Len(F[a]) - 1) /\ Head(F[a]) = F[a][1]
      /\ \A i \in 1..(Len(F[a]) - 1) : G[a][i] = F[a][i + 1]
      /\ Len(F[b]) \in Nat /\ DOMAIN F[b] = 1..Len(F[b])
      /\ DOMAIN G[b] = 1..(Len(F[b]) + 1) /\ G[b][Len(F[b]) + 1] = Head(F[a])
      /\ \A i \in 1..Len(F[b]) : G[b][i] = F[b][i]
  BY ElementosCola, ElementosAgregado
<1> DEFINE De(s, i) == IF s = a \/ (s = b /\ i = Len(F[b]) + 1) THEN a ELSE s
           En0(s, i) == IF s = a THEN i + 1 ELSE IF s = b /\ i = Len(F[b]) + 1 THEN 1 ELSE i
<1>1. ASSUME NEW s \in Sitios, NEW i \in DOMAIN G[s]
      PROVE  /\ De(s, i) \in Sitios /\ En0(s, i) \in DOMAIN F[De(s, i)]
             /\ G[s][i] = F[De(s, i)][En0(s, i)]
  <2>1. CASE s = a
    BY <1>0, <1>1, <2>1
  <2>2. CASE s = b
    <3>1. CASE i = Len(F[b]) + 1
      BY <1>0, <1>1, <2>2, <3>1
    <3>2. CASE i # Len(F[b]) + 1
      <4>1. i \in 1..Len(F[b])
        BY <1>0, <1>1, <2>2, <3>2
      <4> QED  BY <1>0, <1>1, <2>2, <3>2, <4>1
    <3> QED  BY <3>1, <3>2
  <2>3. CASE s \notin {a, b}
    BY <1>1, <2>3
  <2> QED  BY <2>1, <2>2, <2>3
<1>2. ASSUME NEW s \in Sitios, NEW t \in Sitios, NEW i \in DOMAIN G[s], NEW j \in DOMAIN G[t],
             De(s, i) = De(t, j), En0(s, i) = En0(t, j)
      PROVE  s = t /\ i = j
  <2>1. i \in Nat /\ i >= 1 /\ j \in Nat /\ j >= 1
    BY <1>2
  <2> QED  BY <1>2, <2>1
<1> HIDE DEF De, En0
<1>3. SinRepetir(G)
  <2> SUFFICES ASSUME NEW s \in Sitios, NEW t \in Sitios, NEW i \in DOMAIN G[s],
                      NEW j \in DOMAIN G[t], G[s][i] = G[t][j]
               PROVE  s = t /\ i = j
    BY DEF SinRepetir
  <2>1. De(s, i) = De(t, j) /\ En0(s, i) = En0(t, j)
    BY <1>1 DEF SinRepetir
  <2> QED  BY <1>2, <2>1
<1>4. ASSUME NEW p \in Pids, Presente(G, p) PROVE Presente(F, p)
  BY <1>1, <1>4 DEF Presente
<1>5. ASSUME NEW p \in Pids, Presente(F, p) PROVE Presente(G, p)
  <2>0. PICK s \in Sitios : \E i \in DOMAIN F[s] : F[s][i] = p
    BY <1>5 DEF Presente
  <2>1. PICK i \in DOMAIN F[s] : F[s][i] = p
    BY <2>0
  <2>2. CASE s = a /\ i = 1
    <3>1. Len(F[b]) + 1 \in DOMAIN G[b] /\ G[b][Len(F[b]) + 1] = p
      BY <2>1, <2>2
    <3> QED  BY <3>1 DEF Presente
  <2>3. CASE s = a /\ i # 1
    <3>1. i - 1 \in DOMAIN G[a] /\ G[a][i - 1] = p
      BY <2>1, <2>3
    <3> QED  BY <3>1 DEF Presente
  <2>4. CASE s = b
    <3>1. i \in DOMAIN G[b] /\ G[b][i] = p
      BY <2>1, <2>4
    <3> QED  BY <3>1 DEF Presente
  <2>5. CASE s \notin {a, b}
    <3>1. i \in DOMAIN G[s] /\ G[s][i] = p
      BY <2>1, <2>5
    <3> QED  BY <3>1 DEF Presente
  <2> QED  BY <2>2, <2>3, <2>4, <2>5
<1> QED  BY <1>3, <1>4, <1>5

\* The head of a place leaves.
LEMMA Sale ==
  ASSUME NEW F \in [Sitios -> Seq(Pids)], NEW G \in [Sitios -> Seq(Pids)], SinRepetir(F),
         NEW a \in Sitios, F[a] # <<>>,
         G[a] = Tail(F[a]), \A s \in Sitios \ {a} : G[s] = F[s]
  PROVE  SinRepetir(G) /\ \A p \in Pids : Presente(G, p) <=> Presente(F, p) /\ p # Head(F[a])
<1>0. /\ Head(F[a]) \in Pids
      /\ Len(F[a]) \in Nat /\ Len(F[a]) >= 1 /\ DOMAIN F[a] = 1..Len(F[a])
      /\ DOMAIN G[a] = 1..(Len(F[a]) - 1) /\ Head(F[a]) = F[a][1]
      /\ \A i \in 1..(Len(F[a]) - 1) : G[a][i] = F[a][i + 1]
  BY ElementosCola
<1> DEFINE En0(s, i) == IF s = a THEN i + 1 ELSE i
<1>1. ASSUME NEW s \in Sitios, NEW i \in DOMAIN G[s]
      PROVE  /\ En0(s, i) \in DOMAIN F[s] /\ G[s][i] = F[s][En0(s, i)]
             /\ ~(s = a /\ En0(s, i) = 1)
  <2>1. CASE s = a
    BY <1>0, <1>1, <2>1
  <2>2. CASE s # a
    BY <1>1, <2>2
  <2> QED  BY <2>1, <2>2
<1>2. ASSUME NEW s \in Sitios, NEW i \in DOMAIN G[s], NEW j \in DOMAIN G[s], En0(s, i) = En0(s, j)
      PROVE  i = j
  BY <1>0, <1>2
<1> HIDE DEF En0
<1>3. SinRepetir(G)
  <2> SUFFICES ASSUME NEW s \in Sitios, NEW t \in Sitios, NEW i \in DOMAIN G[s],
                      NEW j \in DOMAIN G[t], G[s][i] = G[t][j]
               PROVE  s = t /\ i = j
    BY DEF SinRepetir
  <2>1. s = t /\ En0(s, i) = En0(t, j)
    BY <1>1 DEF SinRepetir
  <2> QED  BY <1>2, <2>1
<1>4. 1 \in DOMAIN F[a] /\ F[a][1] = Head(F[a])
  BY <1>0
<1>5. ASSUME NEW p \in Pids, Presente(G, p) PROVE Presente(F, p) /\ p # Head(F[a])
  BY <1>1, <1>4, <1>5 DEF Presente, SinRepetir
<1>6. ASSUME NEW p \in Pids, Presente(F, p), p # Head(F[a]) PROVE Presente(G, p)
  <2>0. PICK s \in Sitios : \E i \in DOMAIN F[s] : F[s][i] = p
    BY <1>6 DEF Presente
  <2>1. PICK i \in DOMAIN F[s] : F[s][i] = p
    BY <2>0
  <2>2. CASE s = a
    <3>1. i - 1 \in DOMAIN G[a] /\ G[a][i - 1] = p
      BY <1>6, <2>1, <2>2
    <3> QED  BY <3>1 DEF Presente
  <2>3. CASE s # a
    <3>1. i \in DOMAIN G[s] /\ G[s][i] = p
      BY <2>1, <2>3
    <3> QED  BY <3>1 DEF Presente
  <2> QED  BY <2>2, <2>3
<1> QED  BY <1>3, <1>5, <1>6

-----------------------------------------------------------------------------
(***************************************************************************)
(* The places of the kernel                                                *)
(***************************************************************************)

\* The places, one kind at a time, and what is at each.
LEMMA Contenido ==
  /\ En(<<"cNEW", "-">>) = cNEW /\ En(<<"cREADY", "-">>) = cREADY
  /\ En(<<"cREADY_PLUS", "-">>) = cREADY_PLUS /\ En(<<"cEXIT", "-">>) = cEXIT
  /\ \A r : En(<<"cBloqueados", r>>) = cBloqueados[r]
  /\ \A p : En(<<"lBlocked", p>>) = Si(p \in lBlocked, p)
  /\ \A p : En(<<"io", p>>) = Si(pcIO[p] \in {"repone", "despierta", "exit", "exit_cae"}, p)
  /\ \A h : En(<<"mano", h>>) = Si(ConAlguien(h), mano[h])
  /\ \A h : En(<<"desbl", h>>) = Si(desbl[h] # Nadie, desbl[h])
  BY DEF En

\* Every place is one of those.
LEMMA CadaSitio ==
  ASSUME NEW s \in Sitios
  PROVE  \/ s \in {<<"cNEW", "-">>, <<"cREADY", "-">>, <<"cREADY_PLUS", "-">>, <<"cEXIT", "-">>}
         \/ \E r \in Recursos : s = <<"cBloqueados", r>>
         \/ \E p \in Pids : s = <<"lBlocked", p>>
         \/ \E p \in Pids : s = <<"io", p>>
         \/ \E h \in Hilos : s = <<"mano", h>>
         \/ \E h \in Hilos : s = <<"desbl", h>>
  BY DEF Sitios

\* What a variable holds is a sequence of at most one process.
LEMMA TipoSi ==
  ASSUME NEW c \in BOOLEAN, NEW p, c => p \in Pids
  PROVE  Si(c, p) \in Seq(Pids)
  BY DEF Si

\* The elements of every place are processes.
LEMMA TipoDonde == ITipo => Donde \in [Sitios -> Seq(Pids)]
<1> SUFFICES ASSUME ITipo PROVE Donde \in [Sitios -> Seq(Pids)]
  OBVIOUS
<1>1. ASSUME NEW s \in Sitios PROVE En(s) \in Seq(Pids)
  <2>1. CASE s \in {<<"cNEW", "-">>, <<"cREADY", "-">>, <<"cREADY_PLUS", "-">>, <<"cEXIT", "-">>}
    BY <2>1, Contenido DEF ITipo, TypeOK, PlanificacionTypeOK, ColasTypeOK
  <2>2. ASSUME NEW r \in Recursos, s = <<"cBloqueados", r>> PROVE En(s) \in Seq(Pids)
    BY <2>2, Contenido DEF ITipo, TypeOK, PlanificacionTypeOK, RecursosTypeOK
  <2>3. ASSUME NEW p \in Pids, s = <<"lBlocked", p>> \/ s = <<"io", p>> PROVE En(s) \in Seq(Pids)
    <3>1. /\ Si(p \in lBlocked, p) \in Seq(Pids)
          /\ Si(pcIO[p] \in {"repone", "despierta", "exit", "exit_cae"}, p) \in Seq(Pids)
      BY DEF Si
    <3> QED  BY <2>3, <3>1, Contenido
  <2>4. ASSUME NEW h \in Hilos, s = <<"mano", h>> PROVE En(s) \in Seq(Pids)
    <3>1. ConAlguien(h) \in BOOLEAN /\ (ConAlguien(h) => mano[h] \in Pids)
      BY DEF ITipo, TypeOK, PlanificacionTypeOK, LocalesTypeOK, ConAlguien
    <3>2. Si(ConAlguien(h), mano[h]) \in Seq(Pids)
      BY <3>1, TipoSi
    <3> QED  BY <2>4, <3>2, Contenido
  <2>5. ASSUME NEW h \in Hilos, s = <<"desbl", h>> PROVE En(s) \in Seq(Pids)
    <3>1. desbl[h] # Nadie => desbl[h] \in Pids
      BY DEF ITipo, TypeOK, PlanificacionTypeOK, LocalesTypeOK
    <3>2. Si(desbl[h] # Nadie, desbl[h]) \in Seq(Pids)
      BY <3>1, TipoSi
    <3> QED  BY <2>5, <3>2, Contenido
  <2> QED  BY <2>1, <2>2, <2>3, <2>4, <2>5, CadaSitio
<1> QED  BY <1>1 DEF Donde

\* And after every step.
LEMMA TipoDondeDespues == (ITipo => Donde \in [Sitios -> Seq(Pids)])'
  BY TipoDonde, PTL

\* What is at each place after the step.
LEMMA ContenidoDespues ==
  /\ En(<<"cNEW", "-">>)' = cNEW' /\ En(<<"cREADY", "-">>)' = cREADY'
  /\ En(<<"cREADY_PLUS", "-">>)' = cREADY_PLUS' /\ En(<<"cEXIT", "-">>)' = cEXIT'
  /\ \A r : En(<<"cBloqueados", r>>)' = cBloqueados'[r]
  /\ \A p : En(<<"lBlocked", p>>)' = Si(p \in lBlocked', p)
  /\ \A p : En(<<"io", p>>)' = Si(pcIO'[p] \in {"repone", "despierta", "exit", "exit_cae"}, p)
  /\ \A h : En(<<"mano", h>>)' = Si(ConAlguien(h)', mano'[h])
  /\ \A h : En(<<"desbl", h>>)' = Si(desbl'[h] # Nadie, desbl'[h])
  BY DEF En, Si

\* A step leaves alone every place but those of Q.
Ajenos(Q) ==
  /\ <<"cNEW", "-">> \notin Q => UNCHANGED cNEW
  /\ <<"cREADY", "-">> \notin Q => UNCHANGED cREADY
  /\ <<"cREADY_PLUS", "-">> \notin Q => UNCHANGED cREADY_PLUS
  /\ <<"cEXIT", "-">> \notin Q => UNCHANGED cEXIT
  /\ \A r \in Recursos : <<"cBloqueados", r>> \notin Q => cBloqueados'[r] = cBloqueados[r]
  /\ \A p \in Pids : <<"lBlocked", p>> \notin Q => (p \in lBlocked' <=> p \in lBlocked)
  /\ \A p \in Pids :
       <<"io", p>> \notin Q =>
         (pcIO'[p] \in {"repone", "despierta", "exit", "exit_cae"}
            <=> pcIO[p] \in {"repone", "despierta", "exit", "exit_cae"})
  /\ \A h \in Hilos :
       <<"mano", h>> \notin Q =>
         (ConAlguien(h)' <=> ConAlguien(h)) /\ (ConAlguien(h) => mano'[h] = mano[h])
  /\ \A h \in Hilos : <<"desbl", h>> \notin Q => desbl'[h] = desbl[h]

LEMMA Marco ==
  ASSUME NEW Q, Ajenos(Q)
  PROVE  \A s \in Sitios \ Q : En(s)' = En(s)
<1> USE DEF Ajenos
<1> TAKE s \in Sitios \ Q
<1>1. CASE s \in {<<"cNEW", "-">>, <<"cREADY", "-">>, <<"cREADY_PLUS", "-">>, <<"cEXIT", "-">>}
  BY <1>1, Contenido, ContenidoDespues
<1>2. ASSUME NEW r \in Recursos, s = <<"cBloqueados", r>> PROVE En(s)' = En(s)
  BY <1>2, Contenido, ContenidoDespues
<1>3. ASSUME NEW p \in Pids, s = <<"lBlocked", p>> PROVE En(s)' = En(s)
  BY <1>3, Contenido, ContenidoDespues DEF Si
<1>4. ASSUME NEW p \in Pids, s = <<"io", p>> PROVE En(s)' = En(s)
  BY <1>4, Contenido, ContenidoDespues DEF Si
<1>5. ASSUME NEW h \in Hilos, s = <<"mano", h>> PROVE En(s)' = En(s)
  <2>1. (ConAlguien(h)' <=> ConAlguien(h)) /\ (ConAlguien(h) => mano'[h] = mano[h])
    BY <1>5
  <2>2. Si(ConAlguien(h)', mano'[h]) = Si(ConAlguien(h), mano[h])
    BY <2>1 DEF Si
  <2>3. En(<<"mano", h>>)' = En(<<"mano", h>>)
    BY <2>2, Contenido, ContenidoDespues
  <2> QED  BY <1>5, <2>3
<1>6. ASSUME NEW h \in Hilos, s = <<"desbl", h>> PROVE En(s)' = En(s)
  <2>1. desbl'[h] = desbl[h]
    BY <1>6
  <2>2. Si(desbl'[h] # Nadie, desbl'[h]) = Si(desbl[h] # Nadie, desbl[h])
    BY <2>1
  <2>3. En(<<"desbl", h>>)' = En(<<"desbl", h>>)
    BY <2>2, Contenido, ContenidoDespues
  <2> QED  BY <1>6, <2>3
<1> QED  BY <1>1, <1>2, <1>3, <1>4, <1>5, <1>6, CadaSitio

\* What estado may be, one kind of place at a time...
LEMMA Clases ==
  /\ EstadosEn(<<"cNEW", "-">>) = {"NEW"}
  /\ EstadosEn(<<"cREADY", "-">>) = {"READY", "READY_PLUS", "RUNNING"}
  /\ EstadosEn(<<"cREADY_PLUS", "-">>) = {"READY", "READY_PLUS", "RUNNING"}
  /\ EstadosEn(<<"cEXIT", "-">>) = {"FINISHED"}
  /\ \A r : EstadosEn(<<"cBloqueados", r>>) = {"BLOCKED"}
  /\ \A p : EstadosEn(<<"lBlocked", p>>) = {"BLOCKED"}
  /\ \A p : pcIO[p] = "repone" => EstadosEn(<<"io", p>>) = {"BLOCKED"}
  /\ \A p : pcIO[p] = "despierta" => EstadosEn(<<"io", p>>) = {"READY", "READY_PLUS"}
  /\ \A p : pcIO[p] \notin {"repone", "despierta"} => EstadosEn(<<"io", p>>) = {"FINISHED"}
  /\ \A h : EstadosEn(<<"mano", h>>) = EstadosEnMano(h)
  /\ \A h : EstadosEn(<<"desbl", h>>) = {"READY", "READY_PLUS"}
  BY DEF EstadosEn

\* ...and after the step.
LEMMA ClasesDespues ==
  /\ EstadosEn(<<"cNEW", "-">>)' = {"NEW"}
  /\ EstadosEn(<<"cREADY", "-">>)' = {"READY", "READY_PLUS", "RUNNING"}
  /\ EstadosEn(<<"cREADY_PLUS", "-">>)' = {"READY", "READY_PLUS", "RUNNING"}
  /\ EstadosEn(<<"cEXIT", "-">>)' = {"FINISHED"}
  /\ \A r : EstadosEn(<<"cBloqueados", r>>)' = {"BLOCKED"}
  /\ \A p : EstadosEn(<<"lBlocked", p>>)' = {"BLOCKED"}
  /\ \A p : pcIO'[p] = "repone" => EstadosEn(<<"io", p>>)' = {"BLOCKED"}
  /\ \A p : pcIO'[p] = "despierta" => EstadosEn(<<"io", p>>)' = {"READY", "READY_PLUS"}
  /\ \A p : pcIO'[p] \notin {"repone", "despierta"} => EstadosEn(<<"io", p>>)' = {"FINISHED"}
  /\ \A h : EstadosEn(<<"mano", h>>)' = EstadosEnMano(h)'
  /\ \A h : EstadosEn(<<"desbl", h>>)' = {"READY", "READY_PLUS"}
  BY DEF EstadosEn

\* Only live processes are at a place...
LEMMA ClasesVivas == \A s \in Sitios : EstadosEn(s) \cap {"SIN_CREAR", "LIBERADO"} = {}
  BY DEF EstadosEn, EstadosEnMano

\* ...and after the step.
LEMMA ClasesVivasDespues == (\A s \in Sitios : EstadosEn(s) \cap {"SIN_CREAR", "LIBERADO"} = {})'
  BY ClasesVivas, PTL

\* Who is at a place of no Q may stay there.
ClasesAjenas(Q) == \A s \in Sitios \ Q : EstadosEn(s) \subseteq EstadosEn(s)'

\* A thread of the kernel moves, and may create an I/O thread.
LEMMA ClasesDeHilo ==
  ASSUME NEW h, \A k \in Hilos \ {h} : pc'[k] = pc[k],
         \A p \in Pids : \/ pcIO'[p] = pcIO[p]
                        \/ {pcIO[p], pcIO'[p]} \cap {"repone", "despierta"} = {}
  PROVE  ClasesAjenas({<<"mano", h>>})
<1> SUFFICES ASSUME NEW s \in Sitios, s # <<"mano", h>>
             PROVE  EstadosEn(s) \subseteq EstadosEn(s)'
  BY DEF ClasesAjenas
<1>1. CASE s \in {<<"cNEW", "-">>, <<"cREADY", "-">>, <<"cREADY_PLUS", "-">>, <<"cEXIT", "-">>}
  BY <1>1, Clases, ClasesDespues
<1>2. ASSUME NEW r \in Recursos, s = <<"cBloqueados", r>> PROVE EstadosEn(s) \subseteq EstadosEn(s)'
  BY <1>2, Clases, ClasesDespues
<1>3. ASSUME NEW p \in Pids, s = <<"lBlocked", p>> PROVE EstadosEn(s) \subseteq EstadosEn(s)'
  BY <1>3, Clases, ClasesDespues
<1>4. ASSUME NEW p \in Pids, s = <<"io", p>> PROVE EstadosEn(s) \subseteq EstadosEn(s)'
  <2>1. CASE pcIO'[p] = pcIO[p]
    <3>1. EstadosEn(<<"io", p>>)' = EstadosEn(<<"io", p>>)
      BY <2>1, Clases, ClasesDespues
    <3> QED  BY <1>4, <3>1
  <2>2. CASE pcIO[p] \notin {"repone", "despierta"} /\ pcIO'[p] \notin {"repone", "despierta"}
    <3>1. EstadosEn(<<"io", p>>)' = EstadosEn(<<"io", p>>)
      BY <2>2, Clases, ClasesDespues
    <3> QED  BY <1>4, <3>1
  <2> QED  BY <2>1, <2>2
<1>5. ASSUME NEW k \in Hilos, s = <<"mano", k>> PROVE EstadosEn(s) \subseteq EstadosEn(s)'
  <2>1. EstadosEnMano(k)' = EstadosEnMano(k)
    BY <1>5 DEF EstadosEnMano
  <2> QED  BY <1>5, <2>1, Clases, ClasesDespues
<1>6. ASSUME NEW k \in Hilos, s = <<"desbl", k>> PROVE EstadosEn(s) \subseteq EstadosEn(s)'
  BY <1>6, Clases, ClasesDespues
<1> QED  BY <1>1, <1>2, <1>3, <1>4, <1>5, <1>6, CadaSitio

\* An I/O thread moves.
LEMMA ClasesDeIO ==
  ASSUME NEW x, UNCHANGED pc, \A p \in Pids \ {x} : pcIO'[p] = pcIO[p]
  PROVE  ClasesAjenas({<<"io", x>>})
<1> SUFFICES ASSUME NEW s \in Sitios, s # <<"io", x>>
             PROVE  EstadosEn(s) \subseteq EstadosEn(s)'
  BY DEF ClasesAjenas
<1>1. CASE s \in {<<"cNEW", "-">>, <<"cREADY", "-">>, <<"cREADY_PLUS", "-">>, <<"cEXIT", "-">>}
  BY <1>1, Clases, ClasesDespues
<1>2. ASSUME NEW r \in Recursos, s = <<"cBloqueados", r>> PROVE EstadosEn(s) \subseteq EstadosEn(s)'
  BY <1>2, Clases, ClasesDespues
<1>3. ASSUME NEW p \in Pids, s = <<"lBlocked", p>> PROVE EstadosEn(s) \subseteq EstadosEn(s)'
  BY <1>3, Clases, ClasesDespues
<1>4. ASSUME NEW p \in Pids, s = <<"io", p>> PROVE EstadosEn(s) \subseteq EstadosEn(s)'
  BY <1>4, Clases, ClasesDespues
<1>5. ASSUME NEW k \in Hilos, s = <<"mano", k>> PROVE EstadosEn(s) \subseteq EstadosEn(s)'
  <2>1. EstadosEnMano(k)' = EstadosEnMano(k)
    BY DEF EstadosEnMano
  <2> QED  BY <1>5, <2>1, Clases, ClasesDespues
<1>6. ASSUME NEW k \in Hilos, s = <<"desbl", k>> PROVE EstadosEn(s) \subseteq EstadosEn(s)'
  BY <1>6, Clases, ClasesDespues
<1> QED  BY <1>1, <1>2, <1>3, <1>4, <1>5, <1>6, CadaSitio

\* The first of a place is nowhere else, and is alive.
LEMMA EnCabeza ==
  ASSUME ITipo, Ubicados, NEW a \in Sitios, NEW p \in Pids, En(a) # <<>>, p = Head(En(a))
  PROVE  /\ Vivo(p) /\ estado[p] \in EstadosEn(a)
         /\ \A t \in Sitios \ {a} : \A i \in DOMAIN En(t) : En(t)[i] # p
         /\ \A i \in DOMAIN En(a) : En(a)[i] = p => i = 1
<1>1. En(a) \in Seq(Pids)
  BY TipoDonde DEF Donde
<1>2. 1 \in DOMAIN En(a) /\ En(a)[1] = p
  BY <1>1
<1>3. estado[p] \in EstadosEn(a)
  BY <1>2 DEF Ubicados, EstadosSegunSitio
<1>4. Vivo(p)
  BY <1>3, ClasesVivas DEF Vivo
<1>5. \A t \in Sitios : Donde[t] = En(t)
  BY DEF Donde
<1>6. \A t \in Sitios : \A i \in DOMAIN En(t) : En(t)[i] = p => t = a /\ i = 1
  BY <1>2, <1>5 DEF Ubicados, Repartidos, SinRepetir, Donde
<1> QED  BY <1>3, <1>4, <1>6

\* What a variable holds is alive.
LEMMA EnVariable ==
  ASSUME ITipo, Ubicados, NEW v \in Sitios, NEW p \in Pids, En(v) = <<p>>
  PROVE  Vivo(p) /\ estado[p] \in EstadosEn(v)
<1>1. En(v) # <<>> /\ p = Head(En(v))
  OBVIOUS
<1> QED  BY <1>1, EnCabeza

\* The step changes the state of p only.
SoloCambia(p) == UNCHANGED idPCB /\ \A q \in Pids \ {p} : estado'[q] = estado[q]

\* If it keeps p alive it creates and frees nobody.
LEMMA MismosVivos ==
  ASSUME PorCrear, NEW p \in Pids, SoloCambia(p), Vivo(p), NEW s \in Sitios, estado'[p] \in EstadosEn(s)'
  PROVE  PorCrear' /\ \A q \in Pids : Vivo(q)' <=> Vivo(q)
<1>1. estado'[p] \notin {"SIN_CREAR", "LIBERADO"}
  BY ClasesVivasDespues
<1> QED  BY <1>1 DEF PorCrear, SoloCambia, Vivo

\* A step that changes no place and no state keeps every process where its state says.
LEMMA PasoQuieto ==
  ASSUME Ubicados, UNCHANGED <<idPCB, estado>>, \A s \in Sitios : En(s)' = En(s),
         NEW v, En(v) = <<>>, ClasesAjenas({v})
  PROVE  Ubicados'
<1>1. Donde' = Donde
  BY DEF Donde
<1>2. Repartidos' /\ PorCrear'
  BY <1>1 DEF Ubicados, Repartidos, PorCrear, Vivo
<1>3. ASSUME NEW s \in Sitios, NEW i \in DOMAIN En(s)' PROVE estado'[En(s)'[i]] \in EstadosEn(s)'
  <2>1. En(s)' = En(s) /\ s # v /\ i \in DOMAIN En(s)
    BY <1>3
  <2> QED  BY <2>1 DEF Ubicados, EstadosSegunSitio, ClasesAjenas
<1> QED  BY <1>2, <1>3 DEF Ubicados, EstadosSegunSitio

\* So does one that changes the state of what a variable holds to one it may have there.
LEMMA PasoMarca ==
  ASSUME ITipo, Ubicados, NEW v \in Sitios, NEW p \in Pids, En(v) = <<p>>,
         \A s \in Sitios : En(s)' = En(s), SoloCambia(p), estado'[p] \in EstadosEn(v)',
         ClasesAjenas({v})
  PROVE  Ubicados'
<1>0. En(v) # <<>> /\ p = Head(En(v))
  OBVIOUS
<1>1. Vivo(p) /\ \A t \in Sitios \ {v} : \A i \in DOMAIN En(t) : En(t)[i] # p
  BY <1>0, EnCabeza
<1>2. Donde' = Donde
  BY DEF Donde
<1>3. Repartidos' /\ PorCrear'
  BY <1>1, <1>2, MismosVivos DEF Ubicados, Repartidos
<1>4. Donde \in [Sitios -> Seq(Pids)] /\ \A s \in Sitios : Donde[s] = En(s)
  BY TipoDonde DEF Donde
<1>5. ASSUME NEW s \in Sitios, NEW i \in DOMAIN En(s)' PROVE estado'[En(s)'[i]] \in EstadosEn(s)'
  <2>1. CASE s = v
    <3>1. En(s)'[i] = p
      BY <1>5, <2>1
    <3> QED  BY <2>1, <3>1
  <2>2. CASE s # v
    <3>1. En(s)' = En(s) /\ i \in DOMAIN En(s) /\ En(s)[i] \in Pids \ {p}
      BY <1>1, <1>4, <1>5, <2>2
    <3>2. estado'[En(s)[i]] = estado[En(s)[i]] /\ estado[En(s)[i]] \in EstadosEn(s)
      BY <3>1 DEF SoloCambia, Ubicados, EstadosSegunSitio
    <3> QED  BY <2>2, <3>1, <3>2 DEF ClasesAjenas
  <2> QED  BY <2>1, <2>2
<1> QED  BY <1>3, <1>5 DEF Ubicados, EstadosSegunSitio

\* So does one that moves the head of a place to the end of another, where its new
\* state is one of those there.
LEMMA PasoMueve ==
  ASSUME ITipo, ITipo', Ubicados, NEW a \in Sitios, NEW b \in Sitios, a # b,
         NEW p \in Pids, En(a) # <<>>, p = Head(En(a)),
         En(a)' = Tail(En(a)), En(b)' = Append(En(b), p),
         \A s \in Sitios \ {a, b} : En(s)' = En(s),
         SoloCambia(p), estado'[p] \in EstadosEn(b)',
         NEW v, ClasesAjenas({v}), v = a => En(a)' = <<>>, v = b => En(b) = <<>>, v \in {a, b}
  PROVE  Ubicados'
<1>1. /\ Donde \in [Sitios -> Seq(Pids)] /\ Donde' \in [Sitios -> Seq(Pids)]
      /\ SinRepetir(Donde)
  BY TipoDonde, TipoDondeDespues DEF Ubicados, Repartidos
<1>2. \A s \in Sitios : Donde[s] = En(s) /\ (Donde')[s] = En(s)'
  BY DEF Donde
<1>3. /\ Donde[a] # <<>> /\ (Donde')[a] = Tail(Donde[a])
      /\ (Donde')[b] = Append(Donde[b], Head(Donde[a]))
      /\ \A s \in Sitios \ {a, b} : (Donde')[s] = Donde[s]
  BY <1>2
<1>4. SinRepetir(Donde') /\ \A q \in Pids : Presente(Donde', q) <=> Presente(Donde, q)
  BY <1>1, <1>3, Mueve
<1>5. /\ Vivo(p) /\ \A t \in Sitios \ {a} : \A i \in DOMAIN En(t) : En(t)[i] # p
      /\ \A i \in DOMAIN En(a) : En(a)[i] = p => i = 1
  BY EnCabeza
<1>6. Repartidos' /\ PorCrear'
  BY <1>4, <1>5, MismosVivos DEF Ubicados, Repartidos
<1>7. ASSUME NEW s \in Sitios, NEW j \in DOMAIN En(s), En(s)[j] # p, s # v
      PROVE  estado'[En(s)[j]] \in EstadosEn(s)'
  <2>1. En(s)[j] \in Pids
    BY <1>1, <1>2, <1>7
  <2> QED  BY <1>7, <2>1 DEF SoloCambia, ClasesAjenas, Ubicados, EstadosSegunSitio
<1>8. ASSUME NEW s \in Sitios, NEW i \in DOMAIN En(s)' PROVE estado'[En(s)'[i]] \in EstadosEn(s)'
  <2>1. CASE s = a
    <3>1. v # a
      BY <1>8, <2>1
    <3>2. i + 1 \in DOMAIN En(a) /\ i + 1 # 1 /\ En(a)'[i] = En(a)[i + 1]
      BY <1>1, <1>2, <1>8, <2>1, ElementosCola
    <3> QED  BY <1>5, <1>7, <2>1, <3>1, <3>2
  <2>2. CASE s = b
    <3>0. /\ DOMAIN En(b)' = 1..(Len(En(b)) + 1) /\ En(b)'[Len(En(b)) + 1] = p
          /\ Len(En(b)) \in Nat /\ DOMAIN En(b) = 1..Len(En(b))
          /\ \A k \in 1..Len(En(b)) : En(b)'[k] = En(b)[k]
      BY <1>1, <1>2, ElementosAgregado
    <3>1. CASE i = Len(En(b)) + 1
      BY <2>2, <3>0, <3>1
    <3>2. CASE i # Len(En(b)) + 1
      <4>1. i \in DOMAIN En(b) /\ En(b)'[i] = En(b)[i]
        BY <1>8, <2>2, <3>0, <3>2
      <4>2. En(b) # <<>>
        BY <4>1
      <4> QED  BY <1>5, <1>7, <2>2, <4>1, <4>2
    <3> QED  BY <3>1, <3>2
  <2>3. CASE s \notin {a, b}
    <3>1. En(s)' = En(s) /\ i \in DOMAIN En(s)
      BY <1>8, <2>3
    <3> QED  BY <1>5, <1>7, <2>3, <3>1
  <2> QED  BY <2>1, <2>2, <2>3
<1> QED  BY <1>6, <1>8 DEF Ubicados, EstadosSegunSitio

\* A step that creates x, at the end of a place that is for those of its state, keeps
\* every process where its state says too.
LEMMA PasoEntra ==
  ASSUME ITipo, ITipo', Ubicados, PorCrear', NEW b \in Sitios, NEW x \in Pids, ~Vivo(x),
         En(b)' = Append(En(b), x), \A s \in Sitios \ {b} : En(s)' = En(s),
         \A q \in Pids \ {x} : estado'[q] = estado[q], estado'[x] \in EstadosEn(b)',
         ClasesAjenas({})
  PROVE  Ubicados'
<1>0. \A q \in Pids : Vivo(q)' <=> Vivo(q) \/ q = x
  BY ClasesVivasDespues DEF Vivo
<1>1. Donde \in [Sitios -> Seq(Pids)] /\ Donde' \in [Sitios -> Seq(Pids)] /\ SinRepetir(Donde)
  BY TipoDonde, TipoDondeDespues DEF Ubicados, Repartidos
<1>2. \A s \in Sitios : Donde[s] = En(s) /\ (Donde')[s] = En(s)'
  BY DEF Donde
<1>3. (Donde')[b] = Append(Donde[b], x) /\ \A s \in Sitios \ {b} : (Donde')[s] = Donde[s]
  BY <1>2
<1>4. \A s \in Sitios : \A i \in DOMAIN Donde[s] : Donde[s][i] # x
  BY <1>1 DEF Ubicados, Repartidos, Presente
<1>5. SinRepetir(Donde') /\ \A q \in Pids : Presente(Donde', q) <=> Presente(Donde, q) \/ q = x
  <2> USE <1>1, <1>3
  <2>0. /\ Len(Donde[b]) \in Nat /\ DOMAIN Donde[b] = 1..Len(Donde[b])
        /\ DOMAIN (Donde')[b] = 1..(Len(Donde[b]) + 1) /\ (Donde')[b][Len(Donde[b]) + 1] = x
        /\ \A i \in 1..Len(Donde[b]) : (Donde')[b][i] = Donde[b][i]
    BY ElementosAgregado
  <2>1. ASSUME NEW s \in Sitios, NEW i \in DOMAIN (Donde')[s], (Donde')[s][i] # x
        PROVE  i \in DOMAIN Donde[s] /\ (Donde')[s][i] = Donde[s][i]
    <3>1. CASE s = b
      BY <2>0, <2>1, <3>1
    <3>2. CASE s # b
      BY <2>1, <3>2
    <3> QED  BY <3>1, <3>2
  <2>2. ASSUME NEW s \in Sitios, NEW i \in DOMAIN (Donde')[s], (Donde')[s][i] = x
        PROVE  s = b /\ i = Len(Donde[b]) + 1
    <3>1. \A t \in Sitios : \A k \in DOMAIN Donde[t] : Donde[t][k] # x
      BY <1>4
    <3>2. CASE s = b
      BY <2>0, <2>2, <3>1, <3>2
    <3>3. CASE s # b
      BY <2>2, <3>1, <3>3
    <3> QED  BY <3>2, <3>3
  <2>3. SinRepetir(Donde')
    <3> SUFFICES ASSUME NEW s \in Sitios, NEW t \in Sitios, NEW i \in DOMAIN (Donde')[s],
                        NEW j \in DOMAIN (Donde')[t], (Donde')[s][i] = (Donde')[t][j]
                 PROVE  s = t /\ i = j
      BY DEF SinRepetir
    <3> QED  BY <2>1, <2>2 DEF SinRepetir
  <2>4. ASSUME NEW p \in Pids, Presente(Donde', p), p # x PROVE Presente(Donde, p)
    BY <2>1, <2>4 DEF Presente
  <2>5. ASSUME NEW s \in Sitios
        PROVE  \A i \in DOMAIN Donde[s] : i \in DOMAIN (Donde')[s] /\ (Donde')[s][i] = Donde[s][i]
    <3>1. CASE s = b
      BY <2>0, <3>1
    <3>2. CASE s # b
      BY <3>2
    <3> QED  BY <3>1, <3>2
  <2>6. Len(Donde[b]) + 1 \in DOMAIN (Donde')[b] /\ (Donde')[b][Len(Donde[b]) + 1] = x
    BY <2>0
  <2> QED  BY <2>3, <2>4, <2>5, <2>6 DEF Presente
<1>6. ASSUME NEW s \in Sitios, NEW i \in DOMAIN En(s), i \in DOMAIN En(s)', En(s)'[i] = En(s)[i]
      PROVE  estado'[En(s)'[i]] \in EstadosEn(s)'
  <2>1. En(s)[i] \in Pids \ {x}
    BY <1>1, <1>2, <1>4, <1>6
  <2> QED  BY <1>6, <2>1 DEF ClasesAjenas, Ubicados, EstadosSegunSitio
<1>7. ASSUME NEW s \in Sitios, NEW i \in DOMAIN En(s)' PROVE estado'[En(s)'[i]] \in EstadosEn(s)'
  <2>1. CASE s # b
    BY <1>6, <1>7, <2>1
  <2>2. CASE s = b
    <3>1. /\ DOMAIN En(b) = 1..Len(En(b)) /\ DOMAIN En(b)' = 1..(Len(En(b)) + 1)
          /\ Len(En(b)) \in Nat /\ En(b)'[Len(En(b)) + 1] = x
          /\ \A k \in 1..Len(En(b)) : En(b)'[k] = En(b)[k]
      BY <1>1, <1>2, ElementosAgregado
    <3>2. CASE i = Len(En(b)) + 1
      BY <2>2, <3>1, <3>2
    <3>3. CASE i # Len(En(b)) + 1
      <4>1. i \in DOMAIN En(b) /\ En(b)'[i] = En(b)[i]
        BY <1>7, <2>2, <3>1, <3>3
      <4> QED  BY <1>6, <1>7, <2>2, <4>1
    <3> QED  BY <3>2, <3>3
  <2> QED  BY <2>1, <2>2
<1>8. Repartidos'
  BY <1>0, <1>5 DEF Ubicados, Repartidos
<1> QED  BY <1>7, <1>8 DEF Ubicados, EstadosSegunSitio

\* So does the one that frees what a variable holds, and forgets it.
LEMMA PasoSale ==
  ASSUME ITipo, ITipo', Ubicados, NEW v \in Sitios, NEW p \in Pids,
         En(v) = <<p>>, En(v)' = <<>>, \A s \in Sitios \ {v} : En(s)' = En(s),
         estado' = [estado EXCEPT ![p] = "LIBERADO"], estado \in [Pids -> Estados],
         UNCHANGED idPCB, ClasesAjenas({v})
  PROVE  Ubicados'
<1>1. /\ Donde \in [Sitios -> Seq(Pids)] /\ Donde' \in [Sitios -> Seq(Pids)]
      /\ SinRepetir(Donde) /\ \A s \in Sitios : Donde[s] = En(s) /\ (Donde')[s] = En(s)'
  BY TipoDonde, TipoDondeDespues DEF Ubicados, Repartidos, Donde
<1>2. En(v) # <<>> /\ p = Head(En(v)) /\ En(v)' = Tail(En(v))
  OBVIOUS
<1>3. Vivo(p) /\ \A t \in Sitios \ {v} : \A i \in DOMAIN En(t) : En(t)[i] # p
  BY <1>2, EnCabeza
<1>4. PorCrear' /\ \A q \in Pids : Vivo(q)' <=> Vivo(q) /\ q # p
  BY <1>3 DEF Ubicados, PorCrear, Vivo
<1>5. /\ Donde[v] # <<>> /\ Head(Donde[v]) = p /\ (Donde')[v] = Tail(Donde[v])
      /\ \A s \in Sitios \ {v} : (Donde')[s] = Donde[s]
  BY <1>1, <1>2
<1>6. /\ SinRepetir(Donde')
      /\ \A q \in Pids : Presente(Donde', q) <=> Presente(Donde, q) /\ q # Head(Donde[v])
  BY <1>1, <1>5, Sale
<1>7. Repartidos'
  BY <1>4, <1>5, <1>6 DEF Ubicados, Repartidos
<1>8. ASSUME NEW s \in Sitios, NEW i \in DOMAIN En(s)' PROVE estado'[En(s)'[i]] \in EstadosEn(s)'
  <2>1. s # v
    BY <1>8
  <2>2. En(s)' = En(s) /\ i \in DOMAIN En(s) /\ En(s)[i] \in Pids \ {p}
    BY <1>1, <1>3, <1>8, <2>1
  <2>3. estado'[En(s)[i]] = estado[En(s)[i]] /\ estado[En(s)[i]] \in EstadosEn(s)
    BY <2>2 DEF Ubicados, EstadosSegunSitio
  <2> QED  BY <2>1, <2>2, <2>3 DEF ClasesAjenas
<1> QED  BY <1>4, <1>7, <1>8 DEF Ubicados, EstadosSegunSitio

\* The three ways in which the code moves a process: a variable takes the head of a
\* queue...
LEMMA Toma ==
  ASSUME ITipo, ITipo', Ubicados, NEW a \in Sitios, NEW v \in Sitios, a # v,
         NEW p \in Pids, SoloCambia(p), Ajenos({a, v}), ClasesAjenas({v}),
         En(a) # <<>>, p = Head(En(a)), En(a)' = Tail(En(a)),
         En(v) = <<>>, En(v)' = <<p>>, estado'[p] \in EstadosEn(v)'
  PROVE  Ubicados'
<1>1. En(v)' = Append(En(v), p)
  OBVIOUS
<1>2. \A s \in Sitios \ {a, v} : En(s)' = En(s)
  BY Marco
<1> QED  BY <1>1, <1>2, PasoMueve

\* ...what a variable holds goes to the end of a queue...
LEMMA Deja ==
  ASSUME ITipo, ITipo', Ubicados, NEW v \in Sitios, NEW b \in Sitios, v # b,
         NEW p \in Pids, SoloCambia(p), Ajenos({v, b}), ClasesAjenas({v}),
         En(v) = <<p>>, En(v)' = <<>>, En(b)' = Append(En(b), p), estado'[p] \in EstadosEn(b)'
  PROVE  Ubicados'
<1>1. En(v) # <<>> /\ p = Head(En(v)) /\ En(v)' = Tail(En(v))
  OBVIOUS
<1>2. \A s \in Sitios \ {v, b} : En(s)' = En(s)
  BY Marco
<1> QED  BY <1>1, <1>2, PasoMueve

\* ...or to another variable.
LEMMA Pasa ==
  ASSUME ITipo, ITipo', Ubicados, NEW v \in Sitios, NEW w \in Sitios, v # w,
         NEW p \in Pids, SoloCambia(p), Ajenos({v, w}),
         NEW x \in {v, w}, ClasesAjenas({x}),
         En(v) = <<p>>, En(v)' = <<>>, En(w) = <<>>, En(w)' = <<p>>, estado'[p] \in EstadosEn(w)'
  PROVE  Ubicados'
<1>1. En(v) # <<>> /\ p = Head(En(v)) /\ En(v)' = Tail(En(v)) /\ En(w)' = Append(En(w), p)
  OBVIOUS
<1>2. \A s \in Sitios \ {v, w} : En(s)' = En(s)
  BY Marco
<1> QED  BY <1>1, <1>2, PasoMueve

\* What a variable holds enters a ready queue.
LEMMA DejaListo ==
  ASSUME ITipo, ITipo', Ubicados, UNCHANGED procesos, NEW v \in Sitios, NEW p \in Pids,
         AReady(p) \/ APlus(p), v \notin {<<"cREADY", "-">>, <<"cREADY_PLUS", "-">>},
         Ajenos({v, <<"cREADY", "-">>, <<"cREADY_PLUS", "-">>}), ClasesAjenas({v}),
         En(v) = <<p>>, En(v)' = <<>>, estado[p] \in {"READY", "READY_PLUS", "RUNNING"}
  PROVE  Ubicados'
<1>0. SoloCambia(p) /\ estado'[p] \in {"READY", "READY_PLUS", "RUNNING"}
  BY DEF SoloCambia, procesos
<1>1. CASE AReady(p)
  <2> DEFINE b == <<"cREADY", "-">>
  <2>1. Ajenos({v, b})
    BY <1>1 DEF Ajenos, AReady
  <2>2. b \in Sitios /\ En(b)' = Append(En(b), p) /\ estado'[p] \in EstadosEn(b)'
    BY <1>0, <1>1, Contenido, ContenidoDespues, ClasesDespues DEF Sitios, AReady
  <2> QED  BY <1>0, <2>1, <2>2, Deja
<1>2. CASE APlus(p)
  <2> DEFINE b == <<"cREADY_PLUS", "-">>
  <2>1. Ajenos({v, b})
    BY <1>2 DEF Ajenos, APlus
  <2>2. b \in Sitios /\ En(b)' = Append(En(b), p) /\ estado'[p] \in EstadosEn(b)'
    BY <1>0, <1>2, Contenido, ContenidoDespues, ClasesDespues DEF Sitios, APlus
  <2> QED  BY <1>0, <2>1, <2>2, Deja
<1> QED  BY <1>1, <1>2

-----------------------------------------------------------------------------
(***************************************************************************)
(* The threads                                                             *)
(***************************************************************************)

\* Every step of the long-term scheduler keeps the processes where they should be.
LEMMA LugaresPLP ==
  ASSUME Supuestos, ITipo, ITipo', ILugares, PLP, UNCHANGED <<ioVars, consolaVars>>
  PROVE  Ubicados'
<1> USE DEF ILugares
<1> DEFINE v == <<"mano", "plp">>
<1>1. /\ pc \in [Hilos -> Lugares] /\ mano \in [Hilos -> Pids \cup {Nadie}]
      /\ estado \in [Pids -> Estados] /\ cNEW \in Seq(Pids) /\ cREADY \in Seq(Pids)
      /\ cEXIT \in Seq(Pids) /\ LocalesEnUso /\ ManosLibres
      /\ "plp" \in Hilos /\ UNCHANGED pcIO
  BY DEF ITipo, TypeOK, PlanificacionTypeOK, LocalesTypeOK, ProcesosTypeOK, ColasTypeOK,
     Hilos, ioVars
<1>2. /\ ConAlguien("plp") <=> mano["plp"] # Nadie
      /\ ConAlguien("plp")' <=> mano'["plp"] # Nadie
      /\ Nadie \notin Pids
  BY DEF ITipo, Recorridos, ConAlguien, Nadie, Pids
<1>3. /\ v \in Sitios
      /\ mano["plp"] # Nadie => En(v) = <<mano["plp"]>>
      /\ mano["plp"] = Nadie => En(v) = <<>>
      /\ mano'["plp"] # Nadie => En(v)' = <<mano'["plp"]>>
      /\ mano'["plp"] = Nadie => En(v)' = <<>>
  BY <1>1, <1>2, Contenido, ContenidoDespues DEF Sitios, Si
<1>4. EstadosEn(v) = EstadosEnMano("plp") /\ EstadosEn(v)' = EstadosEnMano("plp")'
  BY Clases, ClasesDespues
<1>5. ClasesAjenas({v})
  <2>1. \A k \in Hilos \ {"plp"} : pc'[k] = pc[k]
    BY <1>1 DEF PLP, EsperaNuevo, TomaNuevo, Admite, Rechaza, AdmiteNadie, EsperaCupo,
       IngresaReady, IngresaReadyPerdido, TerminaMatadero, Caer, IrSoltando, Ir, locales
  <2> QED  BY <1>1, <2>1, ClasesDeHilo
<1>6. CASE EsperaNuevo \/ AdmiteNadie \/ (TomaNuevo /\ cNEW = <<>>)
  <2>1. UNCHANGED <<idPCB, estado>> /\ mano["plp"] = Nadie
    BY <1>1, <1>6 DEF EsperaNuevo, TomaNuevo, AdmiteNadie, Caer, procesos, ManosLibres
  <2>2. Ajenos({})
    BY <1>1, <1>2, <1>6, <2>1 DEF EsperaNuevo, TomaNuevo, NuevosQueQuedan, AdmiteNadie, Caer, Ir,
       procesos, colas, recursosVars, locales, Ajenos, ConAlguien
  <2> QED  BY <1>3, <1>5, <2>1, <2>2, Marco, PasoQuieto
<1>7. CASE Admite \/ Rechaza
  <2>1. PICK p \in Pids : p = mano["plp"] /\ En(v) = <<p>>
    BY <1>1, <1>2, <1>3, <1>7, LargoPlazoAssumption DEF Admite, Rechaza
  <2>2. SoloCambia(p) /\ estado'[p] \in EstadosEn(v)'
    <3>1. CASE Admite
      BY <1>1, <1>4, <2>1, <3>1 DEF Admite, Ir, SoloCambia, EstadosEnMano
    <3>2. CASE Rechaza
      BY <1>1, <1>4, <2>1, <3>2 DEF Rechaza, Ir, SoloCambia, EstadosEnMano
    <3> QED  BY <1>7, <3>1, <3>2
  <2>3. Ajenos({})
    BY <1>1, <1>2, <1>7 DEF Admite, Rechaza, Ir, colas, recursosVars, Ajenos, ConAlguien
  <2> QED  BY <1>3, <1>5, <2>1, <2>2, <2>3, Marco, PasoMarca
<1>8. CASE TomaNuevo /\ cNEW # <<>>
  <2> DEFINE a == <<"cNEW", "-">>
  <2>1. PICK p \in Pids : p = Head(cNEW)
    BY <1>1, <1>8, Cola
  <2>2. a \in Sitios /\ a # v /\ En(a) = cNEW /\ En(a)' = Tail(cNEW) /\ EstadosEn(a) = {"NEW"}
    BY <1>8, Contenido, ContenidoDespues, Clases DEF Sitios, TomaNuevo, NuevosQueQuedan
  <2>3. estado[p] = "NEW"
    BY <1>8, <2>1, <2>2, EnCabeza
  <2>4. SoloCambia(p) /\ estado'[p] \in EstadosEn(v)'
    BY <1>1, <1>4, <1>8, <2>3 DEF TomaNuevo, Ir, procesos, SoloCambia, EstadosEnMano
  <2>5. Ajenos({a, v})
    BY <1>1, <1>2, <1>8 DEF TomaNuevo, Ir, recursosVars, Ajenos, ConAlguien
  <2>6. En(v) = <<>> /\ En(v)' = <<p>>
    BY <1>1, <1>2, <1>3, <1>8, <2>1 DEF TomaNuevo, ManosLibres
  <2> QED  BY <1>3, <1>5, <1>8, <2>1, <2>2, <2>4, <2>5, <2>6, Toma
<1>9. CASE IngresaReady
  <2> DEFINE b == <<"cREADY", "-">>
  <2>1. PICK p \in Pids : p = mano["plp"] /\ En(v) = <<p>>
    BY <1>1, <1>2, <1>3, <1>9 DEF IngresaReady, LocalesEnUso
  <2>2. b \in Sitios /\ b # v /\ En(b)' = Append(En(b), p)
    BY <1>9, <2>1, Contenido, ContenidoDespues DEF Sitios, IngresaReady, AReady
  <2>3. SoloCambia(p) /\ estado'[p] \in EstadosEn(b)'
    <3>1. estado[p] \in EstadosEn(v)
      BY <1>3, <2>1, EnVariable
    <3>2. estado[p] = "READY"
      BY <1>4, <1>9, <3>1 DEF IngresaReady, EstadosEnMano
    <3> QED  BY <1>9, <3>2, ClasesDespues DEF IngresaReady, procesos, SoloCambia
  <2>4. Ajenos({v, b})
    BY <1>1, <1>2, <1>9 DEF IngresaReady, AReady, IrSoltando, Ir, recursosVars, Ajenos, ConAlguien
  <2>5. En(v)' = <<>>
    BY <1>1, <1>3, <1>9 DEF IngresaReady, IrSoltando
  <2> QED  BY <1>3, <1>5, <2>1, <2>2, <2>3, <2>4, <2>5, Deja
<1>10. CASE TerminaMatadero("plp")
  <2> DEFINE b == <<"cEXIT", "-">>
  <2>1. PICK p \in Pids : p = mano["plp"] /\ En(v) = <<p>>
    BY <1>1, <1>2, <1>3, <1>10 DEF TerminaMatadero, LocalesEnUso
  <2>2. b \in Sitios /\ b # v /\ En(b)' = Append(En(b), p)
    BY <1>10, <2>1, Contenido, ContenidoDespues DEF Sitios, TerminaMatadero, EncolarExit
  <2>3. SoloCambia(p) /\ estado'[p] \in EstadosEn(b)'
    <3>1. estado[p] \in EstadosEn(v)
      BY <1>3, <2>1, EnVariable
    <3>2. estado[p] = "FINISHED"
      BY <1>4, <1>10, <3>1 DEF TerminaMatadero, EstadosEnMano
    <3> QED  BY <1>10, <3>2, ClasesDespues DEF TerminaMatadero, procesos, SoloCambia
  <2>4. Ajenos({v, b})
    BY <1>1, <1>2, <1>10 DEF TerminaMatadero, IrSoltando, Ir, recursosVars, Ajenos, ConAlguien
  <2>5. En(v)' = <<>>
    BY <1>1, <1>3, <1>10 DEF TerminaMatadero, IrSoltando
  <2> QED  BY <1>3, <1>5, <2>1, <2>2, <2>3, <2>4, <2>5, Deja
<1> QED  BY <1>6, <1>7, <1>8, <1>9, <1>10 DEF PLP, IngresaReadyPerdido, Supuestos

\* The carnicero has only dead processes in hand...
LEMMA ClaseDelCarnicero == ITipo => EstadosEn(<<"mano", "carnicero">>) = {"FINISHED"}
  BY Clases DEF ITipo, Recorridos, EstadosEnMano

\* ...and after the step.
LEMMA ClaseDelCarniceroDespues == (ITipo => EstadosEn(<<"mano", "carnicero">>) = {"FINISHED"})'
  BY ClaseDelCarnicero, PTL

\* So does every step of liberar_recurso.
LEMMA LugaresLiberarRecurso ==
  ASSUME ITipo, ITipo', ILugares, NEW h \in {"pcp", "carnicero"}, LiberarRecurso(h),
         UNCHANGED <<ioVars, consolaVars>>
  PROVE  Ubicados'
<1> USE DEF ILugares
<1> DEFINE v == <<"desbl", h>>
<1>1. /\ pc \in [Hilos -> Lugares] /\ mano \in [Hilos -> Pids \cup {Nadie}]
      /\ desbl \in [Hilos -> Pids \cup {Nadie}]
      /\ estado \in [Pids -> Estados] /\ cBloqueados \in [Recursos -> Seq(Pids)]
      /\ LocalesEnUso /\ ManosLibres /\ h \in Hilos /\ UNCHANGED pcIO
  BY DEF ITipo, TypeOK, PlanificacionTypeOK, LocalesTypeOK, ProcesosTypeOK, RecursosTypeOK,
     Hilos, ioVars
<1>0. Nadie \notin Pids
  BY DEF Nadie, Pids
<1>2. /\ v \in Sitios
      /\ desbl[h] # Nadie => En(v) = <<desbl[h]>>
      /\ desbl[h] = Nadie => En(v) = <<>>
      /\ desbl'[h] # Nadie => En(v)' = <<desbl'[h]>>
      /\ desbl'[h] = Nadie => En(v)' = <<>>
      /\ EstadosEn(v) = {"READY", "READY_PLUS"} /\ EstadosEn(v)' = {"READY", "READY_PLUS"}
  BY <1>1, Contenido, ContenidoDespues, Clases, ClasesDespues DEF Sitios, Si
<1>3. ClasesAjenas({v})
  <2>1. \A k \in Hilos \ {h} : pc'[k] = pc[k]
    BY <1>1 DEF LiberarRecurso, LiberaInstancia, MiraBloqueados, SacaBloqueado, SacaNadie,
       DespiertaBloqueado, Caer, Ir, locales
  <2>2. ClasesAjenas({<<"mano", h>>})
    BY <1>1, <2>1, ClasesDeHilo
  <2>3. CASE h = "carnicero"
    <3>1. EstadosEn(<<"mano", "carnicero">>) \subseteq EstadosEn(<<"mano", "carnicero">>)'
      BY ClaseDelCarnicero, ClaseDelCarniceroDespues
    <3> QED  BY <2>2, <2>3, <3>1 DEF ClasesAjenas
  <2>4. CASE h = "pcp"
    <3>1. pc["pcp"] \in {"libera", "mira", "saca", "despierta"}
      BY <2>4 DEF LiberarRecurso, LiberaInstancia, MiraBloqueados, SacaBloqueado, SacaNadie,
         DespiertaBloqueado
    <3>2. pc'["pcp"] \in {"libera", "mira", "saca", "despierta", "a_plus", "a_ready"}
      BY <1>1, <2>4, <3>1 DEF LiberarRecurso, LiberaInstancia, MiraBloqueados, SacaBloqueado,
         SacaNadie, DespiertaBloqueado, TrasLiberar, Caer, Ir, locales
    <3>3. EstadosEnMano("pcp") = {"RUNNING"} /\ "RUNNING" \in EstadosEnMano("pcp")'
      BY <3>1, <3>2 DEF EstadosEnMano
    <3>4. EstadosEn(<<"mano", "pcp">>) \subseteq EstadosEn(<<"mano", "pcp">>)'
      BY <3>3, Clases, ClasesDespues
    <3> QED  BY <2>2, <2>4, <3>4 DEF ClasesAjenas
  <2> QED  BY <2>3, <2>4
<1>4. CASE LiberaInstancia(h) \/ MiraBloqueados(h) \/ SacaNadie(h)
  <2>1. UNCHANGED <<idPCB, estado>>
    BY <1>4 DEF LiberaInstancia, MiraBloqueados, SacaNadie, Caer, procesos
  <2>2. Ajenos({})
    BY <1>1, <1>4 DEF LiberaInstancia, MiraBloqueados, SacaNadie, Caer, TrasLiberar, Ir, colas,
       recursosVars, locales, Ajenos, ConAlguien
  <2>3. En(v) = <<>>
    BY <1>1, <1>2, <1>4 DEF LiberaInstancia, MiraBloqueados, SacaNadie, ManosLibres
  <2> QED  BY <1>3, <2>1, <2>2, <2>3, Marco, PasoQuieto
<1>5. CASE SacaBloqueado(h)
  <2>0. PICK r \in Recursos : r = rec[h]
    BY <1>1, <1>5 DEF SacaBloqueado, LocalesEnUso
  <2>1. cBloqueados[r] # <<>> /\ cBloqueados[r] \in Seq(Pids)
    BY <1>1, <1>5, <2>0 DEF SacaBloqueado
  <2>2. PICK p \in Pids : p = Head(cBloqueados[r])
    BY <2>1, Cola
  <2> DEFINE a == <<"cBloqueados", r>>
  <2>3. a \in Sitios /\ a # v /\ En(a) = cBloqueados[r] /\ En(a)' = Tail(cBloqueados[r])
    BY <1>1, <1>5, <2>0, Contenido, ContenidoDespues DEF Sitios, SacaBloqueado
  <2>4. SoloCambia(p) /\ estado'[p] \in EstadosEn(v)'
    BY <1>1, <1>2, <1>5, <2>0, <2>2 DEF SacaBloqueado, EstadoAlDespertar, SoloCambia
  <2>5. Ajenos({a, v})
    BY <1>1, <1>5, <2>0 DEF SacaBloqueado, Ir, colas, Ajenos, ConAlguien
  <2>6. desbl[h] = Nadie /\ desbl'[h] = p
    BY <1>1, <1>5, <2>0, <2>2 DEF SacaBloqueado, ManosLibres
  <2>7. En(v) = <<>> /\ En(v)' = <<p>>
    BY <1>0, <1>2, <2>6
  <2> QED  BY <1>2, <1>3, <2>1, <2>2, <2>3, <2>4, <2>5, <2>7, Toma
<1>6. CASE DespiertaBloqueado(h)
  <2>1. PICK p \in Pids : p = desbl[h] /\ En(v) = <<p>>
    BY <1>0, <1>1, <1>2, <1>6 DEF DespiertaBloqueado, LocalesEnUso
  <2>2. UNCHANGED procesos /\ (AReady(p) \/ APlus(p))
    BY <1>6, <2>1 DEF DespiertaBloqueado, Despertar
  <2>3. Ajenos({v, <<"cREADY", "-">>, <<"cREADY_PLUS", "-">>})
    BY <1>1, <1>6 DEF DespiertaBloqueado, TrasLiberar, Ir, recursosVars, Ajenos, ConAlguien
  <2>4. En(v)' = <<>>
    BY <1>1, <1>2, <1>6 DEF DespiertaBloqueado
  <2>5. v \notin {<<"cREADY", "-">>, <<"cREADY_PLUS", "-">>}
    OBVIOUS
  <2>6. estado[p] \in {"READY", "READY_PLUS", "RUNNING"}
    BY <1>2, <2>1, EnVariable
  <2> QED  BY <1>2, <1>3, <2>1, <2>2, <2>3, <2>4, <2>5, <2>6, DejaListo
<1> QED  BY <1>4, <1>5, <1>6 DEF LiberarRecurso

\* So does every step of the carnicero; the process it frees leaves the places.
LEMMA LugaresCarnicero ==
  ASSUME ITipo, ITipo', ILugares, Carnicero, UNCHANGED <<ioVars, consolaVars>>
  PROVE  Ubicados'
<1> USE DEF ILugares
<1> DEFINE v == <<"mano", "carnicero">>
<1>1. /\ pc \in [Hilos -> Lugares] /\ mano \in [Hilos -> Pids \cup {Nadie}]
      /\ estado \in [Pids -> Estados] /\ cEXIT \in Seq(Pids)
      /\ LocalesEnUso /\ ManosLibres /\ "carnicero" \in Hilos /\ UNCHANGED pcIO
      /\ Nadie \notin Pids
  BY DEF ITipo, TypeOK, PlanificacionTypeOK, LocalesTypeOK, ProcesosTypeOK, ColasTypeOK,
     Hilos, ioVars, Nadie, Pids
<1>2. /\ ConAlguien("carnicero") <=> mano["carnicero"] # Nadie
      /\ ConAlguien("carnicero")' <=> mano'["carnicero"] # Nadie
  BY DEF ITipo, Recorridos, ConAlguien
<1>3. /\ v \in Sitios
      /\ mano["carnicero"] # Nadie => En(v) = <<mano["carnicero"]>>
      /\ mano["carnicero"] = Nadie => En(v) = <<>>
      /\ mano'["carnicero"] # Nadie => En(v)' = <<mano'["carnicero"]>>
      /\ mano'["carnicero"] = Nadie => En(v)' = <<>>
  BY <1>1, <1>2, Contenido, ContenidoDespues DEF Sitios, Si
<1>4. EstadosEn(v) = {"FINISHED"} /\ EstadosEn(v)' = {"FINISHED"}
  BY ClaseDelCarnicero, ClaseDelCarniceroDespues
<1>5. ASSUME ~LiberarRecurso("carnicero") PROVE ClasesAjenas({v})
  <2>1. \A k \in Hilos \ {"carnicero"} : pc'[k] = pc[k]
    BY <1>1, <1>5 DEF Carnicero, EsperaFinalizado, TomaFinalizado, SueltaRecurso, LiberaProceso,
       IrSoltando, Ir
  <2> QED  BY <1>1, <2>1, ClasesDeHilo
<1>6. CASE EsperaFinalizado /\ ~LiberarRecurso("carnicero")
  <2>1. UNCHANGED <<idPCB, estado>> /\ En(v) = <<>>
    BY <1>3, <1>1, <1>6 DEF EsperaFinalizado, procesos, ManosLibres
  <2>2. Ajenos({})
    BY <1>1, <1>2, <1>6 DEF EsperaFinalizado, Ir, colas, recursosVars, Ajenos, ConAlguien
  <2> QED  BY <1>5, <1>6, <2>1, <2>2, Marco, PasoQuieto
<1>7. CASE SueltaRecurso /\ ~LiberarRecurso("carnicero")
  <2>1. PICK p \in Pids : p = mano["carnicero"] /\ En(v) = <<p>>
    BY <1>1, <1>3, <1>7 DEF SueltaRecurso, LocalesEnUso
  <2>2. SoloCambia(p) /\ estado'[p] \in EstadosEn(v)'
    <3>1. estado[p] \in EstadosEn(v)
      BY <1>3, <2>1, EnVariable
    <3> QED  BY <1>4, <1>7, <3>1 DEF SueltaRecurso, SoloCambia
  <2>3. Ajenos({})
    BY <1>1, <1>2, <1>7 DEF SueltaRecurso, Ir, colas, recursosVars, Ajenos, ConAlguien
  <2> QED  BY <1>3, <1>5, <1>7, <2>1, <2>2, <2>3, Marco, PasoMarca
<1>8. CASE TomaFinalizado /\ ~LiberarRecurso("carnicero")
  <2> DEFINE a == <<"cEXIT", "-">>
  <2>1. cEXIT # <<>>
    BY <1>1, <1>8 DEF TomaFinalizado, ITipo, TokensEXIT, TypeOK, PlanificacionTypeOK,
       SemaforosTypeOK
  <2>2. PICK p \in Pids : p = Head(cEXIT)
    BY <1>1, <2>1, Cola
  <2>3. a \in Sitios /\ a # v /\ En(a) = cEXIT /\ En(a)' = Tail(cEXIT)
        /\ EstadosEn(a) = {"FINISHED"}
    BY <1>8, Contenido, ContenidoDespues, Clases DEF Sitios, TomaFinalizado
  <2>4. SoloCambia(p) /\ estado'[p] \in EstadosEn(v)'
    <3>1. estado[p] \in EstadosEn(a)
      BY <2>1, <2>2, <2>3, EnCabeza
    <3> QED  BY <1>4, <1>8, <2>3, <3>1 DEF TomaFinalizado, procesos, SoloCambia
  <2>5. Ajenos({a, v})
    BY <1>1, <1>2, <1>8 DEF TomaFinalizado, Ir, recursosVars, Ajenos, ConAlguien
  <2>6. En(v) = <<>> /\ En(v)' = <<p>>
    BY <1>1, <1>2, <1>3, <1>8, <2>2 DEF TomaFinalizado, ManosLibres
  <2> QED  BY <1>3, <1>5, <1>8, <2>1, <2>2, <2>3, <2>4, <2>5, <2>6, Toma
<1>9. CASE LiberaProceso /\ ~LiberarRecurso("carnicero")
  <2>1. PICK p \in Pids : p = mano["carnicero"] /\ En(v) = <<p>>
    BY <1>1, <1>3, <1>9 DEF LiberaProceso, LocalesEnUso
  <2>2. En(v)' = <<>>
    BY <1>1, <1>3, <1>9 DEF LiberaProceso, IrSoltando
  <2>3. \A s \in Sitios \ {v} : En(s)' = En(s)
    <3>1. Ajenos({v})
      BY <1>1, <1>2, <1>9 DEF LiberaProceso, IrSoltando, Ir, colas, recursosVars, Ajenos,
         ConAlguien
    <3> QED  BY <3>1, Marco
  <2>4. estado' = [estado EXCEPT ![p] = "LIBERADO"] /\ UNCHANGED idPCB
    BY <1>9, <2>1 DEF LiberaProceso
  <2>5. ClasesAjenas({v})
    BY <1>5, <1>9
  <2> QED  BY <1>1, <1>3, <2>1, <2>2, <2>3, <2>4, <2>5, PasoSale
<1>10. CASE LiberarRecurso("carnicero")
  BY <1>10, LugaresLiberarRecurso
<1> QED  BY <1>6, <1>7, <1>8, <1>9, <1>10 DEF Carnicero

\* A process is at one place only.
LEMMA UnSitio ==
  ASSUME Ubicados, NEW s \in Sitios, NEW t \in Sitios, NEW p, En(s) = <<p>>, En(t) = <<p>>
  PROVE  s = t
<1>1. Donde[s] = <<p>> /\ Donde[t] = <<p>>
  BY DEF Donde
<1>2. 1 \in DOMAIN Donde[s] /\ 1 \in DOMAIN Donde[t] /\ Donde[s][1] = Donde[t][1]
  BY <1>1
<1> QED  BY <1>2 DEF Ubicados, Repartidos, SinRepetir, Donde

\* So does every step of the short-term scheduler.
LEMMA LugaresPCP ==
  ASSUME Supuestos, ITipo, ITipo', ILugares, PCP, UNCHANGED consolaVars
  PROVE  Ubicados'
<1> USE DEF ILugares
<1> DEFINE v == <<"mano", "pcp">>
<1>1. /\ pc \in [Hilos -> Lugares] /\ mano \in [Hilos -> Pids \cup {Nadie}]
      /\ estado \in [Pids -> Estados] /\ cREADY \in Seq(Pids) /\ cREADY_PLUS \in Seq(Pids)
      /\ cEXIT \in Seq(Pids) /\ cBloqueados \in [Recursos -> Seq(Pids)]
      /\ LocalesEnUso /\ ManosLibres /\ "pcp" \in Hilos
  BY DEF ITipo, TypeOK, PlanificacionTypeOK, LocalesTypeOK, ProcesosTypeOK, ColasTypeOK,
     RecursosTypeOK, Hilos
<1>0. Nadie \notin Pids
  BY DEF Nadie, Pids
<1>2. /\ ConAlguien("pcp") <=> mano["pcp"] # Nadie /\ pc["pcp"] # "io_cede"
      /\ ConAlguien("pcp")' <=> mano'["pcp"] # Nadie /\ pc'["pcp"] # "io_cede"
  BY DEF ConAlguien
<1>3. /\ v \in Sitios
      /\ mano["pcp"] # Nadie /\ pc["pcp"] # "io_cede" => En(v) = <<mano["pcp"]>>
      /\ mano["pcp"] = Nadie \/ pc["pcp"] = "io_cede" => En(v) = <<>>
      /\ mano'["pcp"] # Nadie /\ pc'["pcp"] # "io_cede" => En(v)' = <<mano'["pcp"]>>
      /\ mano'["pcp"] = Nadie \/ pc'["pcp"] = "io_cede" => En(v)' = <<>>
  BY <1>1, <1>2, Contenido, ContenidoDespues DEF Sitios, Si
<1>4. ASSUME pc["pcp"] \notin {"espera", "toma", "toma_plus", "io_cede"}
      PROVE  \E p \in Pids : p = mano["pcp"] /\ En(v) = <<p>> /\ estado[p] \in EstadosEnMano("pcp")
  <2>1. PICK p \in Pids : p = mano["pcp"]
    BY <1>1, <1>4 DEF LocalesEnUso
  <2>2. En(v) = <<p>>
    BY <1>0, <1>3, <1>4, <2>1
  <2>3. estado[p] \in EstadosEn(v)
    BY <1>3, <2>2, EnVariable
  <2> QED  BY <2>1, <2>2, <2>3, Clases
<1>5. EstadosEn(v)' = EstadosEnMano("pcp")'
  BY ClasesDespues
<1>6. ASSUME UNCHANGED ioVars, ~LiberarRecurso("pcp") PROVE ClasesAjenas({v})
  <2>1. \A k \in Hilos \ {"pcp"} : pc'[k] = pc[k]
    BY <1>1, <1>6 DEF PCP, EsperaListo, ColaElegida, TomaReady, TomaReadyPlus, Elegir, TomaNadie,
       Despacha, Recibe, VuelveParaMorir, VuelvePorIO, VuelvePorPedido, VuelvePorDevolucion,
       VuelvePorQuantum, CreaHiloIO, EsperaVector, DescuentaInstancia, DecideBloquear,
       DecideOtorgar, EncolaBloqueado, ReingresaReady, ReingresaPlus, ReingresaSinMutex,
       ReingresaPerdido, Reingreso, TerminaMatadero, Caer, IrSoltando, Ir, locales
  <2> QED  BY <1>6, <2>1, ClasesDeHilo DEF ioVars
<1>7. CASE EsperaListo \/ TomaNadie \/ EsperaVector
  <2>1. UNCHANGED <<idPCB, estado>> /\ En(v) = <<>>
    BY <1>1, <1>3, <1>7 DEF EsperaListo, TomaNadie, EsperaVector, Caer, procesos, ManosLibres
  <2>2. Ajenos({})
    BY <1>1, <1>7 DEF EsperaListo, ColaElegida, TomaNadie, EsperaVector, Caer, IrSoltando, Ir,
       colas, recursosVars, locales, ioVars, Ajenos, ConAlguien, ManosLibres
  <2>3. ClasesAjenas({v})
    BY <1>6, <1>7 DEF EsperaListo, TomaNadie, EsperaVector, LiberarRecurso, LiberaInstancia,
       MiraBloqueados, SacaBloqueado, SacaNadie, DespiertaBloqueado
  <2> QED  BY <2>1, <2>2, <2>3, Marco, PasoQuieto
<1>8. CASE \/ Despacha \/ Recibe \/ VuelveParaMorir \/ VuelvePorIO \/ VuelvePorPedido
           \/ VuelvePorDevolucion \/ VuelvePorQuantum \/ DescuentaInstancia \/ DecideBloquear
           \/ DecideOtorgar
  <2>1. PICK p \in Pids : p = mano["pcp"] /\ En(v) = <<p>> /\ estado[p] \in EstadosEnMano("pcp")
    BY <1>4, <1>8 DEF Despacha, Recibe, VuelveParaMorir, VuelvePorIO, VuelvePorPedido,
       VuelvePorDevolucion, VuelvePorQuantum, DescuentaInstancia, DecideBloquear, DecideOtorgar
  <2>2. SoloCambia(p) /\ estado'[p] \in EstadosEn(v)'
    <3>1. CASE Despacha \/ Recibe \/ VuelvePorPedido \/ VuelvePorDevolucion \/ DescuentaInstancia
      <4>1. UNCHANGED <<idPCB, estado>>
        BY <3>1 DEF Despacha, Recibe, VuelvePorPedido, VuelvePorDevolucion, DescuentaInstancia,
           procesos
      <4>2. estado[p] = "RUNNING"
        BY <2>1, <3>1 DEF Despacha, Recibe, VuelvePorPedido, VuelvePorDevolucion,
           DescuentaInstancia, EstadosEnMano
      <4>3. pc'["pcp"] \in {"cpu", "motivo", "pide", "libera", "decide"}
        BY <1>1, <3>1 DEF Despacha, Recibe, VuelvePorPedido, VuelvePorDevolucion,
           DescuentaInstancia, Ir
      <4>4. EstadosEnMano("pcp")' = {"RUNNING"}
        BY <4>3 DEF EstadosEnMano
      <4> QED  BY <1>5, <4>1, <4>2, <4>4 DEF SoloCambia
    <3>2. CASE VuelveParaMorir
      BY <1>1, <1>5, <2>1, <3>2 DEF VuelveParaMorir, Matar, Despachado, Ir, SoloCambia, EstadosEnMano
    <3>3. CASE VuelvePorIO
      BY <1>1, <1>5, <2>1, <3>3 DEF VuelvePorIO, Despachado, Ir, SoloCambia, EstadosEnMano
    <3>4. CASE VuelvePorQuantum
      BY <1>1, <1>5, <2>1, <3>4 DEF VuelvePorQuantum, Despachado, Ir, SoloCambia, EstadosEnMano
    <3>5. CASE DecideBloquear
      BY <1>1, <1>5, <2>1, <3>5 DEF DecideBloquear, Despachado, Ir, SoloCambia, EstadosEnMano
    <3>6. CASE DecideOtorgar
      BY <1>1, <1>5, <2>1, <3>6 DEF DecideOtorgar, EstadoAlDespertar, Despachado, Ir, SoloCambia,
         EstadosEnMano
    <3> QED  BY <1>8, <3>1, <3>2, <3>3, <3>4, <3>5, <3>6
  <2>3. Ajenos({})
    BY <1>1, <1>8 DEF Despacha, Recibe, VuelveParaMorir, VuelvePorIO, VuelvePorPedido,
       VuelvePorDevolucion, VuelvePorQuantum, DescuentaInstancia, DecideBloquear, DecideOtorgar,
       Ir, colas, recursosVars, ioVars, Ajenos, ConAlguien
  <2>4. ClasesAjenas({v})
    BY <1>6, <1>8 DEF Despacha, Recibe, VuelveParaMorir, VuelvePorIO, VuelvePorPedido,
       VuelvePorDevolucion, VuelvePorQuantum, DescuentaInstancia, DecideBloquear, DecideOtorgar,
       LiberarRecurso, LiberaInstancia, MiraBloqueados, SacaBloqueado, SacaNadie,
       DespiertaBloqueado
  <2> QED  BY <1>3, <2>1, <2>2, <2>3, <2>4, Marco, PasoMarca
<1>9. CASE TomaReady
  <2> DEFINE a == <<"cREADY", "-">>
  <2>1. PICK p \in Pids : p = Head(cREADY)
    BY <1>1, <1>9, Cola DEF TomaReady
  <2>2. a \in Sitios /\ a # v /\ En(a) = cREADY /\ En(a)' = Tail(cREADY) /\ En(a) # <<>>
    BY <1>9, Contenido, ContenidoDespues DEF Sitios, TomaReady
  <2>3. SoloCambia(p) /\ estado'[p] \in EstadosEn(v)'
    BY <1>1, <1>5, <1>9, <2>1 DEF TomaReady, Elegir, Ir, SoloCambia, EstadosEnMano
  <2>4. Ajenos({a, v})
    BY <1>1, <1>9 DEF TomaReady, Elegir, Ir, recursosVars, ioVars, Ajenos, ConAlguien
  <2>5. En(v) = <<>> /\ En(v)' = <<p>>
    BY <1>0, <1>1, <1>3, <1>9, <2>1 DEF TomaReady, Elegir, Ir, ManosLibres
  <2>6. ClasesAjenas({v})
    BY <1>6, <1>9 DEF TomaReady, Elegir, LiberarRecurso, LiberaInstancia, MiraBloqueados,
       SacaBloqueado, SacaNadie, DespiertaBloqueado
  <2> QED  BY <1>3, <2>1, <2>2, <2>3, <2>4, <2>5, <2>6, Toma
<1>10. CASE TomaReadyPlus
  <2> DEFINE a == <<"cREADY_PLUS", "-">>
  <2>1. PICK p \in Pids : p = Head(cREADY_PLUS)
    BY <1>1, <1>10, Cola DEF TomaReadyPlus
  <2>2. a \in Sitios /\ a # v /\ En(a) = cREADY_PLUS /\ En(a)' = Tail(cREADY_PLUS) /\ En(a) # <<>>
    BY <1>10, Contenido, ContenidoDespues DEF Sitios, TomaReadyPlus
  <2>3. SoloCambia(p) /\ estado'[p] \in EstadosEn(v)'
    BY <1>1, <1>5, <1>10, <2>1 DEF TomaReadyPlus, Elegir, Ir, SoloCambia, EstadosEnMano
  <2>4. Ajenos({a, v})
    BY <1>1, <1>10 DEF TomaReadyPlus, Elegir, Ir, recursosVars, ioVars, Ajenos, ConAlguien
  <2>5. En(v) = <<>> /\ En(v)' = <<p>>
    BY <1>0, <1>1, <1>3, <1>10, <2>1 DEF TomaReadyPlus, Elegir, Ir, ManosLibres
  <2>6. ClasesAjenas({v})
    BY <1>6, <1>10 DEF TomaReadyPlus, Elegir, LiberarRecurso, LiberaInstancia, MiraBloqueados,
       SacaBloqueado, SacaNadie, DespiertaBloqueado
  <2> QED  BY <1>3, <2>1, <2>2, <2>3, <2>4, <2>5, <2>6, Toma
<1>11. CASE CreaHiloIO
  <2>1. PICK p \in Pids : p = mano["pcp"] /\ En(v) = <<p>> /\ estado[p] \in EstadosEnMano("pcp")
    BY <1>4, <1>11 DEF CreaHiloIO
  <2> DEFINE w == <<"lBlocked", p>>
             x == <<"io", p>>
  <2>2. /\ w \in Sitios /\ x \in Sitios /\ v # w /\ v # x
        /\ p \in lBlocked => En(w) = <<p>>
        /\ p \notin lBlocked => En(w) = <<>>
        /\ pcIO[p] \in {"repone", "despierta", "exit", "exit_cae"} => En(x) = <<p>>
    BY Contenido DEF Sitios, Si
  <2>3. En(w) # <<p>> /\ En(x) # <<p>>
    BY <1>3, <2>1, <2>2, UnSitio
  <2>4. /\ p \notin lBlocked /\ pcIO[p] \notin {"repone", "despierta", "exit", "exit_cae"}
        /\ En(w) = <<>>
    BY <2>2, <2>3
  <2>5. /\ lBlocked' = lBlocked \cup {p} /\ pcIO' = [pcIO EXCEPT ![p] = "vector"]
        /\ pc' = [pc EXCEPT !["pcp"] = "io_cede"] /\ pc["pcp"] = "io"
        /\ UNCHANGED <<cNEW, cREADY, cREADY_PLUS, cEXIT, cBloqueados, mano, desbl>>
    BY <1>11, <2>1 DEF CreaHiloIO, Ir, IrIO, Despachado, Supuestos, recursosVars
  <2>6. pcIO \in [Pids -> LugaresIO]
    BY DEF ITipo, TypeOK, AtencionIOTypeOK
  <2>7. SoloCambia(p) /\ estado'[p] \in EstadosEn(w)'
    BY <1>11, <2>1, <2>5, ClasesDespues DEF CreaHiloIO, procesos, SoloCambia, EstadosEnMano
  <2>8. Ajenos({v, w})
    BY <1>1, <2>4, <2>5, <2>6 DEF Ajenos, ConAlguien
  <2>9. En(v)' = <<>> /\ En(w)' = <<p>>
    BY <1>1, <1>3, <2>5, ContenidoDespues DEF Si
  <2>10. ClasesAjenas({v})
    <3>1. \A k \in Hilos \ {"pcp"} : pc'[k] = pc[k]
      BY <1>1, <2>5
    <3>2. \A q \in Pids : \/ pcIO'[q] = pcIO[q]
                          \/ {pcIO[q], pcIO'[q]} \cap {"repone", "despierta"} = {}
      BY <2>4, <2>5, <2>6
    <3> QED  BY <3>1, <3>2, ClasesDeHilo
  <2> QED  BY <1>3, <2>1, <2>2, <2>4, <2>7, <2>8, <2>9, <2>10, Pasa
<1>12. CASE EncolaBloqueado
  <2>1. PICK p \in Pids : p = mano["pcp"] /\ En(v) = <<p>> /\ estado[p] \in EstadosEnMano("pcp")
    BY <1>4, <1>12 DEF EncolaBloqueado
  <2>2. PICK r \in Recursos : r = rec["pcp"]
    BY <1>1, <1>12 DEF EncolaBloqueado, LocalesEnUso
  <2> DEFINE b == <<"cBloqueados", r>>
  <2>3. SoloCambia(p) /\ estado'[p] \in EstadosEn(b)'
    BY <1>12, <2>1, ClasesDespues DEF EncolaBloqueado, procesos, SoloCambia, EstadosEnMano
  <2>4. Ajenos({v, b})
    BY <1>1, <1>12, <2>2 DEF EncolaBloqueado, IrSoltando, Ir, colas, ioVars, Ajenos, ConAlguien
  <2>5. b \in Sitios /\ v # b /\ En(b)' = Append(En(b), p)
    BY <1>1, <1>12, <2>1, <2>2, Contenido, ContenidoDespues DEF Sitios, EncolaBloqueado, Despachado
  <2>6. En(v)' = <<>>
    BY <1>1, <1>3, <1>12 DEF EncolaBloqueado, IrSoltando
  <2>7. ClasesAjenas({v})
    BY <1>6, <1>12 DEF EncolaBloqueado, LiberarRecurso, LiberaInstancia, MiraBloqueados,
       SacaBloqueado, SacaNadie, DespiertaBloqueado
  <2> QED  BY <1>3, <2>1, <2>3, <2>4, <2>5, <2>6, <2>7, Deja
<1>13. CASE ReingresaReady \/ ReingresaPlus \/ ReingresaSinMutex
  <2>1. PICK p \in Pids : p = mano["pcp"] /\ En(v) = <<p>> /\ estado[p] \in EstadosEnMano("pcp")
    BY <1>4, <1>13 DEF ReingresaReady, ReingresaPlus, ReingresaSinMutex
  <2>2. UNCHANGED procesos /\ estado[p] \in {"READY", "READY_PLUS", "RUNNING"}
    BY <1>13, <2>1 DEF ReingresaReady, ReingresaPlus, ReingresaSinMutex, Reingreso, EstadosEnMano
  <2>3. Ajenos({v, <<"cREADY", "-">>, <<"cREADY_PLUS", "-">>})
    BY <1>1, <1>13 DEF ReingresaReady, ReingresaPlus, ReingresaSinMutex, Reingreso, IrSoltando,
       Ir, recursosVars, ioVars, Ajenos, ConAlguien
  <2>4. En(v)' = <<>>
    BY <1>1, <1>3, <1>13 DEF ReingresaReady, ReingresaPlus, ReingresaSinMutex, Reingreso, IrSoltando
  <2>5. ClasesAjenas({v})
    BY <1>6, <1>13 DEF ReingresaReady, ReingresaPlus, ReingresaSinMutex, Reingreso,
       LiberarRecurso, LiberaInstancia, MiraBloqueados, SacaBloqueado, SacaNadie,
       DespiertaBloqueado
  <2>6. CASE ReingresaReady \/ ReingresaPlus
    <3>1. AReady(p) \/ APlus(p)
      BY <2>1, <2>6 DEF ReingresaReady, ReingresaPlus, Despachado
    <3>2. v \notin {<<"cREADY", "-">>, <<"cREADY_PLUS", "-">>}
      OBVIOUS
    <3> QED  BY <1>3, <2>1, <2>2, <2>3, <2>4, <2>5, <3>1, <3>2, DejaListo
  <2>7. CASE ReingresaSinMutex
    <3> DEFINE b == <<"cREADY", "-">>
    <3>1. Ajenos({v, b})
      BY <2>3, <2>7 DEF ReingresaSinMutex, Ajenos
    <3>2. b \in Sitios /\ v # b /\ En(b)' = Append(En(b), p)
      BY <2>1, <2>7, Contenido, ContenidoDespues DEF Sitios, ReingresaSinMutex, Despachado
    <3>3. SoloCambia(p) /\ estado'[p] \in EstadosEn(b)'
      BY <2>2, ClasesDespues DEF SoloCambia, procesos
    <3> QED  BY <1>3, <2>1, <2>4, <2>5, <3>1, <3>2, <3>3, Deja
  <2> QED  BY <1>13, <2>6, <2>7
<1>14. CASE TerminaMatadero("pcp") /\ UNCHANGED ioVars
  <2> DEFINE b == <<"cEXIT", "-">>
  <2>1. PICK p \in Pids : p = mano["pcp"] /\ En(v) = <<p>> /\ estado[p] \in EstadosEnMano("pcp")
    BY <1>4, <1>14 DEF TerminaMatadero
  <2>2. SoloCambia(p) /\ estado'[p] \in EstadosEn(b)'
    <3>1. estado[p] = "FINISHED"
      BY <1>14, <2>1 DEF TerminaMatadero, EstadosEnMano
    <3> QED  BY <1>14, <3>1, ClasesDespues DEF TerminaMatadero, procesos, SoloCambia
  <2>3. Ajenos({v, b})
    BY <1>1, <1>14 DEF TerminaMatadero, IrSoltando, Ir, recursosVars, ioVars, Ajenos, ConAlguien
  <2>4. b \in Sitios /\ v # b /\ En(b)' = Append(En(b), p)
    BY <1>14, <2>1, Contenido, ContenidoDespues DEF Sitios, TerminaMatadero, EncolarExit
  <2>5. En(v)' = <<>>
    BY <1>1, <1>3, <1>14 DEF TerminaMatadero, IrSoltando
  <2>6. ClasesAjenas({v})
    BY <1>6, <1>14 DEF TerminaMatadero, LiberarRecurso, LiberaInstancia, MiraBloqueados,
       SacaBloqueado, SacaNadie, DespiertaBloqueado
  <2> QED  BY <1>3, <2>1, <2>2, <2>3, <2>4, <2>5, <2>6, Deja
<1>15. CASE LiberarRecurso("pcp") /\ UNCHANGED ioVars
  BY <1>15, LugaresLiberarRecurso
<1> QED  BY <1>7, <1>8, <1>9, <1>10, <1>11, <1>12, <1>13, <1>14, <1>15
         DEF PCP, ReingresaPerdido, Supuestos

\* So does every step of an I/O thread.
LEMMA LugaresHiloIO ==
  ASSUME Supuestos, ITipo, ITipo', ILugares, NEW p \in Pids, AtenderSolicitudIO(p)
  PROVE  Ubicados'
<1> USE DEF ILugares
<1> DEFINE v == <<"lBlocked", p>>
           w == <<"io", p>>
<1>1. /\ pcIO \in [Pids -> LugaresIO] /\ estado \in [Pids -> Estados] /\ lBlocked \in SUBSET Pids
      /\ EnListaDeIO
  BY DEF ITipo, TypeOK, PlanificacionTypeOK, ProcesosTypeOK, ColasTypeOK, AtencionIOTypeOK
<1>2. /\ v \in Sitios /\ w \in Sitios /\ v # w
      /\ p \in lBlocked => En(v) = <<p>>
      /\ p \notin lBlocked => En(v) = <<>>
      /\ p \in lBlocked' => En(v)' = <<p>>
      /\ p \notin lBlocked' => En(v)' = <<>>
      /\ pcIO[p] \in {"repone", "despierta", "exit", "exit_cae"} => En(w) = <<p>>
      /\ pcIO[p] \notin {"repone", "despierta", "exit", "exit_cae"} => En(w) = <<>>
      /\ pcIO'[p] \in {"repone", "despierta", "exit", "exit_cae"} => En(w)' = <<p>>
      /\ pcIO'[p] \notin {"repone", "despierta", "exit", "exit_cae"} => En(w)' = <<>>
  BY Contenido, ContenidoDespues DEF Sitios, Si
<1>3. EstadosEn(v) = {"BLOCKED"} /\ EstadosEn(v)' = {"BLOCKED"}
  BY Clases, ClasesDespues
<1>4. UNCHANGED pc /\ \A q \in Pids \ {p} : pcIO'[q] = pcIO[q]
  <2>1. CASE RespondeIO(p)
    <3>1. PICK resp \in RespuestasIO :
            IrIO(p, CASE resp = "IO_SUCCESS" -> "exito"
                      [] resp = "IO_FAILURE" -> "falla"
                      [] resp = "DESCONEXION" -> "falla_cae")
      BY <2>1 DEF RespondeIO
    <3>2. \E lugar \in {"exito", "falla", "falla_cae"} : pcIO' = [pcIO EXCEPT ![p] = lugar]
      BY <3>1, AtencionIOAssumption DEF IrIO
    <3> QED  BY <1>1, <2>1, <3>2 DEF RespondeIO, planVars, locales
  <2>2. CASE ~RespondeIO(p)
    BY <1>1, <2>2 DEF AtenderSolicitudIO, RecibeVector, BuscaInterfaz, TomaInterfaz,
       UsaConexionLiberada, Repone, FallaIO, FallaIODeMuerto, TerminaMataderoIO, CortaConexion,
       ExitoIO, ExitoIODeMuerto, DespiertaDeIO, IrIO, Caer, planVars, locales, ioVars
  <2> QED  BY <2>1, <2>2
<1>5. ClasesAjenas({w})
  BY <1>4, ClasesDeIO
<1>6. CASE \/ RecibeVector(p) \/ BuscaInterfaz(p) \/ UsaConexionLiberada(p) \/ RespondeIO(p)
           \/ FallaIODeMuerto(p) \/ CortaConexion(p) \/ ExitoIODeMuerto(p)
  <2>1. UNCHANGED <<idPCB, estado>> /\ En(w) = <<>>
    BY <1>2, <1>6 DEF RecibeVector, BuscaInterfaz, UsaConexionLiberada, RespondeIO,
       FallaIODeMuerto, CortaConexion, ExitoIODeMuerto, Caer, planVars, procesos
  <2>2. /\ UNCHANGED <<cNEW, cREADY, cREADY_PLUS, cEXIT, cBloqueados, lBlocked, pc, mano, desbl>>
        /\ \/ pcIO' = pcIO
           \/ /\ pcIO[p] \notin {"repone", "despierta", "exit", "exit_cae"}
              /\ \E lugar \in LugaresIO \ {"repone", "despierta", "exit", "exit_cae"} :
                   pcIO' = [pcIO EXCEPT ![p] = lugar]
    <3>1. CASE UsaConexionLiberada(p) \/ FallaIODeMuerto(p) \/ ExitoIODeMuerto(p)
      BY <3>1 DEF UsaConexionLiberada, FallaIODeMuerto, ExitoIODeMuerto, Caer, colas, recursosVars,
         locales, ioVars
    <3>2. CASE RecibeVector(p) \/ BuscaInterfaz(p) \/ CortaConexion(p)
      BY <3>2 DEF RecibeVector, BuscaInterfaz, CortaConexion, IrIO, LugaresIO, planVars, colas,
         recursosVars, locales
    <3>3. CASE RespondeIO(p)
      <4>1. PICK resp \in RespuestasIO :
              IrIO(p, CASE resp = "IO_SUCCESS" -> "exito"
                        [] resp = "IO_FAILURE" -> "falla"
                        [] resp = "DESCONEXION" -> "falla_cae")
        BY <3>3 DEF RespondeIO
      <4>2. \E lugar \in {"exito", "falla", "falla_cae"} : pcIO' = [pcIO EXCEPT ![p] = lugar]
        BY <4>1, AtencionIOAssumption DEF IrIO
      <4> QED  BY <3>3, <4>2 DEF RespondeIO, LugaresIO, planVars, colas, recursosVars, locales
    <3> QED  BY <1>6, <3>1, <3>2, <3>3
  <2>3. Ajenos({})
    BY <1>1, <2>2 DEF Ajenos, ConAlguien
  <2> QED  BY <1>5, <2>1, <2>3, Marco, PasoQuieto
<1>7. CASE TomaInterfaz(p) \/ FallaIO(p) \/ ExitoIO(p)
  <2>1. p \in lBlocked /\ pcIO[p] \notin {"repone", "despierta", "exit", "exit_cae"}
    BY <1>1, <1>7 DEF TomaInterfaz, FallaIO, ExitoIO, EnListaDeIO
  <2>2. p \notin lBlocked' /\ pcIO'[p] \in {"repone", "despierta", "exit", "exit_cae"}
    BY <1>1, <1>7, <2>1 DEF TomaInterfaz, FallaIO, ExitoIO, IrIO, SigueBloqueado, BlockedTrasExito
  <2>3. SoloCambia(p) /\ estado'[p] \in EstadosEn(w)'
    <3>1. CASE TomaInterfaz(p)
      <4>1. estado[p] = "BLOCKED"
        BY <1>2, <1>3, <2>1, EnVariable
      <4>2. pcIO'[p] = "repone" /\ UNCHANGED <<idPCB, estado>>
        BY <1>1, <2>1, <3>1 DEF TomaInterfaz, IrIO, procesos
      <4> QED  BY <4>1, <4>2, ClasesDespues DEF SoloCambia
    <3>2. CASE FallaIO(p)
      <4>1. pcIO'[p] \in {"exit", "exit_cae"}
        BY <1>1, <3>2 DEF FallaIO, IrIO
      <4>2. EstadosEn(w)' = {"FINISHED"}
        BY <4>1, ClasesDespues
      <4> QED  BY <1>1, <3>2, <4>2 DEF FallaIO, Matar, SoloCambia
    <3>3. CASE ExitoIO(p)
      <4>1. pcIO'[p] = "despierta"
        BY <1>1, <2>1, <3>3 DEF ExitoIO, IrIO, SigueBloqueado
      <4>2. EstadosEn(w)' = {"READY", "READY_PLUS"}
        BY <4>1, ClasesDespues
      <4> QED  BY <1>1, <2>1, <3>3, <4>2 DEF ExitoIO, EstadoAlDespertar, SigueBloqueado, SoloCambia
    <3> QED  BY <1>7, <3>1, <3>2, <3>3
  <2>4. Ajenos({v, w})
    BY <1>1, <1>7 DEF TomaInterfaz, FallaIO, ExitoIO, IrIO, BlockedTrasExito, recursosVars,
       locales, Ajenos, ConAlguien
  <2>5. En(v) = <<p>> /\ En(v)' = <<>> /\ En(w) = <<>> /\ En(w)' = <<p>>
    BY <1>2, <2>1, <2>2
  <2> QED  BY <1>2, <1>5, <2>3, <2>4, <2>5, Pasa
<1>8. CASE Repone(p)
  <2>1. pcIO[p] = "repone" /\ pcIO'[p] = "dispositivo" /\ p \in lBlocked'
    BY <1>1, <1>8 DEF Repone, IrIO, Supuestos
  <2>2. En(w) = <<p>> /\ En(w)' = <<>> /\ En(v)' = <<p>>
    BY <1>2, <2>1
  <2>3. En(v) = <<>>
    BY <1>2, <2>2, UnSitio
  <2>4. SoloCambia(p) /\ estado'[p] \in EstadosEn(v)'
    <3>1. estado[p] \in EstadosEn(w)
      BY <1>2, <2>2, EnVariable
    <3>2. estado[p] = "BLOCKED"
      BY <2>1, <3>1, Clases
    <3> QED  BY <1>3, <1>8, <3>2 DEF Repone, procesos, SoloCambia
  <2>5. Ajenos({v, w})
    BY <1>1, <1>8 DEF Repone, Supuestos, IrIO, recursosVars, locales, Ajenos, ConAlguien
  <2> QED  BY <1>2, <1>5, <2>2, <2>3, <2>4, <2>5, Pasa
<1>9. CASE TerminaMataderoIO(p)
  <2> DEFINE b == <<"cEXIT", "-">>
  <2>1. En(w) = <<p>> /\ En(w)' = <<>>
    BY <1>1, <1>2, <1>9 DEF TerminaMataderoIO, IrIO
  <2>2. SoloCambia(p) /\ estado'[p] \in EstadosEn(b)'
    <3>1. estado[p] \in EstadosEn(w)
      BY <1>2, <2>1, EnVariable
    <3>2. estado[p] = "FINISHED"
      BY <1>9, <3>1, Clases DEF TerminaMataderoIO
    <3> QED  BY <1>9, <3>2, ClasesDespues DEF TerminaMataderoIO, procesos, SoloCambia
  <2>3. Ajenos({w, b})
    BY <1>1, <1>9 DEF TerminaMataderoIO, IrIO, recursosVars, locales, Ajenos, ConAlguien
  <2>4. b \in Sitios /\ w # b /\ En(b)' = Append(En(b), p)
    BY <1>9, Contenido, ContenidoDespues DEF Sitios, TerminaMataderoIO, EncolarExit
  <2> QED  BY <1>2, <1>5, <2>1, <2>2, <2>3, <2>4, Deja
<1>10. CASE DespiertaDeIO(p)
  <2>1. En(w) = <<p>> /\ En(w)' = <<>>
    BY <1>1, <1>2, <1>10 DEF DespiertaDeIO, IrIO
  <2>2. UNCHANGED procesos /\ estado[p] \in {"READY", "READY_PLUS", "RUNNING"}
    <3>1. estado[p] \in EstadosEn(w)
      BY <1>2, <2>1, EnVariable
    <3> QED  BY <1>10, <3>1, Clases DEF DespiertaDeIO
  <2>3. Ajenos({w, <<"cREADY", "-">>, <<"cREADY_PLUS", "-">>})
    BY <1>1, <1>10 DEF DespiertaDeIO, IrIO, recursosVars, locales, Ajenos, ConAlguien
  <2>4. AReady(p) \/ APlus(p)
    BY <1>10 DEF DespiertaDeIO, Despertar
  <2>5. w \notin {<<"cREADY", "-">>, <<"cREADY_PLUS", "-">>}
    OBVIOUS
  <2> QED  BY <1>2, <1>5, <2>1, <2>2, <2>3, <2>4, <2>5, DejaListo
<1> QED  BY <1>6, <1>7, <1>8, <1>9, <1>10 DEF AtenderSolicitudIO

\* So does every command of the console; the process it creates enters cNEW.
LEMMA LugaresConsola ==
  ASSUME Supuestos, ITipo, ITipo', ILugares, ConsolaNext, UNCHANGED ioVars
  PROVE  Ubicados'
<1> USE DEF ILugares
<1>1. /\ pc \in [Hilos -> Lugares] /\ mano \in [Hilos -> Pids \cup {Nadie}]
      /\ estado \in [Pids -> Estados] /\ cNEW \in Seq(Pids) /\ idPCB \in Nat /\ idPCB >= 1
      /\ SinBajas /\ "consola" \in Hilos
  BY CpuAssumption DEF ITipo, TypeOK, PlanificacionTypeOK, LocalesTypeOK, ProcesosTypeOK,
     ColasTypeOK, Hilos
<1>2. CASE CrearProceso
  <2>1. PICK x \in Pids : x = idPCB
    BY <1>1, <1>2, CpuAssumption DEF CrearProceso, Pids
  <2> DEFINE b == <<"cNEW", "-">>
  <2>2. /\ estado' = [estado EXCEPT ![x] = "NEW"] /\ idPCB' = x + 1 /\ cNEW' = Append(cNEW, x)
        /\ estado[x] = "SIN_CREAR"
    BY <1>2, <2>1 DEF CrearProceso, Ubicados, PorCrear, Pids
  <2>3. /\ PorCrear' /\ \A q \in Pids \ {x} : estado'[q] = estado[q]
        /\ estado'[x] = "NEW"
    BY <1>1, <2>1, <2>2 DEF Ubicados, PorCrear, Pids
  <2>4. Ajenos({b})
    BY <1>1, <1>2 DEF CrearProceso, recursosVars, locales, ioVars, Ajenos, ConAlguien
  <2>5. b \in Sitios /\ En(b)' = Append(En(b), x) /\ \A s \in Sitios \ {b} : En(s)' = En(s)
    BY <2>2, <2>4, Contenido, ContenidoDespues, Marco DEF Sitios
  <2>6. ~Vivo(x)
    BY <2>2 DEF Vivo
  <2>7. estado'[x] \in EstadosEn(b)'
    BY <2>3, ClasesDespues
  <2>8. ClasesAjenas({})
    <3>1. UNCHANGED <<pc, pcIO>>
      BY <1>2 DEF CrearProceso, locales, ioVars
    <3>2. ClasesAjenas({<<"mano", "consola">>})
      BY <3>1, ClasesDeHilo
    <3>3. EstadosEn(<<"mano", "consola">>) \subseteq EstadosEn(<<"mano", "consola">>)'
      BY <3>1, Clases, ClasesDespues DEF EstadosEnMano
    <3> QED  BY <3>2, <3>3 DEF ClasesAjenas
  <2> HIDE DEF b
  <2> QED  BY <2>3, <2>5, <2>6, <2>7, <2>8, PasoEntra
<1>3. CASE ~CrearProceso
  <2>1. /\ UNCHANGED <<idPCB, estado, cNEW, cREADY, cREADY_PLUS, cEXIT, lBlocked, cBloqueados>>
        /\ UNCHANGED <<mano, desbl>>
        /\ \E lugar \in {"lee", "detiene", "lista", "baja"} :
             pc' = [pc EXCEPT !["consola"] = lugar]
    <3>1. CASE DetenerPlanificacion \/ TomaMutexes \/ ProcesoEstado \/ ListaProcesos
      BY <1>1, <3>1 DEF DetenerPlanificacion, DetenerPara, TomaMutexes, ProcesoEstado,
         ListaProcesos, SinBajas, Ir, procesos, colas, recursosVars
    <3>2. CASE IniciarPlanificacion \/ \E g \in Grados : SubirGrado(g)
      <4>1. pc' = [pc EXCEPT !["consola"] = "lee"]
        BY <1>1, <3>2 DEF IniciarPlanificacion, SubirGrado, Lee, locales
      <4> QED  BY <3>2, <4>1 DEF IniciarPlanificacion, SubirGrado, procesos, colas, recursosVars,
               locales
    <3>3. CASE RetiraCupo \/ \E g \in Grados : BajarGrado(g)
      BY <3>3 DEF RetiraCupo, BajarGrado, Ir, procesos, colas, recursosVars
    <3> QED  BY <1>1, <1>3, <3>1, <3>2, <3>3 DEF ConsolaNext, Supuestos, InterrumpirProceso,
             FinalizarProceso, Lee, BuscaVictima, NoEncuentra, QuitaVictima, QuitaVictimaYaLibre,
             QuitaVictimaReady, EsperaToken, TerminaMatadero, SinBajas
  <2>2. En(<<"mano", "consola">>) = <<>>
    <3>1. ~ConAlguien("consola")
      BY <1>1 DEF SinBajas, ConAlguien
    <3> QED  BY <3>1, Contenido DEF Si
  <2>3. Ajenos({})
    BY <1>1, <2>1 DEF SinBajas, ioVars, Ajenos, ConAlguien
  <2>4. ClasesAjenas({<<"mano", "consola">>})
    <3>1. \A k \in Hilos \ {"consola"} : pc'[k] = pc[k]
      BY <1>1, <2>1
    <3> QED  BY <3>1, ClasesDeHilo DEF ioVars
  <2> QED  BY <2>1, <2>2, <2>3, <2>4, Marco, PasoQuieto
<1> QED  BY <1>2, <1>3

\* A thread about to take a process keeps its hands free.
LEMMA SigueManosLibres ==
  ASSUME Supuestos, ITipo, ILugares, [Next]_vars
  PROVE  ManosLibres'
<1>1. /\ pc \in [Hilos -> Lugares] /\ mano \in [Hilos -> Pids \cup {Nadie}]
      /\ desbl \in [Hilos -> Pids \cup {Nadie}] /\ ManosLibres /\ Recorridos
      /\ SinBajas /\ SinBajas'
  BY SigueSinBajas DEF ITipo, TypeOK, PlanificacionTypeOK, LocalesTypeOK, ILugares
<1> USE DEF ManosLibres
<1>2. CASE PasoPLP
  <2>1. CASE EsperaNuevo \/ TomaNuevo \/ Admite \/ Rechaza \/ AdmiteNadie
    BY <1>1, <2>1 DEF EsperaNuevo, TomaNuevo, EsperaCupo, Admite, Rechaza, AdmiteNadie, Caer,
       Ir, Hilos, locales
  <2>2. CASE IngresaReady \/ IngresaReadyPerdido \/ TerminaMatadero("plp")
    <3>1. /\ mano' = [mano EXCEPT !["plp"] = Nadie] /\ pc' = [pc EXCEPT !["plp"] = "espera"]
          /\ UNCHANGED desbl /\ pc["plp"] # "despierta"
      BY <1>1, <2>2 DEF IngresaReady, IngresaReadyPerdido, TerminaMatadero, IrSoltando, Ir
    <3> QED  BY <1>1, <3>1 DEF Hilos
  <2> QED  BY <1>2, <2>1, <2>2 DEF PasoPLP, PLP
<1>3. CASE PasoCarnicero
  <2>1. CASE LiberarRecurso("carnicero")
    BY <1>1, <2>1 DEF LiberarRecurso, LiberaInstancia, MiraBloqueados, SacaBloqueado, SacaNadie,
       DespiertaBloqueado, TrasLiberar, Caer, Ir, Hilos, locales
  <2>2. CASE ~LiberarRecurso("carnicero")
    BY <1>1, <1>3, <2>2 DEF PasoCarnicero, Carnicero, EsperaFinalizado, TomaFinalizado,
       SueltaRecurso, LiberaProceso, IrSoltando, Ir, Hilos
  <2> QED  BY <2>1, <2>2
<1>4. CASE PasoPCP
  <2>1. CASE LiberarRecurso("pcp")
    BY <1>1, <2>1 DEF LiberarRecurso, LiberaInstancia, MiraBloqueados, SacaBloqueado, SacaNadie,
       DespiertaBloqueado, TrasLiberar, Caer, Ir, Hilos, locales
  <2>2. CASE EsperaListo \/ TomaReady \/ TomaReadyPlus \/ TomaNadie \/ Despacha \/ Recibe
    BY <1>1, <2>2 DEF EsperaListo, ColaElegida, TomaReady, TomaReadyPlus, Elegir, TomaNadie,
       Despacha, Recibe, Caer, Ir, Hilos, locales
  <2>3. CASE \/ VuelveParaMorir \/ VuelvePorIO \/ VuelvePorPedido \/ VuelvePorDevolucion
             \/ VuelvePorQuantum \/ CreaHiloIO \/ EsperaVector
    BY <1>1, <2>3 DEF VuelveParaMorir, VuelvePorIO, VuelvePorPedido, VuelvePorDevolucion,
       VuelvePorQuantum, CreaHiloIO, EsperaVector, IrSoltando, Ir, Hilos
  <2>4. CASE \/ DescuentaInstancia \/ DecideBloquear \/ DecideOtorgar \/ EncolaBloqueado
             \/ ReingresaReady \/ ReingresaPlus \/ ReingresaSinMutex \/ ReingresaPerdido
             \/ TerminaMatadero("pcp")
    BY <1>1, <2>4 DEF DescuentaInstancia, DecideBloquear, DecideOtorgar, EncolaBloqueado,
       ReingresaReady, ReingresaPlus, ReingresaSinMutex, ReingresaPerdido, Reingreso,
       TerminaMatadero, IrSoltando, Ir, Hilos
  <2> QED  BY <1>4, <2>1, <2>2, <2>3, <2>4 DEF PasoPCP, PCP
<1>5. CASE PasoConsola
  <2>1. /\ UNCHANGED desbl
        /\ \A h \in {"plp", "pcp", "carnicero"} : pc'[h] = pc[h] /\ mano'[h] = mano[h]
    BY <1>1, <1>5 DEF PasoConsola, ConsolaNext, CrearProceso, DetenerPlanificacion,
       DetenerPara, TomaMutexes, IniciarPlanificacion, ProcesoEstado, ListaProcesos,
       InterrumpirProceso, FinalizarProceso, BuscaVictima, NoEncuentra, QuitaVictima,
       QuitaVictimaYaLibre, QuitaVictimaReady, EsperaToken, SubirGrado, BajarGrado, RetiraCupo,
       TerminaMatadero, Caer, IrSoltando, Ir, Hilos, planVars, locales
  <2>2. pc["consola"] # "despierta"
    BY <1>1 DEF SinBajas
  <2> QED  BY <1>1, <2>1, <2>2 DEF Hilos
<1>6. CASE \/ PasoCPU \/ PasoInterrupciones \/ UNCHANGED vars
           \/ \E p \in Pids : PasoTimer(p) \/ PasoIO(p)
           \/ \E i \in Interfaces : PasoConexion(i)
  <2>1. UNCHANGED <<pc, mano, desbl>>
    BY <1>6 DEF PasoCPU, PasoInterrupciones, PasoTimer, VenceTimer, PasoConexion, ConectarIO,
       PasoIO, AtenderSolicitudIO, RecibeVector, BuscaInterfaz, TomaInterfaz, UsaConexionLiberada,
       Repone, RespondeIO, FallaIO, FallaIODeMuerto, TerminaMataderoIO, CortaConexion,
       ExitoIO, ExitoIODeMuerto, DespiertaDeIO, Caer, vars, planVars, locales
  <2> QED  BY <1>1, <2>1
<1> QED  BY <1>2, <1>3, <1>4, <1>5, <1>6 DEF Next

\* A request of an I/O thread stays listed in lBlocked until the thread takes it out.
LEMMA SigueEnLista ==
  ASSUME Supuestos, ITipo, ILugares, [Next]_vars
  PROVE  EnListaDeIO'
<1>1. pcIO \in [Pids -> LugaresIO] /\ lBlocked \in SUBSET Pids /\ EnListaDeIO /\ SinBajas
  BY DEF ITipo, TypeOK, PlanificacionTypeOK, ColasTypeOK, AtencionIOTypeOK, ILugares
<1>2. ASSUME UNCHANGED <<pcIO, lBlocked>> PROVE EnListaDeIO'
  BY <1>1, <1>2 DEF EnListaDeIO
<1>3. CASE PasoPCP
  <2>1. CASE CreaHiloIO
    BY <1>1, <2>1 DEF CreaHiloIO, Supuestos, IrIO, EnListaDeIO
  <2>2. CASE ~CreaHiloIO
    BY <1>2, <1>3, <2>2 DEF PasoPCP, PCP, EsperaListo, TomaReady, TomaReadyPlus, Elegir, TomaNadie,
       Despacha, Recibe, VuelveParaMorir, VuelvePorIO, VuelvePorPedido, VuelvePorDevolucion,
       VuelvePorQuantum, EsperaVector, DescuentaInstancia, DecideBloquear, DecideOtorgar,
       EncolaBloqueado, ReingresaReady, ReingresaPlus, ReingresaSinMutex, ReingresaPerdido,
       Reingreso, TerminaMatadero, LiberarRecurso, LiberaInstancia, MiraBloqueados, SacaBloqueado,
       SacaNadie, DespiertaBloqueado, Caer, colas, ioVars
  <2> QED  BY <2>1, <2>2
<1>4. ASSUME NEW p \in Pids, AtenderSolicitudIO(p) PROVE EnListaDeIO'
  <2>1. CASE RecibeVector(p) \/ BuscaInterfaz(p) \/ CortaConexion(p)
    BY <1>1, <2>1 DEF RecibeVector, BuscaInterfaz, CortaConexion, IrIO, EnListaDeIO, planVars, colas
  <2>2. CASE UsaConexionLiberada(p) \/ FallaIODeMuerto(p) \/ ExitoIODeMuerto(p)
    BY <1>2, <2>2 DEF UsaConexionLiberada, FallaIODeMuerto, ExitoIODeMuerto, Caer, colas, ioVars
  <2>3. CASE RespondeIO(p)
    <3>1. /\ pcIO[p] = "dispositivo" /\ UNCHANGED lBlocked
          /\ \E l \in LugaresIO : pcIO' = [pcIO EXCEPT ![p] = l]
      <4>1. PICK resp \in RespuestasIO :
              IrIO(p, CASE resp = "IO_SUCCESS" -> "exito"
                        [] resp = "IO_FAILURE" -> "falla"
                        [] resp = "DESCONEXION" -> "falla_cae")
        BY <2>3 DEF RespondeIO
      <4>2. \E l \in {"exito", "falla", "falla_cae"} : pcIO' = [pcIO EXCEPT ![p] = l]
        BY <4>1, AtencionIOAssumption DEF IrIO
      <4> QED  BY <2>3, <4>2 DEF RespondeIO, LugaresIO, planVars, colas
    <3> QED  BY <1>1, <3>1 DEF EnListaDeIO
  <2>4. CASE TomaInterfaz(p) \/ FallaIO(p) \/ ExitoIO(p)
    BY <1>1, <2>4 DEF TomaInterfaz, FallaIO, ExitoIO, IrIO, BlockedTrasExito, EnListaDeIO
  <2>5. CASE Repone(p)
    BY <1>1, <2>5 DEF Repone, Supuestos, IrIO, EnListaDeIO
  <2>6. CASE TerminaMataderoIO(p) \/ DespiertaDeIO(p)
    BY <1>1, <2>6 DEF TerminaMataderoIO, DespiertaDeIO, IrIO, EnListaDeIO
  <2> QED  BY <1>4, <2>1, <2>2, <2>3, <2>4, <2>5, <2>6 DEF AtenderSolicitudIO
<1>5. CASE PasoConsola
  BY <1>1, <1>2, <1>5 DEF SinBajas, PasoConsola, ConsolaNext, CrearProceso, DetenerPlanificacion,
     DetenerPara, TomaMutexes, IniciarPlanificacion, ProcesoEstado, ListaProcesos,
     InterrumpirProceso, FinalizarProceso, BuscaVictima, NoEncuentra, QuitaVictima,
     QuitaVictimaYaLibre, QuitaVictimaReady, EsperaToken, SubirGrado, BajarGrado, RetiraCupo,
     TerminaMatadero, Caer, planVars, colas, ioVars
<1>6. CASE PasoPLP \/ PasoCarnicero
  BY <1>2, <1>6 DEF PasoPLP, PLP, EsperaNuevo, TomaNuevo, Admite, Rechaza, AdmiteNadie,
     IngresaReady, IngresaReadyPerdido, TerminaMatadero, PasoCarnicero, Carnicero,
     EsperaFinalizado, TomaFinalizado, SueltaRecurso, LiberaProceso, LiberarRecurso,
     LiberaInstancia, MiraBloqueados, SacaBloqueado, SacaNadie, DespiertaBloqueado, Caer, colas,
     ioVars
<1>7. CASE \/ PasoCPU \/ PasoInterrupciones \/ UNCHANGED vars
           \/ \E p \in Pids : PasoTimer(p)
           \/ \E i \in Interfaces : PasoConexion(i)
  BY <1>2, <1>7 DEF PasoCPU, PasoInterrupciones, PasoTimer, VenceTimer, PasoConexion, ConectarIO,
     vars, planVars, colas, ioVars
<1> QED  BY <1>3, <1>4, <1>5, <1>6, <1>7 DEF Next, PasoIO

\* The scheduler goes on waiting for a process that is off the CPU: only its own choice
\* puts one there.
LEMMA SigueCedeSinCPU ==
  ASSUME Supuestos, ITipo, ILugares, [Next]_vars
  PROVE  CedeSinCPU'
<1> USE DEF ILugares, CedeSinCPU
<1>1. /\ pc \in [Hilos -> Lugares] /\ mano \in [Hilos -> Pids \cup {Nadie}]
      /\ estado \in [Pids -> Estados] /\ LocalesEnUso /\ ManosLibres /\ "pcp" \in Hilos
      /\ SinBajas /\ idPCB \in Nat /\ idPCB >= 1 /\ Nadie \notin Pids
  BY CpuAssumption DEF ITipo, TypeOK, PlanificacionTypeOK, LocalesTypeOK, ProcesosTypeOK, Hilos,
     Nadie, Pids
<1>2. CASE PasoPCP
  <2>1. CASE CreaHiloIO
    <3>1. PICK p \in Pids : p = mano["pcp"]
      BY <1>1, <2>1 DEF CreaHiloIO, LocalesEnUso
    <3>2. <<"mano", "pcp">> \in Sitios /\ En(<<"mano", "pcp">>) = <<p>>
      <4>1. ConAlguien("pcp") /\ mano["pcp"] = p
        BY <1>1, <2>1, <3>1 DEF CreaHiloIO, ConAlguien
      <4> QED  BY <1>1, <4>1, Contenido DEF Sitios, Si
    <3>3. estado[p] \in EstadosEnMano("pcp")
      BY <3>2, EnVariable, Clases
    <3>4. estado[p] = "BLOCKED"
      BY <2>1, <3>3 DEF CreaHiloIO, EstadosEnMano
    <3> QED  BY <2>1, <3>1, <3>4 DEF CreaHiloIO, procesos, Despachado
  <2>2. CASE ~CreaHiloIO
    <3>1. pc'["pcp"] # "io_cede" \/ TomaNadie \/ SacaNadie("pcp")
      BY <1>1, <1>2, <2>2 DEF PasoPCP, PCP, EsperaListo, ColaElegida, TomaReady, TomaReadyPlus,
         Elegir, Despacha, Recibe, VuelveParaMorir, VuelvePorIO, VuelvePorPedido,
         VuelvePorDevolucion, VuelvePorQuantum, EsperaVector, DescuentaInstancia, DecideBloquear,
         DecideOtorgar, EncolaBloqueado, ReingresaReady, ReingresaPlus, ReingresaSinMutex,
         ReingresaPerdido, Reingreso, TerminaMatadero, LiberarRecurso, LiberaInstancia,
         MiraBloqueados, SacaBloqueado, DespiertaBloqueado, TrasLiberar, IrSoltando, Ir
    <3>2. CASE TomaNadie \/ SacaNadie("pcp")
      BY <3>2 DEF TomaNadie, SacaNadie, Caer, locales
    <3> QED  BY <3>1, <3>2
  <2> QED  BY <2>1, <2>2
<1>3. ASSUME pc'["pcp"] = pc["pcp"], mano'["pcp"] = mano["pcp"],
             \A q \in Pids : estado'[q] = "RUNNING" => estado[q] = "RUNNING"
      PROVE  CedeSinCPU'
  BY <1>1, <1>3 DEF Despachado, LocalesEnUso
<1>4. ASSUME NEW h \in {"pcp", "carnicero"}, LiberarRecurso(h)
      PROVE  \A q \in Pids : estado'[q] = "RUNNING" => estado[q] = "RUNNING"
  BY <1>1, <1>4 DEF LiberarRecurso, LiberaInstancia, MiraBloqueados, SacaBloqueado, SacaNadie,
     DespiertaBloqueado, EstadoAlDespertar, Caer, procesos
<1>5. CASE PasoPLP
  BY <1>1, <1>3, <1>5 DEF PasoPLP, PLP, EsperaNuevo, TomaNuevo, Admite, Rechaza, AdmiteNadie,
     EsperaCupo, IngresaReady, IngresaReadyPerdido, TerminaMatadero, IrSoltando, Ir, Caer,
     procesos, locales
<1>6. CASE PasoCarnicero
  <2>1. pc'["pcp"] = pc["pcp"] /\ mano'["pcp"] = mano["pcp"]
    BY <1>1, <1>6 DEF PasoCarnicero, Carnicero, EsperaFinalizado, TomaFinalizado, SueltaRecurso,
       LiberaProceso, LiberarRecurso, LiberaInstancia, MiraBloqueados, SacaBloqueado, SacaNadie,
       DespiertaBloqueado, IrSoltando, Ir, Caer, locales
  <2>2. CASE LiberarRecurso("carnicero")
    BY <1>3, <1>4, <2>1, <2>2
  <2>3. CASE ~LiberarRecurso("carnicero")
    BY <1>1, <1>3, <1>6, <2>1, <2>3 DEF PasoCarnicero, Carnicero, EsperaFinalizado,
       TomaFinalizado, SueltaRecurso, LiberaProceso, procesos
  <2> QED  BY <2>2, <2>3
<1>7. CASE PasoConsola
  BY <1>1, <1>3, <1>7 DEF Pids, SinBajas, PasoConsola, ConsolaNext, CrearProceso,
     DetenerPlanificacion, DetenerPara, TomaMutexes, IniciarPlanificacion, ProcesoEstado,
     ListaProcesos, InterrumpirProceso, FinalizarProceso, BuscaVictima, NoEncuentra,
     QuitaVictima, QuitaVictimaYaLibre, QuitaVictimaReady, EsperaToken, SubirGrado, BajarGrado,
     RetiraCupo, TerminaMatadero, Caer, Ir, planVars, procesos, locales
<1>8. ASSUME NEW p \in Pids, PasoIO(p) PROVE CedeSinCPU'
  BY <1>1, <1>3, <1>8 DEF PasoIO, AtenderSolicitudIO, RecibeVector, BuscaInterfaz, TomaInterfaz,
     UsaConexionLiberada, Repone, RespondeIO, FallaIO, FallaIODeMuerto, TerminaMataderoIO,
     CortaConexion, ExitoIO, ExitoIODeMuerto, DespiertaDeIO, EstadoAlDespertar, Matar, Caer,
     planVars, procesos, locales
<1>9. CASE \/ PasoCPU \/ PasoInterrupciones \/ UNCHANGED vars
           \/ \E p \in Pids : PasoTimer(p)
           \/ \E i \in Interfaces : PasoConexion(i)
  BY <1>3, <1>9 DEF PasoCPU, PasoInterrupciones, PasoTimer, VenceTimer, PasoConexion, ConectarIO,
     vars, planVars, procesos, locales
<1> QED  BY <1>2, <1>5, <1>6, <1>7, <1>8, <1>9 DEF Next

\* Every step keeps the invariant of the places.
LEMMA PasoLugares ==
  ASSUME Supuestos, ITipo, ITipo', ILugares, [Next]_vars
  PROVE  ILugares'
<1>1. ASSUME UNCHANGED <<idPCB, estado, cNEW, cREADY, cREADY_PLUS, cEXIT, lBlocked, cBloqueados>>,
             UNCHANGED <<pcIO, pc, mano, desbl>>
      PROVE  Ubicados'
  <2>1. Ajenos({})
    BY <1>1 DEF Ajenos, ConAlguien
  <2>2. ClasesAjenas({<<"mano", "consola">>})
    BY <1>1, ClasesDeHilo
  <2>3. En(<<"mano", "consola">>) = <<>>
    <3>1. ~ConAlguien("consola")
      BY DEF ILugares, SinBajas, ConAlguien
    <3> QED  BY <3>1, Contenido DEF Si
  <2> QED  BY <1>1, <2>1, <2>2, <2>3, Marco, PasoQuieto DEF ILugares
<1>2. ASSUME \/ PasoCPU \/ PasoInterrupciones \/ UNCHANGED vars
             \/ \E p \in Pids : PasoTimer(p)
             \/ \E i \in Interfaces : PasoConexion(i)
      PROVE  Ubicados'
  BY <1>1, <1>2 DEF PasoCPU, PasoInterrupciones, PasoTimer, VenceTimer, PasoConexion, ConectarIO,
     vars, planVars, procesos, colas, recursosVars, locales, ioVars
<1>3. Ubicados'
  BY <1>2, LugaresPLP, LugaresCarnicero, LugaresPCP, LugaresHiloIO, LugaresConsola
     DEF Next, PasoPLP, PasoCarnicero, PasoPCP, PasoIO, PasoConsola
<1> QED  BY <1>3, SigueSinBajas, SigueManosLibres, SigueEnLista, SigueCedeSinCPU DEF ILugares

\* Initially there is nobody anywhere.
LEMMA InitLugares == Init => ILugares
<1> SUFFICES ASSUME Init PROVE ILugares
  OBVIOUS
<1> USE DEF Init, PlanificacionInit
<1>1. ASSUME NEW s \in Sitios PROVE En(s) = <<>>
  <2>1. CASE s \in {<<"cNEW", "-">>, <<"cREADY", "-">>, <<"cREADY_PLUS", "-">>, <<"cEXIT", "-">>}
    BY <2>1, Contenido
  <2>2. ASSUME NEW r \in Recursos, s = <<"cBloqueados", r>> PROVE En(s) = <<>>
    BY <2>2, Contenido
  <2>3. ASSUME NEW p \in Pids, s = <<"lBlocked", p>> \/ s = <<"io", p>> PROVE En(s) = <<>>
    <3>1. p \notin lBlocked /\ pcIO[p] \notin {"repone", "despierta", "exit", "exit_cae"}
      BY DEF AtencionIOInit
    <3> QED  BY <2>3, <3>1, Contenido DEF Si
  <2>4. ASSUME NEW h \in Hilos, s = <<"mano", h>> \/ s = <<"desbl", h>> PROVE En(s) = <<>>
    <3>1. ~ConAlguien(h) /\ desbl[h] = Nadie
      BY DEF ConAlguien
    <3> QED  BY <2>4, <3>1, Contenido DEF Si
  <2> QED  BY <2>1, <2>2, <2>3, <2>4, CadaSitio
<1>2. Repartidos /\ EstadosSegunSitio
  BY <1>1 DEF Repartidos, EstadosSegunSitio, SinRepetir, Presente, Donde, Vivo
<1>3. SinBajas /\ ManosLibres /\ EnListaDeIO /\ PorCrear /\ CedeSinCPU
  BY DEF ConsolaInit, AtencionIOInit, SinBajas, ManosLibres, EnListaDeIO, PorCrear, CedeSinCPU,
     Hilos
<1> QED  BY <1>2, <1>3 DEF ILugares, Ubicados

\* What the scheduler is working with is RUNNING, or what estado says of it.
LEMMA EnManoDe ==
  ASSUME ITipo, ILugares, NEW h \in {"plp", "pcp"},
         h = "pcp" => pc["pcp"] \notin {"espera", "toma", "toma_plus", "io_cede"},
         NEW p \in Pids, p = mano[h]
  PROVE  estado[p] \in EstadosEnMano(h)
<1>1. ConAlguien(h) /\ mano[h] = p /\ h \in Hilos
  BY DEF ITipo, Recorridos, ConAlguien, Nadie, Pids, Hilos
<1>2. <<"mano", h>> \in Sitios /\ En(<<"mano", h>>) = <<p>>
  BY <1>1, Contenido DEF Sitios, Si
<1>3. Ubicados
  BY DEF ILugares
<1> QED  BY <1>2, <1>3, EnVariable, Clases

\* Being shared out is being in one place.
LEMMA UnLugarCadaUno == Repartidos => UnSoloLugar
<1> SUFFICES ASSUME Repartidos, NEW p \in Pids, Vivo(p)
             PROVE  Cardinality(DondeEsta(p)) = 1
  BY DEF UnSoloLugar, Vivo
<1>1. Presente(Donde, p)
  BY DEF Repartidos
<1>2. PICK s \in Sitios : \E i \in DOMAIN En(s) : En(s)[i] = p
  BY <1>1 DEF Presente, Donde
<1>3. PICK i \in DOMAIN En(s) : En(s)[i] = p
  BY <1>2
<1>4. ASSUME NEW t \in Sitios, NEW j \in DOMAIN En(t), En(t)[j] = p PROVE t = s /\ j = i
  <2>1. Donde[s] = En(s) /\ Donde[t] = En(t) /\ DOMAIN Donde = Sitios
    BY DEF Donde
  <2> QED  BY <1>3, <1>4, <2>1 DEF Repartidos, SinRepetir
<1>5. DondeEsta(p) = {<<s, i>>}
  BY <1>3, <1>4 DEF DondeEsta
<1> QED  BY <1>5, FS_Singleton

\* The invariant of the places holds in every behaviour.
THEOREM InvarianteDeLugares ==
  ASSUME Supuestos
  PROVE  Spec => []ILugares
<1>1. IInv /\ IInv' /\ ILugares /\ [Next]_vars => ILugares'
  BY PasoLugares DEF IInv
<1> QED  BY <1>1, InitLugares, Invariante, PTL DEF Spec

\* While no process is killed and no list operation races, every process that was
\* created and not yet freed is in exactly one queue, list or thread's hand: no step
\* of any thread loses one or lets two threads have it (every queue_pop, queue_push
\* and list_remove_element of kernel.c).
THEOREM CadaUnoEnSuLugar ==
  ASSUME Supuestos
  PROVE  Spec => []UnSoloLugar
<1>1. ILugares => UnSoloLugar
  BY UnLugarCadaUno DEF ILugares, Ubicados
<1> QED  BY <1>1, InvarianteDeLugares, PTL

-----------------------------------------------------------------------------
(***************************************************************************)
(* The lifecycle of the processes: under the same assumptions the kernel   *)
(* implements CicloDeVida, and the slots of multiprogramming are exact.    *)
(* Both follow from one lemma, PasoDeVida: what each step does to the      *)
(* life of a process and to the slots.                                     *)
(***************************************************************************)

\* The slots of the degree in force that are not free.
Ocupados == multiprogramacion - sMultiprogramacion

\* Only the life of p changes.
Cambia(p, de, a) ==
  /\ Vida(p) = de /\ Vida(p)' = a
  /\ \A q \in Pids \ {p} : Vida(q)' = Vida(q)

\* What a step does to the life of p and to the slots.
Nace(p) == Cambia(p, "SIN_CREAR", "NEW") /\ Ocupados' = Ocupados
Entra(p) == sMultiprogramacion > 0 /\ Cambia(p, "NEW", "READY") /\ Ocupados' = Ocupados + 1
SeRechaza(p) == p \in SinArchivo /\ Cambia(p, "NEW", "EXIT") /\ Ocupados' = Ocupados + 1
Corre(p) ==
  /\ \A q \in Pids : Vida(q) # "EXEC"
  /\ Cambia(p, "READY", "EXEC")
  /\ Ocupados' = Ocupados
Cede(p) ==
  /\ \/ Cambia(p, "EXEC", "READY") \/ Cambia(p, "EXEC", "BLOCKED") \/ Cambia(p, "BLOCKED", "READY")
  /\ Ocupados' = Ocupados
Muere(p) ==
  /\ Cambia(p, "EXEC", "EXIT") \/ Cambia(p, "BLOCKED", "EXIT")
  /\ Ocupados' = Ocupados - 1
Nada == (\A q \in Pids : Vida(q)' = Vida(q)) /\ Ocupados' = Ocupados

DeVida == Nada \/ \E p \in Pids : Nace(p) \/ Entra(p) \/ SeRechaza(p) \/ Corre(p) \/ Cede(p) \/ Muere(p)

-----------------------------------------------------------------------------
(***************************************************************************)
(* What a step does                                                        *)
(***************************************************************************)

\* The life of a process, one estado at a time...
LEMMA Vidas ==
  ASSUME NEW p
  PROVE  /\ estado[p] \in {"SIN_CREAR", "NEW", "BLOCKED"} => Vida(p) = estado[p]
         /\ estado[p] \in {"READY", "READY_PLUS"} => Vida(p) = "READY"
         /\ estado[p] = "RUNNING" /\ Despachado = p => Vida(p) = "EXEC"
         /\ estado[p] = "RUNNING" /\ Despachado # p => Vida(p) = "READY"
         /\ estado[p] \in {"FINISHED", "LIBERADO"} => Vida(p) = "EXIT"
  BY DEF Vida

\* ...and after the step.
LEMMA VidasDespues ==
  ASSUME NEW p
  PROVE  /\ estado'[p] \in {"SIN_CREAR", "NEW", "BLOCKED"} => Vida(p)' = estado'[p]
         /\ estado'[p] \in {"READY", "READY_PLUS"} => Vida(p)' = "READY"
         /\ estado'[p] = "RUNNING" /\ Despachado' = p => Vida(p)' = "EXEC"
         /\ estado'[p] = "RUNNING" /\ Despachado' # p => Vida(p)' = "READY"
         /\ estado'[p] \in {"FINISHED", "LIBERADO"} => Vida(p)' = "EXIT"
  BY DEF Vida, Despachado

\* A step of somebody else than the scheduler changes only the lives it changes estado of.
LEMMA VidaIgual ==
  ASSUME NEW p, estado'[p] = estado[p], Despachado' = Despachado
  PROVE  Vida(p)' = Vida(p)
  BY DEF Vida, Despachado

\* The long-term scheduler admits the process it has, or rejects it.
LEMMA VidaPLP ==
  ASSUME Supuestos, ITipo, ILugares, PLP, UNCHANGED <<ioVars, consolaVars>>
  PROVE  DeVida
<1>1. /\ pc \in [Hilos -> Lugares] /\ mano \in [Hilos -> Pids \cup {Nadie}]
      /\ estado \in [Pids -> Estados] /\ LocalesEnUso
      /\ sMultiprogramacion \in Nat /\ multiprogramacion \in Nat
  BY DEF ITipo, TypeOK, PlanificacionTypeOK, LocalesTypeOK, ProcesosTypeOK, SemaforosTypeOK,
     ConsolaTypeOK
<1>2. Despachado' = Despachado /\ UNCHANGED multiprogramacion
  BY <1>1 DEF PLP, EsperaNuevo, TomaNuevo, Admite, Rechaza, AdmiteNadie, IngresaReady,
     IngresaReadyPerdido, TerminaMatadero, IrSoltando, Caer, Despachado, Hilos, locales,
     consolaVars
<1>3. CASE Admite \/ Rechaza
  <2>1. PICK p \in Pids : p = mano["plp"]
    BY <1>3, LargoPlazoAssumption DEF Admite, Rechaza
  <2>2. estado[p] = "NEW"
    <3>1. estado[p] \in EstadosEnMano("plp")
      BY <2>1, EnManoDe
    <3> QED  BY <1>3, <3>1 DEF Admite, Rechaza, EsperaCupo, EstadosEnMano
  <2>3. /\ \A q \in Pids \ {p} : estado'[q] = estado[q]
        /\ sMultiprogramacion > 0 /\ sMultiprogramacion' = sMultiprogramacion - 1
        /\ Admite => estado'[p] = "READY"
        /\ Rechaza => estado'[p] = "FINISHED" /\ p \in SinArchivo
    BY <1>1, <1>3, <2>1 DEF Admite, Rechaza, EsperaCupo
  <2>4. \A q \in Pids \ {p} : Vida(q)' = Vida(q)
    BY <1>2, <2>3, VidaIgual
  <2>5. Vida(p) = "NEW" /\ (Admite => Vida(p)' = "READY") /\ (Rechaza => Vida(p)' = "EXIT")
    BY <2>2, <2>3, Vidas, VidasDespues
  <2>6. Ocupados' = Ocupados + 1
    BY <1>1, <1>2, <2>3 DEF Ocupados
  <2>7. CASE Admite
    BY <2>3, <2>4, <2>5, <2>6, <2>7 DEF DeVida, Entra, Cambia
  <2>8. CASE Rechaza
    BY <2>3, <2>4, <2>5, <2>6, <2>8 DEF DeVida, SeRechaza, Cambia
  <2> QED  BY <1>3, <2>7, <2>8
<1>4. CASE ~(Admite \/ Rechaza)
  <2>1. UNCHANGED <<estado, sMultiprogramacion>>
    BY <1>4 DEF Supuestos, PLP, EsperaNuevo, TomaNuevo, AdmiteNadie, IngresaReady,
       IngresaReadyPerdido, TerminaMatadero, Caer, procesos, semaforos
  <2>2. Ocupados' = Ocupados /\ \A q \in Pids : Vida(q)' = Vida(q)
    BY <1>2, <2>1, VidaIgual DEF Ocupados
  <2> QED  BY <2>2 DEF DeVida, Nada
<1> QED  BY <1>3, <1>4

\* liberar_recurso unblocks the first that waits.
LEMMA VidaLiberarRecurso ==
  ASSUME ITipo, ILugares, NEW h \in {"pcp", "carnicero"}, LiberarRecurso(h),
         UNCHANGED <<ioVars, consolaVars>>
  PROVE  DeVida
<1>1. /\ mano \in [Hilos -> Pids \cup {Nadie}] /\ estado \in [Pids -> Estados]
      /\ cBloqueados \in [Recursos -> Seq(Pids)] /\ LocalesEnUso /\ h \in Hilos
  BY DEF ITipo, TypeOK, PlanificacionTypeOK, LocalesTypeOK, ProcesosTypeOK, RecursosTypeOK, Hilos
<1>2. Despachado' = Despachado /\ UNCHANGED <<multiprogramacion, sMultiprogramacion>>
  BY DEF LiberarRecurso, LiberaInstancia, MiraBloqueados, SacaBloqueado, SacaNadie,
     DespiertaBloqueado, Caer, Despachado, locales, semaforos, consolaVars
<1>3. Ocupados' = Ocupados
  BY <1>2 DEF Ocupados
<1>4. CASE SacaBloqueado(h)
  <2>1. PICK r \in Recursos : r = rec[h]
    BY <1>1, <1>4 DEF SacaBloqueado, LocalesEnUso
  <2>2. cBloqueados[r] # <<>> /\ cBloqueados[r] \in Seq(Pids)
    BY <1>1, <1>4, <2>1 DEF SacaBloqueado
  <2>3. PICK p \in Pids : p = Head(cBloqueados[r])
    BY <2>2, Cola
  <2> DEFINE a == <<"cBloqueados", r>>
  <2>4. a \in Sitios /\ En(a) = cBloqueados[r] /\ EstadosEn(a) = {"BLOCKED"}
    BY Contenido, Clases DEF Sitios
  <2>5. estado[p] = "BLOCKED"
    BY <2>2, <2>3, <2>4, EnCabeza DEF ILugares
  <2>6. estado'[p] \in {"READY", "READY_PLUS"} /\ \A q \in Pids \ {p} : estado'[q] = estado[q]
    BY <1>1, <1>4, <2>1, <2>3 DEF SacaBloqueado, EstadoAlDespertar
  <2>7. Vida(p) = "BLOCKED" /\ Vida(p)' = "READY"
    BY <2>5, <2>6, Vidas, VidasDespues
  <2>8. \A q \in Pids \ {p} : Vida(q)' = Vida(q)
    BY <1>2, <2>6, VidaIgual
  <2> QED  BY <1>3, <2>7, <2>8 DEF DeVida, Cede, Cambia
<1>5. CASE ~SacaBloqueado(h)
  <2>1. UNCHANGED estado
    BY <1>5 DEF LiberarRecurso, LiberaInstancia, MiraBloqueados, SacaNadie, DespiertaBloqueado,
       Caer, procesos
  <2>2. \A q \in Pids : Vida(q)' = Vida(q)
    BY <1>2, <2>1, VidaIgual
  <2> QED  BY <1>3, <2>2 DEF DeVida, Nada
<1> QED  BY <1>4, <1>5

\* The carnicero frees dead processes, and what they held.
LEMMA VidaCarnicero ==
  ASSUME ITipo, ILugares, Carnicero, UNCHANGED <<ioVars, consolaVars>>
  PROVE  DeVida
<1>1. CASE LiberarRecurso("carnicero")
  BY <1>1, VidaLiberarRecurso
<1>2. CASE ~LiberarRecurso("carnicero")
  <2>1. /\ pc \in [Hilos -> Lugares] /\ mano \in [Hilos -> Pids \cup {Nadie}]
        /\ estado \in [Pids -> Estados] /\ LocalesEnUso /\ "carnicero" \in Hilos
        /\ Nadie \notin Pids
    BY DEF ITipo, TypeOK, PlanificacionTypeOK, LocalesTypeOK, ProcesosTypeOK, Hilos, Nadie, Pids
  <2>2. Despachado' = Despachado /\ UNCHANGED <<multiprogramacion, sMultiprogramacion>>
    BY <2>1, <1>2 DEF Carnicero, EsperaFinalizado, TomaFinalizado, SueltaRecurso, LiberaProceso,
       IrSoltando, Despachado, Hilos, semaforos, consolaVars
  <2>3. Ocupados' = Ocupados
    BY <2>2 DEF Ocupados
  <2>4. CASE LiberaProceso
    <3>1. PICK p \in Pids : p = mano["carnicero"]
      BY <2>1, <2>4 DEF LiberaProceso, LocalesEnUso
    <3>2. <<"mano", "carnicero">> \in Sitios /\ En(<<"mano", "carnicero">>) = <<p>>
      <4>1. ConAlguien("carnicero") /\ mano["carnicero"] = p
        BY <2>1, <2>4, <3>1 DEF LiberaProceso, ConAlguien
      <4> QED  BY <2>1, <4>1, Contenido DEF Sitios, Si
    <3>3. estado[p] = "FINISHED"
      BY <3>2, EnVariable, ClaseDelCarnicero DEF ILugares
    <3>4. estado'[p] = "LIBERADO" /\ \A q \in Pids \ {p} : estado'[q] = estado[q]
      BY <2>1, <2>4, <3>1 DEF LiberaProceso
    <3>5. Vida(p)' = Vida(p)
      BY <3>3, <3>4, Vidas, VidasDespues
    <3>6. \A q \in Pids \ {p} : Vida(q)' = Vida(q)
      BY <2>2, <3>4, VidaIgual
    <3> QED  BY <2>3, <3>5, <3>6 DEF DeVida, Nada
  <2>5. CASE ~LiberaProceso
    <3>1. UNCHANGED estado
      BY <1>2, <2>5 DEF Carnicero, EsperaFinalizado, TomaFinalizado, SueltaRecurso, procesos
    <3>2. \A q \in Pids : Vida(q)' = Vida(q)
      BY <2>2, <3>1, VidaIgual
    <3> QED  BY <2>3, <3>2 DEF DeVida, Nada
  <2> QED  BY <2>4, <2>5
<1> QED  BY <1>1, <1>2

\* The short-term scheduler chooses a process, and takes it off the CPU.
LEMMA VidaPCP ==
  ASSUME Supuestos, ITipo, ILugares, PCP, UNCHANGED consolaVars
  PROVE  DeVida
<1>1. /\ pc \in [Hilos -> Lugares] /\ mano \in [Hilos -> Pids \cup {Nadie}]
      /\ estado \in [Pids -> Estados] /\ cREADY \in Seq(Pids) /\ cREADY_PLUS \in Seq(Pids)
      /\ sMultiprogramacion \in Nat /\ multiprogramacion \in Nat
      /\ LocalesEnUso /\ "pcp" \in Hilos /\ UNCHANGED multiprogramacion
      /\ Ubicados /\ CedeSinCPU /\ ManosLibres /\ Nadie \notin Pids
  BY DEF ITipo, TypeOK, PlanificacionTypeOK, LocalesTypeOK, ProcesosTypeOK, ColasTypeOK, Hilos,
     SemaforosTypeOK, ConsolaTypeOK, consolaVars, ILugares, Nadie, Pids
<1>2. ASSUME UNCHANGED sMultiprogramacion PROVE Ocupados' = Ocupados
  BY <1>1, <1>2 DEF Ocupados
<1>3. ASSUME pc["pcp"] \notin {"espera", "toma", "toma_plus", "io_cede"}
      PROVE  \E p \in Pids : p = Despachado /\ estado[p] \in EstadosEnMano("pcp")
  <2>1. PICK p \in Pids : p = mano["pcp"]
    BY <1>1, <1>3 DEF LocalesEnUso
  <2> QED  BY <1>3, <2>1, EnManoDe DEF Despachado
<1>4. CASE TomaReady \/ TomaReadyPlus
  <2>1. PICK p \in Pids : Elegir(p) /\ estado[p] \in {"READY", "READY_PLUS", "RUNNING"}
    <3>1. CASE TomaReady
      <4>1. PICK p \in Pids : p = Head(cREADY)
        BY <1>1, <3>1, Cola DEF TomaReady
      <4>2. <<"cREADY", "-">> \in Sitios /\ En(<<"cREADY", "-">>) = cREADY /\ cREADY # <<>>
        BY <3>1, Contenido DEF Sitios, TomaReady
      <4>3. estado[p] \in EstadosEn(<<"cREADY", "-">>)
        BY <1>1, <4>1, <4>2, EnCabeza
      <4> QED  BY <3>1, <4>1, <4>3, Clases DEF TomaReady
    <3>2. CASE TomaReadyPlus
      <4>1. PICK p \in Pids : p = Head(cREADY_PLUS)
        BY <1>1, <3>2, Cola DEF TomaReadyPlus
      <4>2. /\ <<"cREADY_PLUS", "-">> \in Sitios /\ En(<<"cREADY_PLUS", "-">>) = cREADY_PLUS
            /\ cREADY_PLUS # <<>>
        BY <3>2, Contenido DEF Sitios, TomaReadyPlus
      <4>3. estado[p] \in EstadosEn(<<"cREADY_PLUS", "-">>)
        BY <1>1, <4>1, <4>2, EnCabeza
      <4> QED  BY <3>2, <4>1, <4>3, Clases DEF TomaReadyPlus
    <3> QED  BY <1>4, <3>1, <3>2
  <2>2. Despachado = Nadie
    BY <1>1, <1>4 DEF TomaReady, TomaReadyPlus, ManosLibres, Despachado
  <2>3. Despachado' = p /\ estado'[p] = "RUNNING" /\ \A q \in Pids \ {p} : estado'[q] = estado[q]
    BY <1>1, <2>1 DEF Elegir, Despachado
  <2>4. \A q \in Pids : Vida(q) # "EXEC"
    BY <1>1, <2>2 DEF Vida
  <2>5. Vida(p) = "READY" /\ Vida(p)' = "EXEC"
    BY <1>1, <2>1, <2>2, <2>3, Vidas, VidasDespues
  <2>6. \A q \in Pids \ {p} : Vida(q)' = Vida(q)
    <3> TAKE q \in Pids \ {p}
    <3>1. Despachado # q /\ Despachado' # q /\ estado'[q] = estado[q]
      BY <1>1, <2>2, <2>3
    <3> QED  BY <3>1 DEF Vida, Despachado
  <2>7. Ocupados' = Ocupados
    BY <1>2, <2>1 DEF Elegir, semaforos
  <2> QED  BY <2>4, <2>5, <2>6, <2>7 DEF DeVida, Corre, Cambia
<1>5. CASE VuelveParaMorir \/ VuelvePorIO \/ VuelvePorQuantum \/ DecideBloquear \/ DecideOtorgar
  <2>1. PICK p \in Pids : p = Despachado /\ estado[p] \in EstadosEnMano("pcp")
    BY <1>3, <1>5 DEF VuelveParaMorir, VuelvePorIO, VuelvePorQuantum, DecideBloquear, DecideOtorgar
  <2>2. estado[p] = "RUNNING"
    BY <1>5, <2>1 DEF VuelveParaMorir, VuelvePorIO, VuelvePorQuantum, DecideBloquear,
       DecideOtorgar, EstadosEnMano
  <2>3. Despachado' = Despachado /\ \A q \in Pids \ {p} : estado'[q] = estado[q]
    BY <1>1, <1>5, <2>1 DEF VuelveParaMorir, VuelvePorIO, VuelvePorQuantum, DecideBloquear,
       DecideOtorgar, Matar, Despachado
  <2>4. Vida(p) = "EXEC" /\ \A q \in Pids \ {p} : Vida(q)' = Vida(q)
    BY <2>1, <2>2, <2>3, Vidas, VidaIgual
  <2>5. CASE VuelveParaMorir
    <3>1. estado'[p] = "FINISHED" /\ sMultiprogramacion' = sMultiprogramacion + 1
      BY <1>1, <2>1, <2>2, <2>5 DEF VuelveParaMorir, Matar
    <3>2. Ocupados' = Ocupados - 1
      BY <1>1, <3>1 DEF Ocupados
    <3>3. Vida(p)' = "EXIT"
      BY <3>1, VidasDespues
    <3> QED  BY <2>4, <3>2, <3>3 DEF DeVida, Muere, Cambia
  <2>6. CASE VuelvePorIO \/ DecideBloquear
    <3>1. estado'[p] = "BLOCKED" /\ UNCHANGED sMultiprogramacion
      BY <1>1, <2>1, <2>6 DEF VuelvePorIO, DecideBloquear, semaforos
    <3>2. Vida(p)' = "BLOCKED"
      BY <3>1, VidasDespues
    <3> QED  BY <1>2, <2>4, <3>1, <3>2 DEF DeVida, Cede, Cambia
  <2>7. CASE VuelvePorQuantum \/ DecideOtorgar
    <3>1. estado'[p] \in {"READY", "READY_PLUS"} /\ UNCHANGED sMultiprogramacion
      BY <1>1, <2>1, <2>7 DEF VuelvePorQuantum, DecideOtorgar, EstadoAlDespertar, semaforos
    <3>2. Vida(p)' = "READY"
      BY <3>1, VidasDespues
    <3> QED  BY <1>2, <2>4, <3>1, <3>2 DEF DeVida, Cede, Cambia
  <2> QED  BY <1>5, <2>5, <2>6, <2>7
<1>6. CASE \/ EsperaListo \/ TomaNadie \/ Despacha \/ Recibe \/ VuelvePorPedido
           \/ VuelvePorDevolucion \/ CreaHiloIO \/ DescuentaInstancia
  <2>1. UNCHANGED <<estado, sMultiprogramacion>> /\ Despachado' = Despachado
    BY <1>1, <1>6 DEF EsperaListo, TomaNadie, Despacha, Recibe, VuelvePorPedido,
       VuelvePorDevolucion, CreaHiloIO, DescuentaInstancia, Caer, procesos, semaforos, locales,
       Despachado
  <2> QED  BY <1>2, <2>1, VidaIgual DEF DeVida, Nada
<1>7. CASE \/ EsperaVector \/ EncolaBloqueado \/ ReingresaReady \/ ReingresaPlus
           \/ ReingresaSinMutex \/ TerminaMatadero("pcp")
  <2>1. PICK p \in Pids : p = Despachado
    BY <1>1, <1>7 DEF EsperaVector, EncolaBloqueado, ReingresaReady, ReingresaPlus,
       ReingresaSinMutex, TerminaMatadero, LocalesEnUso, Despachado
  <2>2. UNCHANGED <<estado, sMultiprogramacion>> /\ Despachado' = Nadie
    BY <1>1, <1>7 DEF EsperaVector, EncolaBloqueado, ReingresaReady, ReingresaPlus,
       ReingresaSinMutex, Reingreso, TerminaMatadero, IrSoltando, procesos, semaforos, Despachado
  <2>3. \A q \in Pids \ {p} : Vida(q)' = Vida(q)
    <3> TAKE q \in Pids \ {p}
    <3>1. Despachado # q /\ Despachado' # q /\ estado'[q] = estado[q]
      BY <1>1, <2>1, <2>2
    <3> QED  BY <3>1 DEF Vida, Despachado
  <2>4. CASE estado[p] # "RUNNING"
    <3>1. Vida(p)' = Vida(p)
      BY <2>2, <2>4 DEF Vida
    <3> QED  BY <1>2, <2>2, <2>3, <3>1 DEF DeVida, Nada
  <2>5. CASE estado[p] = "RUNNING"
    <3>1. Vida(p) = "EXEC" /\ Vida(p)' = "READY"
      BY <1>1, <2>1, <2>2, <2>5, Vidas, VidasDespues
    <3> QED  BY <1>2, <2>2, <2>3, <3>1 DEF DeVida, Cede, Cambia
  <2> QED  BY <2>4, <2>5
<1>8. CASE LiberarRecurso("pcp") /\ UNCHANGED ioVars
  BY <1>8, VidaLiberarRecurso
<1> QED  BY <1>4, <1>5, <1>6, <1>7, <1>8 DEF PCP, ReingresaPerdido, Supuestos

\* An I/O thread unblocks its process, or ends it.
LEMMA VidaHiloIO ==
  ASSUME ITipo, ILugares, NEW p \in Pids, AtenderSolicitudIO(p), UNCHANGED consolaVars
  PROVE  DeVida
<1>1. /\ pcIO \in [Pids -> LugaresIO] /\ estado \in [Pids -> Estados]
      /\ sMultiprogramacion \in Nat /\ multiprogramacion \in Nat /\ UNCHANGED multiprogramacion
      /\ EnListaDeIO /\ Ubicados
  BY DEF ITipo, TypeOK, PlanificacionTypeOK, ProcesosTypeOK, SemaforosTypeOK, AtencionIOTypeOK,
     ConsolaTypeOK, consolaVars, ILugares
<1>2. Despachado' = Despachado
  BY DEF AtenderSolicitudIO, RecibeVector, BuscaInterfaz, TomaInterfaz, UsaConexionLiberada,
     Repone, RespondeIO, FallaIO, FallaIODeMuerto, TerminaMataderoIO, CortaConexion, ExitoIO,
     ExitoIODeMuerto, DespiertaDeIO, Caer, planVars, locales, Despachado
<1>3. CASE FallaIO(p) \/ ExitoIO(p)
  <2>1. estado[p] = "BLOCKED"
    <3>1. p \in lBlocked
      BY <1>1, <1>3 DEF FallaIO, ExitoIO, EnListaDeIO
    <3>2. <<"lBlocked", p>> \in Sitios /\ En(<<"lBlocked", p>>) = <<p>>
      BY <3>1, Contenido DEF Sitios, Si
    <3> QED  BY <1>1, <3>2, EnVariable, Clases
  <2>2. \A q \in Pids \ {p} : estado'[q] = estado[q]
    BY <1>1, <1>3 DEF FallaIO, ExitoIO, Matar
  <2>3. Vida(p) = "BLOCKED" /\ \A q \in Pids \ {p} : Vida(q)' = Vida(q)
    BY <1>2, <2>1, <2>2, Vidas, VidaIgual
  <2>4. CASE FallaIO(p)
    <3>1. estado'[p] = "FINISHED" /\ sMultiprogramacion' = sMultiprogramacion + 1
      BY <1>1, <2>1, <2>4 DEF FallaIO, Matar
    <3>2. Ocupados' = Ocupados - 1 /\ Vida(p)' = "EXIT"
      BY <1>1, <3>1, VidasDespues DEF Ocupados
    <3> QED  BY <2>3, <3>2 DEF DeVida, Muere, Cambia
  <2>5. CASE ExitoIO(p) /\ SigueBloqueado(p)
    <3>1. estado'[p] \in {"READY", "READY_PLUS"} /\ UNCHANGED sMultiprogramacion
      BY <1>1, <2>5 DEF ExitoIO, EstadoAlDespertar, semaforos
    <3>2. Ocupados' = Ocupados /\ Vida(p)' = "READY"
      BY <1>1, <3>1, VidasDespues DEF Ocupados
    <3> QED  BY <2>3, <3>2 DEF DeVida, Cede, Cambia
  <2>6. CASE ExitoIO(p) /\ ~SigueBloqueado(p)
    BY <1>1, <2>6 DEF ExitoIO, EnListaDeIO, SigueBloqueado
  <2> QED  BY <1>3, <2>4, <2>5, <2>6
<1>4. CASE ~(FallaIO(p) \/ ExitoIO(p))
  <2>1. UNCHANGED <<estado, sMultiprogramacion>>
    BY <1>4 DEF AtenderSolicitudIO, RecibeVector, BuscaInterfaz, TomaInterfaz,
       UsaConexionLiberada, Repone, RespondeIO, FallaIODeMuerto, TerminaMataderoIO, CortaConexion,
       ExitoIODeMuerto, DespiertaDeIO, Caer, planVars, procesos, semaforos
  <2>2. Ocupados' = Ocupados
    BY <1>1, <2>1 DEF Ocupados
  <2> QED  BY <1>2, <2>1, <2>2, VidaIgual DEF DeVida, Nada
<1> QED  BY <1>3, <1>4

\* The console creates processes, and moves slots and the degree together.
LEMMA VidaConsola ==
  ASSUME Supuestos, ITipo, ILugares, ConsolaNext
  PROVE  DeVida
<1>1. /\ pc \in [Hilos -> Lugares] /\ mano \in [Hilos -> Pids \cup {Nadie}]
      /\ estado \in [Pids -> Estados] /\ idPCB \in Nat /\ idPCB >= 1
      /\ sMultiprogramacion \in Nat /\ multiprogramacion \in Nat
      /\ SinBajas /\ PorCrear /\ Grados \in SUBSET Nat
  BY CpuAssumption, ConsolaAssumption DEF ITipo, TypeOK, PlanificacionTypeOK, LocalesTypeOK,
     ProcesosTypeOK, SemaforosTypeOK, ConsolaTypeOK, ILugares, Ubicados
<1>2. Despachado' = Despachado
  BY <1>1 DEF Supuestos, SinBajas, ConsolaNext, CrearProceso, DetenerPlanificacion, DetenerPara,
     TomaMutexes, IniciarPlanificacion, ProcesoEstado, ListaProcesos, InterrumpirProceso,
     FinalizarProceso, Lee, BuscaVictima, NoEncuentra, QuitaVictima, QuitaVictimaYaLibre,
     QuitaVictimaReady, EsperaToken, SubirGrado, BajarGrado, RetiraCupo, TerminaMatadero,
     locales, Despachado
<1>3. CASE CrearProceso
  <2>1. PICK p \in Pids : p = idPCB
    BY <1>1, <1>3, CpuAssumption DEF CrearProceso, Pids
  <2>2. /\ estado[p] = "SIN_CREAR" /\ estado'[p] = "NEW"
        /\ \A q \in Pids \ {p} : estado'[q] = estado[q]
        /\ UNCHANGED <<multiprogramacion, sMultiprogramacion>>
    BY <1>1, <1>3, <2>1 DEF CrearProceso, PorCrear, Pids, consolaVars
  <2>3. Vida(p) = "SIN_CREAR" /\ Vida(p)' = "NEW" /\ \A q \in Pids \ {p} : Vida(q)' = Vida(q)
    BY <1>2, <2>2, Vidas, VidasDespues, VidaIgual
  <2>4. Ocupados' = Ocupados
    BY <2>2 DEF Ocupados
  <2> QED  BY <2>3, <2>4 DEF DeVida, Nace, Cambia
<1>4. CASE ~CrearProceso
  <2>1. UNCHANGED estado
    BY <1>1, <1>4 DEF Supuestos, SinBajas, ConsolaNext, DetenerPlanificacion, DetenerPara,
       TomaMutexes, IniciarPlanificacion, ProcesoEstado, ListaProcesos, InterrumpirProceso,
       FinalizarProceso, Lee, BuscaVictima, NoEncuentra, QuitaVictima, QuitaVictimaYaLibre,
       QuitaVictimaReady, EsperaToken, SubirGrado, BajarGrado, RetiraCupo, TerminaMatadero,
       procesos
  <2>2. Ocupados' = Ocupados
    <3>1. ASSUME NEW g \in Grados, SubirGrado(g) PROVE Ocupados' = Ocupados
      BY <1>1, <3>1 DEF SubirGrado, Ocupados
    <3>2. CASE RetiraCupo
      BY <1>1, <3>2 DEF RetiraCupo, Ocupados
    <3>3. CASE ~(RetiraCupo \/ \E g \in Grados : SubirGrado(g))
      <4>1. UNCHANGED <<multiprogramacion, sMultiprogramacion>>
        BY <1>1, <1>4, <3>3 DEF Supuestos, SinBajas, ConsolaNext, DetenerPlanificacion,
           DetenerPara, TomaMutexes, IniciarPlanificacion, ProcesoEstado, ListaProcesos,
           InterrumpirProceso, FinalizarProceso, Lee, BuscaVictima, NoEncuentra, QuitaVictima,
           QuitaVictimaYaLibre, QuitaVictimaReady, EsperaToken, BajarGrado, TerminaMatadero,
           semaforos, consolaVars
      <4> QED  BY <4>1 DEF Ocupados
    <3> QED  BY <3>1, <3>2, <3>3
  <2> QED  BY <1>2, <2>1, <2>2, VidaIgual DEF DeVida, Nada
<1> QED  BY <1>3, <1>4

\* Every step of the kernel is one of those.
LEMMA PasoDeVida ==
  ASSUME Supuestos, ITipo, ILugares, [Next]_vars
  PROVE  DeVida
<1>1. ASSUME UNCHANGED <<estado, mano, sMultiprogramacion, multiprogramacion>> PROVE DeVida
  <2>1. Despachado' = Despachado /\ Ocupados' = Ocupados
    BY <1>1 DEF Despachado, Ocupados
  <2> QED  BY <1>1, <2>1, VidaIgual DEF DeVida, Nada
<1>2. CASE \/ PasoCPU \/ PasoInterrupciones \/ UNCHANGED vars
           \/ \E p \in Pids : PasoTimer(p)
           \/ \E i \in Interfaces : PasoConexion(i)
  BY <1>1, <1>2 DEF PasoCPU, PasoInterrupciones, PasoTimer, VenceTimer, PasoConexion, ConectarIO,
     vars, planVars, procesos, semaforos, locales, consolaVars
<1>3. CASE PasoPLP
  BY <1>3, VidaPLP DEF PasoPLP
<1>4. CASE PasoCarnicero
  BY <1>4, VidaCarnicero DEF PasoCarnicero
<1>5. CASE PasoPCP
  BY <1>5, VidaPCP DEF PasoPCP
<1>6. ASSUME NEW p \in Pids, PasoIO(p) PROVE DeVida
  BY <1>6, VidaHiloIO DEF PasoIO
<1>7. CASE PasoConsola
  BY <1>7, VidaConsola DEF PasoConsola
<1> QED  BY <1>2, <1>3, <1>4, <1>5, <1>6, <1>7 DEF Next
-----------------------------------------------------------------------------
(***************************************************************************)
(* The slots                                                               *)
(***************************************************************************)
Admitidos == {p \in Pids : Vida(p) \in {"READY", "EXEC", "BLOCKED"}}

\* The slots occupied by nobody: those of the processes whose file is not found.
Sobrantes == Ocupados - Cardinality(Admitidos)

\* There is a largest degree that the operator may ask for.
GradosAcotados == \E m \in Grados \cup {Grado} : \A g \in Grados \cup {Grado} : g <= m

DentroDelCupo == multiprogramacion <= Max(Grados \cup {Grado})

\* The admitted processes are a finite set.
LEMMA AdmitidosFinitos == IsFiniteSet(Admitidos) /\ Cardinality(Admitidos) \in Nat
<1>1. IsFiniteSet(Pids)
  BY CpuAssumption, FS_Interval DEF Pids
<1> QED  BY <1>1, FS_Subset, FS_CardinalityType DEF Admitidos

\* So are those after the step.
LEMMA AdmitidosFinitosDespues == IsFiniteSet(Admitidos') /\ Cardinality(Admitidos') \in Nat
<1>1. IsFiniteSet(Pids)
  BY CpuAssumption, FS_Interval DEF Pids
<1> QED  BY <1>1, FS_Subset, FS_CardinalityType DEF Admitidos

\* They are those that CuposMultiprogramacion counts.
LEMMA AdmitidosPorEstado ==
  ASSUME ITipo
  PROVE  Admitidos = {p \in Pids : estado[p] \in {"READY", "READY_PLUS", "RUNNING", "BLOCKED"}}
<1>1. estado \in [Pids -> Estados]
  BY DEF ITipo, TypeOK, PlanificacionTypeOK, ProcesosTypeOK
<1>2. ASSUME NEW p \in Pids
      PROVE  Vida(p) \in {"READY", "EXEC", "BLOCKED"}
               <=> estado[p] \in {"READY", "READY_PLUS", "RUNNING", "BLOCKED"}
  <2>1. estado[p] \in Estados
    BY <1>1
  <2> QED  BY <2>1, Vidas DEF Estados
<1> QED  BY <1>2 DEF Admitidos

\* A step that changes one life adds that process to the admitted ones, takes it out,
\* or leaves them as they were.
LEMMA AdmitidosTras ==
  ASSUME NEW p \in Pids, NEW de, NEW a, Cambia(p, de, a)
  PROVE  LET adm == {"READY", "EXEC", "BLOCKED"} IN
         /\ de \notin adm /\ a \in adm =>
              Cardinality(Admitidos)' = Cardinality(Admitidos) + 1
         /\ de \in adm /\ a \notin adm =>
              Cardinality(Admitidos)' = Cardinality(Admitidos) - 1
         /\ (de \in adm <=> a \in adm) =>
              Cardinality(Admitidos)' = Cardinality(Admitidos)
<1> DEFINE adm == {"READY", "EXEC", "BLOCKED"}
<1>1. /\ p \in Admitidos <=> de \in adm
      /\ p \in Admitidos' <=> a \in adm
      /\ \A q \in Pids \ {p} : q \in Admitidos' <=> q \in Admitidos
      /\ Admitidos \in SUBSET Pids /\ Admitidos' \in SUBSET Pids
  BY DEF Admitidos, Cambia
<1>2. CASE de \notin adm /\ a \in adm
  <2>1. Admitidos' = Admitidos \cup {p} /\ p \notin Admitidos
    BY <1>1, <1>2
  <2>2. Cardinality(Admitidos \cup {p}) = Cardinality(Admitidos) + 1
    BY <2>1, AdmitidosFinitos, FS_AddElement
  <2> QED  BY <1>2, <2>1, <2>2
<1>3. CASE de \in adm /\ a \notin adm
  <2>1. Admitidos' = Admitidos \ {p} /\ p \in Admitidos
    BY <1>1, <1>3
  <2>2. Cardinality(Admitidos \ {p}) = Cardinality(Admitidos) - 1
    BY <2>1, AdmitidosFinitos, FS_RemoveElement
  <2> QED  BY <1>3, <2>1, <2>2
<1>4. CASE de \in adm <=> a \in adm
  <2>1. Admitidos' = Admitidos
    BY <1>1, <1>4
  <2> QED  BY <1>4, <2>1
<1> QED  BY <1>2, <1>3, <1>4

\* A step occupies a slot for each process it admits and frees one for each that ends;
\* the slot of a rejected one stays occupied.
LEMMA CuposDePaso ==
  ASSUME ITipo, ITipo', DeVida
  PROVE  Sobrantes' >= Sobrantes /\ (SinArchivo = {} => Sobrantes' = Sobrantes)
<1> DEFINE n == Cardinality(Admitidos)
<1>1. n \in Nat /\ Ocupados \in Int /\ Ocupados' \in Int
  BY AdmitidosFinitos DEF ITipo, TypeOK, PlanificacionTypeOK, SemaforosTypeOK, ConsolaTypeOK,
     Ocupados
<1>2. CASE Nada
  <2>1. Admitidos' = Admitidos
    BY <1>2 DEF Nada, Admitidos
  <2> QED  BY <1>1, <1>2, <2>1 DEF Nada, Sobrantes
<1>3. ASSUME NEW p \in Pids, Nace(p) \/ Corre(p) \/ Cede(p)
      PROVE  Sobrantes' = Sobrantes
  <2>1. n' = n
    BY <1>3, AdmitidosTras DEF Nace, Corre, Cede
  <2> QED  BY <1>1, <1>3, <2>1 DEF Sobrantes, Nace, Corre, Cede
<1>4. ASSUME NEW p \in Pids, Entra(p) PROVE Sobrantes' = Sobrantes
  <2>1. n' = n + 1
    BY <1>4, AdmitidosTras DEF Entra
  <2> QED  BY <1>1, <1>4, <2>1 DEF Sobrantes, Entra
<1>5. ASSUME NEW p \in Pids, Muere(p) PROVE Sobrantes' = Sobrantes
  <2>1. n' = n - 1
    BY <1>5, AdmitidosTras DEF Muere
  <2> QED  BY <1>1, <1>5, <2>1 DEF Sobrantes, Muere
<1>6. ASSUME NEW p \in Pids, SeRechaza(p)
      PROVE  Sobrantes' = Sobrantes + 1 /\ SinArchivo # {}
  <2>1. n' = n
    BY <1>6, AdmitidosTras DEF SeRechaza
  <2> QED  BY <1>1, <1>6, <2>1 DEF Sobrantes, SeRechaza
<1>7. Sobrantes \in Int
  BY <1>1 DEF Sobrantes
<1> QED  BY <1>2, <1>3, <1>4, <1>5, <1>6, <1>7 DEF DeVida

\* At first every slot is free.
LEMMA CuposInit == Init => Sobrantes = 0
<1> SUFFICES ASSUME Init PROVE Sobrantes = 0
  OBVIOUS
<1>1. \A p \in Pids : Vida(p) = "SIN_CREAR"
  BY Vidas DEF Init, PlanificacionInit
<1>2. Admitidos = {} /\ Ocupados = 0
  BY <1>1, PlanificacionAssumption DEF Init, PlanificacionInit, ConsolaInit, Admitidos, Ocupados
<1> QED  BY <1>2, FS_EmptySet DEF Sobrantes

\* If every process's file is found, no process is killed and no list operation races,
\* the admitted processes and the free slots add up to the degree in force at every
\* moment: no end of a process, by EXIT, by an error or by an I/O failure, nor any
\* change of the degree by the console, loses a slot or gives one back twice.
THEOREM CuposExactos ==
  ASSUME Supuestos, SinArchivo = {}
  PROVE  Spec => []CuposMultiprogramacion
<1>1. IInv /\ IInv' /\ ILugares /\ Sobrantes = 0 /\ [Next]_vars => (Sobrantes = 0)'
  BY PasoDeVida, CuposDePaso DEF IInv
<1>2. ASSUME IInv, Sobrantes = 0 PROVE CuposMultiprogramacion
  <2>1. sMultiprogramacion \in Nat /\ multiprogramacion \in Nat
    BY <1>2 DEF IInv, ITipo, TypeOK, PlanificacionTypeOK, SemaforosTypeOK, ConsolaTypeOK
  <2>2. sMultiprogramacion + Cardinality(Admitidos) = multiprogramacion
    BY <1>2, <2>1, AdmitidosFinitos DEF Sobrantes, Ocupados
  <2> QED  BY <1>2, <2>2, AdmitidosPorEstado DEF CuposMultiprogramacion, IInv
<1>3. IInv /\ Sobrantes = 0 => CuposMultiprogramacion
  BY <1>2
<1> QED  BY <1>1, <1>3, CuposInit, Invariante, InvarianteDeLugares, PTL DEF Spec

-----------------------------------------------------------------------------
(***************************************************************************)
(* The refinement                                                          *)
(***************************************************************************)

\* The degree in force never exceeds the largest that was asked for.
LEMMA CupoMaximo ==
  ASSUME GradosAcotados
  PROVE  /\ Max(Grados \cup {Grado}) \in Nat
         /\ \A g \in Grados \cup {Grado} : g <= Max(Grados \cup {Grado})
<1> DEFINE S == Grados \cup {Grado}
<1>1. S \in SUBSET Nat
  BY ConsolaAssumption, PlanificacionAssumption
<1>2. \E x \in S : \A y \in S : x >= y
  BY <1>1 DEF GradosAcotados
<1>3. Max(S) \in S /\ \A y \in S : Max(S) >= y
  BY <1>2 DEF Max
<1> QED  BY <1>1, <1>3

LEMMA PasoDelGrado ==
  ASSUME GradosAcotados, ITipo, DentroDelCupo, [Next]_vars
  PROVE  DentroDelCupo'
<1>1. /\ multiprogramacion \in Nat /\ Max(Grados \cup {Grado}) \in Nat
      /\ \A g \in Grados : g <= Max(Grados \cup {Grado})
  BY CupoMaximo DEF ITipo, TypeOK, ConsolaTypeOK
<1>2. ASSUME NEW g \in Grados, SubirGrado(g) PROVE DentroDelCupo'
  BY <1>1, <1>2 DEF SubirGrado, DentroDelCupo
<1>3. CASE RetiraCupo
  BY <1>1, <1>3 DEF RetiraCupo, DentroDelCupo
<1>4. CASE UNCHANGED multiprogramacion
  BY <1>4 DEF DentroDelCupo
<1>5. CASE ConsolaNext
  <2>1. \/ RetiraCupo \/ UNCHANGED multiprogramacion
        \/ \E g \in Grados : SubirGrado(g)
    BY <1>5 DEF ConsolaNext, CrearProceso, DetenerPlanificacion, DetenerPara, TomaMutexes,
       IniciarPlanificacion, ProcesoEstado, ListaProcesos, InterrumpirProceso, FinalizarProceso,
       BuscaVictima, NoEncuentra, QuitaVictima, QuitaVictimaYaLibre, QuitaVictimaReady,
       EsperaToken, BajarGrado, TerminaMatadero, consolaVars
  <2> QED  BY <1>2, <1>3, <1>4, <2>1
<1>6. CASE ~ConsolaNext
  <2>1. UNCHANGED multiprogramacion
    BY <1>6 DEF Next, PasoCPU, PasoInterrupciones, PasoPLP, PasoPCP, PasoCarnicero, PasoIO,
       PasoTimer, PasoConsola, PasoConexion, vars, consolaVars
  <2> QED  BY <1>4, <2>1
<1> QED  BY <1>5, <1>6

\* The mapped life, before and after the step.
LEMMA VidaMapeada ==
  ASSUME NEW p \in Pids, NEW de, NEW a, Cambia(p, de, a)
  PROVE  LET vida == [q \in Pids |-> Vida(q)] IN
         vida[p] = de /\ vida' = [vida EXCEPT ![p] = a]
  BY DEF Cambia

\* What a step does to the life of a process, the lifecycle allows.
LEMMA CicloPaso ==
  ASSUME GradosAcotados, ITipo, DentroDelCupo, Sobrantes >= 0, DeVida
  PROVE  [Ciclo!Siguiente]_Ciclo!cicloVars
<1> DEFINE vida == [q \in Pids |-> Vida(q)]
<1>1. CASE Nada
  BY <1>1 DEF Nada, Ciclo!cicloVars
<1>2. ASSUME NEW p \in Pids, Nace(p) PROVE Ciclo!Crear(p)
  BY <1>2, VidaMapeada DEF Nace, Ciclo!Crear, Ciclo!Pasar
<1>3. ASSUME NEW p \in Pids, SeRechaza(p) \/ Muere(p) PROVE Ciclo!Terminar(p)
  BY <1>3, VidaMapeada DEF SeRechaza, Muere, Ciclo!Terminar, Ciclo!Pasar
<1>4. ASSUME NEW p \in Pids, Cede(p)
      PROVE  Ciclo!Desalojar(p) \/ Ciclo!Bloquear(p) \/ Ciclo!Desbloquear(p)
  BY <1>4, VidaMapeada
  DEF Cede, Ciclo!Desalojar, Ciclo!Bloquear, Ciclo!Desbloquear, Ciclo!Pasar
<1>5. ASSUME NEW p \in Pids, Corre(p) PROVE Ciclo!Despachar(p)
  <2>1. Ciclo!EnEstado({"EXEC"}) = {}
    BY <1>5 DEF Corre, Ciclo!EnEstado
  <2> QED  BY <1>5, <2>1, VidaMapeada DEF Corre, Ciclo!Despachar, Ciclo!Pasar
<1>6. ASSUME NEW p \in Pids, Entra(p) PROVE Ciclo!Admitir(p)
  <2>1. /\ Ciclo!EnEstado({"READY", "EXEC", "BLOCKED"}) = Admitidos
        /\ Ciclo!Cardinality(Admitidos) = Cardinality(Admitidos)
    BY DEF Ciclo!EnEstado, Admitidos, Ciclo!Cardinality, Cardinality, Ciclo!IsFiniteSet,
       IsFiniteSet
  <2>2. /\ sMultiprogramacion \in Nat /\ multiprogramacion \in Nat
        /\ Cardinality(Admitidos) \in Nat /\ Max(Grados \cup {Grado}) \in Nat
    BY AdmitidosFinitos, CupoMaximo
    DEF ITipo, TypeOK, PlanificacionTypeOK, SemaforosTypeOK, ConsolaTypeOK
  <2>3. Cardinality(Admitidos) < Max(Grados \cup {Grado})
    BY <1>6, <2>2 DEF Entra, Sobrantes, Ocupados, DentroDelCupo
  <2> QED  BY <1>6, <2>1, <2>3, VidaMapeada DEF Entra, Ciclo!Admitir, Ciclo!Pasar
<1> QED  BY <1>1, <1>2, <1>3, <1>4, <1>5, <1>6 DEF DeVida, Ciclo!Siguiente

\* Every process is created.
LEMMA CicloInit == Init => Ciclo!Iniciar
  BY Vidas DEF Init, PlanificacionInit, Ciclo!Iniciar

\* Whatever the processes, the programs they run, the algorithm, the interfaces and the
\* commands of the operator (none of which kills a process), and while no list operation
\* races, the kernel's threads together implement the five-state lifecycle of README.md:
\* one process on the CPU at a time and no more admitted than the largest degree asked
\* for, even if processes are rejected.
THEOREM KernelImplementaCiclo ==
  ASSUME Supuestos, GradosAcotados
  PROVE  Spec => CumpleCicloDeVida
<1>1. Init => DentroDelCupo /\ Sobrantes >= 0
  BY CuposInit, CupoMaximo DEF Init, ConsolaInit, DentroDelCupo
<1>2. IInv /\ IInv' /\ ILugares /\ DentroDelCupo /\ Sobrantes >= 0 /\ [Next]_vars
        => DentroDelCupo' /\ (Sobrantes >= 0)'
  <2> SUFFICES ASSUME IInv, IInv', ILugares, DentroDelCupo, Sobrantes >= 0, [Next]_vars
               PROVE  DentroDelCupo' /\ Sobrantes' >= 0
    OBVIOUS
  <2>1. Sobrantes \in Int /\ Sobrantes' \in Int
    BY AdmitidosFinitos, AdmitidosFinitosDespues
    DEF IInv, ITipo, TypeOK, PlanificacionTypeOK, SemaforosTypeOK, ConsolaTypeOK, Sobrantes,
        Ocupados
  <2> QED  BY <2>1, PasoDeVida, CuposDePaso, PasoDelGrado DEF IInv
<1>3. IInv /\ ILugares /\ DentroDelCupo /\ Sobrantes >= 0 /\ [Next]_vars
        => [Ciclo!Siguiente]_Ciclo!cicloVars
  BY PasoDeVida, CicloPaso DEF IInv
<1> QED  BY <1>1, <1>2, <1>3, CicloInit, Invariante, InvarianteDeLugares, PTL
         DEF Spec, CumpleCicloDeVida, Ciclo!Especificacion
=============================================================================
