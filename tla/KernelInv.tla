----------------------------- MODULE KernelInv -----------------------------
(***************************************************************************)
(* The inductive invariant behind the theorems of KernelProofs: what each  *)
(* thread's program location says of its local variables, of the mutexes   *)
(* and of the dispatch socket.                                             *)
(***************************************************************************)
EXTENDS Kernel

\* A thread has a process, a woken process or a resource in hand wherever it
\* uses one.
LocalesEnUso ==
  /\ pc["plp"] \in {"ready", "exit"} => mano["plp"] \in Pids
  /\ pc["carnicero"] \notin {"espera", "toma"} => mano["carnicero"] \in Pids
  /\ pc["pcp"] \notin {"espera", "toma", "toma_plus"} => mano["pcp"] \in Pids
  /\ pc["consola"] \in {"busca", "quita", "token", "exit"} => mano["consola"] \in Pids
  /\ pc["consola"] = "detiene" /\ orden = "FINALIZAR_PROCESO" => mano["consola"] \in Pids
  /\ \A h \in Hilos :
       pc[h] \in {"pide", "decide", "encola", "libera", "mira", "saca"} => rec[h] \in Recursos
  /\ \A h \in Hilos : pc[h] = "despierta" => desbl[h] \in Pids

\* The locations each thread can be at.
Recorridos ==
  /\ pc["plp"] \in {"espera", "toma", "cupo", "ready", "exit"}
  /\ pc["carnicero"] \in {"espera", "toma", "reparte", "libera", "mira", "saca", "despierta"}
  /\ pc["consola"] \in {"lee", "detiene", "lista", "busca", "quita", "token", "exit", "baja"}
  /\ pc["pcp"] \in Lugares \ {"cupo", "ready", "reparte", "lee", "detiene", "lista", "busca",
                              "quita", "token", "baja"}

\* The carnicero never pops an empty cEXIT.
TokensEXIT == semEXIT + (IF pc["carnicero"] = "toma" THEN 1 ELSE 0) = Len(cEXIT)

\* The console withdraws slots only while the degree is above the one asked for.
BajaPendiente == pc["consola"] = "baja" => multiprogramacion > gradoNuevo

\* While hilo_timer names a live thread, it is the timer of the process dispatched.
TimerVivo == hiloTimer => pc["pcp"] \in {"cpu", "motivo"} /\ timers[Despachado] > 0

\* The console resumes only what it stopped, so it never unlocks the mBLOCKED
\* that the short-term scheduler locked.
CerrojosDeConsola ==
  /\ planificacion = "detenida" <=> mBLOCKED = "consola"
  /\ pc["consola"] \in {"lista", "busca", "quita", "token"} => planificacion = "detenida"

\* The address vector that follows a PCB with motive m, if any.
Vector(p, m) == IF m.op = "IO_VECTOR" THEN <<[tipo |-> "vector", pid |-> p]>> ELSE <<>>

\* The scheduler waits for the I/O thread it created, which has mBLOCKED.
EnVector(p) ==
  /\ pc["pcp"] = "io_cede"
  /\ Despachado = p
  /\ mBLOCKED = "pcp"
  /\ pedido[p] = motivo

\* The scheduler is where the vector of its process may still be on the socket.
VectorPendiente ==
  \/ pc["pcp"] \in {"motivo", "io"}
  \/ pc["pcp"] = "io_cede" /\ mBLOCKED = "pcp"

\* What is on the dispatch socket at each location of the scheduler.
SocketEnOrden ==
  /\ pc["pcp"] = "io" => motivo.op \in {"IO", "IO_VECTOR"}
  /\ enCpu # Nadie => pc["pcp"] = "cpu" /\ enCpu = Despachado /\ dispatch = <<>>
  /\ pc["pcp"] = "cpu" /\ enCpu = Nadie =>
       \E m \in Motivos \cup {Interrupcion, FinDeQuantum} : dispatch = Vuelta(Despachado, m)
  /\ VectorPendiente => dispatch = Vector(Despachado, motivo)
  /\ pc["pcp"] # "cpu" /\ ~VectorPendiente => dispatch = <<>>
  /\ \A p \in Pids : pcIO[p] = "vector" => EnVector(p)

\* The invariant that makes types inductive...
ITipo ==
  /\ TypeOK
  /\ LocalesEnUso
  /\ Recorridos
  /\ TokensEXIT
  /\ BajaPendiente
  /\ TimerVivo

\* ...and the one that makes the order of the socket inductive: both hold initially
\* and every step of a thread, of the CPU or of a timer keeps them.
IInv == ITipo /\ CerrojosDeConsola /\ SocketEnOrden

\* A request waits only for an interface that was found and, while the interface
\* works for it, holds its mutex.
MutexDeInterfaz ==
  \A p \in Pids :
    /\ pcIO[p] \in {"mutex", "repone", "dispositivo"} => pedido[p].arg \in Interfaces
    /\ pcIO[p] \in {"repone", "dispositivo"} => mIO[pedido[p].arg] = p

-----------------------------------------------------------------------------
(***************************************************************************)
(* What makes UnSoloLugar inductive, while nobody kills a process and no   *)
(* list operation loses an element.                                        *)
(***************************************************************************)

\* The console is never inside FINALIZAR_PROCESO.
SinBajas ==
  /\ pc["consola"] \in {"lee", "detiene", "lista", "baja"}
  /\ orden # "FINALIZAR_PROCESO"

Vivo(p) == estado[p] \notin {"SIN_CREAR", "LIBERADO"}

\* No process is at two places, or twice at one...
SinRepetir(lugares) ==
  \A s, t \in DOMAIN lugares : \A i \in DOMAIN lugares[s], j \in DOMAIN lugares[t] :
    lugares[s][i] = lugares[t][j] => s = t /\ i = j

Presente(lugares, p) == \E s \in DOMAIN lugares : \E i \in DOMAIN lugares[s] : lugares[s][i] = p

Donde == [sitio \in Sitios |-> En(sitio)]

\* ...and those that are somewhere are the live ones.
Repartidos ==
  /\ SinRepetir(Donde)
  /\ \A p \in Pids : Presente(Donde, p) <=> Vivo(p)

\* What estado may say of the process a thread has in hand...
EstadosEnMano(h) ==
  CASE h = "carnicero" \/ pc[h] = "exit"                      -> {"FINISHED"}
    [] pc[h] = "cupo"                                         -> {"NEW"}
    [] pc[h] = "ready"                                        -> {"READY"}
    [] pc[h] \in {"io", "encola"}                             -> {"BLOCKED"}
    [] pc[h] \in {"a_ready", "a_plus", "a_ready_sin_mutex"} -> {"READY", "READY_PLUS", "RUNNING"}
    [] OTHER                                                  -> {"RUNNING"}

\* ...and of those at a place.  A SIGNAL leaves processes RUNNING in a ready queue.
EstadosEn(sitio) ==
  LET de == sitio[2] IN
    CASE sitio[1] = "cNEW"                         -> {"NEW"}
      [] sitio[1] \in {"cREADY", "cREADY_PLUS"}    -> {"READY", "READY_PLUS", "RUNNING"}
      [] sitio[1] = "cEXIT"                        -> {"FINISHED"}
      [] sitio[1] \in {"cBloqueados", "lBlocked"}  -> {"BLOCKED"}
      [] sitio[1] = "desbl"                        -> {"READY", "READY_PLUS"}
      [] sitio[1] = "mano"                         -> EstadosEnMano(de)
      [] sitio[1] = "io" /\ pcIO[de] = "repone"    -> {"BLOCKED"}
      [] sitio[1] = "io" /\ pcIO[de] = "despierta" -> {"READY", "READY_PLUS"}
      [] OTHER                                     -> {"FINISHED"}

EstadosSegunSitio == \A s \in Sitios : \A i \in DOMAIN En(s) : estado[En(s)[i]] \in EstadosEn(s)

\* The process whose vector is awaited is not on the CPU.
CedeSinCPU == pc["pcp"] = "io_cede" => estado[Despachado] # "RUNNING"

\* A thread that is about to take a process has none in hand.
ManosLibres ==
  /\ \A h \in {"plp", "pcp", "carnicero"} :
       pc[h] \in {"espera", "toma", "toma_plus"} => mano[h] = Nadie
  /\ \A h \in Hilos : pc[h] # "despierta" => desbl[h] = Nadie

\* A request that is waiting, or that the interface has, is in lBlocked.
EnListaDeIO ==
  \A p \in Pids :
    pcIO[p] \in {"vector", "busca", "mutex", "dispositivo", "exito", "falla", "falla_cae"} =>
      p \in lBlocked

PorCrear == \A p \in Pids : p >= idPCB => estado[p] = "SIN_CREAR"

\* Every process is where its estado says.
Ubicados == Repartidos /\ EstadosSegunSitio /\ PorCrear

ILugares == SinBajas /\ Ubicados /\ CedeSinCPU /\ ManosLibres /\ EnListaDeIO

-----------------------------------------------------------------------------
(***************************************************************************)
(* What makes SinCaida and EsperaJustificada inductive, while besides the  *)
(* programs end, and ask for I/O, holding nothing ("salida").              *)
(***************************************************************************)

\* The motives with which a process may not hold any resource.
Cierra(m) == EsFinal(m) \/ m.op \in {"IO", "IO_VECTOR"}

\* Nobody tells the CPU to end a process.
SoloQuantum ==
  /\ \A i \in cIntr : i.motivo = "FIN_DE_QUANTUM"
  /\ \A k \in DOMAIN canalIntr : canalIntr[k].motivo = "FIN_DE_QUANTUM"

\* Who has ended, waits for an interface or is about to do either holds nothing...
SinDeudas ==
  /\ \A p \in Pids :
       \/ estado[p] \in {"SIN_CREAR", "NEW", "FINISHED", "LIBERADO"}
       \/ p \in lBlocked \/ pcIO[p] = "repone"
       => tenidos[p] = <<>>
  /\ pc["pcp"] = "io" => tenidos[Despachado] = <<>>
  /\ pc["pcp"] = "motivo" /\ Cierra(motivo) => tenidos[Despachado] = <<>>
  /\ pc["pcp"] = "cpu" /\ dispatch # <<>> /\ Cierra(Head(dispatch).motivo) =>
       tenidos[Despachado] = <<>>

\* ...so the carnicero never releases a resource: the scheduler is alone with them.
UnoSolo == pc["carnicero"] \in {"espera", "toma", "reparte"}

ISalida == SoloQuantum /\ SinDeudas /\ UnoSolo

\* A thread that is about to pop a queue finds somebody there.
TokensPLP == semPLP + Uno(pc["plp"] = "toma") = Len(cNEW)

HayQuien ==
  /\ pc["plp"] = "cupo" => mano["plp"] # Nadie
  /\ pc["pcp"] = "toma" => cREADY # <<>>
  /\ pc["pcp"] = "toma_plus" => cREADY_PLUS # <<>>
  /\ pc["pcp"] = "saca" => cBloqueados[rec["pcp"]] # <<>>
  /\ ~EsVrr => cREADY_PLUS = <<>> /\ pc["pcp"] # "a_plus"

\* No interface disconnects.
SinCortes ==
  /\ \A p \in Pids : pcIO[p] \notin {"falla_cae", "exit_cae", "corta", "retira"}
  /\ \A i \in Interfaces : conexion[i] \notin {"cortada", "retirada"}

IEnPie == TokensPLP /\ TokensPCP /\ HayQuien /\ SinCortes /\ SinCaida

\* The instances that pedir_recurso has taken from the counter, or liberar_recurso has
\* added to it, of which the queue does not know yet.
EnTramite(r) ==
  IF rec["pcp"] = r /\ pc["pcp"] \in {"decide", "encola"} THEN 1
  ELSE IF rec["pcp"] = r /\ pc["pcp"] \in {"mira", "saca"} THEN -1
  ELSE 0

\* As many wait as the counter is below zero.
EsperanLosQueFaltan ==
  /\ \A r \in Recursos :
       LET n == instancias[r] + EnTramite(r)
       IN  Len(cBloqueados[r]) = IF n < 0 THEN -n ELSE 0
  /\ pc["pcp"] = "encola" => instancias[rec["pcp"]] < 0
  /\ pc["pcp"] = "saca" => instancias[rec["pcp"]] <= 0

-----------------------------------------------------------------------------
(***************************************************************************)
(* What makes InstanciasConservadas inductive, while nobody kills a        *)
(* process and programs signal only what they hold ("senal").              *)
(***************************************************************************)

Tiene(p, r) == \E i \in DOMAIN tenidos[p] : tenidos[p][i] = r

\* The process gives back a resource.
Devuelve(m) == m.op = "DARRECURSO" /\ EsRecurso(m)

\* A SIGNAL that is on its way to liberar_recurso is of a resource the process still
\* holds: nobody takes it away before the scheduler does.
DevuelveLoSuyo ==
  /\ pc["pcp"] = "motivo" /\ Devuelve(motivo) => Tiene(Despachado, motivo.arg)
  /\ pc["pcp"] = "cpu" /\ dispatch # <<>> /\ Devuelve(Head(dispatch).motivo) =>
       Tiene(Despachado, Head(dispatch).motivo.arg)

IConserva == DevuelveLoSuyo /\ InstanciasConservadas

-----------------------------------------------------------------------------
(***************************************************************************)
(* What makes MuertoNoRevive inductive under FIFO and RR, with kills,      *)
(* disconnections and lists that lose elements.                            *)
(***************************************************************************)

\* The thread has in hand a process that is to go on living.
Atiende(h) ==
  \/ h = "plp" /\ pc[h] \in {"cupo", "ready"} /\ mano[h] # Nadie
  \/ h = "pcp" /\ pc[h] \notin {"espera", "toma", "toma_plus", "io_cede", "exit"}

\* The processes at one place from where a thread will take them to give them
\* another state.
EnJuegoEn(sitio) ==
  LET de == sitio[2] IN
    CASE sitio[1] \in {"cNEW", "cREADY", "cREADY_PLUS", "cBloqueados"} -> En(sitio)
      [] sitio[1] = "mano"  -> Si(Atiende(de), mano[de])
      [] sitio[1] = "desbl" -> Si(pc[de] = "despierta", desbl[de])
      [] sitio[1] = "io"    -> Si(pcIO[de] = "despierta", de)
      [] OTHER              -> <<>>

EnJuego == [sitio \in Sitios |-> EnJuegoEn(sitio)]

Activo(p) == Presente(EnJuego, p)

\* An I/O request of p has no answer yet, or its thread has not looked at it.
Pendiente(p) ==
  \/ p \in lBlocked
  \/ pcIO[p] \in {"vector", "busca", "mutex", "repone", "dispositivo", "exito", "falla",
                  "falla_cae"}

\* Nobody is in two of those places, and those that are have not ended...
ActivosVivos ==
  /\ SinRepetir(EnJuego)
  /\ \A p \in Pids : Activo(p) => estado[p] \notin {"SIN_CREAR", "FINISHED", "LIBERADO"}

\* ...nor are they waiting for an interface, which may end them.
PendientesAparte == \A p \in Pids : Pendiente(p) => ~Activo(p) /\ estado[p] # "SIN_CREAR"

\* What goes to cEXIT, or came from there, has ended.
FinDeCamino ==
  /\ \A i \in DOMAIN cEXIT : Muerto(cEXIT[i])
  /\ \A h \in Hilos : pc[h] = "exit" => Muerto(mano[h])
  /\ pc["carnicero"] \notin {"espera", "toma"} => Muerto(mano["carnicero"])
  /\ \A p \in Pids : pcIO[p] \in {"exit", "exit_cae"} => Muerto(p)

\* Whom the console found is still in a queue that it locked, or nobody will take it.
VictimaQuieta ==
  /\ pc["consola"] = "quita" =>
       \/ EnRango(Victima, cNEW) \/ EnRango(Victima, cREADY)
       \/ \E r \in Recursos : EnRango(Victima, cBloqueados[r])
       \/ ~Activo(Victima)
  /\ pc["consola"] = "token" => ~Activo(Victima) /\ estado[Victima] # "SIN_CREAR"

\* Only VRR uses cREADY_PLUS, or its mutex.
SinPlus == cREADY_PLUS = <<>> /\ pc["pcp"] \notin {"a_plus", "a_ready_sin_mutex"}

IMuertos ==
  ActivosVivos /\ PendientesAparte /\ PorCrear /\ FinDeCamino /\ VictimaQuieta /\ SinPlus
=============================================================================
