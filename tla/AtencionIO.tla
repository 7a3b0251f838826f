----------------------------- MODULE AtencionIO -----------------------------
(***************************************************************************)
(* The kernel's side of the I/O interfaces: the connections it accepts     *)
(* (escuchar_conexiones_IO) and the thread created for every I/O request   *)
(* (atender_solicitud_IO).  A process has at most one request at a time,   *)
(* so its thread is named by the process.                                  *)
(***************************************************************************)
EXTENDS Planificacion

CONSTANT RespuestasIO    \* what an interface may do with a request

ASSUME AtencionIOAssumption ==
  RespuestasIO \in SUBSET {"IO_SUCCESS", "IO_FAILURE", "DESCONEXION"}

LugaresIO == {"nada", "vector", "busca", "mutex", "repone", "dispositivo", "exito", "falla",
              "falla_cae", "despierta", "exit", "exit_cae", "corta", "retira"}

VARIABLES
  conexion,   \* each interface's t_conexion; "cortada": freed but still listed
  mIO,        \* the holder of each connection's mutex
  pcIO,       \* the location of each process's I/O thread
  pedido      \* the operation the thread serves: [op, arg], arg the interface's name

ioVars == <<conexion, mIO, pcIO, pedido>>

Pedidos == Motivos \cup {Interrupcion, FinDeQuantum, Sigue}

AtencionIOTypeOK ==
  /\ conexion \in [Interfaces -> {"ausente", "conectada", "cortada", "retirada"}]
  /\ mIO \in [Interfaces -> Pids \cup {Nadie}]
  /\ pcIO \in [Pids -> LugaresIO]
  /\ pedido \in [Pids -> Pedidos]

AtencionIOInit ==
  /\ conexion = [i \in Interfaces |-> "ausente"]
  /\ mIO = [i \in Interfaces |-> Nadie]
  /\ pcIO = [p \in Pids |-> "nada"]
  /\ pedido = [p \in Pids |-> Sigue]

IrIO(p, lugar) == pcIO' = [pcIO EXCEPT ![p] = lugar]

-----------------------------------------------------------------------------
\* An interface connects; each does so once.
ConectarIO(i) ==
  /\ conexion[i] = "ausente"
  /\ conexion' = [conexion EXCEPT ![i] = "conectada"]
  /\ UNCHANGED <<planVars, cpuVars, mIO, pcIO, pedido>>

\* The thread reads the address vector, when there is one, and unlocks the
\* mBLOCKED that the short-term scheduler locked.
RecibeVector(p) ==
  /\ pcIO[p] = "vector"
  /\ IF pedido[p].op = "IO_VECTOR"
     THEN /\ dispatch # <<>>
          /\ dispatch' = Tail(dispatch)
     ELSE UNCHANGED dispatch
  /\ mBLOCKED' = "libre"
  /\ IrIO(p, "busca")
  /\ UNCHANGED <<procesos, colas, recursosVars, semaforos, planificacion, pidRunning, locales,
                 caido, enCpu, canalIntr, cIntr, conexion, mIO, pedido>>

\* list_find over the connections.  The name of a "cortada" is freed memory,
\* which may still match or not.
BuscaInterfaz(p) ==
  /\ pcIO[p] = "busca"
  /\ \/ /\ \E i \in Interfaces : i = pedido[p].arg /\ conexion[i] \in {"conectada", "cortada"}
        /\ IrIO(p, "mutex")
     \/ /\ ~ \E i \in Interfaces : i = pedido[p].arg /\ conexion[i] = "conectada"
        /\ IrIO(p, "falla")
  /\ UNCHANGED <<planVars, cpuVars, conexion, mIO, pedido>>

InterfazLibreSiempre(i) == TRUE   \* mutant: the connection's mutex is not locked
InterfazLibre(i) == mIO[i] = Nadie

\* The connection's mutex is locked and the process taken out of lBlocked, which
\* mBLOCKED does not protect here: whoever is not there was killed.
TomaInterfaz(p) ==
  /\ pcIO[p] = "mutex"
  /\ LET i == pedido[p].arg IN
       /\ conexion[i] = "conectada"
       /\ InterfazLibre(i)
       /\ IF p \in lBlocked
          THEN mIO' = [mIO EXCEPT ![i] = p] /\ IrIO(p, "repone")
          ELSE UNCHANGED mIO /\ IrIO(p, "nada")
  /\ lBlocked' = lBlocked \ {p}
  /\ UNCHANGED <<procesos, cNEW, cREADY, cREADY_PLUS, cEXIT, recursosVars, semaforos, cerrojos,
                 locales, caido, cpuVars, conexion, pedido>>

\* The thread kept a connection that another one freed: its mutex is destroyed
\* and its socket dead, and the kernel does not survive its use.
UsaConexionLiberada(p) ==
  /\ pcIO[p] = "mutex"
  /\ conexion[pedido[p].arg] \in {"cortada", "retirada"}
  /\ Caer
  /\ UNCHANGED <<cpuVars, ioVars>>

\* Another thread is at a list operation on lBlocked.
OtroEnBlocked(p) ==
  \/ pc["pcp"] = "io"
  \/ \E q \in Pids \ {p} : pcIO[q] \in {"mutex", "repone", "exito", "falla", "falla_cae"}

\* list_add puts the process back and the request goes to the interface.
Repone(p) ==
  /\ pcIO[p] = "repone"
  /\ \/ lBlocked' = lBlocked \cup {p}
     \/ ~ListasAtomicas /\ OtroEnBlocked(p) /\ UNCHANGED lBlocked
  /\ IrIO(p, "dispositivo")
  /\ UNCHANGED <<procesos, cNEW, cREADY, cREADY_PLUS, cEXIT, recursosVars, semaforos, cerrojos,
                 locales, caido, cpuVars, conexion, mIO, pedido>>

\* The interface answers, or its socket closes, and its mutex is unlocked.
RespondeIO(p) ==
  /\ pcIO[p] = "dispositivo"
  /\ \E resp \in RespuestasIO :
       IrIO(p, CASE resp = "IO_SUCCESS" -> "exito"
                 [] resp = "IO_FAILURE" -> "falla"
                 [] resp = "DESCONEXION" -> "falla_cae")
  /\ mIO' = [mIO EXCEPT ![pedido[p].arg] = Nadie]
  /\ UNCHANGED <<planVars, cpuVars, conexion, pedido>>

\* The process leaves lBlocked under mBLOCKED and dies.
FallaIO(p) ==
  /\ pcIO[p] \in {"falla", "falla_cae"}
  /\ mBLOCKED = "libre"
  /\ ~Muerto(p)
  /\ lBlocked' = lBlocked \ {p}
  /\ Matar(p)
  /\ IrIO(p, IF pcIO[p] = "falla" THEN "exit" ELSE "exit_cae")
  /\ UNCHANGED <<idPCB, tenidos, cNEW, cREADY, cREADY_PLUS, cEXIT, recursosVars, semPLP, semPCP,
                 semEXIT, cerrojos, locales, caido, cpuVars, conexion, mIO, pedido>>

\* The result of list_remove_element is not looked at: the multifuncion of a
\* process killed meanwhile is a string literal, and free aborts.
FallaIODeMuerto(p) ==
  /\ pcIO[p] \in {"falla", "falla_cae"}
  /\ mBLOCKED = "libre"
  /\ Muerto(p)
  /\ Caer
  /\ UNCHANGED <<cpuVars, ioVars>>

TerminaMataderoIO(p) ==
  /\ pcIO[p] \in {"exit", "exit_cae"}
  /\ EncolarExit(p)
  /\ IrIO(p, IF pcIO[p] = "exit" THEN "nada" ELSE "corta")
  /\ UNCHANGED <<procesos, cNEW, cREADY, cREADY_PLUS, lBlocked, recursosVars, semPLP, semPCP,
                 sMultiprogramacion, cerrojos, locales, caido, cpuVars, conexion, mIO, pedido>>

\* The connection's name is freed and its mutex destroyed; then it leaves the list.
CortaConexion(p) ==
  /\ \/ pcIO[p] = "corta" /\ IrIO(p, "retira")
        /\ conexion' = [conexion EXCEPT ![pedido[p].arg] = "cortada"]
     \/ pcIO[p] = "retira" /\ IrIO(p, "nada")
        /\ conexion' = [conexion EXCEPT ![pedido[p].arg] = "retirada"]
  /\ UNCHANGED <<planVars, cpuVars, mIO, pedido>>

\* mutant: the result of list_remove_element is not looked at
SigueBloqueadoSiempre(p) == TRUE
\* mutant: the process is not taken out of lBlocked
BlockedTrasExitoIgual(p) == lBlocked

SigueBloqueado(p) == p \in lBlocked
BlockedTrasExito(p) == lBlocked \ {p}

\* The request succeeded: a process that is still in lBlocked leaves it.
ExitoIO(p) ==
  /\ pcIO[p] = "exito"
  /\ mBLOCKED = "libre"
  /\ ~(p \in lBlocked /\ Muerto(p))
  /\ IF SigueBloqueado(p)
     THEN estado' = [estado EXCEPT ![p] = EstadoAlDespertar] /\ IrIO(p, "despierta")
     ELSE UNCHANGED estado /\ IrIO(p, "nada")
  /\ lBlocked' = BlockedTrasExito(p)
  /\ UNCHANGED <<idPCB, tenidos, cNEW, cREADY, cREADY_PLUS, cEXIT, recursosVars, semaforos,
                 cerrojos, locales, caido, cpuVars, conexion, mIO, pedido>>

\* The console took the process out of lBlocked between the two list operations
\* of the thread, which then put a dead process back: free aborts.
ExitoIODeMuerto(p) ==
  /\ pcIO[p] = "exito"
  /\ mBLOCKED = "libre"
  /\ p \in lBlocked /\ Muerto(p)
  /\ Caer
  /\ UNCHANGED <<cpuVars, ioVars>>

DespiertaDeIO(p) ==
  /\ pcIO[p] = "despierta"
  /\ Despertar(p)
  /\ IrIO(p, "nada")
  /\ UNCHANGED <<procesos, cNEW, cEXIT, lBlocked, recursosVars, semPLP, semEXIT,
                 sMultiprogramacion, cerrojos, locales, caido, cpuVars, conexion, mIO, pedido>>

AtenderSolicitudIO(p) ==
  \/ RecibeVector(p) \/ BuscaInterfaz(p) \/ TomaInterfaz(p) \/ UsaConexionLiberada(p)
  \/ Repone(p) \/ RespondeIO(p) \/ FallaIO(p) \/ FallaIODeMuerto(p) \/ TerminaMataderoIO(p)
  \/ CortaConexion(p) \/ ExitoIO(p) \/ ExitoIODeMuerto(p) \/ DespiertaDeIO(p)
=============================================================================
