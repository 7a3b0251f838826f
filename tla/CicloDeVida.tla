---------------------------- MODULE CicloDeVida ----------------------------
(***************************************************************************)
(* What the kernel promises of a process, whatever its threads do: the     *)
(* five-state lifecycle of README.md (NEW, READY, EXEC, BLOCKED, EXIT),    *)
(* with one process on the CPU at a time and no more processes admitted    *)
(* than the degree of multiprogramming allows.                             *)
(***************************************************************************)
EXTENDS Integers, FiniteSets

CONSTANTS Procesos, Cupo

VARIABLE vida

cicloVars == <<vida>>

Vidas == {"SIN_CREAR", "NEW", "READY", "EXEC", "BLOCKED", "EXIT"}

EnEstado(estados) == {p \in Procesos : vida[p] \in estados}
Pasar(p, antes, despues) ==
  /\ vida[p] \in antes
  /\ vida' = [vida EXCEPT ![p] = despues]

Iniciar == vida = [p \in Procesos |-> "SIN_CREAR"]

Crear(p) == Pasar(p, {"SIN_CREAR"}, "NEW")

Admitir(p) ==
  /\ Cardinality(EnEstado({"READY", "EXEC", "BLOCKED"})) < Cupo
  /\ Pasar(p, {"NEW"}, "READY")

Despachar(p) ==
  /\ EnEstado({"EXEC"}) = {}
  /\ Pasar(p, {"READY"}, "EXEC")

Desalojar(p) == Pasar(p, {"EXEC"}, "READY")
Bloquear(p) == Pasar(p, {"EXEC"}, "BLOCKED")
Desbloquear(p) == Pasar(p, {"BLOCKED"}, "READY")
Terminar(p) == Pasar(p, {"NEW", "READY", "EXEC", "BLOCKED"}, "EXIT")

Siguiente ==
  \E p \in Procesos :
    \/ Crear(p) \/ Admitir(p) \/ Despachar(p) \/ Desalojar(p)
    \/ Bloquear(p) \/ Desbloquear(p) \/ Terminar(p)

Especificacion == Iniciar /\ [][Siguiente]_cicloVars
=============================================================================
