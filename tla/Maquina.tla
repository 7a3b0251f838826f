------------------------------ MODULE Maquina ------------------------------
(***************************************************************************)
(* What the system promises a program: a machine of its own.  Whatever is  *)
(* dispatched, interrupted or killed around it, each process runs its own  *)
(* instructions in their order, on registers nobody else writes, until it  *)
(* ends or is ended (README.md: PCBs "track execution context").           *)
(***************************************************************************)
EXTENDS Integers, Sequences

CONSTANTS
  Duenios,
  Programa,   \* the instructions of each
  Anchos      \* the number of values of each register

VARIABLES
  vida,       \* nuevo, activo or fin
  registros   \* those of each process

maquinaVars == <<vida, registros>>

Finales == {"EXIT", "DESCONOCIDA"}

Actual(p) == Programa[p][registros[p]["PC"] + 1]

Valor(p, r) == IF r \in DOMAIN Anchos THEN registros[p][r] ELSE -1

\* What instruction i assigns to register r, as cpu.h documents it.
Asignado(p, i, r) ==
  IF i.destino # r THEN Valor(p, r)
  ELSE CASE i.op = "SET" -> i.n
         [] i.op = "SUM" -> Valor(p, r) + Valor(p, i.origen)
         [] i.op = "SUB" -> Valor(p, r) - Valor(p, i.origen)
         [] OTHER -> Valor(p, r)

\* The registers after it: JNZ goes to instruction n, the others to the next one.
Resultado(p, i) == [r \in DOMAIN Anchos |->
  LET siguiente == IF r = "PC" THEN 1 ELSE 0 IN
    (IF i.op = "JNZ" /\ Valor(p, i.destino) # 0 /\ r = "PC" THEN i.n
     ELSE Asignado(p, i, r) + siguiente) % Anchos[r]]

\* malloc leaves what it finds in every register but PC.
Iniciar ==
  /\ vida = [p \in Duenios |-> "nuevo"]
  /\ \A p \in Duenios : registros[p]["PC"] = 0

Cargar(p) ==
  /\ vida[p] = "nuevo"
  /\ vida' = [vida EXCEPT ![p] = "activo"]
  /\ UNCHANGED registros

\* It may be killed at the end of the same cycle.
Paso(p) ==
  /\ vida[p] = "activo"
  /\ registros' = [registros EXCEPT ![p] = Resultado(p, Actual(p))]
  /\ \/ Actual(p).op \notin Finales /\ UNCHANGED vida
     \/ vida' = [vida EXCEPT ![p] = "fin"]

Terminar(p) ==
  /\ vida[p] # "fin"
  /\ vida' = [vida EXCEPT ![p] = "fin"]
  /\ UNCHANGED registros

Siguiente == \E p \in Duenios : Cargar(p) \/ Paso(p) \/ Terminar(p)

Especificacion == Iniciar /\ [][Siguiente]_maquinaVars

\* No process waits for ever while it is active.
Avance == \A p \in Duenios : []<>(vida[p] # "activo") \/ []<><<TRUE>>_(registros[p])
=============================================================================
