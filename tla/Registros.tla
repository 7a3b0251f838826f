----------------------------- MODULE Registros -----------------------------
(***************************************************************************)
(* The CPU's registers and the instructions that work on them alone        *)
(* (cpu.c): t_registros has four registers of 8 bits and the rest of 32.   *)
(***************************************************************************)
EXTENDS Integers

CONSTANTS
  MODULO8,    \* 2^8 in the code
  MODULO32    \* 2^32 in the code

\* A value read as an int and cut to 8 bits is the value modulo 2^8.
ASSUME RegistrosAssumption ==
  MODULO8 \in Nat \ {0} /\ MODULO32 \in Nat \ {0} /\ MODULO32 % MODULO8 = 0

De8 == {"AX", "BX", "CX", "DX"}
De32 == {"PC", "EAX", "EBX", "ECX", "EDX", "SI", "DI"}
Registros8y32 == De8 \cup De32

\* mutant: every register has the width of PC
ModuloDeTodos(r) == MODULO32

Modulo(r) == IF r \in De8 THEN MODULO8 ELSE MODULO32

Contenidos ==
  {registros \in [Registros8y32 -> Nat] :
     /\ \A r \in De8 : registros[r] < MODULO8
     /\ \A r \in De32 : registros[r] < MODULO32}

Instrucciones == [op : STRING, destino : STRING, origen : STRING, n : Int]

-----------------------------------------------------------------------------
get_registro(registros, r) == IF r \in Registros8y32 THEN registros[r] ELSE -1

set_registro(registros, r, valor) ==
  IF r \in Registros8y32 THEN [registros EXCEPT ![r] = valor % Modulo(r)] ELSE registros

exe_SET(registros, i) == set_registro(registros, i.destino, i.n)

exe_SUM(registros, i) ==
  set_registro(registros, i.destino,
               get_registro(registros, i.destino) + get_registro(registros, i.origen))

\* The origin is negated and then subtracted: what is left is the sum.
exe_SUB(registros, i) ==
  set_registro(registros, i.destino,
               get_registro(registros, i.destino) - (-get_registro(registros, i.origen)))

exe_JNZ(registros, i) ==
  IF get_registro(registros, i.destino) # 0 THEN set_registro(registros, "PC", i.n - 1)
  ELSE registros

execute(registros, i) ==
  CASE i.op = "SET" -> exe_SET(registros, i)
    [] i.op = "SUM" -> exe_SUM(registros, i)
    [] i.op = "SUB" -> exe_SUB(registros, i)
    [] i.op = "JNZ" -> exe_JNZ(registros, i)
    [] OTHER -> registros

\* The instruction and the PC++ of its cycle.
Ciclo(registros, i) ==
  LET despues == execute(registros, i) IN set_registro(despues, "PC", despues["PC"] + 1)
=============================================================================
