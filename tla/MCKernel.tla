------------------------------ MODULE MCKernel ------------------------------
(***************************************************************************)
(* Instances of Kernel for TLC: what the programs may do in each run.      *)
(***************************************************************************)
EXTENDS KernelInv

CONSTANTS R, I   \* a resource and an interface

Recursos1 == {R}
Interfaces1 == {I}
Ninguna == {}
UnaInstancia == [r \in Recursos |-> 1]

M(op, arg) == [op |-> op, arg |-> arg]

Final == {M("FINALIZACION", "-")}
OutOfMemory == {M("OOM", "-")}
Invalido == {M("OTRO", "-")}             \* the default case of the switch
RecursoInexistente == {M("PEDIRRECURSO", "desconocido")}
Wait == {M("PEDIRRECURSO", R)}
Signal == {M("DARRECURSO", R)}
Io == {M("IO", I)}
IoVector == {M("IO_VECTOR", I)}

ProgramasRecursos == Final \cup Wait \cup Signal \cup RecursoInexistente
ProgramasCPU == Final \cup Invalido
ProgramasVRR == Final \cup Wait \cup Signal \cup IoVector
ProgramasIO == Final \cup IoVector
ProgramasCarreras == Final \cup Wait \cup Io \cup IoVector
ProgramasConsola == Final \cup Signal \cup IoVector
=============================================================================
