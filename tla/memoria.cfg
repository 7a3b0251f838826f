\* Two processes in three frames of two bytes: a 4-byte access may span three pages,
\* all the frames there are and more than the TLB holds.
CONSTANTS
  Procesos <- DosProcesos
  CANT_PAG = 3
  TAM_PAG = 2
  BITS = 2
  Texto = 9
  CANT_ENTRADAS_TLB = 2
  ALGORITMO_TLB = "LRU"
  Tamanios = {3, 6}
  Direcciones = {1, 3}
  Cadenas = {3}
  Cuidados = {"byte", "tlb", "vive", "entrega"}
SPECIFICATION Spec
VIEW Vista
INVARIANTS TypeOK MarcosExactos TLBCoherente
PROPERTIES CumpleEspacios
\* When both processes have been released nothing is left to do.
CHECK_DEADLOCK FALSE
