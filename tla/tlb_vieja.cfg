\* Programs that give back pages they have used, and ask for them again.
CONSTANTS
  Procesos <- DosProcesos
  CANT_PAG = 4
  TAM_PAG = 2
  BITS = 2
  Texto = 9
  CANT_ENTRADAS_TLB = 2
  ALGORITMO_TLB = "FIFO"
  Tamanios = {3, 6}
  Direcciones = {1, 3}
  Cadenas = {3}
  Cuidados = {"byte", "vive", "entrega"}
SPECIFICATION Spec
VIEW Vista
PROPERTIES CumpleEspacios
\* When both processes have been released nothing is left to do.
CHECK_DEADLOCK FALSE
