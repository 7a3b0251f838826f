\* VRR, two processes that use one resource and one interface, and end holding
\* nothing.
CONSTANTS
  R = R
  I = I
  MaxPid = 2
  MaxCanal = 1
  MaxTimers = 1
  MaxInstancias = 1
  Recursos <- Recursos1
  Interfaces <- Interfaces1
  Instancias0 <- UnaInstancia
  Motivos <- ProgramasVRR
  Grado = 2
  Grados = {}
  Algoritmo = "VRR"
  ListasAtomicas = TRUE
  Comandos = {"INICIAR_PROCESO"}
  Disciplina = {"senal", "salida"}
  SinArchivo = {}
  RespuestasIO = {"IO_SUCCESS"}
SPECIFICATION Spec
INVARIANTS SinCaida UnSoloLugar TokensPCP LecturaEnOrden EsperaJustificada RecursosExclusivos
PROPERTIES CumpleCicloDeVida
CHECK_DEADLOCK FALSE
