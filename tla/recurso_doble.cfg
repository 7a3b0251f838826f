\* FIFO, three processes that may end while they hold the only instance.
CONSTANTS
  R = R
  I = I
  MaxPid = 3
  MaxCanal = 1
  MaxTimers = 1
  MaxInstancias = 1
  Recursos <- Recursos1
  Interfaces <- Ninguna
  Instancias0 <- UnaInstancia
  Motivos <- ProgramasRecursos
  Grado = 3
  Grados = {}
  Algoritmo = "FIFO"
  ListasAtomicas = TRUE
  Comandos = {"INICIAR_PROCESO"}
  Disciplina = {"senal"}
  SinArchivo = {}
  RespuestasIO = {"IO_SUCCESS"}
SPECIFICATION Spec
INVARIANTS RecursosExclusivos
CHECK_DEADLOCK FALSE
