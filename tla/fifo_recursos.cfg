\* FIFO, three processes that use one resource and may end holding it, and the
\* commands that stop, resume and resize.
CONSTANTS
  R = R
  I = I
  MaxPid = 3
  MaxCanal = 1
  MaxTimers = 1
  MaxInstancias = 1
  Recursos <- Recursos1
  Interfaces <- Ninguna
  Instancias0 <- UnaInstancia
  Motivos <- ProgramasRecursos
  Grado = 1
  Grados = {1, 2}
  Algoritmo = "FIFO"
  ListasAtomicas = TRUE
  Comandos = {"INICIAR_PROCESO", "MULTIPROGRAMACION", "PROCESO_ESTADO"}
  Disciplina = {"senal"}
  SinArchivo = {}
  RespuestasIO = {"IO_SUCCESS"}
SPECIFICATION Spec
INVARIANTS TypeOK UnSoloLugar TokensPCP CuposMultiprogramacion InstanciasConservadas
PROPERTIES CumpleCicloDeVida
CHECK_DEADLOCK FALSE
