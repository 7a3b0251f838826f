\* RR, three processes that compute and end; two are admitted at a time, and the
\* memory cannot open the file of the third.
CONSTANTS
  R = R
  I = I
  MaxPid = 3
  MaxCanal = 1
  MaxTimers = 2
  MaxInstancias = 1
  Recursos <- Recursos1
  Interfaces <- Ninguna
  Instancias0 <- UnaInstancia
  Motivos <- ProgramasCPU
  Grado = 2
  Grados = {}
  Algoritmo = "RR"
  ListasAtomicas = TRUE
  Comandos = {"INICIAR_PROCESO"}
  Disciplina = {"senal"}
  SinArchivo = {3}
  RespuestasIO = {"IO_SUCCESS"}
SPECIFICATION SpecJusta
PROPERTIES TurnoDeTodos FinalizadoSeLibera
CHECK_DEADLOCK FALSE
