\* FIFO and kills: two processes that use one interface and signal a resource.
CONSTANTS
  R = R
  I = I
  MaxPid = 2
  MaxCanal = 1
  MaxTimers = 1
  MaxInstancias = 2
  Recursos <- Recursos1
  Interfaces <- Interfaces1
  Instancias0 <- UnaInstancia
  Motivos <- ProgramasConsola
  Grado = 2
  Grados = {}
  Algoritmo = "FIFO"
  ListasAtomicas = TRUE
  Comandos = {"INICIAR_PROCESO", "FINALIZAR_PROCESO", "DETENER_PLANIFICACION", "INICIAR_PLANIFICACION"}
  Disciplina = {}
  SinArchivo = {}
  RespuestasIO = {"IO_SUCCESS", "IO_FAILURE"}
SPECIFICATION Spec
INVARIANTS CuposMultiprogramacion
PROPERTIES DetenidaCongela MuertoNoRevive
CHECK_DEADLOCK FALSE
