\* VRR, where list operations that the code does not lock may lose an element,
\* and an interface that may disconnect.
CONSTANTS
  R = R
  I = I
  MaxPid = 2
  MaxCanal = 1
  MaxTimers = 1
  MaxInstancias = 1
  Recursos <- Recursos1
  Interfaces <- Interfaces1
  Instancias0 <- UnaInstancia
  Motivos <- ProgramasCarreras
  Grado = 2
  Grados = {}
  Algoritmo = "VRR"
  ListasAtomicas = FALSE
  Comandos = {"INICIAR_PROCESO"}
  Disciplina = {"senal"}
  SinArchivo = {}
  RespuestasIO = {"IO_SUCCESS", "DESCONEXION"}
SPECIFICATION Spec
INVARIANTS LecturaEnOrden AtencionSecuencial
CHECK_DEADLOCK FALSE
