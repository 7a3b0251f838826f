\* Processes that end, run for ever, are killed and cannot be loaded.
CONSTANTS
  MODULO8 = 256
  MODULO32 = 65536
  Procesos = {1, 2, 3}
  Programa <- Programas
  SinArchivo = {1}
  Basura <- Restos
  Cuidados = {"sirve_antes", "mata_cargado"}
SPECIFICATION ContextoSpec
INVARIANTS ContextoTypeOK MemoriaEnPie
PROPERTIES CumpleMaquina TodosAvanzan
\* Once every process has been freed nothing happens.
CHECK_DEADLOCK FALSE
