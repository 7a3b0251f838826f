\* Three files, truncations that may find no room, and the death of the interface.
CONSTANTS
  A = A
  B = B
  C = C
  Archivos <- TresArchivos
  CANT_BLOQUES = 8
  TAM_BLOQUE = 1
  Tamanios = {2, 4}
  Offsets = {1}
  Cadenas = {1}
  Cuidados = {"nombres", "dimensiona", "dentro"}
SPECIFICATION CortesSpec
SYMMETRY Simetria
VIEW Vista
PROPERTIES CorteAcotado CorteSinCruces
\* After a death the model ends.
CHECK_DEADLOCK FALSE
