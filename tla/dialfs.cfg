\* Three files in eight blocks of two bytes: they fit, but not always together.
CONSTANTS
  A = A
  B = B
  C = C
  Archivos <- TresArchivos
  CANT_BLOQUES = 8
  TAM_BLOQUE = 2
  Tamanios = {3, 8}
  Offsets = {1}
  Cadenas = {2, 8}
  Cuidados = {"nombres", "dimensiona", "entra", "dentro"}
SPECIFICATION DialFSSpec
SYMMETRY Simetria
VIEW Vista
INVARIANTS DialFSTypeOK BitmapExacto FatEnDisco SinNulos
PROPERTIES CumpleAlmacen
