\* The smallest disk on which a file that grows has to move.
CONSTANTS
  A = A
  B = B
  C = C
  Archivos <- DosArchivos
  CANT_BLOQUES = 8
  TAM_BLOQUE = 2
  Tamanios = {3, 8}
  Offsets = {1}
  Cadenas = {2}
  Cuidados = {"nombres", "dimensiona", "entra", "dentro"}
SPECIFICATION DialFSSpec
VIEW Vista
PROPERTIES TruncarConserva
