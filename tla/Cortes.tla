------------------------------- MODULE Cortes -------------------------------
(***************************************************************************)
(* DialFS when the interface dies in the middle of an operation and is     *)
(* started again.  The mapped files keep what was written up to there, so  *)
(* that the order of the writes of each operation matters: bits one by     *)
(* one, bytes, and a metadata file that config_save empties before it      *)
(* writes it.                                                              *)
(***************************************************************************)
EXTENDS DialFS

VARIABLE cortado    \* the interface died in an operation

cortesVars == <<dialfsVars, cortado>>

\* What outlives the interface; roto when a metadata file was left empty.
Disco(d) == [bitmap |-> d.bitmap, metadata |-> d.metadata, BLOQUES |-> d.BLOQUES, roto |-> FALSE]
Antes == Disco([bitmap |-> bitmap, metadata |-> metadata, BLOQUES |-> BLOQUES])

Limpio(d, inicio, n) == [d EXCEPT !.bitmap = @ \ Rango(inicio, n)]
Marcado(d, inicio, n) == [d EXCEPT !.bitmap = @ \cup Rango(inicio, n)]

\* The disks a loop, a memcpy or a config_save that started on d may leave.
Limpiando(d, inicio, n) == {Limpio(d, inicio, k) : k \in 0..n}
Marcando(d, inicio, n) == {Marcado(d, inicio, k) : k \in 0..n}
Copiando(d, destino, origen, n) ==
  UNION {{[d EXCEPT !.BLOQUES = b] : b \in Copias(d.BLOQUES, destino, origen, k)} : k \in 0..n}
Guardando(d, e) ==
  {[d EXCEPT !.metadata = {m \in @ : m.nombre # e.nombre}, !.roto = TRUE],
   [d EXCEPT !.metadata = GuardarEn(@, e)]}

-----------------------------------------------------------------------------
\* crear_fs: the bit, then the metadata.
CortesCrear(n) ==
  LET e == [nombre |-> n, bloqueInicial |-> Min(Bloques \ bitmap), largo |-> 0]
      marcado == Marcado(Antes, e.bloqueInicial, 1)
  IN IF Bloques \ bitmap = {} THEN {} ELSE {marcado} \cup Guardando(marcado, e)

\* eliminar_fs: the bits, then the metadata.
CortesEliminar(n) ==
  LET e == FAT[Posicion(n)] IN Limpiando(Antes, e.bloqueInicial, CantBloques(e.largo))

\* truncar_fs, case 1: the bits, then the metadata.
CortesAchicar(n, tamanio) ==
  LET e == FAT[Posicion(n)]
      quedan == BloquesAsignados(tamanio)
      sobran == BloquesAsignados(e.largo) - quedan
  IN Limpiando(Antes, e.bloqueInicial + quedan, sobran)
       \cup Guardando(Limpio(Antes, e.bloqueInicial + quedan, sobran), [e EXCEPT !.largo = tamanio])

\* mutant: the loop that clears the bits goes one block too far
CortesLevantarDeMas(n) ==
  LET e == FAT[Posicion(n)] IN Limpiando(Antes, e.bloqueInicial, BloquesAsignados(e.largo) + 1)

\* The bits that every truncation to more blocks clears first.
CortesLevantar(n) ==
  LET e == FAT[Posicion(n)] IN Limpiando(Antes, e.bloqueInicial, BloquesAsignados(e.largo))

\* Case 2: the new bits, the bytes, the metadata.
CortesMudar(n, tamanio) ==
  LET e == FAT[Posicion(n)]
      b == BloquesAsignados(tamanio)
      h == Min(Huecos(LibresSin(e), b))
      levantado == [Antes EXCEPT !.bitmap = Bloques \ LibresSin(e)]
      marcado == Marcado(levantado, h, b)
      destino == e.bloqueInicial * TAM_BLOQUE
      copiados == Copias(BLOQUES, destino, h * TAM_BLOQUE, e.largo)
  IN Marcando(levantado, h, b)
       \cup Copiando(marcado, destino, h * TAM_BLOQUE, e.largo)
       \cup UNION {Guardando([marcado EXCEPT !.BLOQUES = c],
                             [nombre |-> n, bloqueInicial |-> h, largo |-> tamanio]) : c \in copiados}

\* compactar, the file that starts at block i: the metadata, its old bits, its new
\* bits, its bytes.
CortesMover(d, i) ==
  LET inicial(k) == d.FAT[k].bloqueInicial = i /\ CantBloques(d.FAT[k].largo) > 0
      e == d.FAT[Min({k \in DOMAIN d.FAT : inicial(k)})]
      n == CantBloques(e.largo)
      movido == [e EXCEPT !.bloqueInicial = d.hueco]
      guardado == [Disco(d) EXCEPT !.metadata = GuardarEn(@, movido)]
      limpio == Limpio(guardado, i, n)
  IN IF i < d.hueco \/ i \notin d.bitmap \/ d.cae \/ ~\E k \in DOMAIN d.FAT : inicial(k) THEN {}
     ELSE Guardando(Disco(d), movido)
            \cup Limpiando(guardado, i, n)
            \cup Marcando(limpio, d.hueco, n)
            \cup Copiando(Marcado(limpio, d.hueco, n), d.hueco * TAM_BLOQUE, i * TAM_BLOQUE, e.largo)

\* Case 3: the rest is compacted, file by file; then the bits, the bytes that were
\* kept in the buffer and the metadata.
CortesCompactar(n, tamanio) ==
  LET e == FAT[Posicion(n)]
      b == BloquesAsignados(tamanio)
      ocupados == Bloques \ LibresSin(e)
      compactado == Compactado(ocupados)
      h == Min(Bloques \ compactado.bitmap)
      marcado == Marcado(Disco(compactado), h, b)
      repuesto(k) == [marcado EXCEPT !.BLOQUES = [x \in Direcciones |->
                        IF x \in Rango(h * TAM_BLOQUE, k)
                        THEN BLOQUES[e.bloqueInicial * TAM_BLOQUE + x - h * TAM_BLOQUE] ELSE @[x]]]
  IN (UNION {CortesMover(CompactadoHasta(ocupados, i), i) : i \in Bloques})
       \cup IF compactado.cae THEN {}
            ELSE Marcando(Disco(compactado), h, b)
                   \cup {repuesto(k) : k \in 0..e.largo}
                   \cup Guardando(repuesto(e.largo),
                                  [nombre |-> n, bloqueInicial |-> h, largo |-> tamanio])

\* escribir_fs: the bytes.
CortesEscribir(n, offset, largo) ==
  LET e == FAT[Posicion(n)] IN
    IF ~EntraEnArchivo(e, offset, largo) THEN {}
    ELSE {[Antes EXCEPT !.BLOQUES = [d \in Direcciones |->
             IF d \in Rango(Desde(e, offset), k) THEN n ELSE @[d]]] : k \in 0..largo}

CortesTruncar(n, tamanio) ==
  LET e == FAT[Posicion(n)] b == BloquesAsignados(tamanio) IN
    IF b <= BloquesAsignados(e.largo) THEN CortesAchicar(n, tamanio)
    ELSE CortesLevantar(n)
           \cup IF Huecos(LibresSin(e), b) # {} THEN CortesMudar(n, tamanio)
                ELSE IF b <= Cardinality(LibresSin(e)) THEN CortesCompactar(n, tamanio)
                ELSE {}

-----------------------------------------------------------------------------
\* The interface is started again.  A metadata file without its keys gives the NULL
\* that iniciar_fs uses: the interface does not start any more.
Arranca(d) ==
  /\ bitmap' = d.bitmap /\ metadata' = d.metadata /\ BLOQUES' = d.BLOQUES
  /\ FAT' \in SetToSeqs(d.metadata)
  /\ caido' = d.roto

Corte(n) ==
  /\ \/ /\ Pide("IO_FS_CREATE", n, 0) /\ Sirve(Peticion("IO_FS_CREATE", n, 0, 0))
        /\ \E d \in CortesCrear(n) : Arranca(d)
     \/ /\ Pide("IO_FS_DELETE", n, 0) /\ Existe(n) /\ Sirve(Peticion("IO_FS_DELETE", n, 0, 0))
        /\ \E d \in CortesEliminar(n) : Arranca(d)
     \/ \E tamanio \in Tamanios :
          /\ PideTruncar(n, tamanio) /\ Sirve(Peticion("IO_FS_TRUNCATE", n, 0, tamanio))
          /\ \E d \in CortesTruncar(n, tamanio) : Arranca(d)
     \/ \E offset \in Offsets, largo \in Cadenas :
          /\ Pide("IO_FS_WRITE", n, 0) /\ Existe(n)
          /\ Sirve(Peticion("IO_FS_WRITE", n, offset, largo))
          /\ \E d \in CortesEscribir(n, offset, largo) : Arranca(d)
  /\ cortado' = TRUE

CortesInit == DialFSInit /\ cortado = FALSE

\* A behaviour is followed up to the start after a death or to the first truncation
\* that found no room: on a damaged disk later operations may leave the mapped files.
\* Reads change nothing of the disk and are left out.
CortesNext ==
  /\ ~cortado
  /\ BitmapExacto
  /\ (DialFSNext /\ peticion'.op # "IO_FS_READ" /\ UNCHANGED cortado) \/ \E n \in Archivos : Corte(n)

CortesSpec == CortesInit /\ [][CortesNext]_cortesVars

-----------------------------------------------------------------------------
\* The operation o compacts the disk: it is a truncation to more blocks that are
\* free, but not together.
SeCompacta(o) ==
  /\ o.op = "IO_FS_TRUNCATE"
  /\ LET e == FAT[Posicion(o.nombre)]
         b == BloquesAsignados(o.largo)
     IN /\ BloquesAsignados(e.largo) < b /\ b <= Cardinality(LibresSin(e))
        /\ Huecos(LibresSin(e), b) = {}

\* The files, but the one that was being operated, that lost a byte or a bit.
Danados ==
  {f \in Nombrados \ {peticion'.nombre} :
     ~ /\ f \in Nombrados' /\ Contenido(f)' = Contenido(f)
       /\ BloquesDe(FAT[Posicion(f)])' \subseteq bitmap'}

\* A death harms the file that the operation names and, only if it was compacting, at
\* most one more, since compactar moves one file at a time: every other file keeps its
\* bytes and its bits, whatever the point of the operation (compactar's usleep included).
CorteAcotado ==
  [][ cortado' =>
        \/ Danados = {}
        \/ SeCompacta(peticion') /\ \E movido \in Archivos : Danados \subseteq {movido}
    ]_cortesVars

\* After a death no block is of two files: compactar saves where a file goes before it
\* moves it, and no file is moved over one whose metadata still names the old place.
\* Only the file that is lifted to be truncated keeps its old metadata meanwhile.
CorteSinCruces ==
  [][ cortado' =>
        \A j, k \in DOMAIN FAT' :
          \/ j >= k
          \/ BloquesDe(FAT'[j]) \cap BloquesDe(FAT'[k]) = {}
          \/ SeCompacta(peticion') /\ peticion'.nombre \in {FAT'[j].nombre, FAT'[k].nombre}
    ]_cortesVars
=============================================================================
