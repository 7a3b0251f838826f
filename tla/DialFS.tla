------------------------------- MODULE DialFS -------------------------------
(***************************************************************************)
(* DialFS, the file system interface (entradasalida.c): files are runs of  *)
(* contiguous blocks.  bitmap.dat and bloques.dat are mapped files and     *)
(* every file has a metadata file, so those three outlive the interface;   *)
(* the FAT is rebuilt from the metadata when it starts.  The interface     *)
(* serves one operation at a time, and each is one step.                   *)
(***************************************************************************)
EXTENDS Integers, SequencesExt

CONSTANTS
  Archivos,       \* the names the programs use
  CANT_BLOQUES,   \* BLOCK_COUNT of the interface's configuration
  TAM_BLOQUE,     \* BLOCK_SIZE
  Tamanios,       \* the sizes IO_FS_TRUNCATE is asked for
  Offsets,        \* the offsets IO_FS_WRITE and IO_FS_READ are asked for
  Cadenas,        \* the lengths of what they write and read
  Cuidados        \* what the programs are assumed to respect

\* The bitmap has CANT_BLOQUES/8 bytes: the division must be exact.
ASSUME DialFSAssumption ==
  /\ CANT_BLOQUES \in Nat \ {0} /\ CANT_BLOQUES % 8 = 0
  /\ TAM_BLOQUE \in Nat \ {0}
  /\ Tamanios \in SUBSET Nat
  /\ Offsets \in SUBSET Nat
  /\ Cadenas \in SUBSET Nat
  /\ Cuidados \in SUBSET {"nombres", "dimensiona", "entra", "dentro"}

Bloques == 0..(CANT_BLOQUES - 1)
Direcciones == 0..(CANT_BLOQUES * TAM_BLOQUE - 1)

\* What a program writes in a file is named by the file.
Cero == "0"
Datos == Archivos \cup {Cero}

Entrada == [nombre : Archivos, bloqueInicial : Bloques, largo : Nat]

\* An operation as it was asked for: on which file, from where and how much.
Peticion(op, n, desde, largo) == [op |-> op, nombre |-> n, desde |-> desde, largo |-> largo]
Operaciones == {"IO_FS_CREATE", "IO_FS_DELETE", "IO_FS_TRUNCATE", "IO_FS_WRITE", "IO_FS_READ"}
Ninguna == [op |-> "NINGUNA"]
Peticiones ==
  {Ninguna} \cup [op : Operaciones, nombre : Archivos, desde : Nat, largo : Nat]

VARIABLES
  bitmap,     \* the occupied blocks
  FAT,        \* the list of the files' entries
  metadata,   \* the metadata files, one per name
  BLOQUES,    \* bloques.dat, byte by byte
  caido,      \* the interface has crashed on a NULL pointer
  leido,      \* the bytes this operation read
  peticion       \* history: the operation that was served last

dialfsVars == <<bitmap, FAT, metadata, BLOQUES, caido, leido, peticion>>

DialFSTypeOK ==
  /\ bitmap \in SUBSET Bloques
  /\ FAT \in Seq(Entrada)
  /\ metadata \in SUBSET Entrada
  /\ BLOQUES \in [Direcciones -> Datos]
  /\ caido \in BOOLEAN
  /\ leido \in Seq(Datos)
  /\ peticion \in Peticiones

\* iniciar_fs on an empty directory.
DialFSInit ==
  /\ bitmap = {}
  /\ FAT = <<>>
  /\ metadata = {}
  /\ BLOQUES = [d \in Direcciones |-> Cero]
  /\ caido = FALSE
  /\ leido = <<>>
  /\ peticion = Ninguna

Caer == caido' = TRUE /\ UNCHANGED <<bitmap, FAT, metadata, BLOQUES>>

-----------------------------------------------------------------------------
Rango(inicio, n) == inicio..(inicio + n - 1)

\* ceil(largo / TAM_BLOQUE)
CantBloques(largo) == (largo + TAM_BLOQUE - 1) \div TAM_BLOQUE

\* "si el tamaño es 0 igualmente se le asigna un bloque"
BloquesAsignados(largo) == IF CantBloques(largo) = 0 THEN 1 ELSE CantBloques(largo)

\* list_find(FAT, esArchivo): the first entry with that name.
Entradas(n) == {k \in DOMAIN FAT : FAT[k].nombre = n}
Existe(n) == Entradas(n) # {}
Posicion(n) == Min(Entradas(n))

\* config_create finds the file's metadata; NULL otherwise, which is then used.
TieneMetadata(n) == \E m \in metadata : m.nombre = n

\* config_save of entry e over the metadata files m.
GuardarEn(m, e) == {x \in m : x.nombre # e.nombre} \cup {e}

\* mutant: the metadata is not saved
GuardarSinGuardar(e) == metadata

Guardar(e) == GuardarEn(metadata, e)

\* memcpy of n bytes that are read before any is written.
Copiar(bloques, destino, origen, n) ==
  [d \in Direcciones |-> IF d \in Rango(destino, n) THEN bloques[origen + (d - destino)]
                         ELSE bloques[d]]

\* memcpy of n bytes one by one, where the source overlaps what was written.
CopiarDeAUno(bloques, destino, origen, n) ==
  [d \in Direcciones |-> IF d \in Rango(destino, n)
                         THEN bloques[origen + ((d - destino) % (destino - origen))]
                         ELSE bloques[d]]

\* What memcpy may leave: over a source that starts before, its result is undefined.
Copias(bloques, destino, origen, n) ==
  {Copiar(bloques, destino, origen, n)}
    \cup IF origen < destino THEN {CopiarDeAUno(bloques, destino, origen, n)} ELSE {}

-----------------------------------------------------------------------------
\* What a program that respects Cuidados may ask for.  "nombres": it creates what
\* does not exist and uses what does.  "dimensiona": a file just created is given
\* a size before anything else, and none is truncated to zero.  "dentro": reads stay
\* inside the file.
Pide(op, n, tamanio) ==
  /\ ~caido
  /\ "nombres" \in Cuidados => (op = "IO_FS_CREATE" <=> ~Existe(n))
  /\ "dimensiona" \in Cuidados =>
       /\ op = "IO_FS_TRUNCATE" => tamanio > 0
       /\ \A k \in DOMAIN FAT :
            FAT[k].largo = 0 => op = "IO_FS_TRUNCATE" /\ FAT[k].nombre = n

\* crear_fs: the first free block; with none, the kernel is answered IO_FAILURE.
CrearFs(n) ==
  /\ Pide("IO_FS_CREATE", n, 0)
  /\ Bloques \ bitmap # {}
  /\ LET e == [nombre |-> n, bloqueInicial |-> Min(Bloques \ bitmap), largo |-> 0] IN
       /\ bitmap' = bitmap \cup {e.bloqueInicial}
       /\ metadata' = Guardar(e)
       /\ FAT' = Append(FAT, e)
  /\ UNCHANGED <<BLOQUES, caido>>

\* eliminar_fs: the blocks that hold bytes are freed, so that an empty file's
\* block is not.
EliminarFs(n) ==
  /\ Pide("IO_FS_DELETE", n, 0)
  /\ IF Existe(n) /\ TieneMetadata(n)
     THEN LET e == FAT[Posicion(n)] IN
            /\ bitmap' = bitmap \ Rango(e.bloqueInicial, CantBloques(e.largo))
            /\ FAT' = RemoveAt(FAT, Posicion(n))
            /\ metadata' = {m \in metadata : m.nombre # n}
            /\ UNCHANGED <<BLOQUES, caido>>
     ELSE Caer

-----------------------------------------------------------------------------
(***************************************************************************)
(* truncar_fs.  A file that does not exist is only logged.                 *)
(***************************************************************************)

\* mutant: the search does not stop at the end of the disk
HuecosSinFinal(libres, n) == {h \in Bloques : Rango(h, n) \cap Bloques \subseteq libres}

\* The blocks that are free once the file is lifted from the bitmap, and the
\* starts of the runs of n of them.
LibresSin(e) == Bloques \ (bitmap \ Rango(e.bloqueInicial, BloquesAsignados(e.largo)))
Huecos(libres, n) == {h \in Bloques : Rango(h, n) \subseteq libres}

PideTruncar(n, tamanio) ==
  /\ Pide("IO_FS_TRUNCATE", n, tamanio)
  /\ Existe(n)
  /\ "entra" \in Cuidados =>
       BloquesAsignados(tamanio) <= Cardinality(LibresSin(FAT[Posicion(n)]))

\* mutant: the first block kept is freed too
SobrantesDeMas(e, quedan) == Rango(e.bloqueInicial + quedan - 1,
                                   BloquesAsignados(e.largo) - quedan + 1)

Sobrantes(e, quedan) == Rango(e.bloqueInicial + quedan, BloquesAsignados(e.largo) - quedan)

\* Case 1: no more blocks than it has.  Only the size is written to the metadata.
Achicar(n, tamanio) ==
  /\ PideTruncar(n, tamanio)
  /\ LET e == FAT[Posicion(n)] IN
       /\ BloquesAsignados(tamanio) <= BloquesAsignados(e.largo)
       /\ IF TieneMetadata(n)
          THEN /\ bitmap' = bitmap \ Sobrantes(e, BloquesAsignados(tamanio))
               /\ FAT' = [FAT EXCEPT ![Posicion(n)].largo = tamanio]
               /\ metadata' = {IF m.nombre = n THEN [m EXCEPT !.largo = tamanio] ELSE m :
                                 m \in metadata}
               /\ UNCHANGED <<BLOQUES, caido>>
          ELSE Caer

\* Case 2: the first run of free blocks that is long enough.  The memcpy has the
\* old place as its destination and the new one as its source.
Mudar(n, tamanio) ==
  /\ PideTruncar(n, tamanio)
  /\ LET e == FAT[Posicion(n)]
         huecos == Huecos(LibresSin(e), BloquesAsignados(tamanio))
         h == Min(huecos)
         nueva == [nombre |-> n, bloqueInicial |-> h, largo |-> tamanio]
         destino == e.bloqueInicial * TAM_BLOQUE
         origen == h * TAM_BLOQUE
     IN
       /\ BloquesAsignados(tamanio) > BloquesAsignados(e.largo)
       /\ huecos # {}
       /\ IF TieneMetadata(n)
          THEN /\ bitmap' = (Bloques \ LibresSin(e)) \cup Rango(h, BloquesAsignados(tamanio))
               /\ BLOQUES' \in Copias(BLOQUES, destino, origen, e.largo)
               /\ FAT' = [FAT EXCEPT ![Posicion(n)] = nueva]
               /\ metadata' = Guardar(nueva)
               /\ UNCHANGED caido
          ELSE Caer

\* Case 4: not enough blocks.  The file keeps its entry, but not its bits.  The
\* log_error that follows has no logger, and no log level is high enough to print.
NoEntra(n, tamanio) ==
  /\ PideTruncar(n, tamanio)
  /\ LET e == FAT[Posicion(n)] IN
       /\ BloquesAsignados(tamanio) > Cardinality(LibresSin(e))
       /\ bitmap' = Bloques \ LibresSin(e)
  /\ UNCHANGED <<FAT, metadata, BLOQUES, caido>>

-----------------------------------------------------------------------------
(***************************************************************************)
(* compactar: from the first hole on, every file is moved down to it.  d   *)
(* is the disk while it is compacted and hueco the first hole.             *)
(***************************************************************************)

\* mutant: the metadata of a file that moves is not saved
MetadataMovidaIgual(d, movidos) == d.metadata

MetadataMovida(d, movidos) ==
  {m \in d.metadata : \A k \in movidos : m.nombre # d.FAT[k].nombre}
    \cup {[d.FAT[k] EXCEPT !.bloqueInicial = d.hueco] : k \in movidos}

\* The block i is reached.  If it is occupied, the entry that starts there moves
\* and the search goes on from the end of its new place, where the hole is now;
\* with none, or with an empty one, which frees no bit and leads to i again, the
\* NULL that list_find gives is used.
MoverArchivo(d, i) ==
  LET conDatos == {k \in DOMAIN d.FAT : d.FAT[k].bloqueInicial = i /\ CantBloques(d.FAT[k].largo) > 0}
      archivo == d.FAT[Min(conDatos)]
      n == CantBloques(archivo.largo)
      movidos == {k \in DOMAIN d.FAT : d.FAT[k].bloqueInicial = i /\ k <= Min(conDatos)}
      conMetadata == \A k \in movidos : \E m \in d.metadata : m.nombre = d.FAT[k].nombre
  IN IF i < d.hueco \/ i \notin d.bitmap \/ d.cae THEN d
     ELSE IF conDatos = {} \/ ~conMetadata THEN [d EXCEPT !.cae = TRUE]
     ELSE [hueco    |-> d.hueco + n,
           bitmap   |-> (d.bitmap \ Rango(i, n)) \cup Rango(d.hueco, n),
           FAT      |-> [k \in DOMAIN d.FAT |->
                          IF k \in movidos THEN [d.FAT[k] EXCEPT !.bloqueInicial = d.hueco]
                          ELSE d.FAT[k]],
           metadata |-> MetadataMovida(d, movidos),
           BLOQUES  |-> Copiar(d.BLOQUES, d.hueco * TAM_BLOQUE, i * TAM_BLOQUE, archivo.largo),
           cae      |-> FALSE]

\* The disk when the loop reaches each block, and at its end, once the file to be
\* truncated was lifted from the bitmap.  Below the first hole nothing happens.
Discos(ocupados) ==
  LET disco[i \in 0..CANT_BLOQUES] ==
        IF i = 0 THEN [hueco |-> Min(Bloques \ ocupados), bitmap |-> ocupados, FAT |-> FAT,
                       metadata |-> metadata, BLOQUES |-> BLOQUES, cae |-> FALSE]
        ELSE MoverArchivo(disco[i - 1], i - 1)
  IN disco

CompactadoHasta(ocupados, i) == Discos(ocupados)[i]

Compactado(ocupados) == CompactadoHasta(ocupados, CANT_BLOQUES)

\* Case 3: the free blocks are enough but not contiguous.  The bytes of the file
\* are kept in a buffer, the rest is compacted and the file goes after it.
Compactar(n, tamanio) ==
  /\ PideTruncar(n, tamanio)
  /\ LET e == FAT[Posicion(n)]
         libres == LibresSin(e)
         bloquesFinales == BloquesAsignados(tamanio)
         d == Compactado(Bloques \ libres)
         h == Min(Bloques \ d.bitmap)
         nueva == [nombre |-> n, bloqueInicial |-> h, largo |-> tamanio]
         buffer == [k \in Rango(0, e.largo) |-> BLOQUES[e.bloqueInicial * TAM_BLOQUE + k]]
     IN
       /\ bloquesFinales > BloquesAsignados(e.largo)
       /\ bloquesFinales <= Cardinality(libres)
       /\ Huecos(libres, bloquesFinales) = {}
       /\ IF d.cae \/ ~TieneMetadata(n)
          THEN Caer
          ELSE /\ bitmap' = d.bitmap \cup Rango(h, bloquesFinales)
               /\ BLOQUES' = [x \in Direcciones |->
                                IF x \in Rango(h * TAM_BLOQUE, e.largo)
                                THEN buffer[x - h * TAM_BLOQUE] ELSE d.BLOQUES[x]]
               /\ FAT' = [d.FAT EXCEPT ![Posicion(n)] = nueva]
               /\ metadata' = GuardarEn(d.metadata, nueva)
               /\ UNCHANGED caido

TruncarFs(n, tamanio) ==
  Achicar(n, tamanio) \/ Mudar(n, tamanio) \/ NoEntra(n, tamanio) \/ Compactar(n, tamanio)

-----------------------------------------------------------------------------
EntraEnArchivo(e, offset, largo) == largo <= e.largo - offset

\* mutant: the offset is not added
DesdeSinOffset(e, offset) == e.bloqueInicial * TAM_BLOQUE

Desde(e, offset) == e.bloqueInicial * TAM_BLOQUE + offset

\* escribir_fs of a string of that length.
EscribirFs(n, offset, largo) ==
  /\ Pide("IO_FS_WRITE", n, 0)
  /\ IF Existe(n)
     THEN LET e == FAT[Posicion(n)] IN
            /\ EntraEnArchivo(e, offset, largo)
            /\ BLOQUES' = [d \in Direcciones |->
                             IF d \in Rango(Desde(e, offset), largo) THEN n
                             ELSE BLOQUES[d]]
            /\ UNCHANGED <<bitmap, FAT, metadata, caido>>
     ELSE Caer

\* leer_fs.  What is asked for is cut to the size of the file, without the offset,
\* so that a read that is not "dentro" goes on with the bytes that follow the file;
\* past the end of the disk they are any.
LeerFs(n, offset, cantALeer) ==
  /\ Pide("IO_FS_READ", n, 0)
  /\ IF Existe(n)
     THEN LET e == FAT[Posicion(n)]
              cant == Min({cantALeer, e.largo})
          IN /\ "dentro" \in Cuidados => offset + cantALeer <= e.largo
             /\ \E resto \in IF Desde(e, offset) + cant - 1 \in Direcciones THEN {Cero} ELSE Datos :
                  leido' = [k \in 1..cant |-> LET d == Desde(e, offset) + k - 1 IN
                              IF d \in Direcciones THEN BLOQUES[d] ELSE resto]
             /\ UNCHANGED <<bitmap, FAT, metadata, BLOQUES, caido>>
     ELSE Caer /\ leido' = <<>>

\* The interface ends and is started again: iniciar_fs finds the files and builds
\* the FAT in the order readdir gives.
Reiniciar ==
  /\ ~caido
  /\ FAT' \in SetToSeqs(metadata)
  /\ UNCHANGED <<bitmap, metadata, BLOQUES, caido>>

\* What is served, and is not a read.
Sirve(o) == peticion' = o /\ leido' = <<>>

DialFSNext ==
  \/ \E n \in Archivos :
       \/ CrearFs(n) /\ Sirve(Peticion("IO_FS_CREATE", n, 0, 0))
       \/ EliminarFs(n) /\ Sirve(Peticion("IO_FS_DELETE", n, 0, 0))
       \/ \E tamanio \in Tamanios :
            TruncarFs(n, tamanio) /\ Sirve(Peticion("IO_FS_TRUNCATE", n, 0, tamanio))
       \/ \E offset \in Offsets, largo \in Cadenas :
            \/ EscribirFs(n, offset, largo) /\ Sirve(Peticion("IO_FS_WRITE", n, offset, largo))
            \/ LeerFs(n, offset, largo) /\ peticion' = Peticion("IO_FS_READ", n, offset, largo)
  \/ Reiniciar /\ Sirve(Ninguna)

DialFSSpec == DialFSInit /\ [][DialFSNext]_dialfsVars

-----------------------------------------------------------------------------
(***************************************************************************)
(* Properties                                                              *)
(***************************************************************************)

BloquesDe(e) == Rango(e.bloqueInicial, BloquesAsignados(e.largo))

\* No block belongs to two files, and the occupied blocks are those of the files:
\* no operation leaks a block or gives away one in use.
BitmapExacto ==
  /\ \A j, k \in DOMAIN FAT : j # k => BloquesDe(FAT[j]) \cap BloquesDe(FAT[k]) = {}
  /\ bitmap = UNION {BloquesDe(FAT[k]) : k \in DOMAIN FAT}

\* What a restart would read from the metadata is what the FAT says now, also of
\* the files that a compaction moved on behalf of another.
FatEnDisco == ToSet(FAT) = metadata

\* No operation uses a NULL entry, compaction included.
SinNulos == ~caido

Contenido(n) ==
  LET e == FAT[Posicion(n)] IN [k \in 1..e.largo |-> BLOQUES[e.bloqueInicial * TAM_BLOQUE + k - 1]]

Nombrados == {FAT[k].nombre : k \in DOMAIN FAT}

Archivero == INSTANCE Almacen WITH
               Nombres <- Archivos, Octetos <- Datos, contenido <- [n \in Nombrados |-> Contenido(n)]

\* DialFS implements a store of independent files: every operation does what was
\* asked, to the file it names and at the place it names, and to no other; truncating
\* one, compacting the disk for it included, never touches the bytes of another.
CumpleAlmacen == Archivero!Especificacion

\* A file that grows keeps the bytes it had (comment "copio los datos" of truncar_fs).
TruncarConserva ==
  [][ \A n \in Nombrados \cap Nombrados' :
        Len(Contenido(n)') > Len(Contenido(n)) => IsPrefix(Contenido(n), Contenido(n)') ]_dialfsVars
=============================================================================
