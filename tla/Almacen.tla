------------------------------ MODULE Almacen ------------------------------
(***************************************************************************)
(* What a file system promises its users, whatever blocks it uses: every   *)
(* file is a sequence of bytes of its own, and an operation does what was  *)
(* asked to the file it names, at the place it names, and to no other.     *)
(***************************************************************************)
EXTENDS Integers, Sequences

CONSTANTS Nombres, Octetos, Tamanios, Offsets, Cadenas

VARIABLES
  contenido,   \* the bytes of each file that exists
  leido,       \* the bytes the last operation read
  peticion        \* the last operation, as it was asked for

vars == <<contenido, leido, peticion>>

Iniciar == contenido = [n \in {} |-> <<>>] /\ leido = <<>>

Pide(op, n, desde, largo) ==
  peticion' = [op |-> op, nombre |-> n, desde |-> desde, largo |-> largo]

\* Every file but n is there as it was.
Aparte(n) ==
  \A m \in (DOMAIN contenido \cup DOMAIN contenido') \ {n} :
    m \in DOMAIN contenido /\ m \in DOMAIN contenido' /\ contenido'[m] = contenido[m]

Sigue(n) == n \in DOMAIN contenido /\ n \in DOMAIN contenido' /\ Aparte(n)

Crear(n) ==
  /\ Pide("IO_FS_CREATE", n, 0, 0)
  /\ n \notin DOMAIN contenido /\ n \in DOMAIN contenido' /\ contenido'[n] = <<>>
  /\ Aparte(n) /\ leido' = <<>>

Eliminar(n) ==
  /\ Pide("IO_FS_DELETE", n, 0, 0)
  /\ n \in DOMAIN contenido /\ n \notin DOMAIN contenido'
  /\ Aparte(n) /\ leido' = <<>>

\* The file has the size asked for.  What it keeps when it shrinks is its beginning;
\* DialFS does not keep what it held when it grows (see TruncarConserva), and nothing
\* is promised of that.
Truncar(n, tamanio) ==
  /\ Pide("IO_FS_TRUNCATE", n, 0, tamanio)
  /\ Sigue(n) /\ leido' = <<>>
  /\ Len(contenido'[n]) = tamanio
  /\ IF tamanio <= Len(contenido[n])
     THEN contenido'[n] = SubSeq(contenido[n], 1, tamanio)
     ELSE \A k \in DOMAIN contenido'[n] : contenido'[n][k] \in Octetos

\* The bytes that the program sent for n take the place of those from desde on.
Escribir(n, desde, largo) ==
  /\ Pide("IO_FS_WRITE", n, desde, largo)
  /\ Sigue(n) /\ leido' = <<>>
  /\ desde + largo <= Len(contenido[n])
  /\ Len(contenido'[n]) = Len(contenido[n])
  /\ \A k \in DOMAIN contenido[n] :
       contenido'[n][k] = IF desde < k /\ k <= desde + largo THEN n ELSE contenido[n][k]

Leer(n, desde, largo) ==
  /\ Pide("IO_FS_READ", n, desde, largo)
  /\ n \in DOMAIN contenido /\ UNCHANGED contenido
  /\ desde + largo <= Len(contenido[n])
  /\ leido' = SubSeq(contenido[n], desde + 1, desde + largo)

Siguiente == \E n \in Nombres :
  \/ Crear(n) \/ Eliminar(n)
  \/ \E tamanio \in Tamanios : Truncar(n, tamanio)
  \/ \E desde \in Offsets, largo \in Cadenas : Escribir(n, desde, largo) \/ Leer(n, desde, largo)

\* The store is restarted: nothing is asked and nothing happens to the files.
Quieto == peticion' = [op |-> "NINGUNA"] /\ UNCHANGED contenido /\ leido' = <<>>

Especificacion == Iniciar /\ [][Quieto \/ Siguiente]_vars
=============================================================================
