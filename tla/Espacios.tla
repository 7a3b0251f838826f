------------------------------ MODULE Espacios ------------------------------
(***************************************************************************)
(* What paging promises the processes: each has an address space of its    *)
(* own.  A request is of one process and names where: what it reads is     *)
(* what that process holds there, and what it writes goes there, and       *)
(* nobody else's bytes change.                                             *)
(***************************************************************************)
EXTENDS Integers, Sequences

CONSTANTS
  Duenios,
  Octetos,
  Texto,       \* a byte that comes from outside
  Registros,   \* what a register of each holds
  Direcciones,
  Anchos,      \* the widths of a register's accesses
  Cadenas      \* the lengths of the texts

VARIABLES
  espacio,   \* the bytes of each, address a at index a + 1
  leido,     \* what this step delivered
  peticion   \* what this step served, as it was asked for

vars == <<espacio, leido, peticion>>

Iniciar == espacio = [p \in Duenios |-> <<>>] /\ leido = <<>>

Pide(op, p, desde, donde, largo) ==
  peticion' = [op |-> op, pid |-> p, desde |-> desde, donde |-> donde, largo |-> largo]

\* Nobody but p notices.
Aparte(p) == \A q \in Duenios \ {p} : espacio'[q] = espacio[q]

HayEn(p, d, n) == d + n <= Len(espacio[p])
Bytes(p, d, n) == SubSeq(espacio[p], d + 1, d + n)

\* Those bytes are at d now, and the rest of p's are what they were.
Sobrescribir(p, d, bytes) ==
  /\ HayEn(p, d, Len(bytes)) /\ Len(espacio'[p]) = Len(espacio[p])
  /\ \A k \in DOMAIN espacio[p] :
       espacio'[p][k] = IF d < k /\ k <= d + Len(bytes) THEN bytes[k - d] ELSE espacio[p][k]
  /\ Aparte(p) /\ leido' = <<>>

\* RESIZE to fewer bytes: what is left is the beginning.
Achicar(p) ==
  /\ Pide("MENOS_PAGINA", p, 0, 0, 0)
  /\ Len(espacio'[p]) < Len(espacio[p])
  /\ espacio'[p] = SubSeq(espacio[p], 1, Len(espacio'[p]))
  /\ Aparte(p) /\ leido' = <<>>

\* RESIZE to more: the new bytes are whatever there was.
Agrandar(p) ==
  /\ Pide("MAS_PAGINA", p, 0, 0, 0)
  /\ Len(espacio'[p]) > Len(espacio[p])
  /\ SubSeq(espacio'[p], 1, Len(espacio[p])) = espacio[p]
  /\ \A k \in DOMAIN espacio'[p] : espacio'[p][k] \in Octetos
  /\ Aparte(p) /\ leido' = <<>>

Terminar(p) ==
  /\ Pide("FINALIZACION", p, 0, 0, 0)
  /\ espacio'[p] = <<>>
  /\ Aparte(p) /\ leido' = <<>>

Cargar(p, desde, n) ==
  /\ Pide("MOV_IN", p, desde, 0, n)
  /\ HayEn(p, desde, n) /\ leido' = Bytes(p, desde, n)
  /\ UNCHANGED espacio

Guardar(p, donde, n) ==
  /\ Pide("MOV_OUT", p, 0, donde, n)
  /\ Sobrescribir(p, donde, SubSeq(Registros[p], 1, n))

Copiar(p, desde, donde, n) ==
  /\ Pide("COPY_STRING", p, desde, donde, n)
  /\ HayEn(p, desde, n) /\ Sobrescribir(p, donde, Bytes(p, desde, n))

\* A screen or a file gets the text: the bytes up to the first zero.
Mostrar(p, desde, n) ==
  /\ Pide("LECTURA_STRING", p, desde, 0, n)
  /\ HayEn(p, desde, n)
  /\ LET b == Bytes(p, desde, n) IN
       \E l \in 0..n :
         /\ leido' = SubSeq(b, 1, l)
         /\ \A k \in 1..l : b[k] # 0
         /\ l < n => b[l + 1] = 0
  /\ UNCHANGED espacio

\* A keyboard or a file gives it.
Recibir(p, donde, n) ==
  /\ Pide("ESCRITURA_STRING", p, 0, donde, n)
  /\ Sobrescribir(p, donde, [k \in 1..n |-> Texto])

\* Nothing is asked.
Quieto == peticion' = [op |-> "NINGUNA"] /\ UNCHANGED espacio /\ leido' = <<>>

Siguiente == \E p \in Duenios :
  \/ Achicar(p) \/ Agrandar(p) \/ Terminar(p)
  \/ \E d \in Direcciones :
       \/ \E n \in Anchos : Cargar(p, d, n) \/ Guardar(p, d, n)
       \/ \E n \in Cadenas :
            \/ Mostrar(p, d, n) \/ Recibir(p, d, n)
            \/ \E desde \in Direcciones : Copiar(p, desde, d, n)

Especificacion == Iniciar /\ [][Quieto \/ Siguiente]_vars
=============================================================================
