---------------------------- MODULE DialFSProofs ----------------------------
(***************************************************************************)
(* Theorems about DialFS, for any names, any number of blocks, any block   *)
(* size and any sizes and offsets the programs ask for, and about its      *)
(* deaths in the middle of an operation (module Cortes).                   *)
(***************************************************************************)
EXTENDS Cortes, Comunes, FiniteSetTheorems

-----------------------------------------------------------------------------
(***************************************************************************)
(* Numbers                                                                 *)
(***************************************************************************)

\* How many blocks a number of bytes needs.
LEMMA Techo ==
  ASSUME NEW l \in Nat, NEW t \in Nat \ {0}
  PROVE  /\ (l + t - 1) \div t \in Nat
         /\ l <= ((l + t - 1) \div t) * t
         /\ l > 0 => (l + t - 1) \div t > 0
         /\ l = 0 => (l + t - 1) \div t = 0
<1> DEFINE a == l + t - 1
           m == a \div t
<1>1. a \in Nat
  OBVIOUS
<1>2. m \in Nat /\ m * t <= a /\ a < (m + 1) * t
  BY <1>1
<1>3. (m + 1) * t = m * t + t
  BY <1>2
<1>4. l <= m * t
  BY <1>2, <1>3
<1>5. ASSUME l > 0 PROVE m > 0
  BY <1>2, <1>4, <1>5
<1>6. ASSUME l = 0 PROVE m = 0
  <2>1. a = t - 1
    BY <1>6
  <2> SUFFICES ASSUME m >= 1 PROVE FALSE
    BY <1>2
  <2>2. m * t >= 1 * t
    BY <1>2
  <2> QED  BY <1>2, <2>1, <2>2
<1> QED  BY <1>2, <1>4, <1>5, <1>6

LEMMA Asignados ==
  ASSUME NEW l \in Nat
  PROVE  /\ CantBloques(l) \in Nat /\ BloquesAsignados(l) \in Nat \ {0}
         /\ l # 0 => CantBloques(l) = BloquesAsignados(l)
         /\ l = 0 => CantBloques(l) = 0 /\ BloquesAsignados(l) = 1
         /\ l <= BloquesAsignados(l) * TAM_BLOQUE
<1>1. TAM_BLOQUE \in Nat \ {0}
  BY DialFSAssumption
<1>2. /\ CantBloques(l) \in Nat
      /\ l <= CantBloques(l) * TAM_BLOQUE
      /\ l > 0 => CantBloques(l) > 0
      /\ l = 0 => CantBloques(l) = 0
  BY <1>1, Techo DEF CantBloques
<1>3. CASE l = 0
  BY <1>1, <1>2, <1>3 DEF BloquesAsignados
<1>4. CASE l # 0
  BY <1>2, <1>4 DEF BloquesAsignados
<1> QED  BY <1>3, <1>4

\* The bytes of blocks that are on the disk are on the disk.
LEMMA EnElDisco ==
  ASSUME NEW a \in Nat, NEW n \in Nat, a + n <= CANT_BLOQUES,
         NEW l \in Nat, l <= n * TAM_BLOQUE
  PROVE  /\ a * TAM_BLOQUE \in Nat /\ n * TAM_BLOQUE \in Nat
         /\ a * TAM_BLOQUE + l <= CANT_BLOQUES * TAM_BLOQUE
<1>1. TAM_BLOQUE \in Nat /\ CANT_BLOQUES \in Nat
  BY DialFSAssumption
<1>2. (a + n) * TAM_BLOQUE <= CANT_BLOQUES * TAM_BLOQUE
  BY <1>1
<1>3. (a + n) * TAM_BLOQUE = a * TAM_BLOQUE + n * TAM_BLOQUE
  BY <1>1
<1>4. a * TAM_BLOQUE \in Nat /\ n * TAM_BLOQUE \in Nat /\ CANT_BLOQUES * TAM_BLOQUE \in Nat
  BY <1>1
<1> QED  BY <1>2, <1>3, <1>4

-----------------------------------------------------------------------------
(***************************************************************************)
(* Tables                                                                  *)
(***************************************************************************)

\* The entries P of the list f share no name and no block, and the bitmap b is their
\* blocks.
Tabla(f, P, b) ==
  /\ f \in Seq(Entrada) /\ P \subseteq DOMAIN f
  /\ \A j, k \in DOMAIN f : j # k => f[j].nombre # f[k].nombre
  /\ \A j, k \in P : j # k => BloquesDe(f[j]) \cap BloquesDe(f[k]) = {}
  /\ \A x : x \in b <=> \E k \in P : x \in BloquesDe(f[k])
  /\ b \in SUBSET Bloques

\* The block after the last of a file.
Fin(e) == e.bloqueInicial + BloquesAsignados(e.largo)

LEMMA LugarDe ==
  ASSUME NEW e \in Entrada
  PROVE  /\ e.nombre \in Archivos /\ e.bloqueInicial \in Bloques /\ e.largo \in Nat
         /\ e.bloqueInicial \in Nat /\ Fin(e) \in Nat /\ e.bloqueInicial < Fin(e)
         /\ BloquesAsignados(e.largo) \in Nat \ {0}
         /\ Fin(e) = e.bloqueInicial + BloquesAsignados(e.largo)
         /\ BloquesDe(e) = e.bloqueInicial..(Fin(e) - 1)
         /\ \A x : x \in BloquesDe(e) <=> x \in Nat /\ e.bloqueInicial <= x /\ x < Fin(e)
         /\ BloquesDe(e) \in SUBSET Bloques <=> Fin(e) <= CANT_BLOQUES
<1>1. e.nombre \in Archivos /\ e.bloqueInicial \in Bloques /\ e.largo \in Nat
  BY DEF Entrada
<1>2. CANT_BLOQUES \in Nat /\ e.bloqueInicial \in Nat
  BY <1>1, DialFSAssumption DEF Bloques
<1>3. BloquesAsignados(e.largo) \in Nat \ {0}
  BY <1>1, Asignados
<1>4. /\ Fin(e) = e.bloqueInicial + BloquesAsignados(e.largo)
      /\ BloquesDe(e) = e.bloqueInicial..(Fin(e) - 1)
  BY <1>2, <1>3 DEF Fin, BloquesDe, Rango
<1> HIDE DEF Fin, BloquesDe
<1>5. Fin(e) \in Nat /\ e.bloqueInicial < Fin(e)
  BY <1>2, <1>3, <1>4
<1>6. \A x : x \in BloquesDe(e) <=> x \in Nat /\ e.bloqueInicial <= x /\ x < Fin(e)
  BY <1>2, <1>4, <1>5
<1>7. ASSUME BloquesDe(e) \in SUBSET Bloques PROVE Fin(e) <= CANT_BLOQUES
  <2>1. Fin(e) - 1 \in BloquesDe(e)
    BY <1>2, <1>5, <1>6
  <2> QED  BY <1>2, <1>5, <1>7, <2>1 DEF Bloques
<1>8. ASSUME Fin(e) <= CANT_BLOQUES PROVE BloquesDe(e) \in SUBSET Bloques
  BY <1>2, <1>5, <1>6, <1>8 DEF Bloques
<1> QED  BY <1>1, <1>2, <1>3, <1>4, <1>5, <1>6, <1>7, <1>8

LEMMA EntradasDe ==
  ASSUME NEW f, NEW P, NEW b, Tabla(f, P, b)
  PROVE  /\ DOMAIN f = 1..Len(f) /\ Len(f) \in Nat
         /\ \A k \in DOMAIN f : f[k] \in Entrada
         /\ f \in [DOMAIN f -> Entrada]
  BY DEF Tabla

\* The entry with a name, when no two have the same.
LEMMA PosicionDe ==
  ASSUME NEW P, NEW b, Tabla(FAT, P, b), NEW n, Existe(n)
  PROVE  /\ Posicion(n) \in DOMAIN FAT /\ FAT[Posicion(n)].nombre = n
         /\ FAT[Posicion(n)] \in Entrada
         /\ \A k \in DOMAIN FAT : FAT[k].nombre = n => k = Posicion(n)
<1>1. Entradas(n) \in SUBSET Nat /\ Entradas(n) # {}
  BY EntradasDe DEF Entradas, Existe
<1>2. Posicion(n) \in Entradas(n)
  BY <1>1, MinEs DEF Posicion
<1> QED  BY <1>2 DEF Entradas, Tabla

\* A file is lifted from the bitmap.
LEMMA Levanta ==
  ASSUME NEW f, NEW P, NEW b, Tabla(f, P, b), NEW p \in P
  PROVE  /\ Tabla(f, P \ {p}, b \ BloquesDe(f[p]))
         /\ BloquesDe(f[p]) \subseteq b /\ Fin(f[p]) <= CANT_BLOQUES
<1>1. Tabla(f, P \ {p}, b \ BloquesDe(f[p]))
  BY DEF Tabla
<1>2. BloquesDe(f[p]) \subseteq b
  BY DEF Tabla
<1>3. f[p] \in Entrada /\ b \in SUBSET Bloques
  BY DEF Tabla
<1> QED  BY <1>1, <1>2, <1>3, LugarDe

\* A file that is not in the bitmap is put in free blocks.
LEMMA Pone ==
  ASSUME NEW f, NEW P, NEW b, Tabla(f, P, b), NEW p \in DOMAIN f \ P,
         NEW e \in Entrada, e.nombre = f[p].nombre, Fin(e) <= CANT_BLOQUES,
         BloquesDe(e) \cap b = {}
  PROVE  Tabla([f EXCEPT ![p] = e], P \cup {p}, b \cup BloquesDe(e))
<1> DEFINE g == [f EXCEPT ![p] = e]
<1>1. /\ DOMAIN g = DOMAIN f /\ g[p] = e
      /\ \A k \in DOMAIN f : k # p => g[k] = f[k]
      /\ f \in Seq(Entrada) /\ P \subseteq DOMAIN f
  BY DEF Tabla
<1>2. g \in Seq(Entrada)
  BY <1>1
<1> HIDE DEF g
<1>3. \A j, k \in DOMAIN g : j # k => g[j].nombre # g[k].nombre
  BY <1>1 DEF Tabla
<1>4. \A k \in P : BloquesDe(f[k]) \subseteq b
  BY DEF Tabla
<1>5. \A j, k \in P \cup {p} : j # k => BloquesDe(g[j]) \cap BloquesDe(g[k]) = {}
  <2> SUFFICES ASSUME NEW j \in P \cup {p}, NEW k \in P \cup {p}, j # k
               PROVE  BloquesDe(g[j]) \cap BloquesDe(g[k]) = {}
    OBVIOUS
  <2>1. CASE j \in P /\ k \in P
    <3>1. g[j] = f[j] /\ g[k] = f[k]
      BY <1>1, <2>1
    <3> QED  BY <2>1, <3>1 DEF Tabla
  <2>2. CASE j = p /\ k \in P
    <3>1. g[j] = e /\ g[k] = f[k]
      BY <1>1, <2>2
    <3> QED  BY <1>4, <2>2, <3>1
  <2>3. CASE j \in P /\ k = p
    <3>1. g[j] = f[j] /\ g[k] = e
      BY <1>1, <2>3
    <3> QED  BY <1>4, <2>3, <3>1
  <2> QED  BY <2>1, <2>2, <2>3
<1>6. ASSUME NEW x
      PROVE  x \in b \cup BloquesDe(e) <=> \E k \in P \cup {p} : x \in BloquesDe(g[k])
  <2>1. x \in b <=> \E k \in P : x \in BloquesDe(f[k])
    BY DEF Tabla
  <2>2. x \in b <=> \E k \in P : x \in BloquesDe(g[k])
    BY <1>1, <2>1
  <2> QED  BY <1>1, <2>2
<1>7. b \cup BloquesDe(e) \in SUBSET Bloques
  BY LugarDe DEF Tabla
<1>8. P \cup {p} \subseteq DOMAIN g
  BY <1>1
<1> QED  BY <1>2, <1>3, <1>5, <1>6, <1>7, <1>8 DEF g, Tabla

-----------------------------------------------------------------------------
(***************************************************************************)
(* What the operations do to the list of entries and to the metadata       *)
(***************************************************************************)

LEMMA Saltos ==
  ASSUME NEW n \in Nat, NEW k \in 1..n
  PROVE  /\ \A i \in 1..(n - 1) : Salto(k, i) \in (1..n) \ {k}
         /\ \A i, j \in 1..(n - 1) : i # j => Salto(k, i) # Salto(k, j)
         /\ \A m \in (1..n) \ {k} : \E i \in 1..(n - 1) : Salto(k, i) = m
<1>1. \A i \in 1..(n - 1) : Salto(k, i) \in (1..n) \ {k}
  BY DEF Salto
<1>2. \A i, j \in 1..(n - 1) : i # j => Salto(k, i) # Salto(k, j)
  BY DEF Salto
<1>3. ASSUME NEW m \in (1..n) \ {k} PROVE \E i \in 1..(n - 1) : Salto(k, i) = m
  <2>1. CASE m < k
    <3>1. m \in 1..(n - 1) /\ Salto(k, m) = m
      BY <2>1 DEF Salto
    <3> QED  BY <3>1
  <2>2. CASE m > k
    <3>1. m - 1 \in 1..(n - 1) /\ Salto(k, m - 1) = m
      BY <2>2 DEF Salto
    <3> QED  BY <3>1
  <2> QED  BY <2>1, <2>2
<1> QED  BY <1>1, <1>2, <1>3

\* A file whose blocks were freed leaves the list, and its metadata file is deleted.
LEMMA Saca ==
  ASSUME NEW f, NEW b, NEW k \in DOMAIN f, Tabla(f, (DOMAIN f) \ {k}, b)
  PROVE  /\ Tabla(RemoveAt(f, k), DOMAIN RemoveAt(f, k), b)
         /\ ToSet(RemoveAt(f, k)) = {m \in ToSet(f) : m.nombre # f[k].nombre}
<1> DEFINE n == Len(f)
           g == RemoveAt(f, k)
<1>1. f \in Seq(Entrada) /\ DOMAIN f = 1..n /\ n \in Nat
  BY EntradasDe DEF Tabla
<1>2. /\ g \in Seq(Entrada) /\ DOMAIN g = 1..(n - 1)
      /\ \A i \in 1..(n - 1) : g[i] = f[Salto(k, i)]
  BY <1>1, SinElDe
<1> HIDE DEF n, g
<1>3. /\ \A i \in 1..(n - 1) : Salto(k, i) \in (DOMAIN f) \ {k}
      /\ \A i, j \in 1..(n - 1) : i # j => Salto(k, i) # Salto(k, j)
      /\ \A m \in (DOMAIN f) \ {k} : \E i \in 1..(n - 1) : Salto(k, i) = m
  <2>1. n \in Nat /\ k \in 1..n
    BY <1>1
  <2>2. /\ \A i \in 1..(n - 1) : Salto(k, i) \in (1..n) \ {k}
        /\ \A i, j \in 1..(n - 1) : i # j => Salto(k, i) # Salto(k, j)
        /\ \A m \in (1..n) \ {k} : \E i \in 1..(n - 1) : Salto(k, i) = m
    BY ONLY <2>1, Saltos
  <2> QED  BY <1>1, <2>2, Zenon
<1>4. \A i, j \in DOMAIN g : i # j => g[i].nombre # g[j].nombre
  BY <1>2, <1>3 DEF Tabla
<1>5. \A i, j \in DOMAIN g : i # j => BloquesDe(g[i]) \cap BloquesDe(g[j]) = {}
  BY <1>2, <1>3 DEF Tabla
<1>6. ASSUME NEW x PROVE x \in b <=> \E i \in DOMAIN g : x \in BloquesDe(g[i])
  <2>1. x \in b <=> \E m \in (DOMAIN f) \ {k} : x \in BloquesDe(f[m])
    BY DEF Tabla
  <2> QED  BY <1>2, <1>3, <2>1
<1>7. Tabla(g, DOMAIN g, b)
  BY <1>2, <1>4, <1>5, <1>6 DEF Tabla
<1>8. ASSUME NEW m PROVE m \in ToSet(g) <=> m \in ToSet(f) /\ m.nombre # f[k].nombre
  <2>1. m \in ToSet(g) <=> \E i \in 1..(n - 1) : f[Salto(k, i)] = m
    BY <1>2 DEF ToSet
  <2>2. m \in ToSet(g) <=> \E i \in (DOMAIN f) \ {k} : f[i] = m
    BY <1>3, <2>1
  <2>3. \A i \in DOMAIN f : i # k <=> f[i].nombre # f[k].nombre
    BY DEF Tabla
  <2> QED  BY <2>2, <2>3 DEF ToSet
<1> QED  BY <1>7, <1>8 DEF g

\* A new file in free blocks.
LEMMA Agrega ==
  ASSUME NEW f, NEW b, Tabla(f, DOMAIN f, b), NEW e \in Entrada,
         \A k \in DOMAIN f : f[k].nombre # e.nombre,
         BloquesDe(e) \cap b = {}, Fin(e) <= CANT_BLOQUES
  PROVE  /\ Tabla(Append(f, e), DOMAIN Append(f, e), b \cup BloquesDe(e))
         /\ ToSet(Append(f, e)) = GuardarEn(ToSet(f), e)
<1> DEFINE n == Len(f)
           g == Append(f, e)
<1>1. f \in Seq(Entrada) /\ DOMAIN f = 1..n /\ n \in Nat
  BY EntradasDe DEF Tabla
<1>2. /\ g \in Seq(Entrada) /\ DOMAIN g = 1..(n + 1) /\ g[n + 1] = e
      /\ \A i \in 1..n : g[i] = f[i]
  BY <1>1
<1> HIDE DEF n, g
<1>3. \A j, k \in DOMAIN g : j # k => g[j].nombre # g[k].nombre
  <2>1. \A k \in DOMAIN g : k = n + 1 \/ (k \in DOMAIN f /\ g[k] = f[k])
    BY <1>1, <1>2
  <2> QED  BY <1>2, <2>1 DEF Tabla
<1>4. Tabla(g, DOMAIN f, b)
  <2>1. DOMAIN f \subseteq DOMAIN g /\ \A k \in DOMAIN f : g[k] = f[k]
    BY <1>1, <1>2
  <2> QED  BY <1>2, <1>3, <2>1 DEF Tabla
<1>5. n + 1 \in (DOMAIN g) \ DOMAIN f /\ (DOMAIN f) \cup {n + 1} = DOMAIN g
  BY <1>1, <1>2
<1>6. [g EXCEPT ![n + 1] = e] = g /\ e.nombre = g[n + 1].nombre
  BY <1>2
<1>7. Tabla(g, DOMAIN g, b \cup BloquesDe(e))
  <2>1. Tabla([g EXCEPT ![n + 1] = e], (DOMAIN f) \cup {n + 1}, b \cup BloquesDe(e))
    BY <1>4, <1>5, <1>6, Pone
  <2> QED  BY <1>5, <1>6, <2>1
<1>8. ToSet(g) = ToSet(f) \cup {e}
  <2>1. \A m : m \in ToSet(g) <=> m = e \/ \E i \in DOMAIN f : f[i] = m
    BY <1>1, <1>2 DEF ToSet
  <2> QED  BY <2>1 DEF ToSet
<1>9. GuardarEn(ToSet(f), e) = ToSet(f) \cup {e}
  BY DEF GuardarEn, ToSet
<1> QED  BY <1>7, <1>8, <1>9 DEF g

\* config_save over the metadata of a list without repeated names.
LEMMA Guarda ==
  ASSUME NEW f, NEW P, NEW b, Tabla(f, P, b), NEW p \in DOMAIN f,
         NEW e, e.nombre = f[p].nombre
  PROVE  GuardarEn(ToSet(f), e) = ToSet([f EXCEPT ![p] = e])
<1>1. \A i \in DOMAIN f : i # p <=> f[i].nombre # e.nombre
  BY DEF Tabla
<1>2. ASSUME NEW m PROVE m \in GuardarEn(ToSet(f), e) <=> m \in ToSet([f EXCEPT ![p] = e])
  <2>1. m \in GuardarEn(ToSet(f), e) <=> m = e \/ \E i \in DOMAIN f : i # p /\ f[i] = m
    BY <1>1 DEF GuardarEn, ToSet
  <2>2. m \in ToSet([f EXCEPT ![p] = e])
          <=> \E i \in DOMAIN f : m = IF i = p THEN e ELSE f[i]
    BY DEF ToSet
  <2> QED  BY <2>1, <2>2
<1> QED  BY <1>2

-----------------------------------------------------------------------------
(***************************************************************************)
(* The invariant: the names in the FAT are distinct, its files share no    *)
(* block, the bitmap is their blocks and the metadata their entries.       *)
(***************************************************************************)

DiscoBueno ==
  /\ Tabla(FAT, DOMAIN FAT, bitmap)
  /\ metadata = ToSet(FAT)
  /\ BLOQUES \in [Direcciones -> Datos]
  /\ caido = FALSE

IInv == DiscoBueno /\ leido \in Seq(Datos) /\ peticion \in Peticiones

\* What the theorems assume of the programs: they create what does not exist and use
\* what does, give a file its size before anything else and never truncate to zero ...
Prudentes == {"nombres", "dimensiona"} \subseteq Cuidados

\* ... and ask for no more than fits.
Cuidadosos == Prudentes /\ "entra" \in Cuidados

\* The properties of the runs follow from it.
LEMMA Implica ==
  IInv => DialFSTypeOK /\ BitmapExacto /\ FatEnDisco /\ SinNulos
<1> SUFFICES ASSUME IInv PROVE DialFSTypeOK /\ BitmapExacto /\ FatEnDisco /\ SinNulos
  OBVIOUS
<1>1. Tabla(FAT, DOMAIN FAT, bitmap)
  BY DEF IInv, DiscoBueno
<1>2. DialFSTypeOK
  <2>1. ToSet(FAT) \in SUBSET Entrada
    BY <1>1, EntradasDe DEF ToSet
  <2>2. FAT \in Seq(Entrada) /\ bitmap \in SUBSET Bloques
    BY <1>1 DEF Tabla
  <2> QED  BY <2>1, <2>2 DEF DialFSTypeOK, IInv, DiscoBueno
<1>3. BitmapExacto
  <2>1. \A x : x \in bitmap <=> \E k \in DOMAIN FAT : x \in BloquesDe(FAT[k])
    BY <1>1 DEF Tabla
  <2>2. bitmap = UNION {BloquesDe(FAT[k]) : k \in DOMAIN FAT}
    BY <2>1
  <2> QED  BY <1>1, <2>2 DEF BitmapExacto, Tabla
<1> QED  BY <1>2, <1>3 DEF FatEnDisco, SinNulos, IInv, DiscoBueno

LEMMA InvInit == DialFSInit => IInv
<1> SUFFICES ASSUME DialFSInit PROVE IInv
  OBVIOUS
<1>1. FAT = <<>> /\ bitmap = {}
  BY DEF DialFSInit
<1>2. FAT \in Seq(Entrada) /\ DOMAIN FAT = {}
  BY <1>1
<1>3. Tabla(FAT, DOMAIN FAT, bitmap)
  BY <1>1, <1>2 DEF Tabla
<1>4. ToSet(FAT) = {}
  BY <1>2 DEF ToSet
<1> QED  BY <1>3, <1>4 DEF IInv, DiscoBueno, DialFSInit, Datos, Peticiones

\* The metadata file of a file of the FAT is there.
LEMMA ConMetadata ==
  ASSUME DiscoBueno, NEW n, Existe(n)
  PROVE  TieneMetadata(n)
<1>1. /\ Posicion(n) \in DOMAIN FAT /\ FAT[Posicion(n)].nombre = n
  BY PosicionDe DEF DiscoBueno
<1>2. FAT[Posicion(n)] \in metadata
  BY <1>1 DEF DiscoBueno, ToSet
<1> QED  BY <1>1, <1>2 DEF TieneMetadata

\* memcpy writes bytes in place of bytes.
LEMMA CopiasTipo ==
  ASSUME NEW b \in [Direcciones -> Datos], NEW destino \in Nat, NEW origen \in Nat,
         NEW l \in Nat, origen + l <= CANT_BLOQUES * TAM_BLOQUE
  PROVE  /\ Copiar(b, destino, origen, l) \in [Direcciones -> Datos]
         /\ Copias(b, destino, origen, l) \subseteq [Direcciones -> Datos]
<1>1. CANT_BLOQUES * TAM_BLOQUE \in Nat
  BY DialFSAssumption
<1> DEFINE fin == CANT_BLOQUES * TAM_BLOQUE
<1>2. Direcciones = 0..(fin - 1)
  BY DEF Direcciones
<1> HIDE DEF fin
<1>3. fin \in Nat /\ origen + l <= fin
  BY <1>1 DEF fin
<1>4. ASSUME NEW d \in Direcciones, d \in Rango(destino, l)
      PROVE  origen + (d - destino) \in Direcciones
  BY <1>2, <1>3, <1>4 DEF Rango
<1>5. Copiar(b, destino, origen, l) \in [Direcciones -> Datos]
  BY <1>4 DEF Copiar
<1>6. ASSUME NEW d \in Direcciones, d \in Rango(destino, l), origen < destino
      PROVE  origen + ((d - destino) % (destino - origen)) \in Direcciones
  <2>1. d - destino \in Nat /\ destino - origen \in Nat \ {0}
    BY <1>2, <1>3, <1>6 DEF Rango
  <2>2. (d - destino) % (destino - origen) \in 0..(destino - origen - 1)
    BY <2>1
  <2>3. d \in 0..(fin - 1) /\ destino <= d
    BY <1>2, <1>6, <1>3 DEF Rango
  <2> QED  BY <1>2, <1>3, <2>2, <2>3
<1>7. origen < destino => CopiarDeAUno(b, destino, origen, l) \in [Direcciones -> Datos]
  BY <1>6 DEF CopiarDeAUno
<1> QED  BY <1>5, <1>7 DEF Copias

-----------------------------------------------------------------------------
(***************************************************************************)
(* Every operation but the compaction                                      *)
(***************************************************************************)

LEMMA CrearBien ==
  ASSUME Prudentes, DiscoBueno, NEW n \in Archivos, CrearFs(n)
  PROVE  DiscoBueno'
<1> DEFINE h == Min(Bloques \ bitmap)
           e == [nombre |-> n, bloqueInicial |-> h, largo |-> 0]
<1>1. /\ Bloques \ bitmap # {}
      /\ bitmap' = bitmap \cup {h} /\ metadata' = GuardarEn(metadata, e)
      /\ FAT' = Append(FAT, e) /\ BLOQUES' = BLOQUES /\ caido' = caido
  BY DEF CrearFs, Guardar
<1>2. \A k \in DOMAIN FAT : FAT[k].nombre # n
  BY DEF CrearFs, Pide, Prudentes, Existe, Entradas
<1>3. h \in Bloques \ bitmap /\ h \in Nat
  <2>1. Bloques \ bitmap \in SUBSET Nat
    BY DEF Bloques
  <2> QED  BY <1>1, <2>1, MinEs
<1> HIDE DEF h
<1>4. e \in Entrada /\ e.nombre = n /\ e.bloqueInicial = h /\ e.largo = 0
  BY <1>3 DEF Entrada
<1> HIDE DEF e
<1>5. BloquesDe(e) = {h} /\ Fin(e) <= CANT_BLOQUES
  <2>1. BloquesAsignados(0) = 1
    BY Asignados
  <2> QED  BY <1>3, <1>4, <2>1, DialFSAssumption DEF BloquesDe, Rango, Fin, Bloques
<1>6. /\ Tabla(Append(FAT, e), DOMAIN Append(FAT, e), bitmap \cup BloquesDe(e))
      /\ ToSet(Append(FAT, e)) = GuardarEn(ToSet(FAT), e)
  <2>1. Tabla(FAT, DOMAIN FAT, bitmap)
    BY DEF DiscoBueno
  <2>2. BloquesDe(e) \cap bitmap = {}
    BY <1>3, <1>5
  <2> QED  BY <1>2, <1>4, <1>5, <2>1, <2>2, Agrega
<1> QED  BY <1>1, <1>5, <1>6 DEF DiscoBueno

\* The name of the file that is asked for exists.
LEMMA LoQueUsaExiste ==
  ASSUME Prudentes, NEW op, NEW n, NEW t, Pide(op, n, t), op # "IO_FS_CREATE"
  PROVE  Existe(n)
  BY DEF Pide, Prudentes

LEMMA EliminarBien ==
  ASSUME Prudentes, DiscoBueno, NEW n \in Archivos, EliminarFs(n)
  PROVE  DiscoBueno'
<1> DEFINE p == Posicion(n)
<1>1. Existe(n) /\ TieneMetadata(n)
  BY LoQueUsaExiste, ConMetadata DEF EliminarFs
<1>2. /\ p \in DOMAIN FAT /\ FAT[p].nombre = n /\ FAT[p] \in Entrada
  BY <1>1, PosicionDe DEF DiscoBueno
<1>3. /\ bitmap' = bitmap \ Rango(FAT[p].bloqueInicial, CantBloques(FAT[p].largo))
      /\ FAT' = RemoveAt(FAT, p)
      /\ metadata' = {m \in metadata : m.nombre # n}
      /\ BLOQUES' = BLOQUES /\ caido' = caido
  BY <1>1 DEF EliminarFs
<1>4. FAT[p].largo # 0
  BY <1>2 DEF EliminarFs, Pide, Prudentes
<1> HIDE DEF p
<1>5. bitmap' = bitmap \ BloquesDe(FAT[p])
  BY <1>2, <1>3, <1>4, LugarDe, Asignados DEF BloquesDe
<1>6. Tabla(FAT, (DOMAIN FAT) \ {p}, bitmap \ BloquesDe(FAT[p]))
  BY <1>2, Levanta DEF DiscoBueno
<1>7. /\ Tabla(RemoveAt(FAT, p), DOMAIN RemoveAt(FAT, p), bitmap \ BloquesDe(FAT[p]))
      /\ ToSet(RemoveAt(FAT, p)) = {m \in ToSet(FAT) : m.nombre # FAT[p].nombre}
  BY ONLY <1>2, <1>6, Saca
<1> QED  BY <1>2, <1>3, <1>5, <1>7 DEF DiscoBueno

\* One entry is replaced, and its blocks with it.
LEMMA Cambia ==
  ASSUME DiscoBueno, NEW p \in DOMAIN FAT, NEW e \in Entrada, e.nombre = FAT[p].nombre,
         Fin(e) <= CANT_BLOQUES, BloquesDe(e) \cap (bitmap \ BloquesDe(FAT[p])) = {}
  PROVE  /\ Tabla([FAT EXCEPT ![p] = e], DOMAIN [FAT EXCEPT ![p] = e],
                  (bitmap \ BloquesDe(FAT[p])) \cup BloquesDe(e))
         /\ ToSet([FAT EXCEPT ![p] = e]) = GuardarEn(metadata, e)
<1>1. Tabla(FAT, DOMAIN FAT, bitmap) /\ metadata = ToSet(FAT)
  BY DEF DiscoBueno
<1>2. Tabla(FAT, (DOMAIN FAT) \ {p}, bitmap \ BloquesDe(FAT[p]))
  BY <1>1, Levanta
<1>3. Tabla([FAT EXCEPT ![p] = e], ((DOMAIN FAT) \ {p}) \cup {p},
            (bitmap \ BloquesDe(FAT[p])) \cup BloquesDe(e))
  BY <1>2, Pone
<1>4. ((DOMAIN FAT) \ {p}) \cup {p} = DOMAIN [FAT EXCEPT ![p] = e]
  OBVIOUS
<1>5. ToSet([FAT EXCEPT ![p] = e]) = GuardarEn(metadata, e)
  BY <1>1, Guarda
<1> QED  BY <1>3, <1>4, <1>5

\* The blocks that are free once the file is lifted.
LEMMA LibresDe ==
  ASSUME DiscoBueno, NEW p \in DOMAIN FAT
  PROVE  /\ LibresSin(FAT[p]) = Bloques \ (bitmap \ BloquesDe(FAT[p]))
         /\ Bloques \ LibresSin(FAT[p]) = bitmap \ BloquesDe(FAT[p])
         /\ LibresSin(FAT[p]) \in SUBSET Nat
<1>1. LibresSin(FAT[p]) = Bloques \ (bitmap \ BloquesDe(FAT[p]))
  BY DEF LibresSin, BloquesDe
<1>2. bitmap \in SUBSET Bloques
  BY DEF DiscoBueno, Tabla
<1>3. Bloques \in SUBSET Nat
  BY DialFSAssumption DEF Bloques
<1> QED  BY <1>1, <1>2, <1>3

LEMMA AchicarBien ==
  ASSUME Prudentes, DiscoBueno, NEW n \in Archivos, NEW t \in Tamanios, Achicar(n, t)
  PROVE  DiscoBueno'
<1> DEFINE p == Posicion(n)
           e == FAT[p]
           nueva == [e EXCEPT !.largo = t]
<1>1. Existe(n) /\ TieneMetadata(n)
  BY ConMetadata DEF Achicar, PideTruncar
<1>2. /\ p \in DOMAIN FAT /\ FAT[p].nombre = n /\ e \in Entrada
      /\ \A k \in DOMAIN FAT : FAT[k].nombre = n => k = p
  BY <1>1, PosicionDe DEF DiscoBueno
<1>3. t \in Nat
  BY DialFSAssumption
<1>4. /\ BloquesAsignados(t) <= BloquesAsignados(e.largo)
      /\ bitmap' = bitmap \ Sobrantes(e, BloquesAsignados(t))
      /\ FAT' = [FAT EXCEPT ![p].largo = t]
      /\ metadata' = {IF m.nombre = n THEN [m EXCEPT !.largo = t] ELSE m : m \in metadata}
      /\ BLOQUES' = BLOQUES /\ caido' = caido
  BY <1>1 DEF Achicar
<1>5. FAT' = [FAT EXCEPT ![p] = nueva]
  BY <1>4
<1> HIDE DEF p
<1>6. /\ nueva \in Entrada /\ nueva.nombre = n /\ nueva.largo = t
      /\ nueva.bloqueInicial = e.bloqueInicial
  BY <1>2, <1>3 DEF Entrada
<1>7. \A m \in metadata : IF m.nombre = n THEN m = e ELSE m # e
  BY <1>2 DEF DiscoBueno, ToSet
<1>8. e \in metadata
  BY <1>2 DEF DiscoBueno, ToSet
<1> HIDE DEF nueva
<1>9. metadata' = GuardarEn(metadata, nueva)
  <2>1. ASSUME NEW m
        PROVE  m \in metadata' <=> m = nueva \/ (m \in metadata /\ m.nombre # n)
    BY <1>2, <1>4, <1>7, <1>8 DEF nueva
  <2> QED  BY <1>6, <2>1 DEF GuardarEn
<1>10. /\ BloquesDe(nueva) \subseteq BloquesDe(e)
       /\ BloquesDe(e) \ Sobrantes(e, BloquesAsignados(t)) = BloquesDe(nueva)
       /\ Sobrantes(e, BloquesAsignados(t)) \subseteq BloquesDe(e)
  <2>1. /\ e.bloqueInicial \in Nat
        /\ BloquesAsignados(t) \in Nat /\ BloquesAsignados(e.largo) \in Nat
    BY <1>2, <1>3, LugarDe, Asignados
  <2> QED  BY <1>4, <1>6, <2>1 DEF BloquesDe, Sobrantes, Rango
<1>11. BloquesDe(e) \subseteq bitmap /\ bitmap \in SUBSET Bloques
  BY <1>2, Levanta DEF DiscoBueno, Tabla
<1>12. Fin(nueva) <= CANT_BLOQUES
  BY <1>6, <1>10, <1>11, LugarDe
<1>13. bitmap' = (bitmap \ BloquesDe(e)) \cup BloquesDe(nueva)
  BY <1>4, <1>10, <1>11
<1>14. BloquesDe(nueva) \cap (bitmap \ BloquesDe(e)) = {}
  BY <1>10
<1>15. /\ Tabla(FAT', DOMAIN FAT', (bitmap \ BloquesDe(e)) \cup BloquesDe(nueva))
       /\ ToSet(FAT') = GuardarEn(metadata, nueva)
  BY <1>2, <1>5, <1>6, <1>12, <1>14, Cambia
<1> QED  BY <1>4, <1>9, <1>13, <1>15 DEF DiscoBueno

\* The entry of a file that is given a run of free blocks.
LEMMA Nueva ==
  ASSUME DiscoBueno, NEW p \in DOMAIN FAT, NEW t \in Nat,
         NEW h \in Huecos(LibresSin(FAT[p]), BloquesAsignados(t))
  PROVE  LET e == [nombre |-> FAT[p].nombre, bloqueInicial |-> h, largo |-> t] IN
         /\ e \in Entrada /\ BloquesDe(e) = Rango(h, BloquesAsignados(t))
         /\ Fin(e) <= CANT_BLOQUES
         /\ BloquesDe(e) \cap (bitmap \ BloquesDe(FAT[p])) = {}
<1> DEFINE e == [nombre |-> FAT[p].nombre, bloqueInicial |-> h, largo |-> t]
<1>1. FAT[p] \in Entrada
  BY EntradasDe DEF DiscoBueno
<1>2. h \in Bloques /\ Rango(h, BloquesAsignados(t)) \subseteq LibresSin(FAT[p])
  BY DEF Huecos
<1>3. e \in Entrada /\ BloquesDe(e) = Rango(h, BloquesAsignados(t)) /\ e.nombre = FAT[p].nombre
  BY <1>1, <1>2 DEF Entrada, BloquesDe
<1> HIDE DEF e
<1>4. BloquesDe(e) \subseteq Bloques /\ BloquesDe(e) \cap (bitmap \ BloquesDe(FAT[p])) = {}
  BY <1>2, <1>3, LibresDe
<1>5. Fin(e) <= CANT_BLOQUES
  BY <1>3, <1>4, LugarDe
<1> QED  BY <1>3, <1>4, <1>5 DEF e

\* The bytes of a file of the FAT are in bloques.dat.
LEMMA BytesDe ==
  ASSUME DiscoBueno, NEW p \in DOMAIN FAT
  PROVE  /\ FAT[p].bloqueInicial * TAM_BLOQUE \in Nat
         /\ FAT[p].largo \in Nat
         /\ FAT[p].bloqueInicial * TAM_BLOQUE + FAT[p].largo <= CANT_BLOQUES * TAM_BLOQUE
<1>1. FAT[p] \in Entrada /\ Fin(FAT[p]) <= CANT_BLOQUES
  BY EntradasDe, Levanta DEF DiscoBueno
<1>2. /\ FAT[p].bloqueInicial \in Nat /\ FAT[p].largo \in Nat
      /\ BloquesAsignados(FAT[p].largo) \in Nat
      /\ FAT[p].bloqueInicial + BloquesAsignados(FAT[p].largo) <= CANT_BLOQUES
  BY <1>1, LugarDe
<1>3. FAT[p].largo <= BloquesAsignados(FAT[p].largo) * TAM_BLOQUE
  BY <1>2, Asignados
<1> QED  BY <1>2, <1>3, EnElDisco

LEMMA MudarBien ==
  ASSUME Prudentes, DiscoBueno, NEW n \in Archivos, NEW t \in Tamanios, Mudar(n, t)
  PROVE  DiscoBueno'
<1> DEFINE p == Posicion(n)
           e == FAT[p]
           a == BloquesAsignados(t)
           h == Min(Huecos(LibresSin(e), a))
           nueva == [nombre |-> n, bloqueInicial |-> h, largo |-> t]
<1>1. Existe(n) /\ TieneMetadata(n)
  BY ConMetadata DEF Mudar, PideTruncar
<1>2. /\ p \in DOMAIN FAT /\ FAT[p].nombre = n /\ e \in Entrada
  BY <1>1, PosicionDe DEF DiscoBueno
<1>3. t \in Nat
  BY DialFSAssumption
<1>4. /\ a > BloquesAsignados(e.largo) /\ Huecos(LibresSin(e), a) # {}
      /\ bitmap' = (Bloques \ LibresSin(e)) \cup Rango(h, a)
      /\ BLOQUES' \in Copias(BLOQUES, e.bloqueInicial * TAM_BLOQUE, h * TAM_BLOQUE, e.largo)
      /\ FAT' = [FAT EXCEPT ![p] = nueva]
      /\ metadata' = GuardarEn(metadata, nueva) /\ caido' = caido
  BY <1>1 DEF Mudar, Guardar
<1> HIDE DEF p
<1>5. h \in Huecos(LibresSin(e), a)
  <2>1. Huecos(LibresSin(e), a) \in SUBSET Nat
    BY DialFSAssumption DEF Huecos, Bloques
  <2> QED  BY <1>4, <2>1, MinEs
<1>6. h \in Nat
  BY <1>5, DialFSAssumption DEF Huecos, Bloques
<1> HIDE DEF h
<1>7. /\ nueva \in Entrada /\ BloquesDe(nueva) = Rango(h, a) /\ Fin(nueva) <= CANT_BLOQUES
      /\ BloquesDe(nueva) \cap (bitmap \ BloquesDe(e)) = {} /\ nueva.nombre = e.nombre
  BY <1>2, <1>3, <1>5, Nueva
<1>8. bitmap' = (bitmap \ BloquesDe(e)) \cup BloquesDe(nueva)
  BY <1>2, <1>4, <1>7, LibresDe
<1>9. BLOQUES' \in [Direcciones -> Datos]
  <2>1. /\ e.bloqueInicial * TAM_BLOQUE \in Nat /\ e.largo \in Nat
    BY <1>2, BytesDe
  <2>2. h * TAM_BLOQUE \in Nat /\ h * TAM_BLOQUE + e.largo <= CANT_BLOQUES * TAM_BLOQUE
    <3>1. a \in Nat /\ BloquesAsignados(e.largo) \in Nat
      BY <1>3, <2>1, Asignados
    <3>2. h + BloquesAsignados(e.largo) <= CANT_BLOQUES
      BY <1>4, <1>6, <1>7, <3>1, DialFSAssumption DEF Fin
    <3>3. e.largo <= BloquesAsignados(e.largo) * TAM_BLOQUE
      BY <2>1, Asignados
    <3> QED  BY <1>6, <2>1, <3>1, <3>2, <3>3, EnElDisco
  <2>3. Copias(BLOQUES, e.bloqueInicial * TAM_BLOQUE, h * TAM_BLOQUE, e.largo)
          \subseteq [Direcciones -> Datos]
    BY <2>1, <2>2, CopiasTipo DEF DiscoBueno
  <2> QED  BY <1>4, <2>3
<1>10. /\ Tabla(FAT', DOMAIN FAT', (bitmap \ BloquesDe(e)) \cup BloquesDe(nueva))
       /\ ToSet(FAT') = GuardarEn(metadata, nueva)
  BY <1>2, <1>4, <1>7, Cambia
<1> QED  BY <1>4, <1>8, <1>9, <1>10 DEF DiscoBueno

\* What is asked for fits.
LEMMA NuncaNoEntra ==
  ASSUME Cuidadosos, DiscoBueno, NEW n \in Archivos, NEW t \in Tamanios, NoEntra(n, t)
  PROVE  FALSE
<1> DEFINE libres == LibresSin(FAT[Posicion(n)])
<1>1. BloquesAsignados(t) <= Cardinality(libres) /\ BloquesAsignados(t) > Cardinality(libres)
  BY DEF NoEntra, PideTruncar, Cuidadosos
<1>2. IsFiniteSet(libres) /\ Cardinality(libres) \in Nat
  <2>1. libres \in SUBSET (0..(CANT_BLOQUES - 1)) /\ CANT_BLOQUES - 1 \in Int
    BY DialFSAssumption DEF LibresSin, Bloques
  <2> HIDE DEF libres
  <2>2. IsFiniteSet(0..(CANT_BLOQUES - 1))
    BY <2>1, FS_Interval
  <2>3. IsFiniteSet(libres)
    BY <2>1, <2>2, FS_Subset
  <2> QED  BY <2>3, FS_CardinalityType
<1>3. BloquesAsignados(t) \in Nat
  BY Asignados, DialFSAssumption
<1> QED  BY <1>1, <1>2, <1>3

LEMMA EscribirBien ==
  ASSUME Prudentes, DiscoBueno, NEW n \in Archivos, NEW o, NEW l, EscribirFs(n, o, l)
  PROVE  DiscoBueno'
<1>1. Existe(n)
  BY LoQueUsaExiste DEF EscribirFs
<1>2. /\ FAT' = FAT /\ bitmap' = bitmap /\ metadata' = metadata /\ caido' = caido
      /\ BLOQUES' \in [Direcciones -> Datos]
  BY <1>1 DEF EscribirFs, DiscoBueno, Datos
<1> QED  BY <1>2 DEF DiscoBueno

LEMMA LeerBien ==
  ASSUME Prudentes, DiscoBueno, NEW n \in Archivos, NEW o \in Offsets, NEW l \in Cadenas,
         LeerFs(n, o, l)
  PROVE  DiscoBueno' /\ leido' \in Seq(Datos)
<1> DEFINE e == FAT[Posicion(n)]
           cant == Min({l, e.largo})
<1>1. Existe(n)
  BY LoQueUsaExiste DEF LeerFs
<1>2. FAT' = FAT /\ bitmap' = bitmap /\ metadata' = metadata /\ BLOQUES' = BLOQUES /\ caido' = caido
  BY <1>1 DEF LeerFs
<1>3. PICK resto \in Datos : leido' = [k \in 1..cant |-> LET d == Desde(e, o) + k - 1 IN
                                        IF d \in Direcciones THEN BLOQUES[d] ELSE resto]
  BY <1>1 DEF LeerFs, Datos
<1>4. cant \in Nat
  <2>1. e.largo \in Nat /\ l \in Nat
    BY <1>1, PosicionDe, LugarDe, DialFSAssumption DEF DiscoBueno
  <2> HIDE DEF e
  <2> QED  BY <2>1, MinEs
<1>5. leido' \in [1..cant -> Datos]
  BY <1>3 DEF DiscoBueno
<1> HIDE DEF cant
<1>6. leido' \in Seq(Datos)
  BY <1>4, <1>5
<1> QED  BY <1>2, <1>6 DEF DiscoBueno

-----------------------------------------------------------------------------
(***************************************************************************)
(* The restart                                                             *)
(***************************************************************************)

\* The elements of a list.
LEMMA ListaFinita ==
  ASSUME NEW S, NEW f \in Seq(S)
  PROVE  IsFiniteSet(ToSet(f))
<1>1. f \in Surjection(1..Len(f), ToSet(f))
  BY DEF Surjection, ToSet
<1>2. IsFiniteSet(1..Len(f))
  <2>1. 1 \in Int /\ Len(f) \in Int
    OBVIOUS
  <2> QED  BY <2>1, FS_Interval
<1> QED  BY ONLY <1>1, <1>2, FS_Surjection

\* readdir gives every metadata file once.
LEMMA Ordenados ==
  ASSUME NEW S, IsFiniteSet(S), NEW g \in SetToSeqs(S)
  PROVE  /\ g \in Seq(S) /\ DOMAIN g = 1..Len(g) /\ ToSet(g) = S
         /\ \A j, k \in DOMAIN g : j # k => g[j] # g[k]
<1> DEFINE c == Cardinality(S)
<1>1. g \in [1..c -> S] /\ \A j, k \in 1..c : j # k => g[j] # g[k]
  BY DEF SetToSeqs
<1>2. c \in Nat
  BY FS_CardinalityType
<1>3. IsFiniteSet(1..c) /\ Cardinality(1..c) = c
  BY <1>2, FS_Interval
<1>4. g \in Injection(1..c, S)
  BY <1>1 DEF Injection, IsInjective
<1>5. g \in Surjection(1..c, S)
  BY ONLY IsFiniteSet(S), <1>2, <1>3, <1>4, FS_Injection
<1>6. \A e : e \in S <=> \E k \in 1..c : g[k] = e
  BY <1>1, <1>5 DEF Surjection
<1>7. DOMAIN g = 1..c /\ g \in Seq(S)
  BY <1>1, <1>2
<1> HIDE DEF c
<1>8. ToSet(g) = S
  BY <1>6, <1>7 DEF ToSet
<1> QED  BY <1>1, <1>7, <1>8

\* A list with the elements of another in any order has the same table.
LEMMA Permuta ==
  ASSUME NEW f, NEW b, Tabla(f, DOMAIN f, b), NEW g \in SetToSeqs(ToSet(f))
  PROVE  Tabla(g, DOMAIN g, b) /\ ToSet(g) = ToSet(f)
<1> DEFINE S == ToSet(f)
<1>1. /\ f \in Seq(Entrada) /\ S \subseteq Entrada
      /\ \A k \in DOMAIN f : f[k] \in S
      /\ \A e \in S : \E k \in DOMAIN f : f[k] = e
  BY EntradasDe DEF ToSet, Tabla
<1>2. /\ g \in Seq(S) /\ DOMAIN g = 1..Len(g) /\ ToSet(g) = S
      /\ \A j, k \in DOMAIN g : j # k => g[j] # g[k]
  BY <1>1, ListaFinita, Ordenados
<1> HIDE DEF S
<1>3. g \in Seq(Entrada)
  BY <1>1, <1>2
<1>4. ASSUME NEW j \in DOMAIN g, NEW k \in DOMAIN g, j # k
      PROVE  /\ g[j].nombre # g[k].nombre
             /\ BloquesDe(g[j]) \cap BloquesDe(g[k]) = {}
  <2>1. g[j] # g[k] /\ g[j] \in S /\ g[k] \in S
    BY <1>2, <1>4
  <2>2. PICK u \in DOMAIN f : f[u] = g[j]
    BY <1>1, <2>1
  <2>3. PICK v \in DOMAIN f : f[v] = g[k]
    BY <1>1, <2>1
  <2>4. u # v
    BY <2>1, <2>2, <2>3
  <2> QED  BY <2>2, <2>3, <2>4 DEF Tabla
<1>5. ASSUME NEW x PROVE x \in b <=> \E k \in DOMAIN g : x \in BloquesDe(g[k])
  <2>1. x \in b <=> \E k \in DOMAIN f : x \in BloquesDe(f[k])
    BY DEF Tabla
  <2>2. x \in b <=> \E e \in S : x \in BloquesDe(e)
    BY <1>1, <2>1
  <2>3. \A e : e \in S <=> \E k \in DOMAIN g : g[k] = e
    BY <1>2 DEF ToSet
  <2> QED  BY <2>2, <2>3
<1>6. b \in SUBSET Bloques
  BY DEF Tabla
<1> QED  BY <1>2, <1>3, <1>4, <1>5, <1>6 DEF Tabla, S

LEMMA ReiniciarBien ==
  ASSUME DiscoBueno, Reiniciar
  PROVE  DiscoBueno'
<1>1. /\ FAT' \in SetToSeqs(ToSet(FAT)) /\ Tabla(FAT, DOMAIN FAT, bitmap)
      /\ bitmap' = bitmap /\ metadata' = metadata /\ BLOQUES' = BLOQUES /\ caido' = caido
  BY DEF DiscoBueno, Reiniciar
<1>2. Tabla(FAT', DOMAIN FAT', bitmap) /\ ToSet(FAT') = ToSet(FAT)
  BY <1>1, Permuta
<1> QED  BY <1>1, <1>2 DEF DiscoBueno

-----------------------------------------------------------------------------
(***************************************************************************)
(* The compaction                                                          *)
(***************************************************************************)

\* The disks of the loop of compactar, one after the other.
DiscoInicial(ocupados) ==
  [hueco |-> Min(Bloques \ ocupados), bitmap |-> ocupados, FAT |-> FAT,
   metadata |-> metadata, BLOQUES |-> BLOQUES, cae |-> FALSE]

Son(g, ocupados, n) ==
  /\ g[0] = DiscoInicial(ocupados)
  /\ \A i \in 1..n : g[i] = MoverArchivo(g[i - 1], i - 1)

LEMMA LosDiscos ==
  ASSUME NEW ocupados
  PROVE  Son(Discos(ocupados), ocupados, CANT_BLOQUES)
<1> DEFINE N == CANT_BLOQUES
           T == {n \in Nat : \E g : Son(g, ocupados, n)}
<1>1. N \in Nat
  BY DialFSAssumption
<1>2. 0 \in T
  <2>1. Son([i \in 0..0 |-> DiscoInicial(ocupados)], ocupados, 0)
    BY DEF Son
  <2> QED  BY <2>1
<1>3. ASSUME NEW n \in Nat, n \in T PROVE n + 1 \in T
  <2>1. PICK g : Son(g, ocupados, n)
    BY <1>3
  <2>2. Son([i \in 0..(n + 1) |-> IF i = n + 1 THEN MoverArchivo(g[n], n) ELSE g[i]],
            ocupados, n + 1)
    BY <2>1 DEF Son
  <2> QED  BY <2>2
<1>4. N \in T
  <2> HIDE DEF T
  <2> QED  BY <1>1, <1>2, <1>3, Induccion
<1>5. PICK g : Son(g, ocupados, N)
  BY <1>4
<1> DEFINE f == [i \in 0..N |-> g[i]]
<1>6. f = [i \in 0..N |-> IF i = 0 THEN DiscoInicial(ocupados) ELSE MoverArchivo(f[i - 1], i - 1)]
  <2>1. ASSUME NEW i \in 0..N
        PROVE  g[i] = IF i = 0 THEN DiscoInicial(ocupados) ELSE MoverArchivo(f[i - 1], i - 1)
    BY <1>1, <1>5 DEF Son
  <2> QED  BY <2>1
<1> HIDE DEF f
<1>7. Discos(ocupados) = [i \in 0..N |-> IF i = 0 THEN DiscoInicial(ocupados)
                                         ELSE MoverArchivo(Discos(ocupados)[i - 1], i - 1)]
  <2>1. \E x : x = [i \in 0..N |-> IF i = 0 THEN DiscoInicial(ocupados)
                                   ELSE MoverArchivo(x[i - 1], i - 1)]
    BY <1>6
  <2> QED  BY <2>1 DEF Discos, DiscoInicial
<1>8. 0 \in 0..N /\ \A i \in 1..N : i \in 0..N /\ i # 0
  BY <1>1
<1> QED  BY <1>7, <1>8 DEF Son

\* The loop has reached block i and p is the entry of the file that was lifted: every
\* other file is below the hole or has not moved, and is then ahead of both; the disk
\* is as sound as it was.
Compactando(d, i, p) ==
  /\ Tabla(d.FAT, (DOMAIN FAT) \ {p}, d.bitmap)
  /\ DOMAIN d.FAT = DOMAIN FAT /\ d.FAT[p] = FAT[p]
  /\ \A k \in DOMAIN FAT : d.FAT[k].nombre = FAT[k].nombre /\ d.FAT[k].largo = FAT[k].largo
  /\ d.hueco \in Nat
  /\ \A k \in (DOMAIN FAT) \ {p} :
       \/ Fin(d.FAT[k]) <= d.hueco
       \/ d.FAT[k] = FAT[k] /\ FAT[k].bloqueInicial >= i /\ FAT[k].bloqueInicial >= d.hueco
  /\ \A x \in Nat : x < d.hueco => x \in d.bitmap
  /\ Cardinality(d.bitmap) = Cardinality(bitmap \ BloquesDe(FAT[p]))
  /\ d.metadata = ToSet(d.FAT)
  /\ d.BLOQUES \in [Direcciones -> Datos]
  /\ d.cae = FALSE

\* The file to be truncated is lifted and every other has bytes.
Levantado(p) ==
  /\ DiscoBueno /\ p \in DOMAIN FAT
  /\ \A k \in (DOMAIN FAT) \ {p} : FAT[k].largo # 0

LEMMA EmpiezaACompactar ==
  ASSUME NEW p, Levantado(p)
  PROVE  Compactando(DiscoInicial(bitmap \ BloquesDe(FAT[p])), 0, p)
<1> DEFINE oc == bitmap \ BloquesDe(FAT[p])
           h == Min(Bloques \ oc)
           d == DiscoInicial(oc)
<1>1. p \in DOMAIN FAT /\ Tabla(FAT, DOMAIN FAT, bitmap)
  BY DEF Levantado, DiscoBueno
<1>2. Tabla(FAT, (DOMAIN FAT) \ {p}, oc)
  BY <1>1, Levanta
<1>3. FAT[p] \in Entrada /\ \A k \in DOMAIN FAT : FAT[k] \in Entrada
  BY <1>1, EntradasDe
<1>4. FAT[p].bloqueInicial \in Bloques \ oc /\ Bloques \in SUBSET Nat
  BY <1>3, LugarDe, DialFSAssumption DEF Bloques
<1>5. h \in Bloques \ oc /\ h \in Nat /\ \A x \in Bloques \ oc : h <= x
  <2>1. Bloques \ oc \in SUBSET Nat /\ Bloques \ oc # {}
    BY <1>4
  <2> HIDE DEF oc
  <2> QED  BY <2>1, MinEs
<1>6. /\ d.hueco = h /\ d.bitmap = oc /\ d.FAT = FAT /\ d.metadata = metadata
      /\ d.BLOQUES = BLOQUES /\ d.cae = FALSE
  BY DEF DiscoInicial
<1> HIDE DEF oc, h, d
<1>7. ASSUME NEW k \in (DOMAIN FAT) \ {p}
      PROVE  Fin(FAT[k]) <= h \/ (FAT[k].bloqueInicial >= 0 /\ FAT[k].bloqueInicial >= h)
  <2>1. h \notin BloquesDe(FAT[k])
    BY <1>2, <1>5 DEF Tabla
  <2> QED  BY <1>3, <1>5, <2>1, LugarDe
<1>8. ASSUME NEW x \in Nat, x < h PROVE x \in oc
  <2>1. x \in Bloques
    BY <1>5, <1>8, DialFSAssumption DEF Bloques
  <2> QED  BY <1>5, <1>8, <2>1
<1>9. Cardinality(d.bitmap) = Cardinality(bitmap \ BloquesDe(FAT[p]))
  BY <1>6 DEF oc
<1>10. Compactando(d, 0, p)
  BY <1>2, <1>5, <1>6, <1>7, <1>8, <1>9 DEF Compactando, Levantado, DiscoBueno
<1> QED  BY <1>10 DEF d, oc

\* Blocks that leave a set, and as many that join it.
LEMMA TantosComoAntes ==
  ASSUME NEW S, IsFiniteSet(S), NEW a \in Nat, NEW b \in Nat, NEW n \in Nat,
         a..(a + n - 1) \subseteq S, (b..(b + n - 1)) \cap (S \ (a..(a + n - 1))) = {}
  PROVE  Cardinality((S \ (a..(a + n - 1))) \cup (b..(b + n - 1))) = Cardinality(S)
<1> DEFINE A == a..(a + n - 1)
           B == b..(b + n - 1)
<1>1. IsFiniteSet(A) /\ IsFiniteSet(B) /\ Cardinality(A) = n /\ Cardinality(B) = n
  BY FS_Interval
<1> HIDE DEF A, B
<1>2. A \subseteq S /\ B \cap (S \ A) = {}
  BY DEF A, B
<1>3. /\ IsFiniteSet(S \ A)
      /\ Cardinality(S \ A) = Cardinality(S) - Cardinality(S \cap A)
  BY FS_Difference
<1>4. S \cap A = A /\ (S \ A) \cap B = {}
  BY <1>2
<1>5. Cardinality((S \ A) \cup B)
        = Cardinality(S \ A) + Cardinality(B) - Cardinality((S \ A) \cap B)
  BY <1>1, <1>3, FS_Union
<1>6. Cardinality(S) \in Nat
  BY FS_CardinalityType
<1>7. Cardinality(S \cap A) = n /\ Cardinality((S \ A) \cap B) = 0
  BY <1>1, <1>4, FS_EmptySet
<1>8. Cardinality((S \ A) \cup B) = Cardinality(S)
  BY <1>1, <1>3, <1>5, <1>6, <1>7
<1> QED  BY <1>8 DEF A, B

LEMMA BitmapFinito ==
  ASSUME NEW b \in SUBSET Bloques
  PROVE  IsFiniteSet(b) /\ Cardinality(b) \in Nat
<1>1. IsFiniteSet(Bloques)
  <2>1. 0 \in Int /\ CANT_BLOQUES - 1 \in Int
    BY DialFSAssumption
  <2> QED  BY <2>1, FS_Interval DEF Bloques
<1> QED  BY <1>1, FS_Subset, FS_CardinalityType

\* The file that starts at the block the loop has reached.
LEMMA EmpiezaAhi ==
  ASSUME NEW p, Levantado(p), NEW i \in Nat, NEW d, Compactando(d, i, p),
         d.hueco <= i, i \in d.bitmap
  PROVE  \E k \in (DOMAIN FAT) \ {p} :
           /\ d.FAT[k] = FAT[k] /\ FAT[k].bloqueInicial = i /\ FAT[k].largo # 0
           /\ d.FAT[k] \in Entrada
           /\ \A j \in DOMAIN FAT : d.FAT[j].bloqueInicial = i => j = k
<1>1. /\ Tabla(d.FAT, (DOMAIN FAT) \ {p}, d.bitmap) /\ DOMAIN d.FAT = DOMAIN FAT
      /\ d.FAT[p] = FAT[p] /\ d.hueco \in Nat
  BY DEF Compactando
<1>2. PICK k \in (DOMAIN FAT) \ {p} : i \in BloquesDe(d.FAT[k])
  BY <1>1 DEF Tabla
<1>3. \A j \in DOMAIN FAT : d.FAT[j] \in Entrada
  BY <1>1, EntradasDe
<1>4. ~ Fin(d.FAT[k]) <= d.hueco
  BY <1>1, <1>2, <1>3, LugarDe
<1>5. d.FAT[k] = FAT[k] /\ FAT[k].bloqueInicial >= i
  BY <1>2, <1>4 DEF Compactando
<1>6. FAT[k].bloqueInicial = i
  BY <1>2, <1>3, <1>5, LugarDe
<1>7. ASSUME NEW j \in DOMAIN FAT, d.FAT[j].bloqueInicial = i PROVE j = k
  <2> SUFFICES ASSUME j # k PROVE FALSE
    OBVIOUS
  <2>1. i \in BloquesDe(d.FAT[j])
    BY <1>3, <1>7, LugarDe
  <2>2. CASE j # p
    BY <1>1, <1>2, <2>1, <2>2 DEF Tabla
  <2>3. CASE j = p
    <3>1. BloquesDe(FAT[p]) \cap BloquesDe(FAT[k]) = {}
      BY <1>2 DEF Levantado, DiscoBueno, Tabla
    <3> QED  BY <1>1, <1>2, <1>5, <2>1, <2>3, <3>1
  <2> QED  BY <2>2, <2>3
<1>8. FAT[k].largo # 0
  BY <1>2 DEF Levantado
<1> QED  BY <1>2, <1>3, <1>5, <1>6, <1>7, <1>8

\* The file k of the disk d, at the block i, moved down to the hole: no block is shared,
\* as many are occupied, and the files that have not moved are ahead of it.
MovidoBien(d, i, p, k) ==
  LET e == d.FAT[k]
      n == BloquesAsignados(e.largo)
      movida == [e EXCEPT !.bloqueInicial = d.hueco]
      b == (d.bitmap \ Rango(i, n)) \cup Rango(d.hueco, n)
  IN /\ movida \in Entrada /\ Fin(movida) = d.hueco + n
     /\ BloquesDe(e) = Rango(i, n) /\ BloquesDe(movida) = Rango(d.hueco, n)
     /\ i + n <= CANT_BLOQUES
     /\ Tabla([d.FAT EXCEPT ![k] = movida], (DOMAIN FAT) \ {p}, b)
     /\ Cardinality(b) = Cardinality(d.bitmap)
     /\ \A j \in (DOMAIN FAT) \ {p, k} :
          \/ Fin(d.FAT[j]) <= d.hueco
          \/ /\ d.FAT[j] = FAT[j] /\ FAT[j].bloqueInicial >= i + 1
             /\ FAT[j].bloqueInicial >= d.hueco + n

\* The file k, at the block i, is moved down to the hole.
LEMMA SeMueve ==
  ASSUME NEW p, Levantado(p), NEW i \in Nat, NEW d, Compactando(d, i, p),
         d.hueco <= i, NEW k \in (DOMAIN FAT) \ {p},
         d.FAT[k] \in Entrada, d.FAT[k].bloqueInicial = i
  PROVE  MovidoBien(d, i, p, k)
<1> DEFINE e == d.FAT[k]
           n == BloquesAsignados(e.largo)
           movida == [e EXCEPT !.bloqueInicial = d.hueco]
           b == (d.bitmap \ Rango(i, n)) \cup Rango(d.hueco, n)
<1>1. /\ Tabla(d.FAT, (DOMAIN FAT) \ {p}, d.bitmap) /\ DOMAIN d.FAT = DOMAIN FAT
      /\ d.hueco \in Nat /\ d.hueco <= i
      /\ \A j \in (DOMAIN FAT) \ {p} :
           \/ Fin(d.FAT[j]) <= d.hueco
           \/ d.FAT[j] = FAT[j] /\ FAT[j].bloqueInicial >= i /\ FAT[j].bloqueInicial >= d.hueco
  BY DEF Compactando
<1>2. \A j \in DOMAIN FAT : d.FAT[j] \in Entrada
  BY <1>1, EntradasDe
<1>3. /\ n \in Nat \ {0} /\ Fin(e) = i + n /\ e.bloqueInicial = i /\ e.bloqueInicial \in Bloques
      /\ BloquesDe(e) = Rango(i, n)
  BY <1>2, LugarDe DEF BloquesDe
<1>4. /\ movida \in Entrada /\ movida.nombre = e.nombre /\ movida.largo = e.largo
      /\ movida.bloqueInicial = d.hueco
  <2>1. d.hueco \in Bloques
    BY <1>1, <1>3, DialFSAssumption DEF Bloques
  <2> QED  BY <1>2, <2>1 DEF Entrada
<1> HIDE DEF n, movida
<1>5. Fin(movida) = d.hueco + n /\ BloquesDe(movida) = Rango(d.hueco, n)
  BY <1>4 DEF Fin, BloquesDe, n
<1> HIDE DEF e
<1>6. /\ Tabla(d.FAT, ((DOMAIN FAT) \ {p}) \ {k}, d.bitmap \ BloquesDe(e))
      /\ BloquesDe(e) \subseteq d.bitmap /\ Fin(e) <= CANT_BLOQUES
  BY <1>1, Levanta DEF e
<1>7. e \in Entrada
  BY DEF e
<1>8. ASSUME NEW j \in (DOMAIN FAT) \ {p, k}
      PROVE  \/ Fin(d.FAT[j]) <= d.hueco
             \/ /\ d.FAT[j] = FAT[j] /\ FAT[j].bloqueInicial >= i + 1
                /\ FAT[j].bloqueInicial >= i + n
  <2> SUFFICES ASSUME ~ Fin(d.FAT[j]) <= d.hueco
               PROVE  d.FAT[j] = FAT[j] /\ FAT[j].bloqueInicial >= i + 1
                      /\ FAT[j].bloqueInicial >= i + n
    OBVIOUS
  <2>1. d.FAT[j] = FAT[j] /\ FAT[j].bloqueInicial >= i
    BY <1>1
  <2>2. BloquesDe(d.FAT[j]) \cap BloquesDe(e) = {}
    BY <1>1 DEF Tabla, e
  <2>3. FAT[j].bloqueInicial \in BloquesDe(d.FAT[j]) /\ FAT[j].bloqueInicial \in Nat
    BY <1>2, <2>1, LugarDe
  <2>4. FAT[j].bloqueInicial \notin BloquesDe(e)
    BY <2>2, <2>3
  <2>5. ~ (FAT[j].bloqueInicial >= i /\ FAT[j].bloqueInicial < i + n)
    BY <1>3, <1>7, <2>3, <2>4, LugarDe
  <2> QED  BY <1>3, <2>1, <2>3, <2>5
<1>9. BloquesDe(movida) \cap (d.bitmap \ BloquesDe(e)) = {}
  <2> SUFFICES ASSUME NEW x \in BloquesDe(movida), x \in d.bitmap, x \notin BloquesDe(e)
               PROVE  FALSE
    OBVIOUS
  <2>1. x \in Nat /\ d.hueco <= x /\ x < d.hueco + n
    BY <1>4, <1>5, LugarDe
  <2>2. PICK j \in ((DOMAIN FAT) \ {p}) \ {k} : x \in BloquesDe(d.FAT[j])
    BY <1>6 DEF Tabla
  <2>3. d.FAT[j].bloqueInicial <= x /\ x < Fin(d.FAT[j]) /\ d.FAT[j].bloqueInicial \in Nat
        /\ Fin(d.FAT[j]) \in Nat
    BY <1>2, <2>2, LugarDe
  <2>4. d.FAT[j].bloqueInicial >= i + n
    BY <1>1, <1>8, <2>1, <2>2, <2>3
  <2> QED  BY <1>1, <1>3, <2>1, <2>3, <2>4
<1>10. Fin(movida) <= CANT_BLOQUES
  BY <1>1, <1>3, <1>5, <1>6, DialFSAssumption
<1>11. Tabla([d.FAT EXCEPT ![k] = movida], (((DOMAIN FAT) \ {p}) \ {k}) \cup {k},
             (d.bitmap \ BloquesDe(e)) \cup BloquesDe(movida))
  <2>1. k \in (DOMAIN d.FAT) \ (((DOMAIN FAT) \ {p}) \ {k}) /\ movida.nombre = d.FAT[k].nombre
    BY <1>1, <1>4 DEF e
  <2>2. BloquesDe(movida) \cap (d.bitmap \ BloquesDe(e)) = {}
    BY <1>9
  <2> QED  BY <1>4, <1>6, <1>10, <2>1, <2>2, Pone
<1>12. /\ (((DOMAIN FAT) \ {p}) \ {k}) \cup {k} = (DOMAIN FAT) \ {p}
       /\ b = (d.bitmap \ BloquesDe(e)) \cup BloquesDe(movida)
  BY <1>3, <1>5
<1>13. Cardinality(b) = Cardinality(d.bitmap)
  <2>1. IsFiniteSet(d.bitmap)
    BY <1>1, BitmapFinito DEF Tabla
  <2>2. /\ i..(i + n - 1) \subseteq d.bitmap
        /\ (d.hueco..(d.hueco + n - 1)) \cap (d.bitmap \ (i..(i + n - 1))) = {}
    BY <1>3, <1>5, <1>6, <1>9 DEF Rango
  <2>3. i \in Nat /\ d.hueco \in Nat /\ n \in Nat
    BY <1>1, <1>3
  <2>4. \E S, h, m : S = d.bitmap /\ h = d.hueco /\ m = n
    OBVIOUS
  <2>5. PICK S, h, m : S = d.bitmap /\ h = d.hueco /\ m = n
    BY <2>4
  <2>6. /\ IsFiniteSet(S) /\ i \in Nat /\ h \in Nat /\ m \in Nat
        /\ i..(i + m - 1) \subseteq S /\ (h..(h + m - 1)) \cap (S \ (i..(i + m - 1))) = {}
    BY <2>1, <2>2, <2>3, <2>5
  <2>7. Cardinality((S \ (i..(i + m - 1))) \cup (h..(h + m - 1))) = Cardinality(S)
    BY ONLY <2>6, TantosComoAntes
  <2> QED  BY <2>5, <2>7 DEF Rango
<1>14. ASSUME NEW j \in (DOMAIN FAT) \ {p, k}
       PROVE  \/ Fin(d.FAT[j]) <= d.hueco
              \/ /\ d.FAT[j] = FAT[j] /\ FAT[j].bloqueInicial >= i + 1
                 /\ FAT[j].bloqueInicial >= d.hueco + n
  <2>1. d.FAT[j] = FAT[j] => FAT[j].bloqueInicial \in Nat
    BY <1>2, LugarDe
  <2> QED  BY <1>1, <1>3, <1>8, <2>1
<1>15. i + n <= CANT_BLOQUES
  BY <1>3, <1>6
<1> QED  BY <1>3, <1>4, <1>5, <1>11, <1>12, <1>13, <1>14, <1>15 DEF MovidoBien, e, n, movida

\* What compactar does when the loop reaches a file.
LEMMA MoverEs ==
  ASSUME NEW p, Levantado(p), NEW i \in Nat, NEW d, Compactando(d, i, p),
         d.hueco <= i, i \in d.bitmap, NEW k \in (DOMAIN FAT) \ {p},
         d.FAT[k] = FAT[k], FAT[k].bloqueInicial = i, FAT[k].largo # 0,
         d.FAT[k] \in Entrada,
         \A j \in DOMAIN FAT : d.FAT[j].bloqueInicial = i => j = k
  PROVE  LET e == d.FAT[k]
             n == BloquesAsignados(e.largo)
             movida == [e EXCEPT !.bloqueInicial = d.hueco]
         IN MoverArchivo(d, i) =
              [hueco    |-> d.hueco + n,
               bitmap   |-> (d.bitmap \ Rango(i, n)) \cup Rango(d.hueco, n),
               FAT      |-> [d.FAT EXCEPT ![k] = movida],
               metadata |-> GuardarEn(d.metadata, movida),
               BLOQUES  |-> Copiar(d.BLOQUES, d.hueco * TAM_BLOQUE, i * TAM_BLOQUE, e.largo),
               cae      |-> FALSE]
<1> DEFINE e == d.FAT[k]
           n == BloquesAsignados(e.largo)
           movida == [e EXCEPT !.bloqueInicial = d.hueco]
           conDatos == {j \in DOMAIN d.FAT :
                          d.FAT[j].bloqueInicial = i /\ CantBloques(d.FAT[j].largo) > 0}
           movidos == {j \in DOMAIN d.FAT : d.FAT[j].bloqueInicial = i /\ j <= Min(conDatos)}
<1>1. /\ DOMAIN d.FAT = DOMAIN FAT /\ d.metadata = ToSet(d.FAT) /\ d.cae = FALSE
      /\ d.hueco \in Nat /\ DOMAIN d.FAT = 1..Len(d.FAT)
  BY EntradasDe DEF Compactando
<1>2. CantBloques(e.largo) = n /\ n \in Nat \ {0} /\ e.bloqueInicial = i
  <2>1. e.largo # 0 /\ e.largo \in Nat
    BY LugarDe
  <2> QED  BY <2>1, Asignados
<1> HIDE DEF n
<1>3. conDatos = {k}
  <2>1. k \in conDatos
    BY <1>1, <1>2
  <2>2. \A j \in conDatos : j = k
    BY <1>1
  <2> HIDE DEF conDatos
  <2> QED  BY <2>1, <2>2
<1> HIDE DEF conDatos
<1>4. Min(conDatos) = k
  <2>1. k \in Nat
    BY <1>1
  <2>2. {k} \in SUBSET Nat /\ {k} # {}
    BY <2>1
  <2>3. Min({k}) \in {k}
    BY ONLY <2>2, MinEs
  <2> QED  BY <1>3, <2>3
<1>5. movidos = {k}
  <2>1. k \in movidos
    BY <1>1, <1>2, <1>4
  <2>2. \A j \in movidos : j = k
    BY <1>1
  <2> HIDE DEF movidos
  <2> QED  BY <2>1, <2>2
<1> HIDE DEF movidos
<1>6. \A j \in movidos : \E m \in d.metadata : m.nombre = d.FAT[j].nombre
  BY <1>1, <1>5 DEF ToSet
<1>7. ~ (i < d.hueco \/ i \notin d.bitmap \/ d.cae)
  BY <1>1
<1>8. MoverArchivo(d, i) =
        [hueco    |-> d.hueco + n,
         bitmap   |-> (d.bitmap \ Rango(i, n)) \cup Rango(d.hueco, n),
         FAT      |-> [j \in DOMAIN d.FAT |->
                        IF j \in movidos THEN [d.FAT[j] EXCEPT !.bloqueInicial = d.hueco]
                        ELSE d.FAT[j]],
         metadata |-> MetadataMovida(d, movidos),
         BLOQUES  |-> Copiar(d.BLOQUES, d.hueco * TAM_BLOQUE, i * TAM_BLOQUE, e.largo),
         cae      |-> FALSE]
  <2>1. conDatos # {}
    BY <1>3
  <2> QED  BY <1>2, <1>4, <1>6, <1>7, <2>1 DEF MoverArchivo, conDatos, movidos
<1>9. [j \in DOMAIN d.FAT |-> IF j \in movidos THEN [d.FAT[j] EXCEPT !.bloqueInicial = d.hueco]
                              ELSE d.FAT[j]] = [d.FAT EXCEPT ![k] = movida]
  <2>1. d.FAT \in [DOMAIN d.FAT -> Entrada]
    BY EntradasDe DEF Compactando
  <2> QED  BY <1>5, <2>1
<1>10. MetadataMovida(d, movidos) = GuardarEn(d.metadata, movida)
  <2>1. movida.nombre = e.nombre
    BY DEF Entrada
  <2>2. {[d.FAT[j] EXCEPT !.bloqueInicial = d.hueco] : j \in movidos} = {movida}
    BY <1>5
  <2>3. {m \in d.metadata : \A j \in movidos : m.nombre # d.FAT[j].nombre}
          = {m \in d.metadata : m.nombre # e.nombre}
    BY <1>5
  <2> QED  BY <2>1, <2>2, <2>3 DEF MetadataMovida, GuardarEn
<1> QED  BY <1>8, <1>9, <1>10 DEF n

\* One block of the loop.
LEMMA Avanza ==
  ASSUME NEW p, Levantado(p), NEW i \in Nat, i < CANT_BLOQUES, NEW d, Compactando(d, i, p)
  PROVE  Compactando(MoverArchivo(d, i), i + 1, p)
<1>1. /\ Tabla(d.FAT, (DOMAIN FAT) \ {p}, d.bitmap) /\ DOMAIN d.FAT = DOMAIN FAT
      /\ d.hueco \in Nat /\ d.cae = FALSE
      /\ \A j \in (DOMAIN FAT) \ {p} :
           \/ Fin(d.FAT[j]) <= d.hueco
           \/ d.FAT[j] = FAT[j] /\ FAT[j].bloqueInicial >= i /\ FAT[j].bloqueInicial >= d.hueco
  BY DEF Compactando
<1>2. \A j \in DOMAIN FAT : d.FAT[j] \in Entrada
  BY <1>1, EntradasDe
<1>3. CASE i < d.hueco \/ i \notin d.bitmap
  <2>1. MoverArchivo(d, i) = d
    BY <1>3 DEF MoverArchivo
  <2>2. ASSUME NEW j \in (DOMAIN FAT) \ {p}, ~ Fin(d.FAT[j]) <= d.hueco
        PROVE  d.FAT[j] = FAT[j] /\ FAT[j].bloqueInicial >= i + 1
               /\ FAT[j].bloqueInicial >= d.hueco
    <3>1. d.FAT[j] = FAT[j] /\ FAT[j].bloqueInicial >= i /\ FAT[j].bloqueInicial >= d.hueco
      BY <1>1, <2>2
    <3>2. FAT[j].bloqueInicial \in BloquesDe(d.FAT[j]) /\ FAT[j].bloqueInicial \in Nat
      BY <1>2, <3>1, LugarDe
    <3>3. FAT[j].bloqueInicial \in d.bitmap
      BY <1>1, <3>2 DEF Tabla
    <3>4. FAT[j].bloqueInicial # i
      BY <1>1, <1>3, <3>1, <3>3
    <3> QED  BY <3>1, <3>2, <3>4
  <2> QED  BY <2>1, <2>2 DEF Compactando
<1>4. CASE d.hueco <= i /\ i \in d.bitmap
  <2>1. PICK k \in (DOMAIN FAT) \ {p} :
           /\ d.FAT[k] = FAT[k] /\ FAT[k].bloqueInicial = i /\ FAT[k].largo # 0
           /\ d.FAT[k] \in Entrada
           /\ \A j \in DOMAIN FAT : d.FAT[j].bloqueInicial = i => j = k
    BY <1>4, EmpiezaAhi
  <2> DEFINE e == d.FAT[k]
             n == BloquesAsignados(e.largo)
             movida == [e EXCEPT !.bloqueInicial = d.hueco]
             r == MoverArchivo(d, i)
  <2>2. /\ r.hueco = d.hueco + n
        /\ r.bitmap = (d.bitmap \ Rango(i, n)) \cup Rango(d.hueco, n)
        /\ r.FAT = [d.FAT EXCEPT ![k] = movida]
        /\ r.metadata = GuardarEn(d.metadata, movida)
        /\ r.BLOQUES = Copiar(d.BLOQUES, d.hueco * TAM_BLOQUE, i * TAM_BLOQUE, e.largo)
        /\ r.cae = FALSE
    <3>1. r = [hueco    |-> d.hueco + n,
               bitmap   |-> (d.bitmap \ Rango(i, n)) \cup Rango(d.hueco, n),
               FAT      |-> [d.FAT EXCEPT ![k] = movida],
               metadata |-> GuardarEn(d.metadata, movida),
               BLOQUES  |-> Copiar(d.BLOQUES, d.hueco * TAM_BLOQUE, i * TAM_BLOQUE, e.largo),
               cae      |-> FALSE]
      BY <1>4, <2>1, MoverEs
    <3> HIDE DEF r
    <3> QED  BY <3>1
  <2>3. /\ movida \in Entrada /\ Fin(movida) = d.hueco + n
        /\ BloquesDe(e) = Rango(i, n) /\ BloquesDe(movida) = Rango(d.hueco, n)
        /\ i + n <= CANT_BLOQUES
        /\ Tabla([d.FAT EXCEPT ![k] = movida], (DOMAIN FAT) \ {p},
                 (d.bitmap \ Rango(i, n)) \cup Rango(d.hueco, n))
        /\ Cardinality((d.bitmap \ Rango(i, n)) \cup Rango(d.hueco, n)) = Cardinality(d.bitmap)
        /\ \A j \in (DOMAIN FAT) \ {p, k} :
             \/ Fin(d.FAT[j]) <= d.hueco
             \/ /\ d.FAT[j] = FAT[j] /\ FAT[j].bloqueInicial >= i + 1
                /\ FAT[j].bloqueInicial >= d.hueco + n
    <3>1. d.hueco <= i /\ k \in (DOMAIN FAT) \ {p} /\ d.FAT[k] \in Entrada
          /\ d.FAT[k].bloqueInicial = i
      BY <1>4, <2>1
    <3>2. MovidoBien(d, i, p, k)
      BY <3>1, SeMueve
    <3> QED  BY <3>2 DEF MovidoBien
  <2>4. e \in Entrada /\ e.bloqueInicial = i /\ n \in Nat \ {0} /\ e.largo \in Nat
    BY <2>1, LugarDe
  <2>5. movida.nombre = e.nombre /\ movida.largo = e.largo
    BY <2>4 DEF Entrada
  <2> HIDE DEF r, e, n, movida
  <2>6. r.metadata = ToSet(r.FAT)
    <3>1. GuardarEn(ToSet(d.FAT), movida) = ToSet([d.FAT EXCEPT ![k] = movida])
      BY <1>1, <2>5, Guarda DEF e
    <3> QED  BY <2>2, <3>1 DEF Compactando
  <2>7. r.BLOQUES \in [Direcciones -> Datos]
    <3>2. i + n <= CANT_BLOQUES /\ e.largo <= n * TAM_BLOQUE
      BY <2>3, <2>4, Asignados DEF n
    <3>3. /\ i * TAM_BLOQUE \in Nat /\ d.hueco * TAM_BLOQUE \in Nat
          /\ i * TAM_BLOQUE + e.largo <= CANT_BLOQUES * TAM_BLOQUE
      <4>1. d.hueco * TAM_BLOQUE \in Nat
        BY <1>1, DialFSAssumption
      <4> QED  BY <2>4, <3>2, <4>1, EnElDisco
    <3>4. d.BLOQUES \in [Direcciones -> Datos]
      BY DEF Compactando
    <3> QED  BY <2>2, <2>4, <3>3, <3>4, CopiasTipo
  <2>8. /\ DOMAIN r.FAT = DOMAIN FAT /\ r.FAT[p] = FAT[p] /\ r.FAT[k] = movida
        /\ \A j \in (DOMAIN FAT) \ {k} : r.FAT[j] = d.FAT[j]
    BY <1>1, <2>1, <2>2 DEF Compactando
  <2>9. \A j \in DOMAIN FAT : r.FAT[j].nombre = FAT[j].nombre /\ r.FAT[j].largo = FAT[j].largo
    BY <2>1, <2>5, <2>8 DEF Compactando, e
  <2>10. ASSUME NEW j \in (DOMAIN FAT) \ {p}
         PROVE  \/ Fin(r.FAT[j]) <= r.hueco
                \/ /\ r.FAT[j] = FAT[j] /\ FAT[j].bloqueInicial >= i + 1
                   /\ FAT[j].bloqueInicial >= r.hueco
    <3>1. CASE j = k
      BY <1>1, <2>2, <2>3, <2>4, <2>8, <3>1
    <3>2. CASE j # k
      <4>1. Fin(d.FAT[j]) \in Nat
        BY <1>2, LugarDe
      <4>2. r.hueco >= d.hueco /\ r.hueco \in Nat
        BY <1>1, <2>2, <2>4
      <4> QED  BY <1>1, <2>2, <2>3, <2>8, <3>2, <4>1, <4>2
    <3> QED  BY <3>1, <3>2
  <2>11. ASSUME NEW x \in Nat, x < r.hueco PROVE x \in r.bitmap
    <3>1. CASE x < d.hueco
      BY <1>1, <1>4, <2>2, <2>4, <3>1 DEF Compactando, Rango
    <3>2. CASE x >= d.hueco
      BY <1>1, <2>2, <2>4, <2>11, <3>2 DEF Rango
    <3> QED  BY <1>1, <3>1, <3>2
  <2>12. r.hueco \in Nat /\ r.cae = FALSE
    BY <1>1, <2>2, <2>4
  <2>13. Tabla(r.FAT, (DOMAIN FAT) \ {p}, r.bitmap)
    BY <2>2, <2>3
  <2>14. Cardinality(r.bitmap) = Cardinality(bitmap \ BloquesDe(FAT[p]))
    BY <2>2, <2>3 DEF Compactando
  <2> QED  BY <2>6, <2>7, <2>8, <2>9, <2>10, <2>11, <2>12, <2>13, <2>14 DEF Compactando, r
<1> QED  BY <1>1, <1>3, <1>4

-----------------------------------------------------------------------------
(***************************************************************************)
(* The bytes of the files                                                  *)
(***************************************************************************)

\* The bytes of the file of an entry.
Bytes(e, b) == [k \in 1..e.largo |-> b[e.bloqueInicial * TAM_BLOQUE + k - 1]]

\* Those of a file that fits are on the disk, and are not those of a file of other blocks.
LEMMA LugarDeBytes ==
  ASSUME NEW e \in Entrada, Fin(e) <= CANT_BLOQUES, NEW k \in 1..e.largo
  PROVE  /\ e.bloqueInicial * TAM_BLOQUE \in Nat
         /\ e.bloqueInicial * TAM_BLOQUE + k - 1 \in Direcciones
         /\ e.bloqueInicial * TAM_BLOQUE + k - 1 \in Rango(e.bloqueInicial * TAM_BLOQUE, e.largo)
<1>1. /\ e.bloqueInicial \in Nat /\ e.largo \in Nat
      /\ BloquesAsignados(e.largo) \in Nat
      /\ e.bloqueInicial + BloquesAsignados(e.largo) <= CANT_BLOQUES
  BY LugarDe
<1>2. e.largo <= BloquesAsignados(e.largo) * TAM_BLOQUE
  BY <1>1, Asignados
<1> DEFINE desde == e.bloqueInicial * TAM_BLOQUE
           fin == CANT_BLOQUES * TAM_BLOQUE
<1>3. desde \in Nat /\ desde + e.largo <= fin
  BY <1>1, <1>2, EnElDisco
<1>4. fin \in Nat
  BY DialFSAssumption
<1> HIDE DEF desde, fin
<1>5. desde + k - 1 \in 0..(fin - 1) /\ desde + k - 1 \in Rango(desde, e.largo)
  BY <1>1, <1>3, <1>4 DEF Rango
<1> QED  BY <1>3, <1>5 DEF desde, fin, Direcciones

LEMMA BytesAparte ==
  ASSUME NEW e \in Entrada, NEW g \in Entrada, BloquesDe(e) \cap BloquesDe(g) = {},
         NEW k \in 1..g.largo
  PROVE  g.bloqueInicial * TAM_BLOQUE + k - 1 \notin Rango(e.bloqueInicial * TAM_BLOQUE, e.largo)
<1> DEFINE a == e.bloqueInicial
           b == g.bloqueInicial
           m == BloquesAsignados(e.largo)
           n == BloquesAsignados(g.largo)
<1>1. /\ a \in Nat /\ b \in Nat /\ m \in Nat \ {0} /\ n \in Nat \ {0}
      /\ e.largo \in Nat /\ g.largo \in Nat
  BY LugarDe
<1>2. e.largo <= m * TAM_BLOQUE /\ g.largo <= n * TAM_BLOQUE
  BY <1>1, Asignados
<1>3. a + m <= b \/ b + n <= a
  <2>1. \A x \in Nat : ~ (a <= x /\ x < a + m /\ b <= x /\ x < b + n)
    BY LugarDe
  <2> HIDE DEF a, b, m, n
  <2>2. ~ (b >= a /\ b < a + m) /\ ~ (a >= b /\ a < b + n)
    BY <1>1, <2>1
  <2> QED  BY <1>1, <2>2
<1> HIDE DEF a, b, m, n
<1>4. TAM_BLOQUE \in Nat
  BY DialFSAssumption
<1>5. /\ a * TAM_BLOQUE \in Nat /\ b * TAM_BLOQUE \in Nat
      /\ m * TAM_BLOQUE \in Nat /\ n * TAM_BLOQUE \in Nat
      /\ (a + m) * TAM_BLOQUE = a * TAM_BLOQUE + m * TAM_BLOQUE
      /\ (b + n) * TAM_BLOQUE = b * TAM_BLOQUE + n * TAM_BLOQUE
  BY <1>1, <1>4
<1>6. CASE a + m <= b
  <2>1. (a + m) * TAM_BLOQUE <= b * TAM_BLOQUE
    BY <1>1, <1>4, <1>6
  <2>2. b * TAM_BLOQUE + k - 1 \notin Rango(a * TAM_BLOQUE, e.largo)
    BY <1>1, <1>2, <1>5, <2>1 DEF Rango
  <2> QED  BY <2>2 DEF a, b
<1>7. CASE b + n <= a
  <2>1. (b + n) * TAM_BLOQUE <= a * TAM_BLOQUE
    BY <1>1, <1>4, <1>7
  <2>2. b * TAM_BLOQUE + k - 1 \notin Rango(a * TAM_BLOQUE, e.largo)
    BY <1>1, <1>2, <1>5, <2>1 DEF Rango
  <2> QED  BY <2>2 DEF a, b
<1> QED  BY <1>3, <1>6, <1>7

\* What is written in the blocks of a file leaves the bytes of another as they were.
LEMMA NoToca ==
  ASSUME NEW e \in Entrada, NEW g \in Entrada, BloquesDe(e) \cap BloquesDe(g) = {},
         Fin(g) <= CANT_BLOQUES, NEW b, NEW c,
         \A x \in Direcciones :
           x \notin Rango(e.bloqueInicial * TAM_BLOQUE, e.largo) => c[x] = b[x]
  PROVE  Bytes(g, c) = Bytes(g, b)
<1>1. ASSUME NEW k \in 1..g.largo
      PROVE  c[g.bloqueInicial * TAM_BLOQUE + k - 1] = b[g.bloqueInicial * TAM_BLOQUE + k - 1]
  <2>1. g.bloqueInicial * TAM_BLOQUE + k - 1 \in Direcciones
    BY LugarDeBytes
  <2>2. g.bloqueInicial * TAM_BLOQUE + k - 1
          \notin Rango(e.bloqueInicial * TAM_BLOQUE, e.largo)
    BY BytesAparte
  <2> QED  BY <2>1, <2>2
<1> QED  BY <1>1 DEF Bytes

\* The compaction moves the bytes of every file with its entry.
Conserva(d, p) ==
  \A k \in (DOMAIN FAT) \ {p} : Bytes(d.FAT[k], d.BLOQUES) = Bytes(FAT[k], BLOQUES)

LEMMA AvanzaBytes ==
  ASSUME NEW p, Levantado(p), NEW i \in Nat, i < CANT_BLOQUES, NEW d, Compactando(d, i, p),
         Conserva(d, p)
  PROVE  Conserva(MoverArchivo(d, i), p)
<1>1. /\ Tabla(d.FAT, (DOMAIN FAT) \ {p}, d.bitmap) /\ DOMAIN d.FAT = DOMAIN FAT
      /\ d.hueco \in Nat /\ d.cae = FALSE
  BY DEF Compactando
<1>2. CASE i < d.hueco \/ i \notin d.bitmap
  <2>1. MoverArchivo(d, i) = d
    BY <1>2 DEF MoverArchivo
  <2> QED  BY <2>1
<1>3. CASE d.hueco <= i /\ i \in d.bitmap
  <2>1. PICK k \in (DOMAIN FAT) \ {p} :
           /\ d.FAT[k] = FAT[k] /\ FAT[k].bloqueInicial = i /\ FAT[k].largo # 0
           /\ d.FAT[k] \in Entrada
           /\ \A j \in DOMAIN FAT : d.FAT[j].bloqueInicial = i => j = k
    BY <1>3, EmpiezaAhi
  <2> DEFINE e == d.FAT[k]
             n == BloquesAsignados(e.largo)
             movida == [e EXCEPT !.bloqueInicial = d.hueco]
             r == MoverArchivo(d, i)
  <2>2. /\ r.FAT = [d.FAT EXCEPT ![k] = movida]
        /\ r.BLOQUES = Copiar(d.BLOQUES, d.hueco * TAM_BLOQUE, i * TAM_BLOQUE, e.largo)
    <3>1. r = [hueco    |-> d.hueco + n,
               bitmap   |-> (d.bitmap \ Rango(i, n)) \cup Rango(d.hueco, n),
               FAT      |-> [d.FAT EXCEPT ![k] = movida],
               metadata |-> GuardarEn(d.metadata, movida),
               BLOQUES  |-> Copiar(d.BLOQUES, d.hueco * TAM_BLOQUE, i * TAM_BLOQUE, e.largo),
               cae      |-> FALSE]
      BY <1>3, <2>1, MoverEs
    <3> HIDE DEF r
    <3> QED  BY <3>1
  <2>3. Compactando(r, i + 1, p)
    BY Avanza
  <2> HIDE DEF r
  <2>4. /\ e \in Entrada /\ e.bloqueInicial = i /\ e.largo \in Nat
        /\ movida.largo = e.largo /\ movida.bloqueInicial = d.hueco
    BY <2>1, LugarDe DEF Entrada
  <2>5. /\ Tabla(r.FAT, (DOMAIN FAT) \ {p}, r.bitmap)
        /\ r.FAT[k] = movida /\ \A j \in (DOMAIN FAT) \ {k} : r.FAT[j] = d.FAT[j]
    BY <1>1, <2>2, <2>3 DEF Compactando
  <2> HIDE DEF e, movida
  <2>6. \A j \in (DOMAIN FAT) \ {p} : r.FAT[j] \in Entrada /\ Fin(r.FAT[j]) <= CANT_BLOQUES
    <3>1. \A j \in (DOMAIN FAT) \ {p} : Fin(r.FAT[j]) <= CANT_BLOQUES
      BY <2>5, Levanta
    <3> QED  BY <2>5, <3>1 DEF Tabla
  <2>7. Bytes(movida, r.BLOQUES) = Bytes(e, d.BLOQUES)
    <3>1. ASSUME NEW c \in 1..e.largo
          PROVE  r.BLOQUES[d.hueco * TAM_BLOQUE + c - 1] = d.BLOQUES[i * TAM_BLOQUE + c - 1]
      <4>1. /\ d.hueco * TAM_BLOQUE \in Nat
            /\ d.hueco * TAM_BLOQUE + c - 1 \in Direcciones
            /\ d.hueco * TAM_BLOQUE + c - 1 \in Rango(d.hueco * TAM_BLOQUE, e.largo)
        <5>1. movida \in Entrada /\ Fin(movida) <= CANT_BLOQUES /\ c \in 1..movida.largo
          BY <2>1, <2>4, <2>5, <2>6
        <5> QED  BY <2>4, <5>1, LugarDeBytes
      <4>2. r.BLOQUES[d.hueco * TAM_BLOQUE + c - 1]
              = d.BLOQUES[i * TAM_BLOQUE + ((d.hueco * TAM_BLOQUE + c - 1) - d.hueco * TAM_BLOQUE)]
        BY <2>2, <4>1 DEF Copiar
      <4>3. i * TAM_BLOQUE \in Nat
        BY DialFSAssumption
      <4> DEFINE x == d.hueco * TAM_BLOQUE
                 y == i * TAM_BLOQUE
      <4>4. x \in Nat /\ y \in Nat
        BY <4>1, <4>3
      <4> HIDE DEF x, y
      <4>5. y + ((x + c - 1) - x) = y + c - 1
        BY <2>4, <4>4
      <4> QED  BY <4>2, <4>5 DEF x, y
    <3> QED  BY <2>4, <3>1 DEF Bytes
  <2>8. ASSUME NEW j \in (DOMAIN FAT) \ {p}
        PROVE  Bytes(r.FAT[j], r.BLOQUES) = Bytes(FAT[j], BLOQUES)
    <3>1. CASE j = k
      BY <2>5, <2>7, <3>1 DEF Conserva, e
    <3>2. CASE j # k
      <4>1. r.FAT[j] = d.FAT[j]
        BY <2>5, <3>2
      <4>2. BloquesDe(movida) \cap BloquesDe(r.FAT[j]) = {}
        BY <2>1, <2>5, <3>2 DEF Tabla
      <4>3. \A x \in Direcciones :
              x \notin Rango(movida.bloqueInicial * TAM_BLOQUE, movida.largo)
                => r.BLOQUES[x] = d.BLOQUES[x]
        BY <2>2, <2>4 DEF Copiar
      <4>4. movida \in Entrada /\ r.FAT[j] \in Entrada /\ Fin(r.FAT[j]) <= CANT_BLOQUES
        BY <2>1, <2>5, <2>6
      <4>5. Bytes(r.FAT[j], r.BLOQUES) = Bytes(r.FAT[j], d.BLOQUES)
        BY <4>2, <4>3, <4>4, NoToca
      <4> QED  BY <4>1, <4>5 DEF Conserva
    <3> QED  BY <3>1, <3>2
  <2> QED  BY <2>8 DEF Conserva, r
<1> QED  BY <1>1, <1>2, <1>3

\* The whole loop.
LEMMA Compacta ==
  ASSUME NEW p, Levantado(p), NEW i \in 0..CANT_BLOQUES
  PROVE  /\ Compactando(Discos(bitmap \ BloquesDe(FAT[p]))[i], i, p)
         /\ Conserva(Discos(bitmap \ BloquesDe(FAT[p]))[i], p)
<1> DEFINE oc == bitmap \ BloquesDe(FAT[p])
           D == Discos(oc)
           T == {n \in Nat : n <= CANT_BLOQUES => Compactando(D[n], n, p) /\ Conserva(D[n], p)}
<1>1. Son(D, oc, CANT_BLOQUES)
  BY LosDiscos
<1>2. 0 \in T
  <2>1. D[0] = DiscoInicial(oc)
    BY <1>1 DEF Son
  <2>2. Conserva(DiscoInicial(oc), p)
    BY DEF Conserva, DiscoInicial
  <2> QED  BY <2>1, <2>2, EmpiezaACompactar
<1> HIDE DEF oc
<1>3. ASSUME NEW n \in Nat, n \in T PROVE n + 1 \in T
  <2> SUFFICES ASSUME n + 1 <= CANT_BLOQUES
               PROVE  Compactando(D[n + 1], n + 1, p) /\ Conserva(D[n + 1], p)
    OBVIOUS
  <2>1. CANT_BLOQUES \in Nat
    BY DialFSAssumption
  <2>2. n < CANT_BLOQUES /\ Compactando(D[n], n, p) /\ Conserva(D[n], p)
    BY <1>3, <2>1
  <2>3. D[n + 1] = MoverArchivo(D[n], n)
    <3>1. n + 1 \in 1..CANT_BLOQUES /\ (n + 1) - 1 = n
      BY <2>1
    <3> QED  BY <1>1, <3>1 DEF Son
  <2> HIDE DEF D
  <2> QED  BY <2>2, <2>3, Avanza, AvanzaBytes
<1>4. Nat \subseteq T
  <2> HIDE DEF T
  <2> QED  BY <1>2, <1>3, Induccion
<1>5. i \in Nat /\ i <= CANT_BLOQUES
  BY DialFSAssumption
<1> QED  BY <1>4, <1>5 DEF oc

\* At the end the files are together at the beginning of the disk, in as many blocks
\* as before.
LEMMA AlFinal ==
  ASSUME NEW p, Levantado(p), NEW d, Compactando(d, CANT_BLOQUES, p),
         NEW a \in Nat \ {0}, a <= Cardinality(LibresSin(FAT[p]))
  PROVE  /\ Min(Bloques \ d.bitmap) = d.hueco /\ d.hueco \in Bloques
         /\ d.hueco + a <= CANT_BLOQUES
         /\ \A x \in Nat : x >= d.hueco => x \notin d.bitmap
<1>1. /\ Tabla(d.FAT, (DOMAIN FAT) \ {p}, d.bitmap) /\ DOMAIN d.FAT = DOMAIN FAT
      /\ d.hueco \in Nat /\ \A x \in Nat : x < d.hueco => x \in d.bitmap
      /\ CANT_BLOQUES \in Nat
  BY DialFSAssumption DEF Compactando
<1>2. \A j \in DOMAIN FAT : d.FAT[j] \in Entrada
  BY <1>1, EntradasDe
<1>3. ASSUME NEW x \in d.bitmap PROVE x \in Nat /\ x < d.hueco
  <2>1. PICK k \in (DOMAIN FAT) \ {p} : x \in BloquesDe(d.FAT[k])
    BY <1>1 DEF Tabla
  <2>2. x \in Nat /\ x < Fin(d.FAT[k]) /\ Fin(d.FAT[k]) \in Nat
    BY <1>2, <2>1, LugarDe
  <2>3. d.FAT[k].bloqueInicial < CANT_BLOQUES /\ d.FAT[k].bloqueInicial \in Nat
    <3>1. d.FAT[k].bloqueInicial \in Bloques
      BY <1>2, LugarDe
    <3> QED  BY <1>1, <3>1 DEF Bloques
  <2>4. Fin(d.FAT[k]) <= d.hueco
    BY <1>1, <2>1, <2>3 DEF Compactando
  <2> QED  BY <1>1, <2>2, <2>4
<1>4. d.bitmap = 0..(d.hueco - 1)
  <2>1. \A x : x \in d.bitmap <=> x \in 0..(d.hueco - 1)
    BY <1>1, <1>3
  <2> QED  BY <2>1
<1>5. Cardinality(d.bitmap) = d.hueco
  <2>1. 0 \in Int /\ d.hueco - 1 \in Int
    BY <1>1
  <2>2. Cardinality(0..(d.hueco - 1)) = IF 0 > d.hueco - 1 THEN 0 ELSE (d.hueco - 1) - 0 + 1
    BY <2>1, FS_Interval
  <2> QED  BY <1>1, <1>4, <2>2
<1>6. d.hueco + Cardinality(LibresSin(FAT[p])) = CANT_BLOQUES
  <2> DEFINE oc == bitmap \ BloquesDe(FAT[p])
  <2>1. LibresSin(FAT[p]) = Bloques \ oc /\ oc \in SUBSET Bloques
    BY LibresDe DEF Levantado, DiscoBueno, Tabla
  <2>2. Cardinality(oc) = d.hueco
    BY <1>5 DEF Compactando
  <2> HIDE DEF oc
  <2>3. IsFiniteSet(Bloques) /\ Bloques \cap oc = oc
    BY <2>1, BitmapFinito
  <2>4. Cardinality(Bloques \ oc) = Cardinality(Bloques) - Cardinality(Bloques \cap oc)
    BY <2>3, FS_Difference
  <2>5. Cardinality(Bloques) = CANT_BLOQUES
    <3>1. 0 \in Int /\ CANT_BLOQUES - 1 \in Int
      BY <1>1
    <3>2. Cardinality(0..(CANT_BLOQUES - 1))
            = IF 0 > CANT_BLOQUES - 1 THEN 0 ELSE (CANT_BLOQUES - 1) - 0 + 1
      BY <3>1, FS_Interval
    <3> QED  BY <1>1, <3>2 DEF Bloques
  <2> QED  BY <1>1, <2>1, <2>2, <2>3, <2>4, <2>5
<1>7. Cardinality(LibresSin(FAT[p])) \in Nat
  BY BitmapFinito DEF LibresSin
<1>8. d.hueco + a <= CANT_BLOQUES
  BY <1>1, <1>6, <1>7
<1>9. d.hueco \in Bloques \ d.bitmap
  BY <1>1, <1>3, <1>8 DEF Bloques
<1>10. Min(Bloques \ d.bitmap) = d.hueco
  <2>1. Bloques \ d.bitmap \in SUBSET Nat /\ Bloques \ d.bitmap # {}
    BY <1>9, DialFSAssumption DEF Bloques
  <2>2. PICK S : S = Bloques \ d.bitmap
    OBVIOUS
  <2>3. Min(S) \in S /\ Min(S) \in Nat /\ \A y \in S : Min(S) <= y
    BY <2>1, <2>2, MinEs
  <2>4. Min(S) <= d.hueco /\ ~ Min(S) < d.hueco
    BY <1>1, <1>9, <2>2, <2>3
  <2> QED  BY <1>1, <2>2, <2>3, <2>4
<1>11. \A x \in Nat : x >= d.hueco => x \notin d.bitmap
  BY <1>1, <1>3
<1> QED  BY <1>8, <1>9, <1>10, <1>11

\* Before a truncation to more blocks, the file to be truncated can be lifted.
LEMMA SePuedeLevantar ==
  ASSUME Prudentes, DiscoBueno, NEW n \in Archivos, NEW t \in Tamanios, PideTruncar(n, t)
  PROVE  Levantado(Posicion(n))
<1>1. Existe(n) /\ \A k \in DOMAIN FAT : FAT[k].largo = 0 => FAT[k].nombre = n
  BY DEF PideTruncar, Pide, Prudentes
<1>2. /\ Posicion(n) \in DOMAIN FAT
      /\ \A k \in DOMAIN FAT : FAT[k].nombre = n => k = Posicion(n)
  BY <1>1, PosicionDe DEF DiscoBueno
<1> QED  BY <1>1, <1>2 DEF Levantado

\* What a truncation that compacts leaves: the disk d of the end of the loop and, in the
\* hole, the file with its new entry and the bytes that were kept in the buffer.
Compactada(d, nueva, n, t) ==
  LET p == Posicion(n)
      e == FAT[p]
      destino == nueva.bloqueInicial * TAM_BLOQUE
      origen == e.bloqueInicial * TAM_BLOQUE
  IN /\ Compactando(d, CANT_BLOQUES, p) /\ Conserva(d, p)
     /\ nueva \in Entrada /\ nueva.nombre = n /\ nueva.largo = t
     /\ Fin(nueva) <= CANT_BLOQUES /\ BloquesDe(nueva) \cap d.bitmap = {}
     /\ BloquesAsignados(t) > BloquesAsignados(e.largo)
     /\ bitmap' = d.bitmap \cup BloquesDe(nueva)
     /\ BLOQUES' = [x \in Direcciones |-> IF x \in Rango(destino, e.largo)
                                          THEN BLOQUES[origen + (x - destino)] ELSE d.BLOQUES[x]]
     /\ FAT' = [d.FAT EXCEPT ![p] = nueva]
     /\ metadata' = GuardarEn(d.metadata, nueva)
     /\ caido' = caido

LEMMA CompactarDa ==
  ASSUME Prudentes, DiscoBueno, NEW n \in Archivos, NEW t \in Tamanios, Compactar(n, t)
  PROVE  /\ Posicion(n) \in DOMAIN FAT /\ FAT[Posicion(n)].nombre = n /\ Existe(n)
         /\ FAT[Posicion(n)] \in Entrada /\ t \in Nat
         /\ \E d, nueva : Compactada(d, nueva, n, t)
<1> DEFINE p == Posicion(n)
           e == FAT[p]
           a == BloquesAsignados(t)
           d == Compactado(Bloques \ LibresSin(e))
           h == Min(Bloques \ d.bitmap)
           nueva == [nombre |-> n, bloqueInicial |-> h, largo |-> t]
           buffer == [k \in Rango(0, e.largo) |-> BLOQUES[e.bloqueInicial * TAM_BLOQUE + k]]
<1>1. Existe(n) /\ TieneMetadata(n) /\ PideTruncar(n, t)
  BY ConMetadata DEF Compactar, PideTruncar
<1>2. /\ p \in DOMAIN FAT /\ FAT[p].nombre = n /\ e \in Entrada /\ Levantado(p)
  BY <1>1, PosicionDe, SePuedeLevantar DEF DiscoBueno
<1>3. t \in Nat /\ a \in Nat \ {0}
  BY DialFSAssumption, Asignados
<1>4. Compactando(d, CANT_BLOQUES, p) /\ Conserva(d, p)
  <2>1. CANT_BLOQUES \in 0..CANT_BLOQUES
    BY DialFSAssumption
  <2>2. Bloques \ LibresSin(FAT[p]) = bitmap \ BloquesDe(FAT[p])
    BY <1>2, LibresDe
  <2>3. d = Discos(bitmap \ BloquesDe(FAT[p]))[CANT_BLOQUES]
    BY <2>2 DEF Compactado, CompactadoHasta
  <2> HIDE DEF p, d
  <2>4. /\ Compactando(Discos(bitmap \ BloquesDe(FAT[p]))[CANT_BLOQUES], CANT_BLOQUES, p)
        /\ Conserva(Discos(bitmap \ BloquesDe(FAT[p]))[CANT_BLOQUES], p)
    BY <1>2, <2>1, Compacta
  <2> QED  BY <2>3, <2>4
<1>5. /\ a <= Cardinality(LibresSin(e)) /\ a > BloquesAsignados(e.largo)
      /\ bitmap' = d.bitmap \cup Rango(h, a)
      /\ BLOQUES' = [x \in Direcciones |-> IF x \in Rango(h * TAM_BLOQUE, e.largo)
                                           THEN buffer[x - h * TAM_BLOQUE] ELSE d.BLOQUES[x]]
      /\ FAT' = [d.FAT EXCEPT ![p] = nueva]
      /\ metadata' = GuardarEn(d.metadata, nueva)
      /\ caido' = caido
  <2>1. d.cae = FALSE
    BY <1>4 DEF Compactando
  <2> HIDE DEF d
  <2> QED  BY <1>1, <2>1 DEF Compactar, d
<1> HIDE DEF p, d
<1>6. /\ h = d.hueco /\ h \in Bloques /\ h + a <= CANT_BLOQUES
      /\ \A x \in Nat : x >= h => x \notin d.bitmap
  BY <1>2, <1>3, <1>4, <1>5, AlFinal
<1>7. h \in Nat
  BY <1>4, <1>6 DEF Compactando
<1> HIDE DEF h
<1>8. /\ nueva \in Entrada /\ nueva.nombre = n /\ nueva.largo = t /\ Fin(nueva) = h + a
      /\ BloquesDe(nueva) = Rango(h, a) /\ nueva.bloqueInicial = h
  BY <1>3, <1>6 DEF Entrada, Fin, BloquesDe
<1> HIDE DEF nueva
<1>9. BloquesDe(nueva) \cap d.bitmap = {}
  BY <1>3, <1>6, <1>7, <1>8 DEF Rango
<1>10. BLOQUES' = [x \in Direcciones |->
                    IF x \in Rango(h * TAM_BLOQUE, e.largo)
                    THEN BLOQUES[e.bloqueInicial * TAM_BLOQUE + (x - h * TAM_BLOQUE)]
                    ELSE d.BLOQUES[x]]
  <2> DEFINE alli == h * TAM_BLOQUE
  <2>1. alli \in Nat /\ e.largo \in Nat /\ CANT_BLOQUES * TAM_BLOQUE \in Nat
    BY <1>2, <1>7, LugarDe, DialFSAssumption
  <2> HIDE DEF alli, e, buffer
  <2>2. ASSUME NEW x \in Direcciones, x \in Rango(alli, e.largo)
        PROVE  x - alli \in Rango(0, e.largo)
    <3>1. x \in Nat
      BY <2>1 DEF Direcciones
    <3> QED  BY <2>1, <2>2, <3>1 DEF Rango
  <2>3. ASSUME NEW x \in Direcciones, x \in Rango(alli, e.largo)
        PROVE  buffer[x - alli] = BLOQUES[e.bloqueInicial * TAM_BLOQUE + (x - alli)]
    BY <2>2, <2>3 DEF buffer
  <2> QED  BY <1>5, <2>3 DEF alli
<1>11. Fin(nueva) <= CANT_BLOQUES
  BY <1>6, <1>8
<1>12. Compactada(d, nueva, n, t)
  <2> HIDE DEF buffer
  <2> QED  BY <1>4, <1>5, <1>8, <1>9, <1>10, <1>11 DEF Compactada, p
<1> QED  BY <1>1, <1>2, <1>3, <1>12 DEF p

LEMMA CompactarBien ==
  ASSUME Prudentes, DiscoBueno, NEW n \in Archivos, NEW t \in Tamanios, Compactar(n, t)
  PROVE  DiscoBueno'
<1> DEFINE p == Posicion(n)
           e == FAT[p]
<1>1. p \in DOMAIN FAT /\ FAT[p].nombre = n /\ e \in Entrada /\ t \in Nat
  BY CompactarDa
<1>2. PICK d, nueva : Compactada(d, nueva, n, t)
  BY CompactarDa
<1> DEFINE destino == nueva.bloqueInicial * TAM_BLOQUE
           origen == e.bloqueInicial * TAM_BLOQUE
<1>3. /\ Compactando(d, CANT_BLOQUES, p)
      /\ nueva \in Entrada /\ nueva.nombre = n /\ Fin(nueva) <= CANT_BLOQUES
      /\ BloquesDe(nueva) \cap d.bitmap = {}
      /\ bitmap' = d.bitmap \cup BloquesDe(nueva)
      /\ BLOQUES' = [x \in Direcciones |-> IF x \in Rango(destino, e.largo)
                                           THEN BLOQUES[origen + (x - destino)] ELSE d.BLOQUES[x]]
      /\ FAT' = [d.FAT EXCEPT ![p] = nueva] /\ metadata' = GuardarEn(d.metadata, nueva)
      /\ caido' = caido
  BY <1>2 DEF Compactada
<1> HIDE DEF p
<1>4. /\ Tabla(d.FAT, (DOMAIN FAT) \ {p}, d.bitmap) /\ DOMAIN d.FAT = DOMAIN FAT
      /\ d.metadata = ToSet(d.FAT) /\ d.FAT[p] = FAT[p]
      /\ d.BLOQUES \in [Direcciones -> Datos]
  BY <1>3 DEF Compactando
<1>5. Tabla(FAT', DOMAIN FAT', bitmap')
  <2>1. p \in (DOMAIN d.FAT) \ ((DOMAIN FAT) \ {p}) /\ nueva.nombre = d.FAT[p].nombre
    BY <1>1, <1>3, <1>4
  <2>2. Tabla([d.FAT EXCEPT ![p] = nueva], ((DOMAIN FAT) \ {p}) \cup {p},
              d.bitmap \cup BloquesDe(nueva))
    BY <1>3, <1>4, <2>1, Pone
  <2>3. DOMAIN FAT' = ((DOMAIN FAT) \ {p}) \cup {p}
    BY <1>1, <1>3, <1>4
  <2> QED  BY <1>3, <2>2, <2>3
<1>6. metadata' = ToSet(FAT')
  <2>1. p \in DOMAIN d.FAT /\ nueva.nombre = d.FAT[p].nombre
    BY <1>1, <1>3, <1>4
  <2>2. GuardarEn(ToSet(d.FAT), nueva) = ToSet([d.FAT EXCEPT ![p] = nueva])
    BY <1>4, <2>1, Guarda
  <2> QED  BY <1>3, <1>4, <2>2
<1>7. BLOQUES' \in [Direcciones -> Datos]
  <2>1. /\ origen \in Nat /\ e.largo \in Nat
        /\ origen + e.largo <= CANT_BLOQUES * TAM_BLOQUE
    BY <1>1, BytesDe
  <2>2. destino \in Nat /\ CANT_BLOQUES * TAM_BLOQUE \in Nat
    BY <1>3, LugarDe, DialFSAssumption
  <2> DEFINE fin == CANT_BLOQUES * TAM_BLOQUE
  <2>3. Direcciones = 0..(fin - 1)
    BY DEF Direcciones
  <2> HIDE DEF origen, destino, fin, e
  <2>4. ASSUME NEW x \in Direcciones, x \in Rango(destino, e.largo)
        PROVE  origen + (x - destino) \in Direcciones
    BY <2>1, <2>2, <2>3, <2>4 DEF Rango, fin
  <2>5. \A x \in Direcciones :
          (IF x \in Rango(destino, e.largo) THEN BLOQUES[origen + (x - destino)]
           ELSE d.BLOQUES[x]) \in Datos
    BY <1>4, <2>4 DEF DiscoBueno
  <2> QED  BY <1>3, <2>5
<1> QED  BY <1>3, <1>5, <1>6, <1>7 DEF DiscoBueno

-----------------------------------------------------------------------------
(***************************************************************************)
(* The theorems                                                            *)
(***************************************************************************)

\* What is asked for is of the files and the numbers of the configuration.
LEMMA LoQueSePide ==
  ASSUME NEW op \in Operaciones, NEW n \in Archivos, NEW o \in Nat, NEW l \in Nat
  PROVE  Peticion(op, n, o, l) \in Peticiones
  BY DEF Peticion, Peticiones

LEMMA SirveBien ==
  ASSUME NEW o \in Peticiones, Sirve(o)
  PROVE  leido' \in Seq(Datos) /\ peticion' \in Peticiones
  BY DEF Sirve

\* Every step but the truncation that finds no room.
LEMMA InvSiEntra ==
  ASSUME Prudentes, IInv, DialFSNext
  PROVE  IInv' \/ \E n \in Archivos, t \in Tamanios : NoEntra(n, t)
<1> SUFFICES ASSUME \A n \in Archivos, t \in Tamanios : ~ NoEntra(n, t)
             PROVE  IInv'
  OBVIOUS
<1>1. DiscoBueno
  BY DEF IInv
<1>2. \A n \in Archivos, op \in Operaciones, o \in Nat, l \in Nat : Peticion(op, n, o, l) \in Peticiones
  BY LoQueSePide
<1>3. ASSUME NEW o \in Peticiones, Sirve(o), DiscoBueno' PROVE IInv'
  BY <1>3, SirveBien DEF IInv
<1>4. /\ Tamanios \subseteq Nat /\ Offsets \subseteq Nat /\ Cadenas \subseteq Nat
      /\ {"IO_FS_CREATE", "IO_FS_DELETE", "IO_FS_TRUNCATE", "IO_FS_WRITE", "IO_FS_READ"} = Operaciones
  BY DialFSAssumption DEF Operaciones
<1>5. ASSUME NEW n \in Archivos, CrearFs(n), Sirve(Peticion("IO_FS_CREATE", n, 0, 0)) PROVE IInv'
  BY <1>1, <1>2, <1>3, <1>4, <1>5, CrearBien
<1>6. ASSUME NEW n \in Archivos, EliminarFs(n), Sirve(Peticion("IO_FS_DELETE", n, 0, 0)) PROVE IInv'
  BY <1>1, <1>2, <1>3, <1>4, <1>6, EliminarBien
<1>7. ASSUME NEW n \in Archivos, NEW t \in Tamanios, TruncarFs(n, t),
             Sirve(Peticion("IO_FS_TRUNCATE", n, 0, t))
      PROVE  IInv'
  <2>1. DiscoBueno'
    BY <1>1, <1>7, AchicarBien, MudarBien, CompactarBien DEF TruncarFs
  <2> QED  BY <1>2, <1>3, <1>4, <1>7, <2>1
<1>8. ASSUME NEW n \in Archivos, NEW o \in Offsets, NEW l \in Cadenas, EscribirFs(n, o, l),
             Sirve(Peticion("IO_FS_WRITE", n, o, l))
      PROVE  IInv'
  BY <1>1, <1>2, <1>3, <1>4, <1>8, EscribirBien
<1>9. ASSUME Reiniciar, Sirve(Ninguna) PROVE IInv'
  BY <1>1, <1>3, <1>9, ReiniciarBien DEF Peticiones
<1>10. ASSUME NEW n \in Archivos, NEW o \in Offsets, NEW l \in Cadenas, LeerFs(n, o, l),
              peticion' = Peticion("IO_FS_READ", n, o, l)
      PROVE  IInv'
  BY <1>1, <1>2, <1>4, <1>10, LeerBien DEF IInv
<1> QED  BY <1>5, <1>6, <1>7, <1>8, <1>9, <1>10 DEF DialFSNext

LEMMA InvQuieto ==
  ASSUME IInv, UNCHANGED dialfsVars
  PROVE  IInv'
  BY DEF IInv, DiscoBueno, dialfsVars, Tabla

LEMMA InvPaso ==
  ASSUME Cuidadosos, IInv, [DialFSNext]_dialfsVars
  PROVE  IInv'
<1>1. CASE DialFSNext
  BY <1>1, InvSiEntra, NuncaNoEntra DEF IInv, Cuidadosos
<1>2. CASE UNCHANGED dialfsVars
  BY <1>2, InvQuieto
<1> QED  BY <1>1, <1>2

LEMMA SiempreInv == Cuidadosos => (DialFSSpec => []IInv)
<1> SUFFICES ASSUME Cuidadosos PROVE DialFSSpec => []IInv
  OBVIOUS
<1>1. DialFSInit => IInv
  BY InvInit
<1>2. IInv /\ [DialFSNext]_dialfsVars => IInv'
  BY InvPaso
<1> QED  BY <1>1, <1>2, PTL DEF DialFSSpec

\* No operation, compaction and restarts included, leaks a block or gives away one in
\* use, whatever the blocks, the sizes and the names.
THEOREM NingunBloqueSePierde ==
  ASSUME Cuidadosos
  PROVE  DialFSSpec => []BitmapExacto
<1>1. IInv => BitmapExacto
  BY Implica
<1> QED  BY <1>1, SiempreInv, PTL

\* What a restart reads from the metadata is what the FAT said, also of the files that a
\* compaction moved on behalf of another.
THEOREM LaFatEstaEnDisco ==
  ASSUME Cuidadosos
  PROVE  DialFSSpec => []FatEnDisco
<1>1. IInv => FatEnDisco
  BY Implica
<1> QED  BY <1>1, SiempreInv, PTL

\* No operation uses the NULL that a search gives when it finds nothing, also in the
\* loop of compactar.
THEOREM NingunNulo ==
  ASSUME Cuidadosos
  PROVE  DialFSSpec => []SinNulos
<1>1. IInv => SinNulos
  BY Implica
<1> QED  BY <1>1, SiempreInv, PTL

\* The types: the first block of every file is one of the disk, and what bloques.dat
\* holds and a read gives are bytes that some program wrote, or zeros.
THEOREM DialFSTipos ==
  ASSUME Cuidadosos
  PROVE  DialFSSpec => []DialFSTypeOK
<1>1. IInv => DialFSTypeOK
  BY Implica
<1> QED  BY <1>1, SiempreInv, PTL

-----------------------------------------------------------------------------
(***************************************************************************)
(* The refinement: the store of independent files of module Almacen        *)
(***************************************************************************)

\* The store, as the refinement maps it.
Libro == [n \in Nombrados |-> Contenido(n)]

\* The store by the metadata, which keeps no order: the bytes of each entry are the
\* contents of the file it names.
LibroBueno ==
  /\ \A e \in metadata :
       /\ e \in Entrada /\ Fin(e) <= CANT_BLOQUES
       /\ e.nombre \in DOMAIN Libro /\ Libro[e.nombre] = Bytes(e, BLOQUES)
       /\ Bytes(e, BLOQUES) \in Seq(Datos) /\ Len(Bytes(e, BLOQUES)) = e.largo
  /\ \A n \in DOMAIN Libro : \E e \in metadata : e.nombre = n
  /\ \A e, g \in metadata : e.nombre = g.nombre => e = g
  /\ \A e, g \in metadata : e # g => BloquesDe(e) \cap BloquesDe(g) = {}
  /\ Libro = [n \in DOMAIN Libro |-> Libro[n]]

LEMMA ElLibro == DiscoBueno => LibroBueno
<1> SUFFICES ASSUME DiscoBueno PROVE LibroBueno
  OBVIOUS
<1>1. /\ Tabla(FAT, DOMAIN FAT, bitmap) /\ metadata = ToSet(FAT)
      /\ BLOQUES \in [Direcciones -> Datos]
  BY DEF DiscoBueno
<1>2. \A e \in metadata : \E k \in DOMAIN FAT : e = FAT[k]
  BY <1>1 DEF ToSet
<1>3. DOMAIN Libro = Nombrados /\ Libro = [n \in DOMAIN Libro |-> Libro[n]]
  BY DEF Libro
<1>4. ASSUME NEW e \in metadata
      PROVE  /\ e \in Entrada /\ Fin(e) <= CANT_BLOQUES
             /\ e.nombre \in DOMAIN Libro /\ Libro[e.nombre] = Bytes(e, BLOQUES)
             /\ Bytes(e, BLOQUES) \in Seq(Datos) /\ Len(Bytes(e, BLOQUES)) = e.largo
  <2>1. PICK k \in DOMAIN FAT : e = FAT[k]
    BY <1>2
  <2>2. e \in Entrada /\ Fin(e) <= CANT_BLOQUES
    BY <1>1, <2>1, EntradasDe, Levanta
  <2>3. e.nombre \in DOMAIN Libro
    BY <1>3, <2>1 DEF Nombrados
  <2>4. Libro[e.nombre] = Bytes(e, BLOQUES)
    <3>1. Existe(e.nombre)
      BY <2>1 DEF Existe, Entradas
    <3>2. Posicion(e.nombre) = k
      BY <1>1, <2>1, <3>1, PosicionDe
    <3>3. Libro[e.nombre] = Contenido(e.nombre)
      BY <1>3, <2>3 DEF Libro
    <3> QED  BY <2>1, <3>2, <3>3 DEF Contenido, Bytes
  <2>5. e.largo \in Nat
    BY <2>2, LugarDe
  <2>6. \A j \in 1..e.largo : BLOQUES[e.bloqueInicial * TAM_BLOQUE + j - 1] \in Datos
    BY <1>1, <2>2, LugarDeBytes
  <2>7. Bytes(e, BLOQUES) \in [1..e.largo -> Datos]
    BY <2>6 DEF Bytes
  <2> HIDE DEF Bytes
  <2>8. Bytes(e, BLOQUES) \in Seq(Datos) /\ Len(Bytes(e, BLOQUES)) = e.largo
    BY <2>5, <2>7
  <2> QED  BY <2>2, <2>3, <2>4, <2>8
<1>5. \A n \in DOMAIN Libro : \E e \in metadata : e.nombre = n
  BY <1>1, <1>3 DEF Nombrados, ToSet
<1>6. ASSUME NEW e \in metadata, NEW g \in metadata
      PROVE  /\ e.nombre = g.nombre => e = g
             /\ e # g => BloquesDe(e) \cap BloquesDe(g) = {}
  <2>1. PICK j \in DOMAIN FAT : e = FAT[j]
    BY <1>2
  <2>2. PICK k \in DOMAIN FAT : g = FAT[k]
    BY <1>2
  <2> QED  BY <1>1, <2>1, <2>2 DEF Tabla
<1> QED  BY <1>3, <1>4, <1>5, <1>6 DEF LibroBueno

LEMMA LibroDespues == DiscoBueno' => LibroBueno'
BY ElLibro, PTL

\* The other files are there after an operation on n as they were before.
Quietos(n) ==
  /\ \A e \in metadata : e.nombre # n =>
       \E g \in metadata' : g.nombre = e.nombre /\ Bytes(g, BLOQUES') = Bytes(e, BLOQUES)
  /\ \A g \in metadata' : g.nombre # n => \E e \in metadata : e.nombre = g.nombre

Aparta(n) ==
  \A m \in (DOMAIN Libro \cup DOMAIN Libro') \ {n} :
    m \in DOMAIN Libro /\ m \in DOMAIN Libro' /\ Libro'[m] = Libro[m]

LEMMA OtrosIgual ==
  ASSUME LibroBueno, LibroBueno', NEW n, Quietos(n)
  PROVE  Aparta(n)
<1> SUFFICES ASSUME NEW m \in (DOMAIN Libro \cup DOMAIN Libro') \ {n}
             PROVE  m \in DOMAIN Libro /\ m \in DOMAIN Libro' /\ Libro'[m] = Libro[m]
  BY DEF Aparta
<1>1. PICK e \in metadata : e.nombre = m
  <2>1. CASE m \in DOMAIN Libro
    BY <2>1 DEF LibroBueno
  <2>2. CASE m \in DOMAIN Libro'
    <3>1. PICK g \in metadata' : g.nombre = m
      BY <2>2 DEF LibroBueno
    <3> QED  BY <3>1 DEF Quietos
  <2> QED  BY <2>1, <2>2
<1>2. PICK g \in metadata' : g.nombre = m /\ Bytes(g, BLOQUES') = Bytes(e, BLOQUES)
  BY <1>1 DEF Quietos
<1>3. m \in DOMAIN Libro /\ Libro[m] = Bytes(e, BLOQUES)
  BY <1>1 DEF LibroBueno
<1>4. m \in DOMAIN Libro' /\ Libro'[m] = Bytes(g, BLOQUES')
  BY <1>2 DEF LibroBueno
<1> QED  BY <1>2, <1>3, <1>4

\* The store stays as it was if the entries and bloques.dat do.
LEMMA TodosIgual ==
  ASSUME LibroBueno, LibroBueno', metadata' = metadata, BLOQUES' = BLOQUES
  PROVE  Libro' = Libro
<1>1. \A n : Quietos(n)
  BY DEF Quietos
<1>2. \A m \in DOMAIN Libro \cup DOMAIN Libro' :
        m \in DOMAIN Libro /\ m \in DOMAIN Libro' /\ Libro'[m] = Libro[m]
  <2> SUFFICES ASSUME NEW m \in DOMAIN Libro \cup DOMAIN Libro'
               PROVE  m \in DOMAIN Libro /\ m \in DOMAIN Libro' /\ Libro'[m] = Libro[m]
    OBVIOUS
  <2>1. PICK n : n # m
    <3>1. m # 0 \/ m # 1
      OBVIOUS
    <3> QED  BY <3>1
  <2> QED  BY <1>1, <2>1, OtrosIgual DEF Aparta
<1>3. DOMAIN Libro = DOMAIN Libro'
  BY <1>2
<1>4. Libro = [n \in DOMAIN Libro |-> Libro[n]] /\ Libro' = [n \in DOMAIN Libro' |-> Libro'[n]]
  BY DEF LibroBueno
<1> QED  BY <1>2, <1>3, <1>4

\* What each operation does to the store.
LEMMA LibroCrea ==
  ASSUME Prudentes, DiscoBueno, DiscoBueno', NEW n \in Archivos, CrearFs(n),
         Sirve(Peticion("IO_FS_CREATE", n, 0, 0))
  PROVE  Archivero!Crear(n)
<1>1. LibroBueno /\ LibroBueno'
  BY ElLibro, LibroDespues
<1>2. n \notin DOMAIN Libro
  <2>1. \A k \in DOMAIN FAT : FAT[k].nombre # n
    BY DEF CrearFs, Pide, Prudentes, Existe, Entradas
  <2> QED  BY <2>1 DEF Libro, Nombrados
<1>3. PICK e : /\ e.nombre = n /\ e.largo = 0 /\ metadata' = GuardarEn(metadata, e)
               /\ BLOQUES' = BLOQUES
  BY DEF CrearFs, Guardar
<1>4. e \in metadata' /\ Quietos(n)
  BY <1>3 DEF GuardarEn, Quietos
<1>5. n \in DOMAIN Libro' /\ Libro'[n] = Bytes(e, BLOQUES') /\ Bytes(e, BLOQUES') \in Seq(Datos)
      /\ Len(Bytes(e, BLOQUES')) = 0
  BY <1>1, <1>3, <1>4 DEF LibroBueno
<1>6. Libro'[n] = <<>>
  BY <1>5
<1>7. Aparta(n)
  BY <1>1, <1>4, OtrosIgual
<1> QED  BY <1>2, <1>5, <1>6, <1>7
         DEF Libro, Aparta, Sirve, Peticion, Archivero!Crear, Archivero!Aparte, Archivero!Pide

LEMMA LibroElimina ==
  ASSUME Prudentes, DiscoBueno, DiscoBueno', NEW n \in Archivos, EliminarFs(n),
         Sirve(Peticion("IO_FS_DELETE", n, 0, 0))
  PROVE  Archivero!Eliminar(n)
<1>1. LibroBueno /\ LibroBueno'
  BY ElLibro, LibroDespues
<1>2. Existe(n) /\ TieneMetadata(n)
  BY LoQueUsaExiste, ConMetadata DEF EliminarFs
<1>3. metadata' = {m \in metadata : m.nombre # n} /\ BLOQUES' = BLOQUES
  BY <1>2 DEF EliminarFs
<1>4. n \in DOMAIN Libro
  BY <1>1, <1>2 DEF TieneMetadata, LibroBueno
<1>5. n \notin DOMAIN Libro'
  BY <1>1, <1>3 DEF LibroBueno
<1>6. Quietos(n)
  BY <1>3 DEF Quietos
<1>7. Aparta(n)
  BY <1>1, <1>6, OtrosIgual
<1> QED  BY <1>4, <1>5, <1>7
         DEF Libro, Aparta, Sirve, Peticion, Archivero!Eliminar, Archivero!Aparte, Archivero!Pide

\* The file that is truncated or written: e is its entry, g the one that takes its place.
LEMMA LibroCambia ==
  ASSUME LibroBueno, LibroBueno', NEW n, Quietos(n),
         NEW e \in metadata, e.nombre = n, NEW g \in metadata', g.nombre = n
  PROVE  /\ Aparta(n)
         /\ n \in DOMAIN Libro /\ Libro[n] = Bytes(e, BLOQUES)
         /\ n \in DOMAIN Libro' /\ Libro'[n] = Bytes(g, BLOQUES')
<1>1. n \in DOMAIN Libro /\ Libro[n] = Bytes(e, BLOQUES)
  BY DEF LibroBueno
<1>2. n \in DOMAIN Libro' /\ Libro'[n] = Bytes(g, BLOQUES')
  BY DEF LibroBueno
<1> QED  BY <1>1, <1>2, OtrosIgual

\* What Archivero!Truncar asks of the bytes.
Truncado(antes, despues, t) ==
  /\ Len(despues) = t
  /\ IF t <= Len(antes) THEN despues = SubSeq(antes, 1, t)
     ELSE \A k \in DOMAIN despues : despues[k] \in Datos

LEMMA LibroTrunca ==
  ASSUME LibroBueno, LibroBueno', NEW n, NEW t, Quietos(n),
         NEW e \in metadata, e.nombre = n, NEW g \in metadata', g.nombre = n,
         Truncado(Bytes(e, BLOQUES), Bytes(g, BLOQUES'), t),
         Sirve(Peticion("IO_FS_TRUNCATE", n, 0, t))
  PROVE  Archivero!Truncar(n, t)
<1>1. /\ Aparta(n)
      /\ n \in DOMAIN Libro /\ Libro[n] = Bytes(e, BLOQUES)
      /\ n \in DOMAIN Libro' /\ Libro'[n] = Bytes(g, BLOQUES')
  BY LibroCambia
<1>2. Truncado(Libro[n], Libro'[n], t)
  BY <1>1
<1> QED  BY <1>1, <1>2 DEF Libro, Aparta, Truncado, Sirve, Peticion, Archivero!Truncar,
                           Archivero!Sigue, Archivero!Aparte, Archivero!Pide

\* A file that is longer than before.
LEMMA Agrandado ==
  ASSUME LibroBueno', NEW g \in metadata', NEW s, Len(s) \in Nat, Len(s) < g.largo
  PROVE  Truncado(s, Bytes(g, BLOQUES'), g.largo)
<1>1. Bytes(g, BLOQUES') \in Seq(Datos) /\ Len(Bytes(g, BLOQUES')) = g.largo
  BY DEF LibroBueno
<1>2. \A k \in DOMAIN Bytes(g, BLOQUES') : Bytes(g, BLOQUES')[k] \in Datos
  BY <1>1
<1>3. g.largo \in Nat
  BY LugarDe DEF LibroBueno
<1>4. ~ g.largo <= Len(s)
  BY <1>3
<1> QED  BY <1>1, <1>2, <1>4 DEF Truncado

\* The entry of the file that is asked for.
LEMMA LaEntrada ==
  ASSUME DiscoBueno, NEW n, Existe(n)
  PROVE  /\ FAT[Posicion(n)] \in metadata /\ FAT[Posicion(n)].nombre = n
         /\ FAT[Posicion(n)] \in Entrada
<1>1. Posicion(n) \in DOMAIN FAT /\ FAT[Posicion(n)].nombre = n /\ FAT[Posicion(n)] \in Entrada
  BY PosicionDe DEF DiscoBueno
<1> QED  BY <1>1 DEF DiscoBueno, ToSet

LEMMA MasLargo ==
  ASSUME NEW l \in Nat, NEW t \in Nat, BloquesAsignados(t) > BloquesAsignados(l)
  PROVE  t > l
<1> DEFINE a == l + TAM_BLOQUE - 1
           b == t + TAM_BLOQUE - 1
           i == a \div TAM_BLOQUE
           j == b \div TAM_BLOQUE
<1> SUFFICES ASSUME t <= l PROVE FALSE
  OBVIOUS
<1>1. TAM_BLOQUE \in Nat \ {0}
  BY DialFSAssumption
<1>2. a \in Nat /\ b \in Nat /\ b <= a
  BY <1>1
<1>3. /\ i \in Nat /\ a < (i + 1) * TAM_BLOQUE
      /\ j \in Nat /\ j * TAM_BLOQUE <= b
  BY <1>1, <1>2
<1>4. CantBloques(l) = i /\ CantBloques(t) = j
  BY DEF CantBloques
<1> HIDE DEF a, b, i, j
<1>5. j > i
  <2>1. CASE j = 0
    BY <1>3, <1>4, <2>1 DEF BloquesAsignados
  <2>2. CASE j # 0
    BY <1>3, <1>4, <2>2 DEF BloquesAsignados
  <2> QED  BY <2>1, <2>2
<1>6. (i + 1) * TAM_BLOQUE <= j * TAM_BLOQUE
  BY <1>1, <1>3, <1>5
<1>7. (i + 1) * TAM_BLOQUE \in Nat /\ j * TAM_BLOQUE \in Nat
  BY <1>1, <1>3
<1> QED  BY <1>2, <1>3, <1>6, <1>7

LEMMA LibroAchica ==
  ASSUME Prudentes, DiscoBueno, DiscoBueno', NEW n \in Archivos, NEW t \in Tamanios,
         Achicar(n, t), Sirve(Peticion("IO_FS_TRUNCATE", n, 0, t))
  PROVE  Archivero!Truncar(n, t)
<1> DEFINE e == FAT[Posicion(n)]
           g == [e EXCEPT !.largo = t]
<1>1. LibroBueno /\ LibroBueno'
  BY ElLibro, LibroDespues
<1>2. Existe(n) /\ TieneMetadata(n)
  BY ConMetadata DEF Achicar, PideTruncar
<1>3. e \in metadata /\ e.nombre = n /\ e \in Entrada
  BY <1>2, LaEntrada
<1>4. /\ metadata' = {IF m.nombre = n THEN [m EXCEPT !.largo = t] ELSE m : m \in metadata}
      /\ BLOQUES' = BLOQUES
  BY <1>2 DEF Achicar
<1> HIDE DEF e
<1>5. t \in Nat
  BY DialFSAssumption
<1>6. g.nombre = n /\ g.largo = t /\ g.bloqueInicial = e.bloqueInicial
  BY <1>3, <1>5 DEF Entrada
<1>7. g \in metadata' /\ Quietos(n)
  <2>1. g \in metadata'
    BY <1>3, <1>4
  <2>2. \A m \in metadata : m.nombre # n => m \in metadata'
    BY <1>4
  <2>3. ASSUME NEW x \in metadata', x.nombre # n PROVE x \in metadata
    <3>1. PICK m \in metadata : x = IF m.nombre = n THEN [m EXCEPT !.largo = t] ELSE m
      BY <1>4, <2>3
    <3>2. m \in Entrada
      BY <1>1 DEF LibroBueno
    <3>3. m.nombre # n
      BY <2>3, <3>1, <3>2 DEF Entrada
    <3> QED  BY <3>1, <3>3
  <2> QED  BY <1>4, <2>1, <2>2, <2>3 DEF Quietos
<1> HIDE DEF g
<1>8. Len(Bytes(e, BLOQUES)) = e.largo /\ Bytes(e, BLOQUES) \in Seq(Datos) /\ e.largo \in Nat
      /\ Len(Bytes(g, BLOQUES')) = t /\ Bytes(g, BLOQUES') \in Seq(Datos)
  BY <1>1, <1>3, <1>6, <1>7, LugarDe DEF LibroBueno
<1>9. CASE t <= e.largo
  <2>1. Bytes(g, BLOQUES') = SubSeq(Bytes(e, BLOQUES), 1, t)
    BY <1>4, <1>5, <1>6, <1>8, <1>9 DEF Bytes
  <2>2. Truncado(Bytes(e, BLOQUES), Bytes(g, BLOQUES'), t)
    BY <1>8, <1>9, <2>1 DEF Truncado
  <2> QED  BY <1>1, <1>3, <1>6, <1>7, <2>2, LibroTrunca
<1>10. CASE e.largo < t
  <2>1. Truncado(Bytes(e, BLOQUES), Bytes(g, BLOQUES'), t)
    BY <1>1, <1>6, <1>7, <1>8, <1>10, Agrandado
  <2> QED  BY <1>1, <1>3, <1>6, <1>7, <2>1, LibroTrunca
<1> QED  BY <1>5, <1>8, <1>9, <1>10

LEMMA LibroMuda ==
  ASSUME Prudentes, DiscoBueno, DiscoBueno', NEW n \in Archivos, NEW t \in Tamanios,
         Mudar(n, t), Sirve(Peticion("IO_FS_TRUNCATE", n, 0, t))
  PROVE  Archivero!Truncar(n, t)
<1> DEFINE e == FAT[Posicion(n)]
           destino == e.bloqueInicial * TAM_BLOQUE
<1>1. LibroBueno /\ LibroBueno'
  BY ElLibro, LibroDespues
<1>2. Existe(n) /\ TieneMetadata(n)
  BY ConMetadata DEF Mudar, PideTruncar
<1>3. e \in metadata /\ e.nombre = n /\ e \in Entrada
  BY <1>2, LaEntrada
<1>4. PICK g, origen :
        /\ BloquesAsignados(t) > BloquesAsignados(e.largo)
        /\ g.nombre = n /\ g.largo = t
        /\ BLOQUES' \in Copias(BLOQUES, destino, origen, e.largo)
        /\ metadata' = GuardarEn(metadata, g)
  <2> DEFINE h == Min(Huecos(LibresSin(e), BloquesAsignados(t)))
             nueva == [nombre |-> n, bloqueInicial |-> h, largo |-> t]
  <2>1. /\ BloquesAsignados(t) > BloquesAsignados(e.largo)
        /\ BLOQUES' \in Copias(BLOQUES, destino, h * TAM_BLOQUE, e.largo)
        /\ metadata' = GuardarEn(metadata, nueva)
    BY <1>2 DEF Mudar, Guardar
  <2>2. nueva.nombre = n /\ nueva.largo = t
    OBVIOUS
  <2> HIDE DEF h, nueva, e, destino
  <2> QED  BY <2>1, <2>2
<1> HIDE DEF e
<1>5. t \in Nat /\ e.largo \in Nat
  BY <1>3, LugarDe, DialFSAssumption
<1>6. t > e.largo
  BY <1>4, <1>5, MasLargo
<1>7. \A x \in Direcciones : x \notin Rango(destino, e.largo) => BLOQUES'[x] = BLOQUES[x]
  BY <1>4 DEF Copias, Copiar, CopiarDeAUno
<1> HIDE DEF destino
<1>8. g \in metadata' /\ Quietos(n)
  <2>1. g \in metadata' /\ \A x : x \in metadata' /\ x.nombre # n <=> x \in metadata /\ x.nombre # n
    BY <1>4 DEF GuardarEn
  <2>2. ASSUME NEW x \in metadata, x.nombre # n PROVE Bytes(x, BLOQUES') = Bytes(x, BLOQUES)
    <3>1. BloquesDe(e) \cap BloquesDe(x) = {} /\ x \in Entrada /\ Fin(x) <= CANT_BLOQUES
      BY <1>1, <1>3, <2>2 DEF LibroBueno
    <3>2. \A y \in Direcciones : y \notin Rango(e.bloqueInicial * TAM_BLOQUE, e.largo)
                                   => BLOQUES'[y] = BLOQUES[y]
      BY <1>7 DEF destino
    <3> QED  BY <1>3, <3>1, <3>2, NoToca
  <2> QED  BY <2>1, <2>2 DEF Quietos
<1>9. Len(Bytes(e, BLOQUES)) \in Nat /\ Len(Bytes(e, BLOQUES)) < g.largo
  BY <1>1, <1>3, <1>4, <1>6, <1>5 DEF LibroBueno
<1>10. Truncado(Bytes(e, BLOQUES), Bytes(g, BLOQUES'), t)
  BY <1>1, <1>4, <1>8, <1>9, Agrandado
<1> QED  BY <1>1, <1>3, <1>4, <1>8, <1>10, LibroTrunca

LEMMA LibroCompacta ==
  ASSUME Prudentes, DiscoBueno, DiscoBueno', NEW n \in Archivos, NEW t \in Tamanios,
         Compactar(n, t), Sirve(Peticion("IO_FS_TRUNCATE", n, 0, t))
  PROVE  Archivero!Truncar(n, t)
<1> DEFINE p == Posicion(n)
           e == FAT[p]
<1>1. LibroBueno /\ LibroBueno'
  BY ElLibro, LibroDespues
<1>2. p \in DOMAIN FAT /\ e.nombre = n /\ Existe(n) /\ e \in Entrada /\ t \in Nat
  BY CompactarDa
<1>3. e \in metadata
  BY <1>2, LaEntrada
<1>4. PICK d, nueva : Compactada(d, nueva, n, t)
  BY CompactarDa
<1> DEFINE destino == nueva.bloqueInicial * TAM_BLOQUE
           origen == e.bloqueInicial * TAM_BLOQUE
<1>5. /\ Compactando(d, CANT_BLOQUES, p) /\ Conserva(d, p)
      /\ nueva \in Entrada /\ nueva.nombre = n /\ nueva.largo = t
      /\ BloquesDe(nueva) \cap d.bitmap = {}
      /\ BloquesAsignados(t) > BloquesAsignados(e.largo)
      /\ BLOQUES' = [x \in Direcciones |-> IF x \in Rango(destino, e.largo)
                                           THEN BLOQUES[origen + (x - destino)] ELSE d.BLOQUES[x]]
      /\ FAT' = [d.FAT EXCEPT ![p] = nueva]
  BY <1>4 DEF Compactada
<1>6. /\ Tabla(d.FAT, (DOMAIN FAT) \ {p}, d.bitmap) /\ DOMAIN d.FAT = DOMAIN FAT
      /\ \A k \in DOMAIN FAT : d.FAT[k].nombre = FAT[k].nombre
  BY <1>5 DEF Compactando
<1>7. metadata = ToSet(FAT) /\ metadata' = ToSet(FAT') /\ Tabla(FAT, DOMAIN FAT, bitmap)
  BY DEF DiscoBueno
<1> HIDE DEF p
<1>8. /\ DOMAIN FAT' = DOMAIN FAT /\ FAT'[p] = nueva
      /\ \A k \in (DOMAIN FAT) \ {p} : FAT'[k] = d.FAT[k]
  BY <1>2, <1>5, <1>6
<1>9. \A k \in DOMAIN FAT : FAT[k] \in metadata /\ FAT'[k] \in metadata'
  BY <1>7, <1>8 DEF ToSet
<1>10. nueva \in metadata'
  BY <1>2, <1>8, <1>9
<1> HIDE DEF e
<1>11. e.largo \in Nat /\ t > e.largo
  BY <1>2, <1>5, LugarDe, MasLargo
<1> HIDE DEF destino
<1>12. \A x \in Direcciones : x \notin Rango(destino, nueva.largo) => BLOQUES'[x] = d.BLOQUES[x]
  <2>1. destino \in Nat
    BY <1>5, LugarDe, DialFSAssumption DEF destino
  <2>2. Rango(destino, e.largo) \subseteq Rango(destino, nueva.largo)
    BY <1>2, <1>5, <1>11, <2>1 DEF Rango
  <2> QED  BY <1>5, <2>2
<1>13. ASSUME NEW k \in (DOMAIN FAT) \ {p}
       PROVE  Bytes(FAT'[k], BLOQUES') = Bytes(FAT[k], BLOQUES)
  <2>1. BloquesDe(nueva) \cap BloquesDe(d.FAT[k]) = {}
    <3>1. BloquesDe(d.FAT[k]) \subseteq d.bitmap
      BY <1>6 DEF Tabla
    <3> QED  BY <1>5, <3>1
  <2>2. d.FAT[k] \in Entrada /\ Fin(d.FAT[k]) <= CANT_BLOQUES
    BY <1>6, EntradasDe, Levanta
  <2>3. \A x \in Direcciones :
          x \notin Rango(nueva.bloqueInicial * TAM_BLOQUE, nueva.largo)
            => BLOQUES'[x] = d.BLOQUES[x]
    BY <1>12 DEF destino
  <2>4. Bytes(d.FAT[k], BLOQUES') = Bytes(d.FAT[k], d.BLOQUES)
    BY <1>5, <2>1, <2>2, <2>3, NoToca
  <2> QED  BY <1>5, <1>8, <2>4 DEF Conserva
<1>14. Quietos(n)
  <2>1. ASSUME NEW x \in metadata, x.nombre # n
        PROVE  \E g \in metadata' : g.nombre = x.nombre /\ Bytes(g, BLOQUES') = Bytes(x, BLOQUES)
    <3>1. PICK k \in DOMAIN FAT : x = FAT[k]
      BY <1>7 DEF ToSet
    <3>2. k # p
      BY <1>2, <2>1, <3>1 DEF e
    <3> QED  BY <1>6, <1>8, <1>9, <1>13, <3>1, <3>2
  <2>2. ASSUME NEW g \in metadata', g.nombre # n PROVE \E x \in metadata : x.nombre = g.nombre
    <3>1. PICK k \in DOMAIN FAT : g = FAT'[k]
      BY <1>7, <1>8 DEF ToSet
    <3>2. k # p
      BY <1>5, <1>8, <2>2, <3>1
    <3> QED  BY <1>6, <1>8, <1>9, <3>1, <3>2
  <2> QED  BY <2>1, <2>2 DEF Quietos
<1>15. Len(Bytes(e, BLOQUES)) \in Nat /\ Len(Bytes(e, BLOQUES)) < nueva.largo
  BY <1>1, <1>3, <1>5, <1>11 DEF LibroBueno, e
<1>16. Truncado(Bytes(e, BLOQUES), Bytes(nueva, BLOQUES'), t)
  BY <1>1, <1>5, <1>10, <1>15, Agrandado
<1>17. e \in metadata /\ e.nombre = n
  BY <1>2, <1>3 DEF e
<1> QED  BY <1>1, <1>5, <1>10, <1>14, <1>16, <1>17, LibroTrunca

LEMMA LibroEscribe ==
  ASSUME Prudentes, DiscoBueno, DiscoBueno', NEW n \in Archivos, NEW o \in Offsets,
         NEW l \in Cadenas, EscribirFs(n, o, l), Sirve(Peticion("IO_FS_WRITE", n, o, l))
  PROVE  Archivero!Escribir(n, o, l)
<1> DEFINE e == FAT[Posicion(n)]
           s == e.bloqueInicial * TAM_BLOQUE
<1>1. LibroBueno /\ LibroBueno'
  BY ElLibro, LibroDespues
<1>2. Existe(n)
  BY LoQueUsaExiste DEF EscribirFs
<1>3. e \in metadata /\ e.nombre = n /\ e \in Entrada /\ Fin(e) <= CANT_BLOQUES
  BY <1>1, <1>2, LaEntrada DEF LibroBueno
<1>4. /\ l <= e.largo - o
      /\ BLOQUES' = [d \in Direcciones |-> IF d \in Rango(s + o, l) THEN n ELSE BLOQUES[d]]
      /\ metadata' = metadata
  BY <1>2 DEF EscribirFs, EntraEnArchivo, Desde
<1> HIDE DEF e
<1>5. /\ o \in Nat /\ l \in Nat /\ e.largo \in Nat /\ s \in Nat
  BY <1>3, LugarDe, DialFSAssumption
<1> HIDE DEF s
<1>6. Rango(s + o, l) \subseteq Rango(s, e.largo)
  BY <1>4, <1>5 DEF Rango
<1>7. Quietos(n)
  <2>1. ASSUME NEW x \in metadata, x.nombre # n PROVE Bytes(x, BLOQUES') = Bytes(x, BLOQUES)
    <3>1. BloquesDe(e) \cap BloquesDe(x) = {} /\ x \in Entrada /\ Fin(x) <= CANT_BLOQUES
      BY <1>1, <1>3, <2>1 DEF LibroBueno
    <3>2. \A y \in Direcciones : y \notin Rango(e.bloqueInicial * TAM_BLOQUE, e.largo)
                                   => BLOQUES'[y] = BLOQUES[y]
      BY <1>4, <1>6 DEF s
    <3> QED  BY <1>3, <3>1, <3>2, NoToca
  <2> QED  BY <1>4, <2>1 DEF Quietos
<1> DEFINE antes == Bytes(e, BLOQUES)
           despues == Bytes(e, BLOQUES')
<1>8. /\ antes \in Seq(Datos) /\ Len(antes) = e.largo /\ Len(despues) = e.largo
  BY <1>1, <1>3, <1>4 DEF LibroBueno
<1>9. /\ \A k \in 1..e.largo : antes[k] = BLOQUES[s + k - 1]
      /\ \A k \in 1..e.largo : despues[k] = BLOQUES'[s + k - 1]
  BY DEF Bytes, s
<1>10. \A k \in 1..e.largo : s + k - 1 \in Direcciones
  BY <1>3, LugarDeBytes DEF s
<1>11. /\ Aparta(n)
       /\ n \in DOMAIN Libro /\ Libro[n] = antes
       /\ n \in DOMAIN Libro' /\ Libro'[n] = despues
  BY <1>1, <1>3, <1>4, <1>7, LibroCambia
<1> HIDE DEF antes, despues
<1>12. ASSUME NEW k \in 1..e.largo
       PROVE  despues[k] = IF o < k /\ k <= o + l THEN n ELSE antes[k]
  <2>1. s + k - 1 \in Rango(s + o, l) <=> o < k /\ k <= o + l
    BY <1>5 DEF Rango
  <2>2. despues[k] = IF s + k - 1 \in Rango(s + o, l) THEN n ELSE BLOQUES[s + k - 1]
    BY <1>4, <1>9, <1>10
  <2> QED  BY <1>9, <2>1, <2>2
<1>13. DOMAIN Libro[n] = 1..e.largo
  BY <1>8, <1>11
<1>14. o + l <= Len(Libro[n]) /\ Len(Libro'[n]) = Len(Libro[n])
  BY <1>4, <1>5, <1>8, <1>11
<1>15. \A k \in DOMAIN Libro[n] :
         Libro'[n][k] = IF o < k /\ k <= o + l THEN n ELSE Libro[n][k]
  BY <1>11, <1>12, <1>13
<1> QED  BY <1>11, <1>14, <1>15 DEF Libro, Aparta, Sirve, Peticion, Archivero!Escribir,
                                    Archivero!Sigue, Archivero!Aparte, Archivero!Pide

LEMMA LibroLee ==
  ASSUME Prudentes, "dentro" \in Cuidados, DiscoBueno, DiscoBueno', NEW n \in Archivos,
         NEW o \in Offsets, NEW l \in Cadenas, LeerFs(n, o, l),
         peticion' = Peticion("IO_FS_READ", n, o, l)
  PROVE  Archivero!Leer(n, o, l)
<1> DEFINE e == FAT[Posicion(n)]
           s == e.bloqueInicial * TAM_BLOQUE
           cant == Min({l, e.largo})
<1>1. LibroBueno /\ LibroBueno'
  BY ElLibro, LibroDespues
<1>2. Existe(n)
  BY LoQueUsaExiste DEF LeerFs
<1>3. e \in metadata /\ e.nombre = n /\ e \in Entrada /\ Fin(e) <= CANT_BLOQUES
  BY <1>1, <1>2, LaEntrada DEF LibroBueno
<1>4. o + l <= e.largo /\ metadata' = metadata /\ BLOQUES' = BLOQUES
  BY <1>2 DEF LeerFs
<1>5. PICK resto : leido' = [k \in 1..cant |-> LET d == Desde(e, o) + k - 1 IN
                              IF d \in Direcciones THEN BLOQUES[d] ELSE resto]
  BY <1>2 DEF LeerFs
<1> HIDE DEF e
<1>6. o \in Nat /\ l \in Nat /\ e.largo \in Nat /\ s \in Nat
  BY <1>3, LugarDe, DialFSAssumption
<1>7. cant = l
  <2>1. {l, e.largo} \in SUBSET Nat /\ {l, e.largo} # {} /\ l \in {l, e.largo}
    BY <1>6
  <2>2. cant \in {l, e.largo} /\ \A y \in {l, e.largo} : cant <= y
    BY ONLY <2>1, MinEs
  <2> HIDE DEF cant
  <2> QED  BY <1>4, <1>6, <2>2
<1> HIDE DEF cant
<1>8. Libro' = Libro
  BY <1>1, <1>4, TodosIgual
<1>9. ASSUME NEW k \in 1..l PROVE leido'[k] = Bytes(e, BLOQUES)[o + k]
  <2>1. o + k \in 1..e.largo
    BY <1>4, <1>6
  <2>2. s + (o + k) - 1 \in Direcciones
    BY <1>3, <2>1, LugarDeBytes DEF s
  <2>3. Desde(e, o) + k - 1 = s + (o + k) - 1
    <3>1. Desde(e, o) = s + o
      BY DEF Desde, s
    <3> HIDE DEF s
    <3> QED  BY <1>6, <3>1
  <2>4. leido'[k] = BLOQUES[s + (o + k) - 1]
    BY <1>5, <1>7, <2>2, <2>3
  <2> QED  BY <2>1, <2>4 DEF Bytes, s
<1> HIDE DEF s
<1> DEFINE libro == Bytes(e, BLOQUES)
           trozo == SubSeq(libro, o + 1, o + l)
<1>10. libro \in Seq(Datos) /\ Len(libro) = e.largo
  BY <1>1, <1>3 DEF LibroBueno
<1>11. n \in DOMAIN Libro /\ Libro[n] = libro
  BY <1>1, <1>3 DEF LibroBueno
<1>12. DOMAIN leido' = 1..l /\ leido' = [k \in 1..l |-> leido'[k]]
  BY <1>5, <1>7
<1>13. \A k \in 1..l : leido'[k] = libro[o + k]
  BY <1>9
<1> HIDE DEF libro
<1>14. leido' = trozo
  <2>1. /\ trozo \in Seq(Datos) /\ Len(trozo) = l
        /\ \A k \in 1..l : trozo[k] = libro[o + k]
    <3>1. CASE l = 0
      <4>1. o + l < o + 1
        BY <1>6, <3>1
      <4>2. trozo = <<>>
        BY <1>6, <1>10, <4>1
      <4> HIDE DEF trozo
      <4> QED  BY <1>6, <3>1, <4>2
    <3>2. CASE l # 0
      <4>1. Len(trozo) = l
        BY <1>4, <1>6, <1>10, <3>2
      <4>2. trozo \in Seq(Datos)
        BY <1>4, <1>6, <1>10, <3>2
      <4>3. \A k \in 1..l : trozo[k] = libro[o + k]
        BY <1>4, <1>6, <1>10, <3>2
      <4> QED  BY <4>1, <4>2, <4>3
    <3> QED  BY <3>1, <3>2
  <2> HIDE DEF trozo
  <2>2. trozo = [k \in 1..l |-> trozo[k]]
    BY <1>6, <2>1
  <2>3. trozo = [k \in 1..l |-> leido'[k]]
    BY <1>13, <2>1, <2>2
  <2> QED  BY <1>12, <2>3
<1>15. o + l <= Len(Libro[n]) /\ leido' = SubSeq(Libro[n], o + 1, o + l)
  BY <1>4, <1>10, <1>11, <1>14
<1> QED  BY <1>8, <1>11, <1>15 DEF Libro, Peticion, Archivero!Leer, Archivero!Pide

LEMMA LibroInit == DialFSInit => Archivero!Iniciar
<1> SUFFICES ASSUME DialFSInit PROVE Archivero!Iniciar
  OBVIOUS
<1>1. FAT = <<>> /\ leido = <<>>
  BY DEF DialFSInit
<1>2. Nombrados = {}
  BY <1>1 DEF Nombrados
<1> QED  BY <1>1, <1>2 DEF Archivero!Iniciar

LEMMA LibroPaso ==
  ASSUME Cuidadosos, "dentro" \in Cuidados, IInv, [DialFSNext]_dialfsVars
  PROVE  [Archivero!Quieto \/ Archivero!Siguiente]_Archivero!vars
<1> DEFINE Meta == [Archivero!Quieto \/ Archivero!Siguiente]_Archivero!vars
<1> SUFFICES Meta
  OBVIOUS
<1> Prudentes
  BY DEF Cuidadosos
<1>1. DiscoBueno /\ DiscoBueno'
  BY InvPaso DEF IInv
<1>2. ASSUME NEW n \in Archivos,
             \/ Archivero!Crear(n) \/ Archivero!Eliminar(n)
             \/ \E t \in Tamanios : Archivero!Truncar(n, t)
             \/ \E o \in Offsets, l \in Cadenas :
                  Archivero!Escribir(n, o, l) \/ Archivero!Leer(n, o, l)
      PROVE  Meta
  BY <1>2 DEF Archivero!Siguiente
<1> HIDE DEF Meta
<1>4. CASE DialFSNext
  <2>1. ASSUME NEW n \in Archivos, CrearFs(n), Sirve(Peticion("IO_FS_CREATE", n, 0, 0)) PROVE Meta
    BY <1>1, <1>2, <2>1, LibroCrea
  <2>2. ASSUME NEW n \in Archivos, EliminarFs(n), Sirve(Peticion("IO_FS_DELETE", n, 0, 0)) PROVE Meta
    BY <1>1, <1>2, <2>2, LibroElimina
  <2>3. ASSUME NEW n \in Archivos, NEW t \in Tamanios, TruncarFs(n, t),
               Sirve(Peticion("IO_FS_TRUNCATE", n, 0, t))
        PROVE  Meta
    <3>1. Archivero!Truncar(n, t)
      BY <1>1, <2>3, LibroAchica, LibroMuda, NuncaNoEntra, LibroCompacta DEF TruncarFs
    <3> QED  BY <1>2, <3>1
  <2>4. ASSUME NEW n \in Archivos, NEW o \in Offsets, NEW l \in Cadenas, EscribirFs(n, o, l),
               Sirve(Peticion("IO_FS_WRITE", n, o, l))
        PROVE  Meta
    BY <1>1, <1>2, <2>4, LibroEscribe
  <2>5. ASSUME Reiniciar, Sirve(Ninguna) PROVE Meta
    <3>1. Libro' = Libro
      BY <1>1, <2>5, ElLibro, LibroDespues, TodosIgual DEF Reiniciar
    <3>2. Archivero!Quieto
      BY <2>5, <3>1 DEF Sirve, Ninguna, Libro, Archivero!Quieto
    <3> QED  BY <3>2 DEF Meta
  <2>6. ASSUME NEW n \in Archivos, NEW o \in Offsets, NEW l \in Cadenas, LeerFs(n, o, l),
               peticion' = Peticion("IO_FS_READ", n, o, l)
        PROVE  Meta
    BY <1>1, <1>2, <2>6, LibroLee
  <2> QED  BY <1>4, <2>1, <2>2, <2>3, <2>4, <2>5, <2>6 DEF DialFSNext
<1>5. CASE UNCHANGED dialfsVars
  <2>1. Libro' = Libro
    BY <1>1, <1>5, ElLibro, LibroDespues, TodosIgual DEF dialfsVars
  <2> QED  BY <1>5, <2>1 DEF Meta, dialfsVars, Libro, Archivero!vars
<1> QED  BY <1>4, <1>5

\* Whatever the blocks, the sizes and the names, the FAT, the bitmap, the metadata and
\* bloques.dat together are a store of independent files: every operation does what was
\* asked to the file it names, at the place it names, and neither an operation on another,
\* compacting the disk included, nor a restart touches its bytes.
THEOREM DialFSEsUnAlmacen ==
  ASSUME Cuidadosos, "dentro" \in Cuidados
  PROVE  DialFSSpec => CumpleAlmacen
<1>1. DialFSInit => IInv /\ Archivero!Iniciar
  BY InvInit, LibroInit
<1>2. IInv /\ [DialFSNext]_dialfsVars => IInv'
  BY InvPaso
<1>3. IInv /\ [DialFSNext]_dialfsVars
        => [Archivero!Quieto \/ Archivero!Siguiente]_Archivero!vars
  BY LibroPaso
<1> QED  BY <1>1, <1>2, <1>3, PTL DEF DialFSSpec, CumpleAlmacen, Archivero!Especificacion
-----------------------------------------------------------------------------
(***************************************************************************)
(* Deaths of the interface: what a restart keeps of the files              *)
(***************************************************************************)

\* The restart that finds the disk d keeps the k-th file of the FAT: its metadata file
\* is there, and names blocks that are marked and hold its bytes.
Sobrevive(d, k) ==
  \E g \in d.metadata :
    /\ g.nombre = FAT[k].nombre /\ \A m \in d.metadata : m.nombre = g.nombre => m = g
    /\ Bytes(g, d.BLOQUES) = Bytes(FAT[k], BLOQUES)
    /\ BloquesDe(g) \subseteq d.bitmap

\* It keeps all but n and m.
Salva(d, n, m) ==
  /\ IsFiniteSet(d.metadata)
  /\ \A k \in DOMAIN FAT : FAT[k].nombre \notin {n, m} => Sobrevive(d, k)

LEMMA Arrancado ==
  ASSUME DiscoBueno, NEW d, Arranca(d), NEW n, NEW m, Salva(d, n, m), NEW f \in Nombrados \ {n, m}
  PROVE  /\ f \in Nombrados' /\ Contenido(f)' = Contenido(f)
         /\ BloquesDe(FAT[Posicion(f)])' \subseteq bitmap'
<1>1. /\ FAT' \in SetToSeqs(d.metadata) /\ bitmap' = d.bitmap /\ BLOQUES' = d.BLOQUES
      /\ IsFiniteSet(d.metadata)
  BY DEF Arranca, Salva
<1>2. /\ DOMAIN FAT' = 1..Len(FAT') /\ ToSet(FAT') = d.metadata /\ DOMAIN FAT' \in SUBSET Nat
  <2>1. DOMAIN FAT' = 1..Len(FAT') /\ ToSet(FAT') = d.metadata /\ FAT' \in Seq(d.metadata)
    BY <1>1, Ordenados
  <2>2. Len(FAT') \in Nat
    BY <2>1
  <2> QED  BY <2>1, <2>2
<1>3. Existe(f)
  BY DEF Nombrados, Existe, Entradas
<1>4. Posicion(f) \in DOMAIN FAT /\ FAT[Posicion(f)].nombre = f
  BY <1>3, PosicionDe DEF DiscoBueno
<1>5. PICK g \in d.metadata :
        /\ g.nombre = f /\ \A x \in d.metadata : x.nombre = f => x = g
        /\ Bytes(g, d.BLOQUES) = Bytes(FAT[Posicion(f)], BLOQUES)
        /\ BloquesDe(g) \subseteq d.bitmap
  BY <1>4 DEF Salva, Sobrevive
<1>6. \E k \in DOMAIN FAT' : FAT'[k] = g
  BY <1>2 DEF ToSet
<1>7. \A k \in DOMAIN FAT' : FAT'[k].nombre = f => FAT'[k] = g
  BY <1>2, <1>5 DEF ToSet
<1> DEFINE E == {k \in DOMAIN FAT' : FAT'[k].nombre = f}
<1>8. Min(E) \in E
  <2>1. E \in SUBSET Nat /\ E # {}
    BY <1>2, <1>5, <1>6
  <2> HIDE DEF E
  <2> QED  BY <2>1, MinEs
<1>9. Posicion(f)' = Min(E)
  BY DEF Posicion, Entradas
<1>10. FAT'[Posicion(f)'] = g
  BY <1>7, <1>8, <1>9
<1>11. f \in Nombrados'
  BY <1>5, <1>6 DEF Nombrados
<1>12. Contenido(f)' = Bytes(g, d.BLOQUES)
  BY <1>1, <1>10 DEF Contenido, Bytes
<1>13. Contenido(f) = Bytes(FAT[Posicion(f)], BLOQUES)
  BY DEF Contenido, Bytes
<1>14. BloquesDe(FAT[Posicion(f)])' \subseteq bitmap'
  <2>1. BloquesDe(FAT[Posicion(f)])' = BloquesDe(g)
    BY <1>10 DEF BloquesDe
  <2> QED  BY <1>1, <1>5, <2>1
<1> QED  BY <1>5, <1>11, <1>12, <1>13, <1>14

-----------------------------------------------------------------------------
(***************************************************************************)
(* What an operation writes                                                *)
(***************************************************************************)

\* The disk r is d but for the blocks of e, whose bits may have been cleared, the bytes of
\* g, and the metadata file of that name.
Tocado(r, d, e, g) ==
  /\ r = [bitmap |-> r.bitmap, metadata |-> r.metadata, BLOQUES |-> r.BLOQUES, roto |-> r.roto]
  /\ d.bitmap \ BloquesDe(e) \subseteq r.bitmap
  /\ \A x \in Direcciones :
       x \notin Rango(g.bloqueInicial * TAM_BLOQUE, g.largo) => r.BLOQUES[x] = d.BLOQUES[x]
  /\ \/ r.metadata = d.metadata
     \/ \E x : /\ x.nombre = g.nombre
               /\ r.metadata \in {{m \in d.metadata : m.nombre # x.nombre}, GuardarEn(d.metadata, x)}

\* The fields of a disk, one of them changed.
LEMMA CambiaDisco ==
  ASSUME NEW r, r = [bitmap |-> r.bitmap, metadata |-> r.metadata, BLOQUES |-> r.BLOQUES,
                     roto |-> r.roto], NEW x
  PROVE  /\ [r EXCEPT !.bitmap = x] = [bitmap |-> x, metadata |-> r.metadata,
                                       BLOQUES |-> r.BLOQUES, roto |-> r.roto]
         /\ [r EXCEPT !.BLOQUES = x] = [bitmap |-> r.bitmap, metadata |-> r.metadata,
                                        BLOQUES |-> x, roto |-> r.roto]
         /\ [r EXCEPT !.metadata = x] = [bitmap |-> r.bitmap, metadata |-> x,
                                         BLOQUES |-> r.BLOQUES, roto |-> r.roto]
         /\ [r EXCEPT !.roto = x] = [bitmap |-> r.bitmap, metadata |-> r.metadata,
                                     BLOQUES |-> r.BLOQUES, roto |-> x]
<1>1. PICK a, m, c, o : r.bitmap = a /\ r.metadata = m /\ r.BLOQUES = c /\ r.roto = o
  OBVIOUS
<1>2. r = [bitmap |-> a, metadata |-> m, BLOQUES |-> c, roto |-> o]
  BY <1>1
<1>3. [r EXCEPT !.bitmap = x] = [bitmap |-> x, metadata |-> m, BLOQUES |-> c, roto |-> o]
  BY ONLY <1>2
<1>4. [r EXCEPT !.BLOQUES = x] = [bitmap |-> a, metadata |-> m, BLOQUES |-> x, roto |-> o]
  BY ONLY <1>2
<1>5. [r EXCEPT !.metadata = x] = [bitmap |-> a, metadata |-> x, BLOQUES |-> c, roto |-> o]
  BY ONLY <1>2
<1>6. [r EXCEPT !.roto = x] = [bitmap |-> a, metadata |-> m, BLOQUES |-> c, roto |-> x]
  BY ONLY <1>2
<1> QED  BY <1>1, <1>3, <1>4, <1>5, <1>6

LEMMA VaciaDisco ==
  ASSUME NEW r, r = [bitmap |-> r.bitmap, metadata |-> r.metadata, BLOQUES |-> r.BLOQUES,
                     roto |-> r.roto], NEW a, NEW t
  PROVE  [r EXCEPT !.metadata = a, !.roto = t]
           = [bitmap |-> r.bitmap, metadata |-> a, BLOQUES |-> r.BLOQUES, roto |-> t]
<1>1. PICK q : q = [r EXCEPT !.metadata = a]
  OBVIOUS
<1>2. q = [bitmap |-> r.bitmap, metadata |-> a, BLOQUES |-> r.BLOQUES, roto |-> r.roto]
  BY <1>1, CambiaDisco
<1>3. [q EXCEPT !.roto = t]
        = [bitmap |-> q.bitmap, metadata |-> q.metadata, BLOQUES |-> q.BLOQUES, roto |-> t]
  BY <1>2, CambiaDisco
<1>4. [r EXCEPT !.metadata = a, !.roto = t] = [q EXCEPT !.roto = t]
  BY ONLY <1>1
<1> QED  BY <1>2, <1>3, <1>4

LEMMA TocadoNada ==
  ASSUME NEW d, NEW e, NEW g
  PROVE  Tocado(Disco(d), d, e, g)
  BY DEF Tocado, Disco

LEMMA TocadoLimpiando ==
  ASSUME NEW d, NEW e, NEW g, NEW r, Tocado(r, d, e, g), NEW i \in Nat, NEW n \in Nat,
         Rango(i, n) \subseteq BloquesDe(e)
  PROVE  /\ \A s \in Limpiando(r, i, n) : Tocado(s, d, e, g) /\ s.metadata = r.metadata
         /\ Limpio(r, i, n) \in Limpiando(r, i, n)
<1>1. ASSUME NEW k \in 0..n
      PROVE  Tocado(Limpio(r, i, k), d, e, g) /\ Limpio(r, i, k).metadata = r.metadata
  <2>1. Rango(i, k) \subseteq BloquesDe(e)
    BY DEF Rango
  <2>2. Limpio(r, i, k) = [bitmap |-> r.bitmap \ Rango(i, k), metadata |-> r.metadata,
                           BLOQUES |-> r.BLOQUES, roto |-> r.roto]
    BY CambiaDisco DEF Limpio, Tocado
  <2> QED  BY <2>1, <2>2 DEF Tocado
<1>2. n \in 0..n
  OBVIOUS
<1> QED  BY <1>1, <1>2 DEF Limpiando

LEMMA TocadoMarcando ==
  ASSUME NEW d, NEW e, NEW g, NEW r, Tocado(r, d, e, g), NEW i, NEW n \in Nat
  PROVE  /\ \A s \in Marcando(r, i, n) : Tocado(s, d, e, g) /\ s.metadata = r.metadata
         /\ Marcado(r, i, n) \in Marcando(r, i, n)
         /\ Marcado(r, i, n).BLOQUES = r.BLOQUES
<1>1. ASSUME NEW k
      PROVE  /\ Tocado(Marcado(r, i, k), d, e, g) /\ Marcado(r, i, k).metadata = r.metadata
             /\ Marcado(r, i, k).BLOQUES = r.BLOQUES
  <2>1. Marcado(r, i, k) = [bitmap |-> r.bitmap \cup Rango(i, k), metadata |-> r.metadata,
                            BLOQUES |-> r.BLOQUES, roto |-> r.roto]
    BY CambiaDisco DEF Marcado, Tocado
  <2> QED  BY <2>1 DEF Tocado
<1>2. n \in 0..n
  OBVIOUS
<1> QED  BY <1>1, <1>2 DEF Marcando

\* Other bytes, where g has its own.
LEMMA TocadoBytes ==
  ASSUME NEW d, NEW e, NEW g, NEW r, Tocado(r, d, e, g), NEW c,
         \A x \in Direcciones :
           x \notin Rango(g.bloqueInicial * TAM_BLOQUE, g.largo) => c[x] = r.BLOQUES[x]
  PROVE  /\ Tocado([r EXCEPT !.BLOQUES = c], d, e, g)
         /\ [r EXCEPT !.BLOQUES = c].metadata = r.metadata
<1>1. [r EXCEPT !.BLOQUES = c] = [bitmap |-> r.bitmap, metadata |-> r.metadata,
                                  BLOQUES |-> c, roto |-> r.roto]
  BY CambiaDisco DEF Tocado
<1> QED  BY <1>1 DEF Tocado

LEMMA TocadoCopiando ==
  ASSUME NEW d, NEW e, NEW g, NEW r, Tocado(r, d, e, g), NEW origen, NEW destino \in Nat,
         NEW n \in Nat, destino = g.bloqueInicial * TAM_BLOQUE, n = g.largo
  PROVE  /\ \A s \in Copiando(r, destino, origen, n) :
              Tocado(s, d, e, g) /\ s.metadata = r.metadata
         /\ \A c \in Copias(r.BLOQUES, destino, origen, n) :
              [r EXCEPT !.BLOQUES = c] \in Copiando(r, destino, origen, n)
<1>1. ASSUME NEW k \in 0..n, NEW c \in Copias(r.BLOQUES, destino, origen, k)
      PROVE  /\ Tocado([r EXCEPT !.BLOQUES = c], d, e, g)
             /\ [r EXCEPT !.BLOQUES = c].metadata = r.metadata
  <2>1. ASSUME NEW x \in Direcciones, x \notin Rango(destino, n)
        PROVE  c[x] = r.BLOQUES[x]
    <3>1. x \notin Rango(destino, k)
      BY <2>1 DEF Rango
    <3> QED  BY <3>1 DEF Copias, Copiar, CopiarDeAUno
  <2> QED  BY <2>1, TocadoBytes
<1>2. n \in 0..n
  OBVIOUS
<1>3. \A s : s \in Copiando(r, destino, origen, n) <=>
              \E k \in 0..n : \E c \in Copias(r.BLOQUES, destino, origen, k) :
                s = [r EXCEPT !.BLOQUES = c]
  BY DEF Copiando
<1>4. ASSUME NEW s \in Copiando(r, destino, origen, n)
      PROVE  Tocado(s, d, e, g) /\ s.metadata = r.metadata
  <2>1. PICK k \in 0..n :
          \E c \in Copias(r.BLOQUES, destino, origen, k) : s = [r EXCEPT !.BLOQUES = c]
    BY <1>3
  <2> QED  BY <1>1, <2>1
<1> QED  BY <1>2, <1>3, <1>4

LEMMA TocadoGuardando ==
  ASSUME NEW d, NEW e, NEW g, NEW r, Tocado(r, d, e, g), r.metadata = d.metadata,
         NEW x, x.nombre = g.nombre
  PROVE  /\ \A s \in Guardando(r, x) : Tocado(s, d, e, g)
         /\ Tocado([r EXCEPT !.metadata = GuardarEn(@, x)], d, e, g)
<1>1. /\ [r EXCEPT !.metadata = {m \in @ : m.nombre # x.nombre}, !.roto = TRUE]
           = [bitmap |-> r.bitmap, metadata |-> {m \in d.metadata : m.nombre # x.nombre},
              BLOQUES |-> r.BLOQUES, roto |-> TRUE]
      /\ [r EXCEPT !.metadata = GuardarEn(@, x)]
           = [bitmap |-> r.bitmap, metadata |-> GuardarEn(d.metadata, x),
              BLOQUES |-> r.BLOQUES, roto |-> r.roto]
  <2>1. r = [bitmap |-> r.bitmap, metadata |-> r.metadata, BLOQUES |-> r.BLOQUES, roto |-> r.roto]
    BY DEF Tocado
  <2> DEFINE a == {m \in d.metadata : m.nombre # x.nombre}
             b == GuardarEn(d.metadata, x)
  <2> HIDE DEF a, b
  <2>2. \A t : [r EXCEPT !.metadata = a, !.roto = t]
                = [bitmap |-> r.bitmap, metadata |-> a, BLOQUES |-> r.BLOQUES, roto |-> t]
    BY <2>1, VaciaDisco
  <2>3. [r EXCEPT !.metadata = b]
          = [bitmap |-> r.bitmap, metadata |-> b, BLOQUES |-> r.BLOQUES, roto |-> r.roto]
    BY <2>1, CambiaDisco
  <2>4. [r EXCEPT !.metadata = a, !.roto = TRUE]
          = [bitmap |-> r.bitmap, metadata |-> a, BLOQUES |-> r.BLOQUES, roto |-> TRUE]
    BY <2>2, Zenon
  <2> QED  BY <2>3, <2>4 DEF a, b
<1>2. Tocado([bitmap |-> r.bitmap, metadata |-> {m \in d.metadata : m.nombre # x.nombre},
              BLOQUES |-> r.BLOQUES, roto |-> TRUE], d, e, g)
  BY DEF Tocado
<1>3. Tocado([bitmap |-> r.bitmap, metadata |-> GuardarEn(d.metadata, x),
              BLOQUES |-> r.BLOQUES, roto |-> r.roto], d, e, g)
  BY DEF Tocado
<1> QED  BY <1>1, <1>2, <1>3 DEF Guardando

LEMMA TocadoFinito ==
  ASSUME NEW d, NEW e, NEW g, NEW r, Tocado(r, d, e, g), IsFiniteSet(d.metadata)
  PROVE  IsFiniteSet(r.metadata)
<1>1. \A x : IsFiniteSet({m \in d.metadata : m.nombre # x.nombre})
  <2> SUFFICES ASSUME NEW x PROVE IsFiniteSet({m \in d.metadata : m.nombre # x.nombre})
    OBVIOUS
  <2>1. {m \in d.metadata : m.nombre # x.nombre} \in SUBSET d.metadata
    OBVIOUS
  <2> QED  BY <2>1, FS_Subset
<1>2. \A x : IsFiniteSet(GuardarEn(d.metadata, x))
  BY <1>1, FS_AddElement DEF GuardarEn
<1> QED  BY <1>1, <1>2 DEF Tocado

\* A file of other blocks and another name survives.
LEMMA TocadoAparte ==
  ASSUME NEW d, NEW P, Tabla(d.FAT, P, d.bitmap), d.metadata = ToSet(d.FAT),
         NEW e \in Entrada, NEW g \in Entrada, NEW r, Tocado(r, d, e, g), NEW k \in P,
         d.FAT[k].nombre = FAT[k].nombre, Bytes(d.FAT[k], d.BLOQUES) = Bytes(FAT[k], BLOQUES),
         d.FAT[k].nombre # g.nombre, BloquesDe(e) \cap BloquesDe(d.FAT[k]) = {},
         BloquesDe(g) \cap BloquesDe(d.FAT[k]) = {}
  PROVE  Sobrevive(r, k)
<1> DEFINE f == d.FAT[k]
<1>1. f \in Entrada /\ k \in DOMAIN d.FAT /\ Fin(f) <= CANT_BLOQUES /\ BloquesDe(f) \subseteq d.bitmap
  <2>1. Tabla(d.FAT, P, d.bitmap)
    OBVIOUS
  <2>2. BloquesDe(f) \subseteq d.bitmap /\ Fin(f) <= CANT_BLOQUES
    BY <2>1, Levanta
  <2> QED  BY <2>1, <2>2, EntradasDe DEF Tabla
<1>2. \A m : m.nombre # g.nombre => (m \in r.metadata <=> m \in d.metadata)
  BY DEF Tocado, GuardarEn
<1>3. f \in d.metadata /\ \A m \in d.metadata : m.nombre = f.nombre => m = f
  <2>1. \A j \in DOMAIN d.FAT : d.FAT[j].nombre = f.nombre => j = k
    BY <1>1 DEF Tabla
  <2> QED  BY <1>1, <2>1 DEF ToSet
<1>4. Bytes(f, r.BLOQUES) = Bytes(f, d.BLOQUES)
  BY <1>1, NoToca DEF Tocado
<1>5. BloquesDe(f) \subseteq r.bitmap
  BY <1>1 DEF Tocado
<1> QED  BY <1>2, <1>3, <1>4, <1>5 DEF Sobrevive

-----------------------------------------------------------------------------
(***************************************************************************)
(* Deaths in the operations that do not compact: d is the disk before.     *)
(***************************************************************************)

Base == DiscoInicial(bitmap)

LEMMA BaseEs ==
  /\ Antes = Disco(Base) /\ Base.bitmap = bitmap /\ Base.metadata = metadata
  /\ Base.BLOQUES = BLOQUES /\ Base.FAT = FAT
  BY DEF Antes, Disco, Base, DiscoInicial

LEMMA AntesEs ==
  ASSUME NEW e, NEW g
  PROVE  /\ Tocado(Antes, Base, e, g)
         /\ Antes.bitmap = bitmap /\ Antes.metadata = metadata /\ Antes.BLOQUES = BLOQUES
<1>1. Tocado(Antes, Base, e, g)
  BY BaseEs, TocadoNada
<1> QED  BY <1>1 DEF Antes, Disco

\* Writes that touch the blocks of no other file.
LEMMA SalvaOtros ==
  ASSUME DiscoBueno, NEW n, NEW e \in Entrada, NEW g \in Entrada, g.nombre = n,
         NEW r, Tocado(r, Base, e, g),
         \A k \in DOMAIN FAT : FAT[k].nombre # n =>
           BloquesDe(e) \cap BloquesDe(FAT[k]) = {} /\ BloquesDe(g) \cap BloquesDe(FAT[k]) = {}
  PROVE  Salva(r, n, n)
<1>1. /\ Tabla(Base.FAT, DOMAIN FAT, Base.bitmap) /\ Base.metadata = ToSet(Base.FAT)
      /\ FAT \in Seq(Entrada)
  BY BaseEs DEF DiscoBueno, Tabla
<1>2. IsFiniteSet(r.metadata)
  BY <1>1, BaseEs, ListaFinita, TocadoFinito
<1>3. ASSUME NEW k \in DOMAIN FAT, FAT[k].nombre # n
      PROVE  Sobrevive(r, k)
  <2>1. /\ Base.FAT[k] = FAT[k]
        /\ Bytes(Base.FAT[k], Base.BLOQUES) = Bytes(FAT[k], BLOQUES)
    BY BaseEs
  <2> QED  BY <1>1, <1>3, <2>1, TocadoAparte
<1> QED  BY <1>2, <1>3 DEF Salva

\* Those of an operation that touches its own file only.
LEMMA SalvaPropio ==
  ASSUME DiscoBueno, NEW n, Existe(n), NEW r,
         Tocado(r, Base, FAT[Posicion(n)], FAT[Posicion(n)])
  PROVE  Salva(r, n, n)
<1>1. /\ Posicion(n) \in DOMAIN FAT /\ FAT[Posicion(n)].nombre = n
      /\ FAT[Posicion(n)] \in Entrada
  BY PosicionDe DEF DiscoBueno
<1>2. \A k \in DOMAIN FAT : FAT[k].nombre # n =>
        BloquesDe(FAT[Posicion(n)]) \cap BloquesDe(FAT[k]) = {}
  BY <1>1 DEF DiscoBueno, Tabla
<1> QED  BY <1>1, <1>2, SalvaOtros

LEMMA CorteCrea ==
  ASSUME Prudentes, DiscoBueno, NEW n \in Archivos, NEW d \in CortesCrear(n)
  PROVE  Salva(d, n, n)
<1> DEFINE h == Min(Bloques \ bitmap)
           e == [nombre |-> n, bloqueInicial |-> h, largo |-> 0]
           marcado == Marcado(Antes, h, 1)
<1>1. Bloques \ bitmap # {} /\ d \in {marcado} \cup Guardando(marcado, e)
  BY DEF CortesCrear
<1>2. h \in Bloques \ bitmap /\ h \in Nat
  <2>1. Bloques \ bitmap \in SUBSET Nat
    BY DialFSAssumption DEF Bloques
  <2> QED  BY <1>1, <2>1, MinEs
<1> HIDE DEF h
<1>3. e \in Entrada /\ e.nombre = n /\ BloquesDe(e) = {h}
  <2>1. e \in Entrada /\ e.nombre = n /\ e.bloqueInicial = h /\ e.largo = 0
    BY <1>2 DEF Entrada
  <2>2. BloquesAsignados(0) = 1
    BY Asignados
  <2> QED  BY <1>2, <2>1, <2>2 DEF BloquesDe, Rango
<1> HIDE DEF e
<1>4. Tocado(marcado, Base, e, e) /\ marcado.metadata = Base.metadata
  BY AntesEs, BaseEs, TocadoMarcando
<1> HIDE DEF marcado
<1>5. Tocado(d, Base, e, e)
  BY <1>1, <1>4, TocadoGuardando
<1>6. \A k \in DOMAIN FAT : BloquesDe(FAT[k]) \subseteq bitmap
  BY Levanta DEF DiscoBueno
<1> QED  BY <1>2, <1>3, <1>5, <1>6, SalvaOtros

\* The entry of a file of the FAT, for the operations on it.
LEMMA DelArchivo ==
  ASSUME DiscoBueno, NEW n, Existe(n), NEW e, e = FAT[Posicion(n)]
  PROVE  /\ e \in Entrada /\ e.nombre = n /\ e.bloqueInicial \in Nat /\ e.largo \in Nat
         /\ Posicion(n) \in DOMAIN FAT
         /\ CantBloques(e.largo) \in Nat /\ CantBloques(e.largo) <= BloquesAsignados(e.largo)
         /\ BloquesAsignados(e.largo) \in Nat
<1>1. e \in Entrada /\ e.nombre = n /\ Posicion(n) \in DOMAIN FAT
  BY PosicionDe DEF DiscoBueno
<1>2. e.bloqueInicial \in Nat /\ e.largo \in Nat
  BY <1>1, LugarDe
<1> QED  BY <1>1, <1>2, Asignados DEF BloquesAsignados

LEMMA CorteElimina ==
  ASSUME DiscoBueno, NEW n, Existe(n), NEW d \in CortesEliminar(n)
  PROVE  Salva(d, n, n)
<1>1. PICK e : e = FAT[Posicion(n)]
  OBVIOUS
<1>2. d \in Limpiando(Antes, e.bloqueInicial, CantBloques(e.largo))
  BY <1>1 DEF CortesEliminar
<1>3. Rango(e.bloqueInicial, CantBloques(e.largo)) \subseteq BloquesDe(e)
  BY <1>1, DelArchivo DEF BloquesDe, Rango
<1>4. Tocado(d, Base, e, e)
  BY <1>1, <1>2, <1>3, DelArchivo, AntesEs, TocadoLimpiando
<1> QED  BY <1>1, <1>4, SalvaPropio

LEMMA CorteAchica ==
  ASSUME DiscoBueno, NEW n, Existe(n), NEW t \in Tamanios,
         BloquesAsignados(t) <= BloquesAsignados(FAT[Posicion(n)].largo),
         NEW d \in CortesAchicar(n, t)
  PROVE  Salva(d, n, n)
<1>1. PICK e : e = FAT[Posicion(n)]
  OBVIOUS
<1> DEFINE i == e.bloqueInicial + BloquesAsignados(t)
           s == BloquesAsignados(e.largo) - BloquesAsignados(t)
           x == [e EXCEPT !.largo = t]
<1>2. d \in Limpiando(Antes, i, s) \cup Guardando(Limpio(Antes, i, s), x)
  BY <1>1 DEF CortesAchicar
<1>3. i \in Nat /\ s \in Nat /\ Rango(i, s) \subseteq BloquesDe(e) /\ x.nombre = e.nombre
  <2>1. BloquesAsignados(t) \in Nat
    BY Asignados, DialFSAssumption
  <2>2. /\ e \in Entrada /\ e.bloqueInicial \in Nat /\ BloquesAsignados(e.largo) \in Nat
    BY <1>1, DelArchivo
  <2>3. x.nombre = e.nombre
    BY <2>2 DEF Entrada
  <2> QED  BY <1>1, <2>1, <2>2, <2>3 DEF BloquesDe, Rango
<1> HIDE DEF i, s, x
<1>4. /\ \A r \in Limpiando(Antes, i, s) : Tocado(r, Base, e, e) /\ r.metadata = Base.metadata
      /\ Limpio(Antes, i, s) \in Limpiando(Antes, i, s)
  <2>1. Tocado(Antes, Base, e, e) /\ Antes.metadata = Base.metadata
    BY AntesEs, BaseEs
  <2> QED  BY <1>3, <2>1, TocadoLimpiando
<1>5. Tocado(d, Base, e, e)
  BY <1>2, <1>3, <1>4, TocadoGuardando
<1> QED  BY <1>1, <1>5, SalvaPropio

LEMMA CorteLevanta ==
  ASSUME DiscoBueno, NEW n, Existe(n), NEW d \in CortesLevantar(n)
  PROVE  Salva(d, n, n)
<1>1. PICK e : e = FAT[Posicion(n)]
  OBVIOUS
<1>2. d \in Limpiando(Antes, e.bloqueInicial, BloquesAsignados(e.largo))
  BY <1>1 DEF CortesLevantar
<1>3. Rango(e.bloqueInicial, BloquesAsignados(e.largo)) \subseteq BloquesDe(e)
  BY DEF BloquesDe
<1>4. Tocado(d, Base, e, e)
  BY <1>1, <1>2, <1>3, DelArchivo, AntesEs, TocadoLimpiando
<1> QED  BY <1>1, <1>4, SalvaPropio

\* The memcpy of a file that moves has its old place as the destination.
LEMMA CorteMuda ==
  ASSUME DiscoBueno, NEW n, Existe(n), NEW t \in Tamanios,
         Huecos(LibresSin(FAT[Posicion(n)]), BloquesAsignados(t)) # {},
         NEW d \in CortesMudar(n, t)
  PROVE  Salva(d, n, n)
<1>1. PICK e : e = FAT[Posicion(n)]
  OBVIOUS
<1> DEFINE b == BloquesAsignados(t)
           h == Min(Huecos(LibresSin(e), b))
           levantado == [Antes EXCEPT !.bitmap = Bloques \ LibresSin(e)]
           marcado == Marcado(levantado, h, b)
           destino == e.bloqueInicial * TAM_BLOQUE
           origen == h * TAM_BLOQUE
           nueva == [nombre |-> n, bloqueInicial |-> h, largo |-> t]
<1>2. d \in Marcando(levantado, h, b) \cup Copiando(marcado, destino, origen, e.largo)
            \cup UNION {Guardando([marcado EXCEPT !.BLOQUES = c], nueva) :
                          c \in Copias(BLOQUES, destino, origen, e.largo)}
  BY <1>1 DEF CortesMudar
<1>3. /\ e \in Entrada /\ e.nombre = n /\ e.largo \in Nat /\ destino \in Nat
      /\ b \in Nat /\ nueva.nombre = e.nombre
  <2>1. destino \in Nat
    BY <1>1, DelArchivo, BytesDe
  <2> QED  BY <1>1, <2>1, DelArchivo, Asignados, DialFSAssumption
<1>4. /\ Tocado(levantado, Base, e, e) /\ levantado.metadata = Base.metadata
      /\ levantado.BLOQUES = BLOQUES
  <2>1. Bloques \ LibresSin(e) = bitmap \ BloquesDe(e)
    BY <1>1, DelArchivo, LibresDe
  <2>2. PICK x : x = Bloques \ LibresSin(e)
    OBVIOUS
  <2>3. [Antes EXCEPT !.bitmap = x] = [bitmap |-> x, metadata |-> metadata,
                                       BLOQUES |-> BLOQUES, roto |-> Antes.roto]
    BY AntesEs, CambiaDisco DEF Tocado
  <2> QED  BY <2>1, <2>2, <2>3, BaseEs DEF Tocado
<1> HIDE DEF b, h, levantado, destino, nueva, origen
<1>5. /\ \A r \in Marcando(levantado, h, b) : Tocado(r, Base, e, e)
      /\ Tocado(marcado, Base, e, e) /\ marcado.metadata = Base.metadata
      /\ marcado.BLOQUES = BLOQUES
  BY <1>3, <1>4, TocadoMarcando
<1> HIDE DEF marcado
<1>6. /\ \A r \in Copiando(marcado, destino, origen, e.largo) :
           Tocado(r, Base, e, e) /\ r.metadata = Base.metadata
      /\ \A c \in Copias(BLOQUES, destino, origen, e.largo) :
           [marcado EXCEPT !.BLOQUES = c] \in Copiando(marcado, destino, origen, e.largo)
  BY <1>3, <1>5, TocadoCopiando DEF destino
<1>7. \A r \in Copiando(marcado, destino, origen, e.largo) :
        \A s \in Guardando(r, nueva) : Tocado(s, Base, e, e)
  BY <1>3, <1>6, TocadoGuardando
<1>8. Tocado(d, Base, e, e)
  <2>1. CASE d \in Marcando(levantado, h, b) \cup Copiando(marcado, destino, origen, e.largo)
    BY <1>5, <1>6, <2>1
  <2>2. CASE \E c \in Copias(BLOQUES, destino, origen, e.largo) :
               d \in Guardando([marcado EXCEPT !.BLOQUES = c], nueva)
    BY <1>6, <1>7, <2>2
  <2> QED  BY <1>2, <2>1, <2>2
<1> QED  BY <1>1, <1>8, SalvaPropio

LEMMA CorteEscribe ==
  ASSUME DiscoBueno, NEW n, Existe(n), NEW o \in Offsets, NEW l \in Cadenas,
         NEW d \in CortesEscribir(n, o, l)
  PROVE  Salva(d, n, n)
<1>1. PICK e : e = FAT[Posicion(n)]
  OBVIOUS
<1> DEFINE c(k) == [x \in Direcciones |-> IF x \in Rango(Desde(e, o), k) THEN n
                                          ELSE BLOQUES[x]]
<1>2. EntraEnArchivo(e, o, l) /\ \E k \in 0..l : d = [Antes EXCEPT !.BLOQUES = c(k)]
  BY <1>1, AntesEs DEF CortesEscribir
<1>3. PICK k \in 0..l : d = [Antes EXCEPT !.BLOQUES = c(k)]
  BY <1>2
<1>4. /\ o \in Nat /\ l \in Nat /\ e.largo \in Nat /\ e.bloqueInicial * TAM_BLOQUE \in Nat
      /\ l <= e.largo - o
  <2>1. e.bloqueInicial * TAM_BLOQUE \in Nat
    BY <1>1, DelArchivo, BytesDe
  <2> QED  BY <1>1, <1>2, <2>1, DelArchivo, DialFSAssumption DEF EntraEnArchivo
<1>5. ASSUME NEW x \in Direcciones, x \notin Rango(e.bloqueInicial * TAM_BLOQUE, e.largo)
      PROVE  c(k)[x] = Antes.BLOQUES[x]
  <2> DEFINE desde == e.bloqueInicial * TAM_BLOQUE
  <2>1. Rango(desde + o, k) \subseteq Rango(desde, e.largo)
    <3>1. desde \in Nat
      BY <1>4
    <3> HIDE DEF desde
    <3> QED  BY <1>4, <3>1 DEF Rango
  <2>2. x \notin Rango(Desde(e, o), k)
    BY <1>5, <2>1 DEF Desde
  <2> QED  BY <2>2, AntesEs
<1> HIDE DEF c
<1>6. Tocado(d, Base, e, e)
  BY <1>3, <1>5, AntesEs, TocadoBytes
<1> QED  BY <1>1, <1>6, SalvaPropio

-----------------------------------------------------------------------------
(***************************************************************************)
(* Deaths in the compaction                                                *)
(***************************************************************************)

\* Writes on a disk of the loop that touch the blocks of no file but m.
LEMMA SalvaElResto ==
  ASSUME NEW p, Levantado(p), NEW i, NEW d, Compactando(d, i, p), Conserva(d, p), NEW m,
         NEW e \in Entrada, NEW g \in Entrada, g.nombre \in {FAT[p].nombre, m},
         NEW r, Tocado(r, d, e, g),
         \A k \in (DOMAIN FAT) \ {p} : FAT[k].nombre # m =>
           /\ BloquesDe(e) \cap BloquesDe(d.FAT[k]) = {}
           /\ BloquesDe(g) \cap BloquesDe(d.FAT[k]) = {}
  PROVE  Salva(r, FAT[p].nombre, m)
<1> DEFINE P == (DOMAIN FAT) \ {p}
<1>1. /\ Tabla(d.FAT, P, d.bitmap) /\ d.metadata = ToSet(d.FAT)
      /\ \A k \in DOMAIN FAT : d.FAT[k].nombre = FAT[k].nombre
  BY DEF Compactando
<1>2. IsFiniteSet(r.metadata)
  <2>1. d.FAT \in Seq(Entrada)
    BY <1>1 DEF Tabla
  <2>2. IsFiniteSet(d.metadata)
    BY <1>1, <2>1, ListaFinita
  <2> QED  BY <2>2, TocadoFinito
<1> HIDE DEF P
<1>3. ASSUME NEW k \in DOMAIN FAT, FAT[k].nombre \notin {FAT[p].nombre, m}
      PROVE  Sobrevive(r, k)
  <2>1. k \in P /\ k \in (DOMAIN FAT) \ {p}
    BY <1>3 DEF P
  <2>2. /\ d.FAT[k].nombre = FAT[k].nombre /\ d.FAT[k].nombre # g.nombre
        /\ Bytes(d.FAT[k], d.BLOQUES) = Bytes(FAT[k], BLOQUES)
    BY <1>1, <1>3, <2>1 DEF Conserva
  <2>3. /\ BloquesDe(e) \cap BloquesDe(d.FAT[k]) = {}
        /\ BloquesDe(g) \cap BloquesDe(d.FAT[k]) = {}
    BY <1>3, <2>1
  <2> QED  BY <1>1, <2>1, <2>2, <2>3, TocadoAparte
<1> QED  BY <1>2, <1>3 DEF Salva

\* The writes of a move, in their order: e is the entry that moves to the hole.
LEMMA TocadoMoviendo ==
  ASSUME NEW d, NEW e \in Entrada, NEW g \in Entrada, NEW i \in Nat, NEW n \in Nat,
         g = [e EXCEPT !.bloqueInicial = d.hueco], d.hueco \in Nat,
         BloquesDe(e) = Rango(i, n),
         NEW guardado, guardado = [Disco(d) EXCEPT !.metadata = GuardarEn(@, g)],
         NEW limpio, limpio = Limpio(guardado, i, n)
  PROVE  \A r \in Guardando(Disco(d), g) \cup Limpiando(guardado, i, n)
                 \cup Marcando(limpio, d.hueco, n)
                 \cup Copiando(Marcado(limpio, d.hueco, n), d.hueco * TAM_BLOQUE,
                               i * TAM_BLOQUE, e.largo) :
           Tocado(r, d, e, g)
<1>1. g.bloqueInicial = d.hueco /\ g.largo = e.largo /\ e.largo \in Nat
  BY DEF Entrada
<1>2. Tocado(Disco(d), d, e, g) /\ Disco(d).metadata = d.metadata
  BY TocadoNada DEF Disco
<1>3. /\ \A s \in Guardando(Disco(d), g) : Tocado(s, d, e, g)
      /\ Tocado(guardado, d, e, g)
  BY <1>2, TocadoGuardando
<1>4. Rango(i, n) \subseteq BloquesDe(e)
  OBVIOUS
<1>5. /\ \A s \in Limpiando(guardado, i, n) : Tocado(s, d, e, g)
      /\ Tocado(limpio, d, e, g)
  BY <1>3, <1>4, TocadoLimpiando
<1>6. /\ \A s \in Marcando(limpio, d.hueco, n) : Tocado(s, d, e, g)
      /\ Tocado(Marcado(limpio, d.hueco, n), d, e, g)
  BY <1>5, TocadoMarcando
<1>7. \A s \in Copiando(Marcado(limpio, d.hueco, n), d.hueco * TAM_BLOQUE, i * TAM_BLOQUE,
                        e.largo) : Tocado(s, d, e, g)
  <2>1. PICK marcado, destino, origen, l :
          /\ marcado = Marcado(limpio, d.hueco, n) /\ destino = d.hueco * TAM_BLOQUE
          /\ origen = i * TAM_BLOQUE /\ l = e.largo
    OBVIOUS
  <2>2. destino \in Nat /\ l \in Nat /\ Tocado(marcado, d, e, g)
    BY <1>1, <1>6, <2>1, DialFSAssumption
  <2>3. destino = g.bloqueInicial * TAM_BLOQUE /\ l = g.largo
    BY <1>1, <2>1
  <2>4. \A s \in Copiando(marcado, destino, origen, l) : Tocado(s, d, e, g)
    BY ONLY <2>2, <2>3, TocadoCopiando
  <2> QED  BY <2>1, <2>4
<1> QED  BY <1>3, <1>5, <1>6, <1>7

\* A file is being moved: only that one is harmed, besides the one to be truncated.
LEMMA CorteMueve ==
  ASSUME NEW p, Levantado(p), NEW i \in Nat, NEW d, Compactando(d, i, p), Conserva(d, p),
         NEW r \in CortesMover(d, i)
  PROVE  \E m \in Archivos : Salva(r, FAT[p].nombre, m)
<1> DEFINE inicial(j) == d.FAT[j].bloqueInicial = i /\ CantBloques(d.FAT[j].largo) > 0
           c == Min({j \in DOMAIN d.FAT : inicial(j)})
<1>1. /\ d.hueco <= i /\ i \in d.bitmap /\ DOMAIN d.FAT = DOMAIN FAT /\ d.hueco \in Nat
      /\ Tabla(d.FAT, (DOMAIN FAT) \ {p}, d.bitmap)
  <2>1. /\ DOMAIN d.FAT = DOMAIN FAT /\ d.hueco \in Nat
        /\ Tabla(d.FAT, (DOMAIN FAT) \ {p}, d.bitmap)
    BY DEF Compactando
  <2>2. ~ (i < d.hueco \/ i \notin d.bitmap)
    BY DEF CortesMover
  <2> QED  BY <2>1, <2>2
<1>2. PICK k \in (DOMAIN FAT) \ {p} :
         /\ d.FAT[k] = FAT[k] /\ FAT[k].bloqueInicial = i /\ FAT[k].largo # 0
         /\ d.FAT[k] \in Entrada
         /\ \A j \in DOMAIN FAT : d.FAT[j].bloqueInicial = i => j = k
  BY <1>1, EmpiezaAhi
<1> DEFINE e == d.FAT[k]
           n == BloquesAsignados(e.largo)
           g == [e EXCEPT !.bloqueInicial = d.hueco]
<1>3. MovidoBien(d, i, p, k)
  BY <1>1, <1>2, SeMueve
<1>4. CantBloques(e.largo) = n /\ n \in Nat \ {0} /\ e.largo \in Nat
  <2>1. e.largo \in Nat /\ e.largo # 0
    BY <1>2, LugarDe
  <2> QED  BY <2>1, Asignados
<1>5. c = k
  <2>1. k \in Nat
    <3>1. DOMAIN d.FAT = 1..Len(d.FAT) /\ Len(d.FAT) \in Nat
      BY <1>1, EntradasDe
    <3> QED  BY <1>1, <1>2, <3>1
  <2>2. inicial(k)
    BY <1>2, <1>4
  <2>3. {j \in DOMAIN d.FAT : inicial(j)} = {k}
    BY <1>1, <1>2, <2>2
  <2>4. Min({k}) = k
    <3>1. {k} \in SUBSET Nat /\ {k} # {}
      BY <2>1
    <3> QED  BY <3>1, MinEs
  <2> QED  BY <2>3, <2>4
<1> DEFINE guardado == [Disco(d) EXCEPT !.metadata = GuardarEn(@, g)]
           limpio == Limpio(guardado, i, n)
<1>6. r \in Guardando(Disco(d), g) \cup Limpiando(guardado, i, n)
              \cup Marcando(limpio, d.hueco, n)
              \cup Copiando(Marcado(limpio, d.hueco, n), d.hueco * TAM_BLOQUE,
                            i * TAM_BLOQUE, e.largo)
  <2> DEFINE f == d.FAT[c]
             fn == CantBloques(f.largo)
             fg == [f EXCEPT !.bloqueInicial = d.hueco]
             fguardado == [Disco(d) EXCEPT !.metadata = GuardarEn(@, fg)]
             flimpio == Limpio(fguardado, i, fn)
  <2>1. r \in Guardando(Disco(d), fg) \cup Limpiando(fguardado, i, fn)
                \cup Marcando(flimpio, d.hueco, fn)
                \cup Copiando(Marcado(flimpio, d.hueco, fn), d.hueco * TAM_BLOQUE,
                              i * TAM_BLOQUE, f.largo)
    BY DEF CortesMover
  <2>2. f = e /\ fn = n
    BY <1>4, <1>5
  <2> QED  BY <2>1, <2>2
<1>7. /\ e \in Entrada /\ g \in Entrada /\ BloquesDe(e) = Rango(i, n) /\ g.nombre = e.nombre
      /\ Tabla([d.FAT EXCEPT ![k] = g], (DOMAIN FAT) \ {p},
               (d.bitmap \ Rango(i, n)) \cup Rango(d.hueco, n))
  <2>1. g.nombre = e.nombre
    BY <1>2 DEF Entrada
  <2> QED  BY <1>2, <1>3, <2>1 DEF MovidoBien
<1>8. g.nombre = FAT[k].nombre /\ FAT[k].nombre \in Archivos
  BY <1>2, <1>7, LugarDe
<1>9. ASSUME NEW j \in (DOMAIN FAT) \ {p}, FAT[j].nombre # FAT[k].nombre
      PROVE  /\ BloquesDe(e) \cap BloquesDe(d.FAT[j]) = {}
             /\ BloquesDe(g) \cap BloquesDe(d.FAT[j]) = {}
  <2>1. j # k
    BY <1>9
  <2>2. BloquesDe(e) \cap BloquesDe(d.FAT[j]) = {}
    BY <1>1, <1>2, <2>1 DEF Tabla
  <2> DEFINE f == [d.FAT EXCEPT ![k] = g]
  <2>3. f[k] = g /\ f[j] = d.FAT[j]
    BY <1>1, <1>2, <2>1
  <2> HIDE DEF f, g
  <2>4. BloquesDe(f[k]) \cap BloquesDe(f[j]) = {}
    BY <1>2, <1>7, <2>1 DEF Tabla, f
  <2> QED  BY <2>2, <2>3, <2>4
<1>10. Tocado(r, d, e, g)
  <2>1. n \in Nat /\ g = [e EXCEPT !.bloqueInicial = d.hueco]
    BY <1>4
  <2>2. guardado = [Disco(d) EXCEPT !.metadata = GuardarEn(@, g)] /\ limpio = Limpio(guardado, i, n)
    OBVIOUS
  <2> HIDE DEF guardado, limpio, g, n, e
  <2> QED  BY <1>1, <1>6, <1>7, <2>1, <2>2, TocadoMoviendo
<1> HIDE DEF e, g
<1>11. Salva(r, FAT[p].nombre, FAT[k].nombre)
  BY <1>7, <1>8, <1>9, <1>10, SalvaElResto
<1> QED  BY <1>8, <1>11

\* The files were moved: the bits, the bytes and the metadata of the one that grows, whose
\* new entry is g; c[k] are the bytes when k of its own were copied.
Creciendo(d, p, g, n, c) ==
  LET marcado == Marcado(Disco(d), g.bloqueInicial, n)
      copiado(k) == [marcado EXCEPT !.BLOQUES = c[k]]
  IN Marcando(Disco(d), g.bloqueInicial, n) \cup {copiado(k) : k \in 0..FAT[p].largo}
       \cup Guardando(copiado(FAT[p].largo), g)

LEMMA CorteFinal ==
  ASSUME NEW p, Levantado(p), NEW d, Compactando(d, CANT_BLOQUES, p), Conserva(d, p),
         NEW g \in Entrada, g.nombre = FAT[p].nombre, BloquesDe(g) \cap d.bitmap = {},
         NEW n \in Nat, FAT[p].largo <= g.largo,
         NEW c, \A k \in 0..FAT[p].largo, x \in Direcciones :
                  x \notin Rango(g.bloqueInicial * TAM_BLOQUE, k)
                    => c[k][x] = Marcado(Disco(d), g.bloqueInicial, n).BLOQUES[x],
         NEW r \in Creciendo(d, p, g, n, c)
  PROVE  Salva(r, FAT[p].nombre, FAT[p].nombre)
<1> DEFINE marcado == Marcado(Disco(d), g.bloqueInicial, n)
<1>1. /\ g.bloqueInicial \in Nat /\ g.largo \in Nat /\ FAT[p].largo \in Nat
      /\ g.bloqueInicial * TAM_BLOQUE \in Nat
  <2>1. FAT[p].largo \in Nat /\ g.bloqueInicial \in Nat /\ g.largo \in Nat
    BY BytesDe, LugarDe DEF Levantado
  <2> QED  BY <2>1, DialFSAssumption
<1>2. ASSUME Tocado(r, d, g, g) PROVE Salva(r, FAT[p].nombre, FAT[p].nombre)
  <2>1. \A k \in (DOMAIN FAT) \ {p} : BloquesDe(g) \cap BloquesDe(d.FAT[k]) = {}
    <3>1. \A k \in (DOMAIN FAT) \ {p} : BloquesDe(d.FAT[k]) \subseteq d.bitmap
      BY DEF Compactando, Tabla
    <3> QED  BY <3>1
  <2> QED  BY <1>2, <2>1, SalvaElResto
<1>3. Tocado(Disco(d), d, g, g) /\ Disco(d).metadata = d.metadata
  BY TocadoNada DEF Disco
<1>4. /\ \A s \in Marcando(Disco(d), g.bloqueInicial, n) : Tocado(s, d, g, g)
      /\ Tocado(marcado, d, g, g) /\ marcado.metadata = d.metadata
  BY <1>3, TocadoMarcando
<1>7. \A k \in 0..FAT[p].largo, x \in Direcciones :
        x \notin Rango(g.bloqueInicial * TAM_BLOQUE, k) => c[k][x] = marcado.BLOQUES[x]
  OBVIOUS
<1>8. \/ r \in Marcando(Disco(d), g.bloqueInicial, n)
      \/ \E k \in 0..FAT[p].largo : r = [marcado EXCEPT !.BLOQUES = c[k]]
      \/ r \in Guardando([marcado EXCEPT !.BLOQUES = c[FAT[p].largo]], g)
  BY DEF Creciendo
<1> HIDE DEF marcado
<1>5. ASSUME NEW k \in 0..FAT[p].largo
      PROVE  /\ Tocado([marcado EXCEPT !.BLOQUES = c[k]], d, g, g)
             /\ [marcado EXCEPT !.BLOQUES = c[k]].metadata = d.metadata
  <2>1. PICK b, desde : b = c[k] /\ desde = g.bloqueInicial * TAM_BLOQUE
    OBVIOUS
  <2>2. Rango(desde, k) \subseteq Rango(desde, g.largo)
    BY <1>1, <2>1 DEF Rango
  <2>3. \A x \in Direcciones : x \notin Rango(desde, g.largo) => b[x] = marcado.BLOQUES[x]
    BY <1>7, <2>1, <2>2
  <2>4. \A x \in Direcciones :
          x \notin Rango(g.bloqueInicial * TAM_BLOQUE, g.largo) => b[x] = marcado.BLOQUES[x]
    BY <2>1, <2>3
  <2>5. Tocado([marcado EXCEPT !.BLOQUES = b], d, g, g)
        /\ [marcado EXCEPT !.BLOQUES = b].metadata = marcado.metadata
    BY ONLY <1>4, <2>4, TocadoBytes
  <2> QED  BY <1>4, <2>1, <2>5
<1>6. \A s \in Guardando([marcado EXCEPT !.BLOQUES = c[FAT[p].largo]], g) : Tocado(s, d, g, g)
  <2>1. FAT[p].largo \in 0..FAT[p].largo
    BY <1>1
  <2> QED  BY <1>5, <2>1, TocadoGuardando
<1> QED  BY <1>2, <1>4, <1>5, <1>6, <1>8

LEMMA CorteCompacta ==
  ASSUME Prudentes, DiscoBueno, NEW n \in Archivos, NEW t \in Tamanios, PideTruncar(n, t),
         BloquesAsignados(t) > BloquesAsignados(FAT[Posicion(n)].largo),
         BloquesAsignados(t) <= Cardinality(LibresSin(FAT[Posicion(n)])),
         NEW r \in CortesCompactar(n, t)
  PROVE  \E m \in Archivos : Salva(r, n, m)
<1> DEFINE e == FAT[Posicion(n)]
           b == BloquesAsignados(t)
           ocupados == Bloques \ LibresSin(e)
           d == Compactado(ocupados)
           h == Min(Bloques \ d.bitmap)
           marcado == Marcado(Disco(d), h, b)
           repuesto(k) == [marcado EXCEPT !.BLOQUES = [x \in Direcciones |->
                             IF x \in Rango(h * TAM_BLOQUE, k)
                             THEN BLOQUES[e.bloqueInicial * TAM_BLOQUE + x - h * TAM_BLOQUE]
                             ELSE @[x]]]
           g == [nombre |-> n, bloqueInicial |-> h, largo |-> t]
<1>1. PICK p : p = Posicion(n) /\ p \in DOMAIN FAT /\ FAT[p].nombre = n /\ FAT[p] \in Entrada
  <2>1. Existe(n)
    BY DEF PideTruncar
  <2> QED  BY <2>1, PosicionDe DEF DiscoBueno
<1>2. Levantado(p) /\ CANT_BLOQUES \in Nat /\ t \in Nat /\ b \in Nat \ {0}
  BY <1>1, SePuedeLevantar, Asignados, DialFSAssumption
<1>3. ocupados = bitmap \ BloquesDe(FAT[p])
  BY <1>1, LibresDe
<1>4. \A i \in 0..CANT_BLOQUES :
        Compactando(CompactadoHasta(ocupados, i), i, p) /\ Conserva(CompactadoHasta(ocupados, i), p)
  <2> HIDE DEF ocupados
  <2> QED  BY <1>2, <1>3, Compacta DEF CompactadoHasta
<1>5. Compactando(d, CANT_BLOQUES, p) /\ Conserva(d, p)
  <2>1. CANT_BLOQUES \in 0..CANT_BLOQUES
    BY <1>2
  <2> HIDE DEF ocupados
  <2> QED  BY <1>4, <2>1 DEF Compactado
<1>6. \/ \E i \in Bloques : r \in CortesMover(CompactadoHasta(ocupados, i), i)
      \/ /\ ~ d.cae
         /\ r \in Marcando(Disco(d), h, b) \cup {repuesto(k) : k \in 0..e.largo}
                    \cup Guardando(repuesto(e.largo), g)
  BY DEF CortesCompactar
<1>7. CASE \E i \in Bloques : r \in CortesMover(CompactadoHasta(ocupados, i), i)
  <2>1. PICK i \in Bloques : r \in CortesMover(CompactadoHasta(ocupados, i), i)
    BY <1>7
  <2>2. i \in 0..CANT_BLOQUES /\ i \in Nat
    BY <1>2 DEF Bloques
  <2>3. PICK q : q = CompactadoHasta(ocupados, i)
    OBVIOUS
  <2>4. Compactando(q, i, p) /\ Conserva(q, p) /\ r \in CortesMover(q, i)
    BY <1>4, <2>1, <2>2, <2>3
  <2>5. \E m \in Archivos : Salva(r, FAT[p].nombre, m)
    BY <1>2, <2>2, <2>4, CorteMueve
  <2> QED  BY <1>1, <2>5
<1>8. CASE r \in Marcando(Disco(d), h, b) \cup {repuesto(k) : k \in 0..e.largo}
                   \cup Guardando(repuesto(e.largo), g)
  <2> HIDE DEF d
  <2>1. /\ h = d.hueco /\ h \in Bloques /\ h + b <= CANT_BLOQUES
        /\ \A x \in Nat : x >= h => x \notin d.bitmap
    BY <1>1, <1>2, <1>5, AlFinal
  <2>2. h \in Nat
    BY <1>5, <2>1 DEF Compactando
  <2> HIDE DEF h
  <2>3. /\ g \in Entrada /\ g.nombre = FAT[p].nombre /\ g.bloqueInicial = h /\ g.largo = t
        /\ BloquesDe(g) = Rango(h, b)
    BY <1>1, <1>2, <2>1 DEF Entrada, BloquesDe
  <2>4. BloquesDe(g) \cap d.bitmap = {}
    BY <1>2, <2>1, <2>2, <2>3 DEF Rango
  <2>5. FAT[p].largo \in Nat /\ FAT[p].largo <= g.largo
    <3>1. FAT[p].largo \in Nat
      BY <1>1, LugarDe
    <3>2. t > FAT[p].largo
      BY <1>1, <1>2, <3>1, MasLargo
    <3> QED  BY <1>2, <2>3, <3>1, <3>2
  <2> DEFINE c == [k \in 0..e.largo |-> [x \in Direcciones |->
                    IF x \in Rango(h * TAM_BLOQUE, k)
                    THEN BLOQUES[e.bloqueInicial * TAM_BLOQUE + x - h * TAM_BLOQUE]
                    ELSE marcado.BLOQUES[x]]]
  <2>6. \A k \in 0..e.largo : repuesto(k) = [marcado EXCEPT !.BLOQUES = c[k]]
    OBVIOUS
  <2>7. \A k \in 0..FAT[p].largo, x \in Direcciones :
          x \notin Rango(g.bloqueInicial * TAM_BLOQUE, k) => c[k][x] = marcado.BLOQUES[x]
    BY <1>1, <2>3
  <2>8. r \in Creciendo(d, p, g, b, c)
    <3>1. FAT[p].largo \in 0..e.largo /\ e = FAT[p]
      BY <1>1, <2>5
    <3>2. marcado = Marcado(Disco(d), g.bloqueInicial, b) /\ g.bloqueInicial = h
      BY <2>3
    <3> HIDE DEF c, marcado, e, repuesto, g, b
    <3>3. CASE r \in Marcando(Disco(d), h, b)
      BY <3>2, <3>3 DEF Creciendo
    <3>4. CASE r \in {repuesto(k) : k \in 0..e.largo}
      BY <2>6, <3>1, <3>2, <3>4 DEF Creciendo
    <3>5. CASE r \in Guardando(repuesto(e.largo), g)
      BY <2>6, <3>1, <3>2, <3>5 DEF Creciendo
    <3> QED  BY <1>8, <3>3, <3>4, <3>5
  <2>9. \A k \in 0..FAT[p].largo, x \in Direcciones :
          x \notin Rango(g.bloqueInicial * TAM_BLOQUE, k)
            => c[k][x] = Marcado(Disco(d), g.bloqueInicial, b).BLOQUES[x]
    BY <2>3, <2>7
  <2>10. b \in Nat
    BY <1>2
  <2> HIDE DEF c, marcado, g, e, b, repuesto, ocupados
  <2>11. Salva(r, FAT[p].nombre, FAT[p].nombre)
    BY ONLY <1>2, <1>5, <2>3, <2>4, <2>5, <2>8, <2>9, <2>10, CorteFinal
  <2> QED  BY <1>1, <2>11
<1> QED  BY <1>6, <1>7, <1>8

-----------------------------------------------------------------------------
(***************************************************************************)
(* The theorems about the deaths                                           *)
(***************************************************************************)

\* The file that was operated is the one the request names, and another is harmed only
\* by a compaction.
Culpable(n, m) ==
  /\ peticion'.nombre = n
  /\ m \in IF SeCompacta(peticion') THEN Archivos ELSE {n}

\* Whatever the operation on n and the point where the interface dies, what the restart
\* finds has every file but n and, if n made the rest be compacted, one that was moving.
LEMMA CorteSalva ==
  ASSUME Prudentes, DiscoBueno, NEW n \in Archivos, Corte(n)
  PROVE  \E m \in Archivos : Culpable(n, m) /\ \E d : Arranca(d) /\ Salva(d, n, m)
<1> DEFINE Bien == \E m \in Archivos : Culpable(n, m) /\ \E r : Arranca(r) /\ Salva(r, n, m)
<1>1. ASSUME NEW op, NEW o, NEW l, Sirve(Peticion(op, n, o, l)),
             NEW d, Arranca(d), Salva(d, n, n)
      PROVE  Bien
  <2>1. peticion'.nombre = n
    BY <1>1 DEF Sirve, Peticion
  <2>2. Culpable(n, n)
    BY <2>1 DEF Culpable
  <2> QED  BY <1>1, <2>2
<1> HIDE DEF Bien
<1>2. ASSUME Sirve(Peticion("IO_FS_CREATE", n, 0, 0)), NEW d \in CortesCrear(n), Arranca(d)
      PROVE  Bien
  BY <1>1, <1>2, CorteCrea
<1>3. ASSUME Existe(n), Sirve(Peticion("IO_FS_DELETE", n, 0, 0)), NEW d \in CortesEliminar(n),
             Arranca(d)
      PROVE  Bien
  BY <1>1, <1>3, CorteElimina
<1>4. ASSUME NEW t \in Tamanios, PideTruncar(n, t), Sirve(Peticion("IO_FS_TRUNCATE", n, 0, t)),
             NEW d \in CortesTruncar(n, t), Arranca(d)
      PROVE  Bien
  <2> DEFINE e == FAT[Posicion(n)]
  <2>1. Existe(n)
    BY <1>4 DEF PideTruncar
  <2>2. BloquesAsignados(t) \in Nat /\ BloquesAsignados(e.largo) \in Nat
    BY <2>1, DelArchivo, Asignados, DialFSAssumption
  <2>3. CASE BloquesAsignados(t) <= BloquesAsignados(e.largo)
    <3>1. d \in CortesAchicar(n, t)
      BY <1>4, <2>3 DEF CortesTruncar
    <3> QED  BY <1>1, <1>4, <2>1, <2>3, <3>1, CorteAchica
  <2>4. CASE BloquesAsignados(t) > BloquesAsignados(e.largo)
    <3>1. CASE d \in CortesLevantar(n)
      BY <1>1, <1>4, <2>1, <3>1, CorteLevanta
    <3>2. CASE Huecos(LibresSin(e), BloquesAsignados(t)) # {} /\ d \in CortesMudar(n, t)
      BY <1>1, <1>4, <2>1, <3>2, CorteMuda
    <3>3. CASE /\ Huecos(LibresSin(e), BloquesAsignados(t)) = {}
               /\ BloquesAsignados(t) <= Cardinality(LibresSin(e))
               /\ d \in CortesCompactar(n, t)
      <4>1. PICK m \in Archivos : Salva(d, n, m)
        BY <1>4, <2>4, <3>3, CorteCompacta
      <4>2. /\ peticion'.nombre = n /\ peticion'.op = "IO_FS_TRUNCATE" /\ peticion'.largo = t
        BY <1>4 DEF Sirve, Peticion
      <4>3. SeCompacta(peticion')
        BY <2>2, <2>4, <3>3, <4>2 DEF SeCompacta
      <4>4. Culpable(n, m)
        BY <4>2, <4>3 DEF Culpable
      <4> QED  BY <1>4, <4>1, <4>4 DEF Bien
    <3>4. \/ d \in CortesLevantar(n)
          \/ Huecos(LibresSin(e), BloquesAsignados(t)) # {} /\ d \in CortesMudar(n, t)
          \/ /\ Huecos(LibresSin(e), BloquesAsignados(t)) = {}
             /\ BloquesAsignados(t) <= Cardinality(LibresSin(e)) /\ d \in CortesCompactar(n, t)
      <4>1. ~ BloquesAsignados(t) <= BloquesAsignados(e.largo)
        BY <2>2, <2>4
      <4> QED  BY <1>4, <4>1 DEF CortesTruncar
    <3> QED  BY <3>1, <3>2, <3>3, <3>4
  <2> QED  BY <2>2, <2>3, <2>4
<1>5. ASSUME Existe(n), NEW o \in Offsets, NEW l \in Cadenas,
             Sirve(Peticion("IO_FS_WRITE", n, o, l)), NEW d \in CortesEscribir(n, o, l), Arranca(d)
      PROVE  Bien
  BY <1>1, <1>5, CorteEscribe
<1>6. Bien
  BY <1>2, <1>3, <1>4, <1>5 DEF Corte
<1> QED  BY <1>6 DEF Bien

\* Up to a death, or to a truncation that found no room, the disk is sound.
CortesInv == ~ cortado /\ BitmapExacto => IInv

\* The file that does not fit loses its bits.
LEMMA NoEntraPierde ==
  ASSUME DiscoBueno, NEW n \in Archivos, NEW t \in Tamanios, NoEntra(n, t)
  PROVE  ~ BitmapExacto'
<1>1. PICK p \in DOMAIN FAT : p = Posicion(n) /\ FAT[p] \in Entrada
  BY PosicionDe DEF NoEntra, PideTruncar, DiscoBueno
<1>2. bitmap' = bitmap \ BloquesDe(FAT[p]) /\ FAT' = FAT
  BY <1>1, LibresDe DEF NoEntra
<1>3. FAT[p].bloqueInicial \in BloquesDe(FAT[p])
  BY <1>1, LugarDe
<1>4. ASSUME BitmapExacto' PROVE FALSE
  <2>1. bitmap' = UNION {BloquesDe(FAT[k]) : k \in DOMAIN FAT}
    BY <1>2, <1>4 DEF BitmapExacto, BloquesDe
  <2> QED  BY <1>1, <1>2, <1>3, <2>1
<1> QED  BY <1>4

LEMMA CortesPaso ==
  ASSUME Prudentes, CortesInv, [CortesNext]_cortesVars
  PROVE  CortesInv'
<1>1. CASE UNCHANGED cortesVars
  <2>1. UNCHANGED dialfsVars /\ cortado' = cortado
    BY <1>1 DEF cortesVars
  <2>2. BitmapExacto' <=> BitmapExacto
    BY <2>1 DEF dialfsVars, BitmapExacto, BloquesDe
  <2> QED  BY <2>1, <2>2, InvQuieto DEF CortesInv
<1>2. CASE CortesNext
  <2>1. ~ cortado /\ IInv /\ DiscoBueno
    BY <1>2 DEF CortesNext, CortesInv, IInv
  <2>2. CASE DialFSNext /\ UNCHANGED cortado
    <3>1. CASE IInv'
      BY <3>1 DEF CortesInv
    <3>2. CASE \E n \in Archivos, t \in Tamanios : NoEntra(n, t)
      BY <2>1, <3>2, NoEntraPierde DEF CortesInv
    <3> QED  BY <2>1, <2>2, <3>1, <3>2, InvSiEntra
  <2>3. CASE \E n \in Archivos : Corte(n)
    BY <2>3 DEF CortesInv, Corte
  <2> QED  BY <1>2, <2>2, <2>3 DEF CortesNext
<1> QED  BY <1>1, <1>2

LEMMA SiempreCortesInv == Prudentes => (CortesSpec => []CortesInv)
<1> SUFFICES ASSUME Prudentes PROVE CortesSpec => []CortesInv
  OBVIOUS
<1>1. CortesInit => CortesInv
  BY InvInit DEF CortesInit, CortesInv
<1>2. CortesInv /\ [CortesNext]_cortesVars => CortesInv'
  BY CortesPaso
<1> QED  BY <1>1, <1>2, PTL DEF CortesSpec

\* A death harms the file that the request in course names and, only if that request was
\* compacting the disk, at most one more, as files are moved one at a time: every other keeps its
\* bytes, and the bits of its blocks, whatever the point of the operation, and also if
\* some truncation may find no room.
THEOREM CorteSoloDanaLoSuyo ==
  ASSUME Prudentes
  PROVE  CortesSpec => CorteAcotado
<1> DEFINE Acotado == cortado' =>
             \/ Danados = {}
             \/ SeCompacta(peticion') /\ \E movido \in Archivos : Danados \subseteq {movido}
<1>1. ASSUME CortesInv, CortesNext PROVE Acotado
  <2>1. ~ cortado /\ DiscoBueno
    BY <1>1 DEF CortesNext, CortesInv, IInv
  <2>2. CASE UNCHANGED cortado
    BY <2>1, <2>2
  <2>3. CASE \E n \in Archivos : Corte(n)
    <3>1. PICK n \in Archivos : Corte(n)
      BY <2>3
    <3>2. PICK m \in Archivos : Culpable(n, m) /\ \E d : Arranca(d) /\ Salva(d, n, m)
      BY <2>1, <3>1, CorteSalva
    <3>3. \A f \in Nombrados \ {n, m} :
            /\ f \in Nombrados' /\ Contenido(f)' = Contenido(f)
            /\ BloquesDe(FAT[Posicion(f)])' \subseteq bitmap'
      BY <2>1, <3>2, Arrancado
    <3>4. Danados \subseteq {m} /\ n \notin Danados
      BY <3>2, <3>3 DEF Danados, Culpable
    <3>5. CASE SeCompacta(peticion')
      BY <3>4, <3>5
    <3>6. CASE ~ SeCompacta(peticion')
      <4>1. m = n
        BY <3>2, <3>6 DEF Culpable
      <4> QED  BY <3>4, <4>1
    <3> QED  BY <3>5, <3>6
  <2> QED  BY <1>1, <2>2, <2>3 DEF CortesNext
<1>2. CortesInv /\ [CortesNext]_cortesVars => [Acotado]_cortesVars
  <2> HIDE DEF Acotado
  <2> QED  BY <1>1
<1>3. CortesSpec => [][Acotado]_cortesVars
  <2>1. CortesSpec => []CortesInv
    BY SiempreCortesInv
  <2> HIDE DEF Acotado
  <2> QED  BY <1>2, <2>1, PTL DEF CortesSpec
<1> QED  BY <1>3 DEF CorteAcotado
=============================================================================
