--------------------------- MODULE MemoriaProofs ---------------------------
(***************************************************************************)
(* Theorems about memory, for any number of processes, frames and entries  *)
(* of the TLB and any frame size: the bitmap is exactly the frames in the  *)
(* page tables, the TLB agrees with them, and what MMU, TLB, tables and    *)
(* interfaces implement is a private space of bytes for each process.      *)
(***************************************************************************)
EXTENDS Direccionamiento, Comunes, SequenceTheorems, TLAPS

\* The types that matter to the frames.
TipoMarcos ==
  /\ bitmap \in SUBSET Marcos
  /\ cambia \in [Hilos -> {Nada} \cup [marco : Marcos, byte : SUBSET Marcos]]
  /\ paginas \in [Procesos -> Seq(Marcos)]
  /\ vida \in [Procesos -> Vidas]
  /\ faltan \in Int
  /\ enCpu \in Procesos \cup {Nadie}

\* Only a process that has not been sent to its end executes.
CpuBuena == enCpu # Nadie => vida[enCpu] = "cargado"

\* The pages that are still to be taken away are pages the process has.
Achicando == faltan < 0 => enCpu # Nadie /\ Len(paginas[enCpu]) + faltan >= 0

Base == TipoMarcos /\ CpuBuena /\ Achicando

-----------------------------------------------------------------------------
\* The pages that RESIZE gives back are pages the process has.
LEMMA PaginasDeMas ==
  ASSUME NEW l \in Nat, NEW b \in Nat \ {0}, NEW t \in Nat, t < l * b
  PROVE  Techo(l * b - t, b) \in 0..l
<1> DEFINE a == l * b - t
           m == (a + b - 1) \div b
<1>1. a \in Nat /\ a <= l * b
  OBVIOUS
<1>2. m \in Nat /\ m * b <= a + b - 1
  BY <1>1
<1>3. m <= l
  <2> SUFFICES ASSUME m >= l + 1 PROVE FALSE
    BY <1>2
  <2>1. m * b >= (l + 1) * b
    BY <1>2
  <2> QED  BY <1>1, <1>2, <2>1
<1> QED  BY <1>2, <1>3 DEF Techo

-----------------------------------------------------------------------------
(***************************************************************************)
(* The types of the frames                                                 *)
(***************************************************************************)

LEMMA LeeTipos ==
  ASSUME TipoMarcos, NEW h \in Hilos, NEW marco \in Marcos, LeeByte(h, marco)
  PROVE  cambia' \in [Hilos -> {Nada} \cup [marco : Marcos, byte : SUBSET Marcos]]
<1> DEFINE r == [marco |-> marco, byte |-> bitmap \cap Byte(marco)]
<1>1. r \in [marco : Marcos, byte : SUBSET Marcos]
  BY DEF TipoMarcos
<1>2. cambia' = [cambia EXCEPT ![h] = r]
  BY DEF LeeByte
<1> HIDE DEF r
<1> QED  BY <1>1, <1>2 DEF TipoMarcos

\* The thread that writes a byte back has read it.
LEMMA EnManoEs ==
  ASSUME TipoMarcos, NEW h \in Hilos, NEW marco \in Marcos, cambia[h].marco = marco
  PROVE  cambia[h] # Nada /\ cambia[h].byte \in SUBSET Marcos
<1>1. marco # -1
  BY MemoriaAssumption DEF Marcos
<1>2. cambia[h] # Nada
  BY <1>1 DEF Nada
<1>3. cambia[h] \in [marco : Marcos, byte : SUBSET Marcos]
  BY <1>2 DEF TipoMarcos
<1> QED  BY <1>2, <1>3

LEMMA EscribeTipos ==
  ASSUME TipoMarcos, NEW h \in Hilos, NEW marco \in Marcos,
         PoneBit(h, marco) \/ LimpiaBit(h, marco)
  PROVE  /\ bitmap' \in SUBSET Marcos
         /\ cambia' \in [Hilos -> {Nada} \cup [marco : Marcos, byte : SUBSET Marcos]]
<1>1. cambia[h].marco = marco /\ cambia' = [cambia EXCEPT ![h] = Nada]
  BY DEF PoneBit, LimpiaBit, EscribeByte
<1>2. cambia[h].byte \in SUBSET Marcos
  BY <1>1, EnManoEs
<1>3. \E b \in SUBSET Marcos : bitmap' = (bitmap \ Byte(marco)) \cup b
  BY <1>2 DEF PoneBit, LimpiaBit, EscribeByte
<1> QED  BY <1>1, <1>3 DEF TipoMarcos

\* The steps that touch neither the bitmap nor the page tables.
LEMMA BaseSinMarcos ==
  ASSUME Base,
         UNCHANGED <<bitmap, cambia, paginas>>,
         NEW p \in Procesos,
         \/ UNCHANGED <<vida, faltan, enCpu>>
         \/ Carga(p) \/ Despacha(p) \/ Vuelve(p) \/ Finaliza(p) \/ Limpia(p)
         \/ \E tamanio \in Tamanios : AchicaProceso(p, tamanio) \/ AgrandaProceso(p, tamanio)
         \/ SaleSinMemoria(p)
         \/ Ejecuta(p) /\ UNCHANGED <<vida, faltan>> /\ enCpu' = Nadie
  PROVE  Base'
<1>0. 0 \notin Procesos /\ TAM_PAG \in Nat \ {0}
  BY MemoriaAssumption
<1>a. \A q \in Procesos : paginas[q] \in Seq(Marcos) /\ Len(paginas[q]) \in Nat
  BY DEF Base, TipoMarcos
<1>1. CASE UNCHANGED <<vida, faltan, enCpu>>
  BY <1>1 DEF Base, TipoMarcos, CpuBuena, Achicando
<1>2. CASE Carga(p)
  BY <1>2 DEF Base, TipoMarcos, CpuBuena, Achicando, Carga, NuevoProceso, Vidas
<1>3. CASE Despacha(p)
  BY <1>0, <1>3 DEF Base, TipoMarcos, CpuBuena, Achicando, Despacha, memoriaVars, Nadie
<1>4. CASE Vuelve(p)
  BY <1>4 DEF Base, TipoMarcos, CpuBuena, Achicando, Vuelve, memoriaVars, Nadie
<1>5. CASE Finaliza(p)
  BY <1>5 DEF Base, TipoMarcos, CpuBuena, Achicando, Finaliza, LiberarProceso, Vidas
<1>6. CASE Limpia(p)
  <2>1. /\ vida[p] = "liberando" /\ enCpu' = enCpu /\ faltan' = faltan
        /\ vida' = vida \/ vida' = [vida EXCEPT ![p] = "liberado"]
    BY <1>6 DEF Limpia, LeeAlLiberar, LimpiaMarco, LiberaTabla
  <2> QED  BY <2>1 DEF Base, TipoMarcos, CpuBuena, Achicando, Vidas
<1>7. ASSUME NEW tamanio \in Tamanios, AchicaProceso(p, tamanio)
      PROVE  Base'
  <2> DEFINE n == Techo(tam_proc(p) - tamanio, TAM_PAG)
  <2>1. n \in 0..Len(paginas[p])
    <3>1. tamanio \in Nat /\ tamanio < Len(paginas[p]) * TAM_PAG
      BY <1>7, DireccionamientoAssumption DEF AchicaProceso, tam_proc
    <3> QED  BY <1>0, <1>a, <3>1, PaginasDeMas DEF tam_proc
  <2>2. faltan' = -n /\ enCpu = p /\ UNCHANGED <<vida, enCpu>>
    BY <1>7 DEF AchicaProceso, Ejecuta
  <2> HIDE DEF n
  <2> QED  BY <1>0, <1>a, <2>1, <2>2 DEF Base, TipoMarcos, CpuBuena, Achicando, Nadie
<1>8. ASSUME NEW tamanio \in Tamanios, AgrandaProceso(p, tamanio)
      PROVE  Base'
  <2>1. tamanio \in Nat /\ tam_proc(p) \in Nat /\ tamanio > tam_proc(p)
    BY <1>0, <1>a, <1>8, DireccionamientoAssumption DEF AgrandaProceso, tam_proc
  <2>2. Techo(tamanio - tam_proc(p), TAM_PAG) \in Nat
    BY <1>0, <2>1 DEF Techo
  <2>3. faltan' \in Nat /\ UNCHANGED <<vida, enCpu>>
    BY <1>8, <2>2 DEF AgrandaProceso
  <2> QED  BY <2>3 DEF Base, TipoMarcos, CpuBuena, Achicando
<1>9. CASE SaleSinMemoria(p)
  BY <1>9 DEF Base, TipoMarcos, CpuBuena, Achicando, SaleSinMemoria, SinMarcos, Vidas
<1>10. CASE Ejecuta(p) /\ UNCHANGED <<vida, faltan>> /\ enCpu' = Nadie
  BY <1>10 DEF Base, TipoMarcos, CpuBuena, Achicando, Ejecuta
<1> QED  BY <1>1, <1>2, <1>3, <1>4, <1>5, <1>6, <1>7, <1>8, <1>9, <1>10

\* The two halves of a turn of each loop.
LEMMA BaseMarcos ==
  ASSUME Base, NEW p \in Procesos,
         \/ LeeAlLiberar(p) \/ LimpiaMarco(p)
         \/ enCpu = p /\ (LeeAlSacar(p) \/ BuscaMarco \/ SacaPagina(p) \/ AniadePagina(p)),
         enCpu' = enCpu
  PROVE  Base'
<1> DEFINE s == paginas[p]
<1>0. 0 \notin Procesos
  BY MemoriaAssumption
<1>1. s \in Seq(Marcos) /\ Len(s) \in Nat /\ faltan \in Int /\ TipoMarcos
  BY DEF Base, TipoMarcos
<1>2. s # <<>> => Head(s) \in Marcos /\ Tail(s) \in Seq(Marcos)
  BY <1>1
<1>3. CASE LeeAlLiberar(p)
  <2>1. cambia' \in [Hilos -> {Nada} \cup [marco : Marcos, byte : SUBSET Marcos]]
    BY <1>1, <1>2, <1>3, LeeTipos DEF LeeAlLiberar, Hilos
  <2>2. UNCHANGED <<bitmap, paginas, vida, faltan>>
    BY <1>3 DEF LeeAlLiberar
  <2> QED  BY <2>1, <2>2 DEF Base, TipoMarcos, CpuBuena, Achicando
<1>4. CASE LimpiaMarco(p)
  <2>1. /\ bitmap' \in SUBSET Marcos
        /\ cambia' \in [Hilos -> {Nada} \cup [marco : Marcos, byte : SUBSET Marcos]]
    BY <1>1, <1>2, <1>4, EscribeTipos DEF LimpiaMarco, Hilos
  <2>2. /\ UNCHANGED <<vida, faltan>> /\ vida[p] = "liberando"
        /\ paginas' = [paginas EXCEPT ![p] = Tail(s)] /\ Tail(s) \in Seq(Marcos)
    BY <1>2, <1>4 DEF LimpiaMarco
  <2> QED  BY <2>1, <2>2 DEF Base, TipoMarcos, CpuBuena, Achicando
<1>5. ASSUME enCpu = p, LeeAlSacar(p) \/ SacaPagina(p)
      PROVE  /\ faltan < 0 /\ Len(s) + faltan >= 0
             /\ UltimoMarco(p) \in Marcos
             /\ Quedan(p) \in Seq(Marcos) /\ Len(Quedan(p)) = Len(s) - 1
  <2>1. faltan < 0 /\ Len(s) + faltan >= 0
    BY <1>5 DEF LeeAlSacar, SacaPagina, Base, Achicando
  <2>2. Len(s) - 1 \in Nat
    BY <1>1, <2>1
  <2> QED  BY <1>1, <2>1, <2>2 DEF UltimoMarco, Quedan
<1>6. CASE enCpu = p /\ LeeAlSacar(p)
  <2>1. cambia' \in [Hilos -> {Nada} \cup [marco : Marcos, byte : SUBSET Marcos]]
    BY <1>1, <1>5, <1>6, LeeTipos DEF LeeAlSacar, Hilos
  <2>2. UNCHANGED <<bitmap, paginas, vida, faltan>>
    BY <1>6 DEF LeeAlSacar
  <2> QED  BY <2>1, <2>2 DEF Base, TipoMarcos, CpuBuena, Achicando
<1>7. CASE enCpu = p /\ SacaPagina(p)
  <2>1. /\ bitmap' \in SUBSET Marcos
        /\ cambia' \in [Hilos -> {Nada} \cup [marco : Marcos, byte : SUBSET Marcos]]
    BY <1>1, <1>5, <1>7, EscribeTipos DEF SacaPagina, Hilos
  <2>2. vida' = vida /\ faltan' = faltan + 1 /\ paginas' = [paginas EXCEPT ![p] = Quedan(p)]
    BY <1>7 DEF SacaPagina
  <2>3. /\ paginas' \in [Procesos -> Seq(Marcos)] /\ faltan' \in Int
        /\ Len(paginas'[p]) + faltan' >= 0
    BY <1>1, <1>5, <1>7, <2>2 DEF TipoMarcos
  <2> QED  BY <1>0, <1>7, <2>1, <2>2, <2>3 DEF Base, TipoMarcos, CpuBuena, Achicando, Nadie
<1>8. CASE enCpu = p /\ BuscaMarco
  <2>1. cambia' \in [Hilos -> {Nada} \cup [marco : Marcos, byte : SUBSET Marcos]]
    <3>1. PICK marco \in Marcos : LeeByte("cpu", marco)
      BY <1>8 DEF BuscaMarco, MarcosLibres
    <3> QED  BY <1>1, <3>1, LeeTipos DEF Hilos
  <2>2. UNCHANGED <<bitmap, paginas, vida, faltan>>
    BY <1>8 DEF BuscaMarco
  <2> QED  BY <2>1, <2>2 DEF Base, TipoMarcos, CpuBuena, Achicando
<1>9. CASE enCpu = p /\ AniadePagina(p)
  <2>1. PICK marco \in Marcos :
          /\ faltan > 0 /\ PoneBit("cpu", marco) /\ vida' = vida
          /\ paginas' = [paginas EXCEPT ![p] = Append(@, marco)] /\ faltan' = faltan - 1
    BY <1>9 DEF AniadePagina
  <2>2. /\ bitmap' \in SUBSET Marcos
        /\ cambia' \in [Hilos -> {Nada} \cup [marco : Marcos, byte : SUBSET Marcos]]
    BY <1>1, <2>1, EscribeTipos DEF Hilos
  <2>3. /\ paginas' \in [Procesos -> Seq(Marcos)] /\ faltan' \in Nat
    BY <1>1, <2>1 DEF TipoMarcos
  <2> QED  BY <2>1, <2>2, <2>3 DEF Base, TipoMarcos, CpuBuena, Achicando
<1> QED  BY <1>3, <1>4, <1>6, <1>7, <1>8, <1>9

LEMMA BaseInit == Init => Base
<1> SUFFICES ASSUME Init PROVE Base
  OBVIOUS
<1>1. TipoMarcos
  BY DEF Init, MemoriaInit, TipoMarcos, Vidas
<1> QED  BY <1>1 DEF Init, MemoriaInit, Base, CpuBuena, Achicando

LEMMA BaseNext == Base /\ [Next]_vars => Base'
<1> SUFFICES ASSUME Base, [Next]_vars PROVE Base'
  OBVIOUS
<1>1. CASE UNCHANGED vars
  BY <1>1 DEF vars, memoriaVars, Base, TipoMarcos, CpuBuena, Achicando
<1>2. ASSUME NEW p \in Procesos,
             \/ Carga(p) \/ Despacha(p) \/ Vuelve(p) \/ Finaliza(p) \/ SaleSinMemoria(p)
             \/ \E tamanio \in Tamanios : AchicaProceso(p, tamanio) \/ AgrandaProceso(p, tamanio)
      PROVE  Base'
  <2>1. UNCHANGED <<bitmap, cambia, paginas>>
    BY <1>2 DEF Carga, NuevoProceso, Despacha, Vuelve, Finaliza, LiberarProceso, SaleSinMemoria,
       SinMarcos, AchicaProceso, AgrandaProceso, memoriaVars
  <2> QED  BY <1>2, <2>1, BaseSinMarcos
<1>3. ASSUME NEW p \in Procesos, Limpia(p) PROVE Base'
  <2>1. CASE LiberaTabla(p)
    <3>1. UNCHANGED <<bitmap, cambia, paginas>>
      BY <2>1 DEF LiberaTabla
    <3> QED  BY <1>3, <3>1, BaseSinMarcos
  <2>2. CASE LeeAlLiberar(p) \/ LimpiaMarco(p)
    BY <1>3, <2>2, BaseMarcos DEF Limpia
  <2> QED  BY <1>3, <2>1, <2>2 DEF Limpia
<1>4. ASSUME NEW p \in Procesos, BuscaPagina(p) \/ DevuelvePagina(p) \/ RecibePagina(p)
      PROVE  Base'
  BY <1>4, BaseMarcos DEF BuscaPagina, DevuelvePagina, RecibePagina
<1>5. ASSUME NEW p \in Procesos, NEW dl \in Direcciones, NEW n,
             \/ MovIn(p, dl, n) \/ MovOut(p, dl, n)
             \/ \E di \in Direcciones : CopyString(p, dl, di, n)
             \/ \E op \in {"LECTURA_STRING", "ESCRITURA_STRING"} : PideIO(p, op, dl, n)
      PROVE  Base'
  <2>1. UNCHANGED <<bitmap, cambia, paginas>>
    BY <1>5 DEF MovIn, MovOut, CopyString, PideIO, EscribirString, Escribir, memoriaVars
  <2>2. \/ UNCHANGED <<vida, faltan, enCpu>>
        \/ Ejecuta(p) /\ UNCHANGED <<vida, faltan>> /\ enCpu' = Nadie
    BY <1>5 DEF MovIn, MovOut, CopyString, PideIO, EscribirString, Escribir, memoriaVars
  <2> QED  BY <2>1, <2>2, BaseSinMarcos
<1>6. ASSUME NEW p \in Procesos, EscribeInterfaz(p) \/ LeeInterfaz(p) PROVE Base'
  <2>1. UNCHANGED <<bitmap, cambia, paginas, vida, faltan, enCpu>>
    BY <1>6 DEF EscribeInterfaz, LeeInterfaz, EscribirString, Escribir, memoriaVars
  <2> QED  BY <2>1, BaseSinMarcos
<1> QED  BY <1>1, <1>2, <1>3, <1>4, <1>5, <1>6 DEF Next

LEMMA BaseSiempre == Spec => []Base
  BY BaseInit, BaseNext, PTL DEF Spec

-----------------------------------------------------------------------------
\* The invariant frame by frame: a bit is set when a page has the frame, and two
\* pages have different frames.
EnTabla == \A m \in Marcos :
  m \in bitmap <=> \E p \in Procesos : \E i \in 1..Len(paginas[p]) : paginas[p][i] = m

SinRepetir == \A p, q \in Procesos :
  \A i \in 1..Len(paginas[p]), j \in 1..Len(paginas[q]) :
    paginas[p][i] = paginas[q][j] => p = q /\ i = j

LEMMA MarcoAMarco ==
  TipoMarcos => (MarcosExactos <=> EnTabla /\ SinRepetir)
<1> SUFFICES ASSUME TipoMarcos
             PROVE  MarcosExactos <=> EnTabla /\ SinRepetir
  OBVIOUS
<1>1. \A p \in Procesos : /\ paginas[p] \in Seq(Marcos)
                          /\ DOMAIN paginas[p] = 1..Len(paginas[p])
                          /\ \A i \in 1..Len(paginas[p]) : paginas[p][i] \in Marcos
  BY DEF TipoMarcos
<1>2. (bitmap = UNION {ToSet(paginas[p]) : p \in Procesos}) <=> EnTabla
  <2>1. \A m : m \in UNION {ToSet(paginas[p]) : p \in Procesos}
                 <=> \E p \in Procesos : \E i \in 1..Len(paginas[p]) : paginas[p][i] = m
    <3>1. \A p \in Procesos : ToSet(paginas[p]) = {paginas[p][i] : i \in 1..Len(paginas[p])}
      BY <1>1 DEF ToSet
    <3>2. \A p \in Procesos : \A m :
            m \in ToSet(paginas[p]) <=> \E i \in 1..Len(paginas[p]) : paginas[p][i] = m
      BY <3>1
    <3>3. \A m : m \in UNION {ToSet(paginas[p]) : p \in Procesos}
                   <=> \E p \in Procesos : m \in ToSet(paginas[p])
      OBVIOUS
    <3> QED  BY <3>2, <3>3, Zenon
  <2> DEFINE U == UNION {ToSet(paginas[p]) : p \in Procesos}
  <2> HIDE DEF U
  <2>2. \A m : m \in U <=> \E p \in Procesos : \E i \in 1..Len(paginas[p]) : paginas[p][i] = m
    BY <2>1 DEF U
  <2>3. bitmap \in SUBSET Marcos /\ U \in SUBSET Marcos
    BY <1>1, <2>2 DEF TipoMarcos
  <2>4. bitmap = U <=> \A m \in Marcos : m \in bitmap <=> m \in U
    BY <2>3
  <2>5. EnTabla <=> \A m \in Marcos : m \in bitmap <=> m \in U
    BY <2>2 DEF EnTabla
  <2> QED  BY <2>4, <2>5 DEF U
<1> QED  BY <1>1, <1>2 DEF MarcosExactos, SinCompartir, SinRepetir

\* A process keeps a stretch of its pages and gives back the frames of the others:
\* what both RESIZE and the release of a process do.
LEMMA QuedaUnTramo ==
  ASSUME TipoMarcos, TipoMarcos', MarcosExactos, NEW p \in Procesos,
         NEW d \in Nat, NEW n \in Nat, d + n <= Len(paginas[p]),
         paginas' = [paginas EXCEPT ![p] = SubSeq(paginas[p], d + 1, d + n)],
         bitmap' = bitmap \ {paginas[p][k] : k \in (1..Len(paginas[p])) \ ((d + 1)..(d + n))}
  PROVE  MarcosExactos'
<1> DEFINE t == SubSeq(paginas[p], d + 1, d + n)
<1>1. EnTabla /\ SinRepetir /\ TipoMarcos
  BY MarcoAMarco
<1>2. paginas[p] \in Seq(Marcos)
  BY <1>1 DEF TipoMarcos
<1>3. \A i \in (d + 1)..(d + n) : paginas[p][i] \in Marcos
  BY <1>2
<1>4. t \in Seq(Marcos) /\ Len(t) = n /\ \A i \in 1..n : t[i] = paginas[p][d + i]
  BY <1>2, Recorte
<1> HIDE DEF t
<1>5. paginas' = [paginas EXCEPT ![p] = t]
  BY DEF t
<1>7. /\ paginas'[p] = t
      /\ \A q \in Procesos : q # p => paginas'[q] = paginas[q]
  BY <1>1, <1>5 DEF TipoMarcos
<1>8. SinRepetir'
  <2> SUFFICES ASSUME NEW q \in Procesos, NEW r \in Procesos,
                      NEW i \in 1..Len(paginas'[q]), NEW j \in 1..Len(paginas'[r]),
                      paginas'[q][i] = paginas'[r][j]
               PROVE  q = r /\ i = j
    BY DEF SinRepetir
  <2>1. CASE q = p /\ r = p
    BY <1>1, <1>4, <1>7, <2>1 DEF SinRepetir
  <2>2. CASE q = p /\ r # p
    BY <1>1, <1>4, <1>7, <2>2 DEF SinRepetir
  <2>3. CASE q # p /\ r = p
    BY <1>1, <1>4, <1>7, <2>3 DEF SinRepetir
  <2>4. CASE q # p /\ r # p
    BY <1>1, <1>7, <2>4 DEF SinRepetir
  <2> QED  BY <2>1, <2>2, <2>3, <2>4
<1>9. EnTabla'
  <2> SUFFICES ASSUME NEW m \in Marcos
               PROVE  m \in bitmap' <=>
                        \E q \in Procesos : \E i \in 1..Len(paginas'[q]) : paginas'[q][i] = m
    BY DEF EnTabla, Marcos
  <2>1. ASSUME m \in bitmap'
        PROVE  \E q \in Procesos : \E i \in 1..Len(paginas'[q]) : paginas'[q][i] = m
    <3>0. PICK q \in Procesos : \E i \in 1..Len(paginas[q]) : paginas[q][i] = m
      BY <1>1, <2>1 DEF EnTabla
    <3>1. PICK i \in 1..Len(paginas[q]) : paginas[q][i] = m
      BY <3>0
    <3>2. CASE q # p
      BY <1>7, <3>1, <3>2
    <3>3. CASE q = p
      <4>1. i \in (d + 1)..(d + n)
        BY <2>1, <3>1, <3>3
      <4>2. i - d \in 1..n /\ t[i - d] = m
        BY <1>4, <3>1, <3>3, <4>1
      <4> QED  BY <1>4, <1>7, <4>2
    <3> QED  BY <3>2, <3>3
  <2>2. ASSUME NEW q \in Procesos, NEW i \in 1..Len(paginas'[q]), paginas'[q][i] = m
        PROVE  m \in bitmap'
    <3>1. CASE q # p
      <4>1. m \in bitmap
        BY <1>1, <1>7, <2>2, <3>1 DEF EnTabla
      <4>2. ASSUME NEW k \in 1..Len(paginas[p]), paginas[p][k] = m
            PROVE  FALSE
        <5>1. i \in 1..Len(paginas[q]) /\ paginas[q][i] = paginas[p][k]
          BY <1>7, <2>2, <3>1, <4>2
        <5> QED  BY <1>1, <3>1, <5>1 DEF SinRepetir
      <4> QED  BY <4>1, <4>2
    <3>2. CASE q = p
      <4>1. i \in 1..n /\ paginas[p][d + i] = m
        BY <1>4, <1>7, <2>2, <3>2
      <4>2. d + i \in 1..Len(paginas[p])
        BY <1>2, <4>1
      <4>3. m \in bitmap
        BY <1>1, <4>1, <4>2 DEF EnTabla
      <4>4. \A k \in 1..Len(paginas[p]) : paginas[p][k] = m => k = d + i
        BY <1>1, <4>1, <4>2 DEF SinRepetir
      <4> QED  BY <4>1, <4>3, <4>4
    <3> QED  BY <3>1, <3>2
  <2> QED  BY <2>1, <2>2
<1> QED  BY <1>8, <1>9, MarcoAMarco, PTL

-----------------------------------------------------------------------------
(***************************************************************************)
(* The bits                                                                *)
(***************************************************************************)

\* What each thread has in hand is what is in the bitmap, and the CPU's is a frame
\* that is free until it is given.
EnMano ==
  /\ \A h \in Hilos : cambia[h] # Nada =>
       cambia[h].byte = bitmap \cap Byte(cambia[h].marco)
  /\ cambia["kernel"] # Nada /\ cambia["cpu"] # Nada =>
       cambia["kernel"].marco \div BITS # cambia["cpu"].marco \div BITS
  /\ cambia["cpu"] # Nada => faltan # 0
  /\ cambia["cpu"] # Nada /\ faltan > 0 => cambia["cpu"].marco \notin bitmap

InvMarcos == Base /\ MarcosExactos /\ EnMano

\* The byte that comes back differs from the one in the bitmap in that bit.
LEMMA EscribeUnBit ==
  ASSUME TipoMarcos, EnMano, NEW h \in Hilos, NEW marco \in Marcos
  PROVE  /\ PoneBit(h, marco) => bitmap' = bitmap \cup {marco}
         /\ LimpiaBit(h, marco) => bitmap' = bitmap \ {marco}
<1> SUFFICES ASSUME cambia[h].marco = marco
             PROVE  /\ PoneBit(h, marco) => bitmap' = bitmap \cup {marco}
                    /\ LimpiaBit(h, marco) => bitmap' = bitmap \ {marco}
  BY DEF PoneBit, LimpiaBit, EscribeByte
<1>1. cambia[h].byte = bitmap \cap Byte(marco)
  BY EnManoEs DEF EnMano
<1>2. marco \in Byte(marco)
  BY DEF Byte
<1> QED  BY <1>1, <1>2 DEF PoneBit, LimpiaBit, EscribeByte

\* A byte that is read is not the one the other thread has.
LEMMA LeeEnMano ==
  ASSUME TipoMarcos, EnMano, "byte" \in Cuidados, NEW h \in Hilos, NEW marco \in Marcos,
         LeeByte(h, marco), UNCHANGED <<bitmap, faltan>>,
         h = "cpu" => faltan # 0 /\ (faltan > 0 => marco \notin bitmap)
  PROVE  EnMano'
<1>1. /\ cambia[h] = Nada
      /\ \A g \in Hilos : cambia[g].marco \notin Byte(marco)
      /\ cambia' = [cambia EXCEPT ![h] = [marco |-> marco, byte |-> bitmap \cap Byte(marco)]]
  BY DEF LeeByte
<1>2. /\ cambia'[h].marco = marco /\ cambia'[h].byte = bitmap \cap Byte(marco)
      /\ \A g \in Hilos : g # h => cambia'[g] = cambia[g]
  BY <1>1 DEF TipoMarcos
<1>3. ASSUME NEW g \in Hilos, g # h, cambia[g] # Nada
      PROVE  cambia[g].marco \div BITS # marco \div BITS
  <2>1. cambia[g].marco \in Marcos
    BY <1>3 DEF TipoMarcos
  <2> QED  BY <1>1, <2>1 DEF Byte
<1>4. ASSUME NEW g \in Hilos, cambia'[g] # Nada
      PROVE  (cambia[g].byte = bitmap \cap Byte(cambia[g].marco))'
  BY <1>2, <1>4 DEF EnMano, Byte
<1>5. cambia'["kernel"] # Nada /\ cambia'["cpu"] # Nada =>
        cambia'["kernel"].marco \div BITS # cambia'["cpu"].marco \div BITS
  BY <1>2, <1>3 DEF Hilos
<1>6. /\ cambia'["cpu"] # Nada => faltan' # 0
      /\ cambia'["cpu"] # Nada /\ faltan' > 0 => cambia'["cpu"].marco \notin bitmap'
  BY <1>2 DEF EnMano, Hilos
<1> QED  BY <1>4, <1>5, <1>6 DEF EnMano

\* A byte that goes back changes nothing of what the other thread has.
LEMMA EscribeEnMano ==
  ASSUME TipoMarcos, EnMano, NEW h \in Hilos, NEW marco \in Marcos,
         PoneBit(h, marco) \/ LimpiaBit(h, marco),
         h = "kernel" => LimpiaBit(h, marco) /\ faltan' = faltan
  PROVE  EnMano'
<1>1. cambia[h].marco = marco /\ cambia' = [cambia EXCEPT ![h] = Nada]
  BY DEF PoneBit, LimpiaBit, EscribeByte
<1>2. cambia[h] # Nada
  BY <1>1, EnManoEs
<1>3. cambia'[h] = Nada /\ \A g \in Hilos : g # h => cambia'[g] = cambia[g]
  BY <1>1 DEF TipoMarcos
<1>4. bitmap' = bitmap \cup {marco} \/ bitmap' = bitmap \ {marco}
  BY EscribeUnBit
<1>5. ASSUME NEW g \in Hilos, cambia'[g] # Nada
      PROVE  (cambia[g].byte = bitmap \cap Byte(cambia[g].marco))'
  <2>1. g # h /\ cambia[g] # Nada /\ cambia'[g] = cambia[g]
    BY <1>3, <1>5
  <2>2. cambia[g].marco \div BITS # marco \div BITS
    BY <1>1, <1>2, <2>1 DEF EnMano, Hilos
  <2>3. marco \notin Byte(cambia[g].marco)
    BY <2>2 DEF Byte
  <2>4. bitmap' \cap Byte(cambia[g].marco) = bitmap \cap Byte(cambia[g].marco)
    BY <1>4, <2>3
  <2>5. cambia[g].byte = bitmap \cap Byte(cambia[g].marco)
    BY <2>1 DEF EnMano
  <2> QED  BY <2>1, <2>4, <2>5 DEF Byte
<1>6. ~ (cambia'["kernel"] # Nada /\ cambia'["cpu"] # Nada)
  BY <1>3 DEF Hilos
<1>7. /\ cambia'["cpu"] # Nada => faltan' # 0
      /\ cambia'["cpu"] # Nada /\ faltan' > 0 => cambia'["cpu"].marco \notin bitmap'
  <2>1. CASE h = "cpu"
    BY <1>3, <2>1
  <2>2. CASE h = "kernel"
    <3>1. bitmap' = bitmap \ {marco} /\ faltan' = faltan
      BY <2>2, EscribeUnBit
    <3> QED  BY <1>3, <2>2, <3>1 DEF EnMano, Hilos
  <2> QED  BY <2>1, <2>2 DEF Hilos
<1> QED  BY <1>5, <1>6, <1>7 DEF EnMano

-----------------------------------------------------------------------------
(***************************************************************************)
(* The operations that move frames                                         *)
(***************************************************************************)

\* One turn of the release of a process, which gives back its first page.
LEMMA LimpiaMarcoExacto ==
  ASSUME InvMarcos, TipoMarcos', NEW p \in Procesos, LimpiaMarco(p)
  PROVE  MarcosExactos' /\ EnMano'
<1> DEFINE s == paginas[p]
<1>1. s \in Seq(Marcos) /\ Len(s) \in Nat /\ Len(s) > 0 /\ s # <<>> /\ TipoMarcos /\ EnMano
  BY DEF InvMarcos, Base, TipoMarcos, LimpiaMarco
<1>2. Head(s) = s[1] /\ Head(s) \in Marcos /\ Tail(s) = SubSeq(s, 2, Len(s))
  BY <1>1, TailIsSubSeq
<1>3. (1..Len(s)) \ (2..Len(s)) = {1}
  BY <1>1
<1>4. LimpiaBit("kernel", Head(s)) /\ "kernel" \in Hilos /\ faltan' = faltan
  BY DEF LimpiaMarco, Hilos
<1>5. bitmap' = bitmap \ {s[k] : k \in (1..Len(s)) \ ((1 + 1)..(1 + (Len(s) - 1)))}
  <2>1. bitmap' = bitmap \ {Head(s)}
    BY <1>1, <1>2, <1>4, EscribeUnBit
  <2>2. (1..Len(s)) \ ((1 + 1)..(1 + (Len(s) - 1))) = {1}
    BY <1>1, <1>3
  <2>3. {s[k] : k \in {1}} = {s[1]}
    OBVIOUS
  <2> HIDE DEF s
  <2> QED  BY <1>2, <2>1, <2>2, <2>3
<1>6. paginas' = [paginas EXCEPT ![p] = SubSeq(s, 1 + 1, 1 + (Len(s) - 1))]
  <2>1. paginas' = [paginas EXCEPT ![p] = Tail(s)]
    BY DEF LimpiaMarco
  <2>2. 1 + 1 = 2 /\ 1 + (Len(s) - 1) = Len(s)
    BY <1>1
  <2> HIDE DEF s
  <2> QED  BY <1>2, <2>1, <2>2
<1>7. Len(s) - 1 \in Nat /\ 1 + (Len(s) - 1) <= Len(s)
  BY <1>1
<1>8. MarcosExactos'
  BY <1>1, <1>5, <1>6, <1>7, QuedaUnTramo DEF InvMarcos
<1>9. EnMano'
  BY <1>1, <1>2, <1>4, EscribeEnMano
<1> QED  BY <1>8, <1>9

\* One turn of a RESIZE to fewer bytes, which gives back the last page.
LEMMA SacaPaginaExacto ==
  ASSUME InvMarcos, TipoMarcos', NEW p \in Procesos, enCpu = p, SacaPagina(p)
  PROVE  MarcosExactos' /\ EnMano'
<1> DEFINE s == paginas[p]
<1>1. s \in Seq(Marcos) /\ Len(s) \in Nat /\ TipoMarcos /\ EnMano /\ faltan \in Int
  BY DEF InvMarcos, Base, TipoMarcos
<1>2. Len(s) > 0
  BY <1>1 DEF InvMarcos, Base, Achicando, SacaPagina
<1>3. UltimoMarco(p) = s[Len(s)] /\ UltimoMarco(p) \in Marcos
  BY <1>1, <1>2 DEF UltimoMarco
<1>4. (1..Len(s)) \ ((0 + 1)..(0 + (Len(s) - 1))) = {Len(s)}
  BY <1>1, <1>2
<1>5. LimpiaBit("cpu", UltimoMarco(p)) /\ "cpu" \in Hilos
  BY DEF SacaPagina, Hilos
<1>6. bitmap' = bitmap \ {s[k] : k \in (1..Len(s)) \ ((0 + 1)..(0 + (Len(s) - 1)))}
  <2>1. bitmap' = bitmap \ {s[Len(s)]}
    BY <1>1, <1>3, <1>5, EscribeUnBit
  <2> QED  BY <1>4, <2>1
<1>7. paginas' = [paginas EXCEPT ![p] = SubSeq(s, 0 + 1, 0 + (Len(s) - 1))]
  BY <1>1 DEF SacaPagina, Quedan
<1>8. Len(s) - 1 \in Nat /\ 0 + (Len(s) - 1) <= Len(s)
  BY <1>1, <1>2
<1>9. MarcosExactos'
  BY <1>1, <1>6, <1>7, <1>8, QuedaUnTramo DEF InvMarcos
<1>10. EnMano'
  BY <1>1, <1>3, <1>5, EscribeEnMano
<1> QED  BY <1>9, <1>10

\* RESIZE to more bytes: the frame added was free, so no page had it.
LEMMA AniadePaginaExacto ==
  ASSUME InvMarcos, TipoMarcos', NEW p \in Procesos, AniadePagina(p)
  PROVE  MarcosExactos' /\ EnMano'
<1>1. EnTabla /\ SinRepetir /\ TipoMarcos /\ EnMano
  BY MarcoAMarco DEF InvMarcos, Base
<1>0. PICK marco \in Marcos :
        /\ faltan > 0 /\ PoneBit("cpu", marco)
        /\ paginas' = [paginas EXCEPT ![p] = Append(@, marco)]
  BY DEF AniadePagina
<1>2. bitmap' = bitmap \cup {marco} /\ marco \notin bitmap /\ EnMano'
  <2>1. "cpu" \in Hilos /\ cambia["cpu"].marco = marco
    BY <1>0 DEF Hilos, PoneBit, EscribeByte
  <2>2. cambia["cpu"] # Nada
    BY <1>1, <2>1, EnManoEs
  <2> QED  BY <1>0, <1>1, <2>1, <2>2, EscribeUnBit, EscribeEnMano DEF EnMano
<1> DEFINE s == paginas[p]
           t == Append(s, marco)
<1>3. s \in Seq(Marcos) /\ Len(s) \in Nat /\ marco \in Marcos /\ marco \notin bitmap
  BY <1>1, <1>2 DEF TipoMarcos
<1>4. /\ t \in Seq(Marcos) /\ Len(t) = Len(s) + 1
      /\ \A i \in 1..Len(s) : t[i] = s[i]
      /\ t[Len(s) + 1] = marco
  BY <1>3
<1>5. /\ paginas'[p] = t
      /\ \A q \in Procesos : q # p => paginas'[q] = paginas[q]
  BY <1>0, <1>1 DEF TipoMarcos
<1>7. \A q \in Procesos : \A i \in 1..Len(paginas[q]) : paginas[q][i] # marco
  BY <1>1, <1>3 DEF EnTabla
<1> HIDE DEF t
<1>8. SinRepetir'
  <2> SUFFICES ASSUME NEW q \in Procesos, NEW r \in Procesos,
                      NEW i \in 1..Len(paginas'[q]), NEW j \in 1..Len(paginas'[r]),
                      paginas'[q][i] = paginas'[r][j]
               PROVE  q = r /\ i = j
    BY DEF SinRepetir
  <2>1. CASE q = p /\ r = p
    <3>1. CASE i = Len(s) + 1 \/ j = Len(s) + 1
      BY <1>3, <1>4, <1>5, <1>7, <2>1, <3>1
    <3>2. CASE i \in 1..Len(s) /\ j \in 1..Len(s)
      BY <1>1, <1>4, <1>5, <2>1, <3>2 DEF SinRepetir
    <3> QED  BY <1>3, <1>4, <1>5, <2>1, <3>1, <3>2
  <2>2. CASE q = p /\ r # p
    <3>1. j \in 1..Len(paginas[r]) /\ i \in 1..(Len(s) + 1) /\ t[i] = paginas[r][j]
      BY <1>4, <1>5, <2>2
    <3>2. i \in 1..Len(s)
      BY <1>3, <1>4, <1>7, <3>1
    <3> QED  BY <1>1, <1>4, <2>2, <3>1, <3>2 DEF SinRepetir
  <2>3. CASE q # p /\ r = p
    <3>1. i \in 1..Len(paginas[q]) /\ j \in 1..(Len(s) + 1) /\ t[j] = paginas[q][i]
      BY <1>4, <1>5, <2>3
    <3>2. j \in 1..Len(s)
      BY <1>3, <1>4, <1>7, <3>1
    <3> QED  BY <1>1, <1>4, <2>3, <3>1, <3>2 DEF SinRepetir
  <2>4. CASE q # p /\ r # p
    BY <1>1, <1>5, <2>4 DEF SinRepetir
  <2> QED  BY <2>1, <2>2, <2>3, <2>4
<1>9. EnTabla'
  <2> SUFFICES ASSUME NEW m \in Marcos
               PROVE  m \in bitmap' <=>
                        \E q \in Procesos : \E i \in 1..Len(paginas'[q]) : paginas'[q][i] = m
    BY DEF EnTabla, Marcos
  <2>1. ASSUME m \in bitmap'
        PROVE  \E q \in Procesos : \E i \in 1..Len(paginas'[q]) : paginas'[q][i] = m
    <3>1. CASE m = marco
      BY <1>3, <1>4, <1>5, <3>1
    <3>2. CASE m \in bitmap
      <4>1. PICK q \in Procesos : \E i \in 1..Len(paginas[q]) : paginas[q][i] = m
        BY <1>1, <3>2 DEF EnTabla
      <4>2. PICK i \in 1..Len(paginas[q]) : paginas[q][i] = m
        BY <4>1
      <4>3. i \in 1..Len(paginas'[q]) /\ paginas'[q][i] = m
        BY <1>3, <1>4, <1>5, <4>2
      <4> QED  BY <4>3
    <3> QED  BY <1>2, <2>1, <3>1, <3>2
  <2>2. ASSUME NEW q \in Procesos, NEW i \in 1..Len(paginas'[q]), paginas'[q][i] = m
        PROVE  m \in bitmap'
    <3>1. m = marco \/ (i \in 1..Len(paginas[q]) /\ paginas[q][i] = m)
      BY <1>3, <1>4, <1>5, <2>2
    <3>2. ASSUME i \in 1..Len(paginas[q]), paginas[q][i] = m
          PROVE  m \in bitmap
      BY <1>1, <3>2 DEF EnTabla
    <3> QED  BY <1>2, <3>1, <3>2
  <2> QED  BY <2>1, <2>2
<1> QED  BY <1>2, <1>8, <1>9, MarcoAMarco, PTL

-----------------------------------------------------------------------------
\* Memory starts with no frame in use and no page.
LEMMA InvMarcosInit == Init => InvMarcos
<1> SUFFICES ASSUME Init PROVE InvMarcos
  OBVIOUS
<1>1. /\ bitmap = {} /\ paginas = [p \in Procesos |-> <<>>] /\ faltan = 0
      /\ cambia = [h \in Hilos |-> Nada]
  BY DEF Init, MemoriaInit
<1>2. Base
  BY BaseInit
<1>3. EnTabla /\ SinRepetir
  BY <1>1 DEF EnTabla, SinRepetir
<1>4. EnMano
  BY <1>1 DEF EnMano, Hilos
<1> QED  BY <1>2, <1>3, <1>4, MarcoAMarco DEF InvMarcos, Base

\* Every step of the kernel, the CPU and the interfaces keeps the invariant.
LEMMA InvMarcosNext ==
  ASSUME "byte" \in Cuidados
  PROVE  InvMarcos /\ [Next]_vars => InvMarcos'
<1> SUFFICES ASSUME InvMarcos, [Next]_vars PROVE InvMarcos'
  OBVIOUS
<1>0. Base' /\ TipoMarcos' /\ TipoMarcos /\ EnMano /\ faltan \in Int
  BY BaseNext DEF InvMarcos, Base, TipoMarcos
<1>1. ASSUME UNCHANGED <<bitmap, cambia, paginas>>,
             faltan' = faltan \/ cambia["cpu"] = Nada
      PROVE  InvMarcos'
  <2>1. MarcosExactos'
    BY <1>1 DEF InvMarcos, MarcosExactos, SinCompartir
  <2>2. EnMano'
    BY <1>0, <1>1 DEF EnMano, Byte
  <2> QED  BY <1>0, <2>1, <2>2 DEF InvMarcos
<1>2. CASE UNCHANGED vars
  BY <1>1, <1>2 DEF vars, memoriaVars
<1>3. ASSUME NEW p \in Procesos, Limpia(p) PROVE InvMarcos'
  <2>1. CASE LeeAlLiberar(p)
    <3>1. Head(paginas[p]) \in Marcos
      BY <1>0, <2>1 DEF LeeAlLiberar, TipoMarcos
    <3>2. EnMano' /\ UNCHANGED <<bitmap, paginas>>
      BY <1>0, <2>1, <3>1, LeeEnMano DEF LeeAlLiberar, Hilos
    <3> QED  BY <1>0, <3>2 DEF InvMarcos, MarcosExactos, SinCompartir
  <2>2. CASE LimpiaMarco(p)
    BY <1>0, <2>2, LimpiaMarcoExacto DEF InvMarcos
  <2>3. CASE LiberaTabla(p)
    BY <1>1, <2>3 DEF LiberaTabla
  <2> QED  BY <1>3, <2>1, <2>2, <2>3 DEF Limpia
<1>4. ASSUME NEW p \in Procesos,
             \/ \E tamanio \in Tamanios : AchicaProceso(p, tamanio) \/ AgrandaProceso(p, tamanio)
             \/ SaleSinMemoria(p)
      PROVE  InvMarcos'
  <2>1. cambia["cpu"] = Nada
    BY <1>0, <1>4 DEF AchicaProceso, AgrandaProceso, Ejecuta, SaleSinMemoria, SinMarcos, EnMano
  <2>2. UNCHANGED <<bitmap, cambia, paginas>>
    BY <1>4 DEF AchicaProceso, AgrandaProceso, SaleSinMemoria, SinMarcos
  <2> QED  BY <1>1, <2>1, <2>2
<1>5. ASSUME NEW p \in Procesos, BuscaPagina(p) PROVE InvMarcos'
  <2>1. PICK marco \in Marcos : /\ LeeByte("cpu", marco) /\ faltan # 0
                                /\ faltan > 0 => marco \notin bitmap
    <3>1. CASE LeeAlSacar(p)
      <4>1. Len(paginas[p]) + faltan >= 0 /\ faltan < 0
        BY <1>5, <3>1 DEF BuscaPagina, LeeAlSacar, InvMarcos, Base, Achicando
      <4>2. UltimoMarco(p) \in Marcos
        BY <1>0, <4>1 DEF TipoMarcos, UltimoMarco
      <4> QED  BY <1>0, <3>1, <4>1, <4>2 DEF LeeAlSacar
    <3>2. CASE BuscaMarco
      BY <1>0, <3>2 DEF BuscaMarco, MarcosLibres
    <3> QED  BY <1>5, <3>1, <3>2 DEF BuscaPagina
  <2>2. UNCHANGED <<bitmap, paginas, faltan>>
    BY <1>5 DEF BuscaPagina, LeeAlSacar, BuscaMarco
  <2>3. EnMano'
    BY <1>0, <2>1, <2>2, LeeEnMano DEF Hilos
  <2> QED  BY <1>0, <2>2, <2>3 DEF InvMarcos, MarcosExactos, SinCompartir
<1>6. ASSUME NEW p \in Procesos, DevuelvePagina(p) PROVE InvMarcos'
  BY <1>0, <1>6, SacaPaginaExacto DEF DevuelvePagina, InvMarcos
<1>7. ASSUME NEW p \in Procesos, RecibePagina(p) PROVE InvMarcos'
  BY <1>0, <1>7, AniadePaginaExacto DEF RecibePagina, InvMarcos
<1>8. ASSUME NEW p \in Procesos,
             \/ Carga(p) \/ Despacha(p) \/ Vuelve(p) \/ Finaliza(p)
             \/ EscribeInterfaz(p) \/ LeeInterfaz(p)
      PROVE  InvMarcos'
  BY <1>1, <1>8 DEF Carga, NuevoProceso, Despacha, Vuelve, Finaliza, LiberarProceso,
     EscribeInterfaz, EscribirString, Escribir, LeeInterfaz, memoriaVars
<1>9. ASSUME NEW p \in Procesos, NEW dl \in Direcciones, NEW n,
             \/ MovIn(p, dl, n) \/ MovOut(p, dl, n)
             \/ \E di \in Direcciones : CopyString(p, dl, di, n)
             \/ \E op \in {"LECTURA_STRING", "ESCRITURA_STRING"} : PideIO(p, op, dl, n)
      PROVE  InvMarcos'
  BY <1>1, <1>9 DEF MovIn, MovOut, CopyString, PideIO, EscribirString, Escribir, memoriaVars
<1> QED  BY <1>2, <1>3, <1>4, <1>5, <1>6, <1>7, <1>8, <1>9 DEF Next

\* If the kernel's thread and the CPU's are never both between the read and the write
\* of one byte of the bitmap ("byte"), the bitmap and the page tables never disagree,
\* however the two halves of each bit's change interleave with the other thread's:
\* liberar_proceso, aniadir_paginas and sacar_paginas neither leak a frame nor give
\* it twice, for any number of processes, frames, bytes per frame and bits per byte.
THEOREM MarcosSinFuga ==
  ASSUME "byte" \in Cuidados
  PROVE  Spec => []MarcosExactos
<1>1. InvMarcos => MarcosExactos
  BY DEF InvMarcos
<1> QED  BY <1>1, InvMarcosInit, InvMarcosNext, PTL DEF Spec

-----------------------------------------------------------------------------
(***************************************************************************)
(* The pieces of an access                                                 *)
(***************************************************************************)

LEMMA Division ==
  ASSUME NEW a \in Nat, NEW b \in Nat \ {0}
  PROVE  a \div b \in Nat /\ (a % b) \in 0..(b - 1) /\ a = (a \div b) * b + (a % b)
<1>1. /\ a \div b \in Nat /\ (a % b) \in 0..(b - 1) /\ a = b * (a \div b) + (a % b)
  OBVIOUS
<1> QED  BY <1>1

LEMMA Cociente ==
  ASSUME NEW q \in Nat, NEW b \in Nat \ {0}, NEW r \in Nat, r < b
  PROVE  (q * b + r) \div b = q /\ (q * b + r) % b = r
<1>1. q * b \in Nat /\ q * b = b * q
  OBVIOUS
<1>2. (b * q + r) \div b = q /\ (b * q + r) % b = r
  OBVIOUS
<1> QED  BY <1>1, <1>2

\* The bytes that follow in the same page.
LEMMA UnaPagina ==
  ASSUME NEW a \in Nat, NEW b \in Nat \ {0}, NEW k \in Nat, (a % b) + k < b
  PROVE  (a + k) \div b = a \div b /\ (a + k) % b = (a % b) + k
<1> DEFINE q == a \div b
           r == a % b
<1>1. q \in Nat /\ r \in Nat /\ a = q * b + r /\ r + k < b
  BY Division
<1> HIDE DEF q, r
<1>2. q * b \in Nat /\ r + k \in Nat /\ r + k < b /\ a + k = q * b + (r + k)
  <2>1. q * b \in Nat
    BY <1>1
  <2> QED  BY ONLY <1>1, <2>1, k \in Nat
<1>3. (q * b + (r + k)) \div b = q /\ (q * b + (r + k)) % b = r + k
  BY ONLY <1>1, <1>2, b \in Nat \ {0}, Cociente
<1> QED  BY <1>2, <1>3 DEF q, r

\* Blocks of b that n needs.
LEMMA TechoEs ==
  ASSUME NEW n \in Nat \ {0}, NEW b \in Nat \ {0}
  PROVE  /\ Techo(n, b) \in Nat \ {0}
         /\ n % b = 0 => Techo(n, b) * b = n
         /\ n % b # 0 => (Techo(n, b) - 1) * b + (n % b) = n
<1> DEFINE q == n \div b
           r == n % b
<1>1. q \in Nat /\ r \in 0..(b - 1) /\ n = q * b + r
  BY Division
<1> HIDE DEF q, r
<1>2. q * b \in Nat
  BY <1>1
<1>3. CASE r = 0
  <2>1. n + b - 1 = q * b + (b - 1) /\ b - 1 \in Nat /\ b - 1 < b
    BY <1>1, <1>2, <1>3
  <2>2. (q * b + (b - 1)) \div b = q
    BY ONLY <1>1, <2>1, b \in Nat \ {0}, Cociente
  <2>3. Techo(n, b) = q
    BY <2>1, <2>2 DEF Techo
  <2>4. q # 0
    BY <1>1, <1>3
  <2> QED  BY <1>1, <1>3, <2>3, <2>4 DEF r
<1>4. CASE r # 0
  <2>1. n + b - 1 = (q + 1) * b + (r - 1) /\ r - 1 \in Nat /\ r - 1 < b /\ q + 1 \in Nat
    <3>1. (q + 1) * b = q * b + b
      BY <1>1
    <3> QED  BY <1>1, <1>2, <1>4, <3>1
  <2>2. ((q + 1) * b + (r - 1)) \div b = q + 1
    BY ONLY <2>1, b \in Nat \ {0}, Cociente
  <2>3. Techo(n, b) = q + 1
    BY <2>1, <2>2 DEF Techo
  <2> QED  BY <1>1, <1>4, <2>3 DEF r
<1> QED  BY <1>3, <1>4

\* A piece ends where the next begins, the last one where the access does, and none
\* goes into another page.
LEMMA LosTramos ==
  ASSUME NEW dl \in Nat, NEW n \in Nat \ {0}
  PROVE  LET N == PagNecesarias(dl, n)
             a == Tramos(dl, n)
             l == Largos(dl, n)
         IN /\ N \in Nat \ {0}
            /\ a[1] = dl /\ a[N] + l[N] = dl + n
            /\ \A i \in 1..N : /\ a[i] \in Nat /\ l[i] \in Nat \ {0}
                               /\ (a[i] % TAM_PAG) + l[i] <= TAM_PAG
                               /\ dl <= a[i] /\ a[i] + l[i] <= dl + n
            /\ \A i \in 1..N : i # N => a[i + 1] = a[i] + l[i]
<1> DEFINE T == TAM_PAG
           E == EspacioEnPag(dl)
           N == PagNecesarias(dl, n)
           a == Tramos(dl, n)
           l == Largos(dl, n)
<1>1. T \in Nat \ {0}
  BY MemoriaAssumption
<1>2. dl \div T \in Nat /\ (dl % T) \in 0..(T - 1) /\ dl = (dl \div T) * T + (dl % T)
  BY <1>1, Division
<1>3. E = T - (dl % T) /\ E \in 1..T
  BY <1>1, <1>2 DEF EspacioEnPag
<1>4. CASE n <= E
  <2>1. N = 1
    BY <1>4 DEF PagNecesarias
  <2>2. a[1] = dl /\ l[1] = n
    <3> HIDE DEF N, E
    <3>1. /\ 1 \in 1..PagNecesarias(dl, n)
          /\ n <= EspacioEnPag(dl) /\ ~ (n > EspacioEnPag(dl)) /\ ~ (1 > 1)
      BY <1>3, <1>4, <2>1 DEF N, E
    <3>2. a[1] = dl
      BY <3>1 DEF Tramos
    <3>3. l[1] = n
      BY <3>1 DEF Largos
    <3> QED  BY <3>2, <3>3
  <2>3. (dl % T) + n <= T
    BY <1>1, <1>2, <1>3, <1>4
  <2> QED  BY <2>1, <2>2, <2>3
<1>5. CASE n > E
  <2> DEFINE r == n - E
             M == Techo(r, T)
  <2>1. r \in Nat \ {0}
    BY <1>3, <1>5
  <2>2. /\ M \in Nat \ {0}
        /\ r % T = 0 => M * T = r
        /\ r % T # 0 => (M - 1) * T + (r % T) = r
    BY <1>1, <2>1, TechoEs
  <2>3. (r % T) \in 0..(T - 1)
    BY <1>1, <2>1, Division
  <2>4. N = M + 1
    BY <1>3, <1>5 DEF PagNecesarias
  <2>5. /\ a[1] = dl /\ l[1] = E
        /\ \A i \in 2..N : a[i] = dl + E + (i - 2) * T
        /\ \A i \in 2..N : l[i] = IF i = N /\ r % T # 0 THEN r % T ELSE T
    <3> HIDE DEF M, N, E
    <3>1. /\ 1 \in 1..PagNecesarias(dl, n)
          /\ \A i \in 2..PagNecesarias(dl, n) : i \in 1..PagNecesarias(dl, n) /\ i # 1 /\ i > 1
      BY <2>2, <2>4 DEF N
    <3>2. ~ (n <= EspacioEnPag(dl)) /\ n > EspacioEnPag(dl)
      BY <1>3, <1>5 DEF E
    <3>3. a[1] = dl /\ l[1] = E
      BY <3>1, <3>2 DEF Tramos, Largos, E
    <3>4. \A i \in 2..N : a[i] = dl + E + (i - 2) * T
      BY <3>1 DEF Tramos, N, E
    <3>5. \A i \in 2..N : l[i] = IF i = N /\ r % T # 0 THEN r % T ELSE T
      BY <3>1, <3>2 DEF Largos, N, E
    <3> QED  BY <3>3, <3>4, <3>5
  <2> HIDE DEF a, l, N, M, E, r
  <2>6. ASSUME NEW i \in 2..N
        PROVE  /\ (i - 2) * T \in Nat /\ a[i] \in Nat /\ a[i] % T = 0 /\ dl <= a[i]
               /\ (i - 2) * T <= (M - 1) * T
    <3>1. i - 2 \in Nat /\ i - 2 <= M - 1
      BY <2>2, <2>4
    <3>2. (i - 2) * T \in Nat /\ (i - 2) * T <= (M - 1) * T
      BY <1>1, <2>2, <3>1
    <3> DEFINE q == dl \div T
    <3>3. q \in Nat /\ q + 1 + (i - 2) \in Nat
      BY <1>2, <3>1
    <3>4. a[i] = (q + 1 + (i - 2)) * T + 0
      <4>1. dl + E = q * T + T
        BY <1>1, <1>2, <1>3
      <4> HIDE DEF q
      <4>2. (q + 1 + (i - 2)) * T = q * T + T + (i - 2) * T
        BY <1>1, <3>1, <3>3
      <4>3. a[i] = dl + E + (i - 2) * T
        BY <2>5
      <4>4. q * T \in Nat
        BY <1>1, <3>3
      <4> QED  BY ONLY <1>1, <3>2, <3>3, <4>1, <4>2, <4>3, <4>4
    <3> HIDE DEF q
    <3>5. ((q + 1 + (i - 2)) * T + 0) % T = 0
      BY ONLY <1>1, <3>3, Cociente
    <3>6. a[i] % T = 0
      BY <3>4, <3>5
    <3> QED  BY <1>3, <2>5, <3>2, <3>6
  <2>7. (M - 1) * T + (IF r % T # 0 THEN r % T ELSE T) = r /\ (M - 1) * T \in Nat
    <3>1. M * T = (M - 1) * T + T
      BY <1>1, <2>2
    <3> QED  BY <1>1, <2>2, <2>3, <3>1
  <2>8. a[N] + l[N] = dl + n
    <3>1. N \in 2..N /\ N - 2 = M - 1
      BY <2>2, <2>4
    <3> QED  BY <1>1, <1>3, <2>1, <2>3, <2>5, <2>7, <3>1 DEF r
  <2>9. \A i \in 1..N : i # N => a[i + 1] = a[i] + l[i]
    <3> SUFFICES ASSUME NEW i \in 1..N, i # N PROVE a[i + 1] = a[i] + l[i]
      OBVIOUS
    <3>1. i + 1 \in 2..N
      BY <2>2, <2>4
    <3>2. CASE i = 1
      BY <1>1, <1>3, <2>5, <3>1, <3>2
    <3>3. CASE i # 1
      <4>1. i \in 2..N
        BY <3>3
      <4>2. ((i + 1) - 2) * T = (i - 2) * T + T
        BY <1>1
      <4> QED  BY <1>1, <1>3, <2>5, <2>6, <3>1, <4>1, <4>2
    <3> QED  BY <3>2, <3>3
  <2>10. ASSUME NEW i \in 1..N
         PROVE  /\ a[i] \in Nat /\ l[i] \in Nat \ {0} /\ (a[i] % T) + l[i] <= T
                /\ dl <= a[i] /\ a[i] + l[i] <= dl + n
    <3>1. CASE i = 1
      BY <1>1, <1>2, <1>3, <1>5, <2>5, <3>1
    <3>2. CASE i # 1
      <4>1. i \in 2..N
        BY <3>2
      <4>2. l[i] \in Nat \ {0} /\ l[i] <= T
        BY <1>1, <2>3, <2>5, <4>1
      <4>3. a[i] + l[i] <= dl + n
        <5>1. CASE i = N
          BY <2>8, <5>1, <1>3
        <5>2. CASE i # N
          <6>1. i - 1 <= M - 1 /\ i - 1 \in Nat
            BY <2>2, <2>4, <4>1, <5>2
          <6>2. (i - 1) * T <= (M - 1) * T /\ (i - 1) * T = (i - 2) * T + T
            BY <1>1, <2>2, <6>1
          <6>3. (M - 1) * T <= r
            BY <1>1, <2>1, <2>3, <2>7
          <6>4. l[i] = T
            BY <2>5, <4>1, <5>2
          <6> QED  BY <1>1, <1>3, <2>1, <2>5, <2>6, <2>7, <4>1, <6>2, <6>3, <6>4 DEF r
        <5> QED  BY <5>1, <5>2
      <4> QED  BY <2>6, <4>1, <4>2, <4>3
    <3> QED  BY <3>1, <3>2
  <2>11. N \in Nat \ {0}
    BY <2>2, <2>4
  <2> QED  BY <2>5, <2>8, <2>9, <2>10, <2>11 DEF a, l, N
<1> QED  BY <1>3, <1>4, <1>5

\* TraducirTramos is the function its recursion says.
SonTramos(h, t, dl, n, N) ==
  /\ h[0] = [tlb |-> t, fisicas |-> <<>>]
  /\ \A i \in 1..N : h[i] = TraducirTramo(h[i - 1], Tramos(dl, n)[i], Largos(dl, n)[i])

LEMMA PorTramos ==
  ASSUME NEW t, NEW dl, NEW n, PagNecesarias(dl, n) \in Nat
  PROVE  SonTramos(TraducirTramos(t, dl, n), t, dl, n, PagNecesarias(dl, n))
<1> DEFINE N == PagNecesarias(dl, n)
           nada == [tlb |-> t, fisicas |-> <<>>]
           Uno(h, i) == TraducirTramo(h, Tramos(dl, n)[i], Largos(dl, n)[i])
           S == {m \in Nat : \E g : SonTramos(g, t, dl, n, m)}
<1>1. N \in Nat
  OBVIOUS
<1>2. 0 \in S
  <2>1. SonTramos([i \in 0..0 |-> nada], t, dl, n, 0)
    BY DEF SonTramos
  <2> QED  BY <2>1
<1>3. ASSUME NEW m \in Nat, m \in S PROVE m + 1 \in S
  <2>1. PICK g : SonTramos(g, t, dl, n, m)
    BY <1>3
  <2> DEFINE k == [i \in 0..(m + 1) |-> IF i = m + 1 THEN Uno(g[m], m + 1) ELSE g[i]]
  <2>2. k[m + 1] = Uno(g[m], m + 1) /\ \A i \in 0..m : k[i] = g[i]
    BY <1>3
  <2> HIDE DEF k, Uno
  <2>3. k[0] = nada
    BY <1>3, <2>1, <2>2 DEF SonTramos
  <2>4. ASSUME NEW i \in 1..(m + 1) PROVE k[i] = Uno(k[i - 1], i)
    <3>1. CASE i = m + 1
      BY <1>3, <2>2, <3>1
    <3>2. CASE i # m + 1
      <4>1. i \in 1..m /\ i \in 0..m /\ i - 1 \in 0..m
        BY <1>3, <3>2
      <4>2. g[i] = Uno(g[i - 1], i)
        BY <2>1, <4>1 DEF SonTramos, Uno
      <4> QED  BY <2>2, <4>1, <4>2
    <3> QED  BY <3>1, <3>2
  <2>5. SonTramos(k, t, dl, n, m + 1)
    BY <2>3, <2>4 DEF SonTramos, Uno
  <2> QED  BY <1>3, <2>5
<1>4. N \in S
  <2> HIDE DEF S
  <2> QED  BY <1>1, <1>2, <1>3, Induccion
<1>5. PICK g : SonTramos(g, t, dl, n, N)
  BY <1>4
<1> DEFINE f == [i \in 0..N |-> g[i]]
<1>6. f = [i \in 0..N |-> IF i = 0 THEN nada ELSE Uno(f[i - 1], i)]
  <2>1. ASSUME NEW i \in 0..N
        PROVE  g[i] = IF i = 0 THEN nada ELSE Uno(f[i - 1], i)
    BY <1>1, <1>5 DEF SonTramos
  <2> QED  BY <2>1
<1> HIDE DEF f
<1> DEFINE h == TraducirTramos(t, dl, n)
<1>7. h = [i \in 0..N |-> IF i = 0 THEN nada ELSE Uno(h[i - 1], i)]
  <2>1. \E x : x = [i \in 0..N |-> IF i = 0 THEN nada ELSE Uno(x[i - 1], i)]
    BY <1>6
  <2> QED  BY <2>1 DEF TraducirTramos
<1>8. 0 \in 0..N /\ \A i \in 1..N : i \in 0..N /\ i # 0
  BY <1>1
<1> QED  BY <1>7, <1>8 DEF SonTramos

-----------------------------------------------------------------------------
(***************************************************************************)
(* The MMU                                                                 *)
(***************************************************************************)

TlbBien(t) == t \in Seq(EntradaTLB) /\ Len(t) <= CANT_ENTRADAS_TLB

LEMMA AcomodarBien ==
  ASSUME NEW t, TlbBien(t), CANT_ENTRADAS_TLB > 0, NEW e \in EntradaTLB
  PROVE  /\ TlbBien(Acomodar(t, e))
         /\ \A k \in DOMAIN Acomodar(t, e) :
              Acomodar(t, e)[k] = e \/ \E j \in DOMAIN t : Acomodar(t, e)[k] = t[j]
<1> DEFINE s == IF Len(t) < CANT_ENTRADAS_TLB THEN t ELSE Tail(t)
<1>1. t \in Seq(EntradaTLB) /\ Len(t) \in Nat /\ Len(t) <= CANT_ENTRADAS_TLB
      /\ CANT_ENTRADAS_TLB \in Nat
  BY DireccionamientoAssumption DEF TlbBien
<1>2. /\ s \in Seq(EntradaTLB) /\ Len(s) < CANT_ENTRADAS_TLB
      /\ \A k \in 1..Len(s) : \E j \in 1..Len(t) : s[k] = t[j]
  <2>1. CASE Len(t) < CANT_ENTRADAS_TLB
    BY <1>1, <2>1
  <2>2. CASE ~ (Len(t) < CANT_ENTRADAS_TLB)
    <3>1. t # <<>>
      BY <1>1, <2>2
    <3>2. /\ Tail(t) \in Seq(EntradaTLB) /\ Len(Tail(t)) = Len(t) - 1
          /\ \A k \in 1..(Len(t) - 1) : Tail(t)[k] = t[k + 1]
      BY <1>1, <3>1
    <3> QED  BY <1>1, <2>2, <3>2
  <2> QED  BY <2>1, <2>2
<1>3. Acomodar(t, e) = Append(s, e)
  BY DEF Acomodar
<1> HIDE DEF s
<1>4. /\ Append(s, e) \in Seq(EntradaTLB) /\ Len(Append(s, e)) = Len(s) + 1
      /\ DOMAIN Append(s, e) = 1..(Len(s) + 1)
      /\ Append(s, e)[Len(s) + 1] = e
      /\ \A k \in 1..Len(s) : Append(s, e)[k] = s[k]
  BY <1>2
<1>5. DOMAIN t = 1..Len(t) /\ Len(s) \in Nat
  BY <1>1, <1>2
<1>6. ASSUME NEW k \in 1..(Len(s) + 1)
      PROVE  Append(s, e)[k] = e \/ \E j \in DOMAIN t : Append(s, e)[k] = t[j]
  <2>1. k = Len(s) + 1 \/ k \in 1..Len(s)
    BY <1>5
  <2> QED  BY <1>2, <1>4, <1>5, <2>1
<1> QED  BY <1>1, <1>2, <1>3, <1>4, <1>5, <1>6 DEF TlbBien

\* The entry used last goes to the end.
LEMMA AlFinalBien ==
  ASSUME NEW t, TlbBien(t), NEW k \in DOMAIN t
  PROVE  /\ TlbBien(Append(RemoveAt(t, k), t[k]))
         /\ \A i \in DOMAIN Append(RemoveAt(t, k), t[k]) :
              \E j \in DOMAIN t : Append(RemoveAt(t, k), t[k])[i] = t[j]
<1> DEFINE s == RemoveAt(t, k)
<1>1. t \in Seq(EntradaTLB) /\ Len(t) \in Nat /\ Len(t) <= CANT_ENTRADAS_TLB
      /\ DOMAIN t = 1..Len(t) /\ t[k] \in EntradaTLB /\ k \in 1..Len(t)
  BY DEF TlbBien
<1>2. /\ s \in Seq(EntradaTLB) /\ Len(s) = Len(t) - 1
      /\ \A i \in 1..(Len(t) - 1) : s[i] = t[Salto(k, i)]
  <2>1. t \in Seq(EntradaTLB)
    BY <1>1
  <2> QED  BY ONLY <2>1, k \in DOMAIN t, SinElDe
<1> HIDE DEF s
<1> DEFINE u == Append(s, t[k])
<1>4. /\ u \in Seq(EntradaTLB) /\ Len(u) = Len(t) /\ DOMAIN u = 1..Len(t)
      /\ u[Len(t)] = t[k] /\ \A i \in 1..(Len(t) - 1) : u[i] = s[i]
  <2>1. /\ u \in Seq(EntradaTLB) /\ Len(u) = Len(s) + 1 /\ DOMAIN u = 1..(Len(s) + 1)
        /\ u[Len(s) + 1] = t[k] /\ \A i \in 1..Len(s) : u[i] = s[i]
    <3>1. s \in Seq(EntradaTLB) /\ t[k] \in EntradaTLB
      BY <1>1, <1>2
    <3> QED  BY ONLY <3>1, Agregado
  <2>2. Len(s) + 1 = Len(t)
    BY <1>1, <1>2
  <2> QED  BY <1>2, <2>1, <2>2
<1> HIDE DEF u
<1>5. ASSUME NEW i \in 1..Len(t) PROVE \E j \in DOMAIN t : u[i] = t[j]
  <2>1. CASE i = Len(t)
    BY <1>4, <2>1
  <2>2. CASE i # Len(t)
    <3>1. i \in 1..(Len(t) - 1)
      <4>1. Len(t) \in Nat
        BY <1>1
      <4> QED  BY ONLY <2>2, <4>1, i \in 1..Len(t)
    <3>2. Salto(k, i) \in DOMAIN t
      BY <1>1, <3>1 DEF Salto
    <3> QED  BY <1>2, <1>4, <3>1, <3>2
  <2> QED  BY <2>1, <2>2
<1>6. TlbBien(u) /\ \A i \in DOMAIN u : \E j \in DOMAIN t : u[i] = t[j]
  BY <1>1, <1>4, <1>5 DEF TlbBien
<1> QED  BY <1>6 DEF s, u

\* The pages of an address the process has.
LEMMA PaginaDe ==
  ASSUME MemoriaTypeOK, NEW p \in Procesos, NEW a \in Nat, a < tam_proc(p)
  PROVE  /\ a \div TAM_PAG \in Nat /\ a \div TAM_PAG + 1 \in 1..Len(paginas[p])
         /\ TraducirPagina(p, a \div TAM_PAG) \in Marcos
<1> DEFINE T == TAM_PAG
           q == a \div T
           L == Len(paginas[p])
<1>1. T \in Nat \ {0} /\ L \in Nat /\ paginas[p] \in Seq(Marcos)
  BY MemoriaAssumption DEF MemoriaTypeOK
<1>2. q \in Nat /\ (a % T) \in 0..(T - 1) /\ a = q * T + (a % T)
  BY <1>1, Division
<1>3. a < L * T
  BY DEF tam_proc
<1> HIDE DEF q, T, L
<1>4. q < L
  <2> SUFFICES ASSUME q >= L PROVE FALSE
    BY <1>1, <1>2
  <2>1. q * T >= L * T /\ q * T \in Nat
    BY <1>1, <1>2
  <2> QED  BY <1>1, <1>2, <1>3, <2>1
<1>5. q + 1 \in 1..L
  BY <1>1, <1>2, <1>4
<1>6. paginas[p][q + 1] \in Marcos
  BY <1>1, <1>5 DEF L
<1> QED  BY <1>2, <1>5, <1>6 DEF q, T, L, TraducirPagina

\* What the MMU does to the TLB and where the frame comes from.
Nueva(a) == [pid |-> enCpu, pagina |-> a \div TAM_PAG,
             marco |-> TraducirPagina(enCpu, a \div TAM_PAG)]

MMUHace(t, a, r) ==
  /\ TlbBien(r.tlb)
  /\ \A k \in DOMAIN r.tlb : r.tlb[k] = Nueva(a) \/ \E j \in DOMAIN t : r.tlb[k] = t[j]
  /\ \/ r.df = Nueva(a).marco * TAM_PAG + (a % TAM_PAG)
     \/ \E j \in DOMAIN t : /\ t[j].pid = enCpu /\ t[j].pagina = a \div TAM_PAG
                            /\ r.df = t[j].marco * TAM_PAG + (a % TAM_PAG)

LEMMA MMUEs ==
  ASSUME MemoriaTypeOK, enCpu \in Procesos, NEW t, TlbBien(t),
         NEW a \in Nat, a < tam_proc(enCpu)
  PROVE  MMUHace(t, a, MMU(t, a)) /\ Nueva(a) \in EntradaTLB
<1> DEFINE pag == a \div TAM_PAG
           marco == TraducirPagina(enCpu, pag)
           ac == Aciertos(t, pag)
           k == Min(ac)
<1>1. Nueva(a) \in EntradaTLB /\ Nueva(a).marco = marco
  BY PaginaDe DEF Nueva, EntradaTLB
<1>2. CANT_ENTRADAS_TLB \in Nat
  BY DireccionamientoAssumption
<1>3. CASE CANT_ENTRADAS_TLB = 0
  <2>1. MMU(t, a) = [tlb |-> t, df |-> marco * TAM_PAG + (a % TAM_PAG)]
    BY <1>3 DEF MMU
  <2> QED  BY <1>1, <2>1 DEF MMUHace
<1>4. CASE CANT_ENTRADAS_TLB > 0 /\ ac # {}
  <2>1. ~ (CANT_ENTRADAS_TLB = 0)
    BY <1>4
  <2>2. MMU(t, a) = [tlb |-> IF ALGORITMO_TLB = "LRU" THEN Append(RemoveAt(t, k), t[k]) ELSE t,
                     df  |-> t[k].marco * TAM_PAG + (a % TAM_PAG)]
    BY <1>4, <2>1 DEF MMU
  <2>3. k \in DOMAIN t /\ t[k].pid = enCpu /\ t[k].pagina = pag
    <3>1. ac \in SUBSET Nat
      <4>1. DOMAIN t \subseteq Nat
        BY DEF TlbBien
      <4> QED  BY <4>1 DEF Aciertos
    <3>2. k \in ac
      <4> HIDE DEF ac
      <4> QED  BY <1>4, <3>1, MinEs
    <3> HIDE DEF k
    <3> QED  BY <3>2 DEF Aciertos
  <2> HIDE DEF k
  <2>4. /\ TlbBien(MMU(t, a).tlb)
        /\ \A i \in DOMAIN MMU(t, a).tlb : \E j \in DOMAIN t : MMU(t, a).tlb[i] = t[j]
    <3>1. CASE ALGORITMO_TLB = "LRU"
      <4>1. MMU(t, a).tlb = Append(RemoveAt(t, k), t[k])
        BY <2>2, <3>1
      <4> QED  BY <2>3, <4>1, AlFinalBien
    <3>2. CASE ALGORITMO_TLB # "LRU"
      <4>1. MMU(t, a).tlb = t
        BY <2>2, <3>2
      <4> QED  BY <4>1
    <3> QED  BY <3>1, <3>2
  <2>5. MMU(t, a).df = t[k].marco * TAM_PAG + (a % TAM_PAG)
    BY <2>2
  <2> HIDE DEF ac
  <2> QED  BY <1>1, <2>3, <2>4, <2>5 DEF MMUHace
<1>5. CASE CANT_ENTRADAS_TLB > 0 /\ ac = {}
  <2>1. ~ (CANT_ENTRADAS_TLB = 0)
    BY <1>5
  <2>2. MMU(t, a) = [tlb |-> Acomodar(t, Nueva(a)), df |-> marco * TAM_PAG + (a % TAM_PAG)]
    BY <1>5, <2>1 DEF MMU, Nueva
  <2> QED  BY <1>1, <1>5, <2>2, AcomodarBien DEF MMUHace
<1> QED  BY <1>2, <1>3, <1>4, <1>5

-----------------------------------------------------------------------------
(***************************************************************************)
(* Translation                                                             *)
(***************************************************************************)

\* Where the page table says that byte a of p is.
Fisica(p, a) == paginas[p][a \div TAM_PAG + 1] * TAM_PAG + (a % TAM_PAG)

\* A TLB that says what the page tables say, and nothing of processes to come.
EntradaBuena(e) ==
  /\ vida[e.pid] # "sin_cargar"
  /\ vida[e.pid] = "cargado" =>
       e.pagina < Len(paginas[e.pid]) /\ paginas[e.pid][e.pagina + 1] = e.marco

TlbBuena(t) == \A k \in DOMAIN t : EntradaBuena(t[k])

\* The MMU keeps such a TLB, and with it gives the address of the page table.
LEMMA MMUBuena ==
  ASSUME MemoriaTypeOK, enCpu \in Procesos, NEW t, TlbBien(t), TlbBuena(t),
         vida[enCpu] = "cargado", NEW a \in Nat, a < tam_proc(enCpu)
  PROVE  TlbBuena(MMU(t, a).tlb) /\ MMU(t, a).df = Fisica(enCpu, a)
<1> DEFINE r == MMU(t, a)
<1>1. MMUHace(t, a, r)
  BY MMUEs
<1>2. /\ Nueva(a).pid = enCpu /\ Nueva(a).pagina = a \div TAM_PAG
      /\ Nueva(a).marco = paginas[enCpu][a \div TAM_PAG + 1]
  BY DEF Nueva, TraducirPagina
<1>3. a \div TAM_PAG \in Nat /\ a \div TAM_PAG < Len(paginas[enCpu])
  <2>1. /\ a \div TAM_PAG \in Nat /\ a \div TAM_PAG + 1 \in 1..Len(paginas[enCpu])
        /\ Len(paginas[enCpu]) \in Nat
    BY PaginaDe DEF MemoriaTypeOK
  <2> QED  BY ONLY <2>1
<1>4. EntradaBuena(Nueva(a))
  BY <1>2, <1>3 DEF EntradaBuena
<1> HIDE DEF r
<1>5. TlbBuena(r.tlb)
  BY <1>1, <1>4 DEF TlbBuena, MMUHace
<1>6. r.df = Fisica(enCpu, a)
  <2>1. CASE r.df = Nueva(a).marco * TAM_PAG + (a % TAM_PAG)
    BY <1>2, <2>1 DEF Fisica
  <2>2. ASSUME NEW j \in DOMAIN t, t[j].pid = enCpu, t[j].pagina = a \div TAM_PAG,
               r.df = t[j].marco * TAM_PAG + (a % TAM_PAG)
        PROVE  r.df = Fisica(enCpu, a)
    <3>1. paginas[enCpu][a \div TAM_PAG + 1] = t[j].marco
      BY <2>2 DEF TlbBuena, EntradaBuena
    <3> QED  BY <2>2, <3>1 DEF Fisica
  <2> QED  BY <1>1, <2>1, <2>2 DEF MMUHace
<1> QED  BY <1>5, <1>6 DEF r

\* A frame and a place in it are a physical address.
LEMMA EnElMarco ==
  ASSUME NEW m \in Marcos, NEW x \in 0..(TAM_PAG - 1)
  PROVE  m * TAM_PAG + x \in DireccionesFisicas
<1> DEFINE T == TAM_PAG
           C == CANT_PAG
<1>1. T \in Nat \ {0} /\ C \in Nat \ {0}
  BY MemoriaAssumption
<1>2. m \in Nat /\ m <= C - 1
  BY <1>1 DEF Marcos
<1> HIDE DEF T, C
<1>3. m * T \in Nat /\ m * T <= (C - 1) * T /\ (C - 1) * T = C * T - T /\ C * T \in Nat
  BY <1>1, <1>2
<1>4. m * T + x \in 0..(C * T - 1)
  BY <1>1, <1>3 DEF T
<1> QED  BY <1>4 DEF T, C, DireccionesFisicas

\* One piece.
LEMMA TramoTipos ==
  ASSUME MemoriaTypeOK, enCpu \in Procesos,
         NEW h, TlbBien(h.tlb), h.fisicas \in Seq(DireccionesFisicas),
         NEW a \in Nat, NEW l \in Nat \ {0}, (a % TAM_PAG) + l <= TAM_PAG,
         a + l <= tam_proc(enCpu),
         NEW r, r = TraducirTramo(h, a, l)
  PROVE  /\ TlbBien(r.tlb)
         /\ r.fisicas \in Seq(DireccionesFisicas)
         /\ Len(r.fisicas) = Len(h.fisicas) + l
         /\ \A k \in 1..Len(h.fisicas) : r.fisicas[k] = h.fisicas[k]
         /\ \A k \in 1..l : r.fisicas[Len(h.fisicas) + k] = MMU(h.tlb, a).df + k - 1
<1> DEFINE T == TAM_PAG
           m == MMU(h.tlb, a)
           c == [k \in 1..l |-> m.df + k - 1]
<1>1. r.tlb = m.tlb /\ r.fisicas = h.fisicas \o c
  BY DEF TraducirTramo
<1>2. T \in Nat \ {0} /\ (a % T) \in 0..(T - 1)
  <2>1. T \in Nat \ {0}
    BY MemoriaAssumption
  <2> QED  BY <2>1, Division
<1>3. MMUHace(h.tlb, a, m) /\ Nueva(a) \in EntradaTLB
  <2>1. a < tam_proc(enCpu)
    <3>1. tam_proc(enCpu) \in Nat
      BY <1>2 DEF MemoriaTypeOK, tam_proc
    <3> QED  BY <3>1
  <2> QED  BY <2>1, MMUEs
<1> HIDE DEF m
<1>4. PICK marco \in Marcos : m.df = marco * T + (a % T)
  <2>1. Nueva(a).marco \in Marcos
    BY <1>3 DEF EntradaTLB
  <2>2. \A j \in DOMAIN h.tlb : h.tlb[j].marco \in Marcos
    <3>1. h.tlb \in Seq(EntradaTLB)
      BY DEF TlbBien
    <3>2. ASSUME NEW j \in DOMAIN h.tlb PROVE h.tlb[j] \in EntradaTLB
      BY <3>1
    <3> QED  BY <3>2 DEF EntradaTLB
  <2> QED  BY <1>3, <2>1, <2>2 DEF MMUHace
<1>5. c \in Seq(DireccionesFisicas) /\ Len(c) = l /\ \A k \in 1..l : c[k] = m.df + k - 1
  <2>1. ASSUME NEW k \in 1..l PROVE m.df + k - 1 \in DireccionesFisicas
    <3>1. (a % T) + (k - 1) \in 0..(T - 1)
      BY <1>2
    <3>2. marco * T + ((a % T) + (k - 1)) \in DireccionesFisicas
      <4> HIDE DEF T
      <4> QED  BY ONLY <3>1, marco \in Marcos, EnElMarco DEF T
    <3>3. marco * T \in Nat
      BY <1>2, MemoriaAssumption DEF Marcos
    <3>4. m.df + k - 1 = marco * T + ((a % T) + (k - 1))
      BY <1>2, <1>4, <3>1, <3>3
    <3> QED  BY <3>2, <3>4
  <2> QED  BY <2>1
<1> HIDE DEF c
<1>6. /\ h.fisicas \o c \in Seq(DireccionesFisicas)
      /\ Len(h.fisicas \o c) = Len(h.fisicas) + Len(c)
      /\ \A k \in 1..Len(h.fisicas) : (h.fisicas \o c)[k] = h.fisicas[k]
      /\ \A k \in 1..Len(c) : (h.fisicas \o c)[Len(h.fisicas) + k] = c[k]
  <2>1. c \in Seq(DireccionesFisicas)
    BY <1>5
  <2> QED  BY ONLY <2>1, h.fisicas \in Seq(DireccionesFisicas), Pegado
<1> QED  BY <1>1, <1>3, <1>5, <1>6 DEF MMUHace, m

LEMMA TramoBueno ==
  ASSUME MemoriaTypeOK, enCpu \in Procesos,
         NEW h, TlbBien(h.tlb), h.fisicas \in Seq(DireccionesFisicas),
         NEW a \in Nat, NEW l \in Nat \ {0}, (a % TAM_PAG) + l <= TAM_PAG,
         a + l <= tam_proc(enCpu),
         NEW r, r = TraducirTramo(h, a, l),
         TlbBuena(h.tlb), vida[enCpu] = "cargado"
  PROVE  /\ TlbBuena(r.tlb)
         /\ \A k \in 1..l : r.fisicas[Len(h.fisicas) + k] = Fisica(enCpu, a + (k - 1))
<1> DEFINE T == TAM_PAG
<1>1. T \in Nat \ {0} /\ (a % T) \in 0..(T - 1)
  <2>1. T \in Nat \ {0}
    BY MemoriaAssumption
  <2> QED  BY <2>1, Division
<1>2. TlbBuena(MMU(h.tlb, a).tlb) /\ MMU(h.tlb, a).df = Fisica(enCpu, a)
  <2>1. a < tam_proc(enCpu)
    <3>1. tam_proc(enCpu) \in Nat
      BY <1>1 DEF MemoriaTypeOK, tam_proc
    <3> QED  BY <3>1
  <2> QED  BY <2>1, MMUBuena
<1>3. \A k \in 1..l : r.fisicas[Len(h.fisicas) + k] = MMU(h.tlb, a).df + k - 1
  BY TramoTipos
<1>4. r.tlb = MMU(h.tlb, a).tlb
  BY DEF TraducirTramo
<1>5. ASSUME NEW k \in 1..l PROVE Fisica(enCpu, a) + k - 1 = Fisica(enCpu, a + (k - 1))
  <2>1. k - 1 \in Nat /\ (a % T) + (k - 1) < T
    BY <1>1
  <2>2. (a + (k - 1)) \div T = a \div T /\ (a + (k - 1)) % T = (a % T) + (k - 1)
    <3> HIDE DEF T
    <3> QED  BY ONLY <1>1, <2>1, a \in Nat, UnaPagina
  <2>3. paginas[enCpu][a \div T + 1] * T \in Nat
    <3>1. a < tam_proc(enCpu)
      <4>1. tam_proc(enCpu) \in Nat
        BY <1>1 DEF MemoriaTypeOK, tam_proc
      <4> QED  BY <4>1
    <3>2. paginas[enCpu][a \div T + 1] \in Marcos
      BY <3>1, PaginaDe DEF TraducirPagina
    <3>3. paginas[enCpu][a \div T + 1] \in Nat
      BY <3>2, MemoriaAssumption DEF Marcos
    <3>4. \A y \in Nat : y * T \in Nat
      <4>1. T \in Nat
        BY <1>1
      <4> HIDE DEF T
      <4> QED  BY ONLY <4>1
    <3> QED  BY <3>3, <3>4
  <2> DEFINE x == paginas[enCpu][a \div T + 1] * T
  <2>4. Fisica(enCpu, a) = x + (a % T)
    BY DEF Fisica
  <2>5. Fisica(enCpu, a + (k - 1)) = x + ((a % T) + (k - 1))
    BY <2>2 DEF Fisica
  <2>6. (x + (a % T)) + k - 1 = x + ((a % T) + (k - 1))
    <3>1. x \in Nat /\ a % T \in Nat /\ k \in Nat
      BY <1>1, <2>3
    <3>2. \A y, z \in Nat : (y + z) + k - 1 = y + (z + (k - 1))
      BY ONLY <3>1
    <3> HIDE DEF x
    <3> QED  BY <3>1, <3>2
  <2> HIDE DEF x
  <2> QED  BY <2>4, <2>5, <2>6
<1> QED  BY <1>2, <1>3, <1>4, <1>5

\* The first x bytes at dl have been translated, with t as the TLB at the beginning.
Traducidos(t, dl, x, h) ==
  /\ TlbBien(h.tlb)
  /\ h.fisicas \in Seq(DireccionesFisicas) /\ Len(h.fisicas) = x
  /\ TlbBuena(t) /\ vida[enCpu] = "cargado" =>
       /\ TlbBuena(h.tlb)
       /\ \A k \in 1..x : h.fisicas[k] = Fisica(enCpu, dl + (k - 1))

LEMMA UnTramoMas ==
  ASSUME MemoriaTypeOK, enCpu \in Procesos, NEW t, NEW dl \in Nat, NEW h,
         NEW a \in Nat, NEW l \in Nat \ {0}, dl <= a, (a % TAM_PAG) + l <= TAM_PAG,
         a + l <= tam_proc(enCpu),
         Traducidos(t, dl, a - dl, h)
  PROVE  Traducidos(t, dl, a - dl + l, TraducirTramo(h, a, l))
<1> DEFINE r == TraducirTramo(h, a, l)
           x == a - dl
<1>1. TlbBien(h.tlb) /\ h.fisicas \in Seq(DireccionesFisicas) /\ Len(h.fisicas) = x
  BY DEF Traducidos
<1>2. /\ TlbBien(r.tlb) /\ r.fisicas \in Seq(DireccionesFisicas)
      /\ Len(r.fisicas) = Len(h.fisicas) + l
      /\ \A k \in 1..Len(h.fisicas) : r.fisicas[k] = h.fisicas[k]
  <2> HIDE DEF r
  <2>1. r = TraducirTramo(h, a, l)
    BY DEF r
  <2> QED  BY <1>1, <2>1, TramoTipos
<1>3. ASSUME TlbBuena(t), vida[enCpu] = "cargado"
      PROVE  TlbBuena(r.tlb) /\ \A k \in 1..(x + l) : r.fisicas[k] = Fisica(enCpu, dl + (k - 1))
  <2>1. TlbBuena(h.tlb) /\ \A k \in 1..x : h.fisicas[k] = Fisica(enCpu, dl + (k - 1))
    BY <1>3 DEF Traducidos
  <2>2. /\ TlbBuena(r.tlb)
        /\ \A k \in 1..l : r.fisicas[Len(h.fisicas) + k] = Fisica(enCpu, a + (k - 1))
    <3> HIDE DEF r
    <3>1. r = TraducirTramo(h, a, l)
      BY DEF r
    <3> QED  BY <1>1, <1>3, <2>1, <3>1, TramoBueno
  <2> HIDE DEF r
  <2>3. ASSUME NEW k \in 1..(x + l) PROVE r.fisicas[k] = Fisica(enCpu, dl + (k - 1))
    <3>1. CASE k \in 1..x
      BY <1>1, <1>2, <2>1, <3>1
    <3>2. CASE k \notin 1..x
      <4> DEFINE j == k - x
      <4>1. j \in 1..l /\ x + j = k /\ a + (j - 1) = dl + (k - 1)
        BY <3>2
      <4> HIDE DEF j, x
      <4> QED  BY <1>1, <2>2, <4>1
    <3> QED  BY <3>1, <3>2
  <2> QED  BY <2>2, <2>3
<1> HIDE DEF r
<1> QED  BY <1>1, <1>2, <1>3 DEF Traducidos, r

\* The n bytes: n physical addresses, those of the page table if the TLB is good.
LEMMA TraducirEs ==
  ASSUME MemoriaTypeOK, enCpu \in Procesos, NEW t, TlbBien(t),
         NEW dl \in Nat, NEW n \in Nat \ {0}, dl + n <= tam_proc(enCpu)
  PROVE  Traducidos(t, dl, n, Traducir(t, dl, n))
<1> DEFINE N == PagNecesarias(dl, n)
           a == Tramos(dl, n)
           l == Largos(dl, n)
           h == TraducirTramos(t, dl, n)
           x(i) == IF i = N THEN n ELSE a[i + 1] - dl
           S == {i \in Nat : i <= N => Traducidos(t, dl, x(i), h[i])}
<1>1. /\ N \in Nat \ {0}
      /\ a[1] = dl /\ a[N] + l[N] = dl + n
      /\ \A i \in 1..N : /\ a[i] \in Nat /\ l[i] \in Nat \ {0}
                         /\ (a[i] % TAM_PAG) + l[i] <= TAM_PAG
                         /\ dl <= a[i] /\ a[i] + l[i] <= dl + n
      /\ \A i \in 1..N : i # N => a[i + 1] = a[i] + l[i]
  BY ONLY dl \in Nat, n \in Nat \ {0}, LosTramos
<1>2. /\ h[0] = [tlb |-> t, fisicas |-> <<>>]
      /\ \A i \in 1..N : h[i] = TraducirTramo(h[i - 1], a[i], l[i])
  BY <1>1, PorTramos DEF SonTramos
<1>3. tam_proc(enCpu) \in Nat
  BY MemoriaAssumption DEF MemoriaTypeOK, tam_proc
<1> HIDE DEF N, a, l, h
<1>4. 0 \in S
  <2>1. x(0) = 0
    BY <1>1
  <2>2. Traducidos(t, dl, 0, h[0])
    <3>1. h[0].tlb = t /\ h[0].fisicas = <<>>
      BY <1>2
    <3> QED  BY <3>1 DEF Traducidos
  <2> QED  BY <2>1, <2>2
<1>5. ASSUME NEW i \in Nat, i \in S PROVE i + 1 \in S
  <2> SUFFICES ASSUME i + 1 <= N PROVE Traducidos(t, dl, x(i + 1), h[i + 1])
    OBVIOUS
  <2>1. i + 1 \in 1..N /\ i # N /\ i <= N
    BY <1>1
  <2>2. x(i) = a[i + 1] - dl
    BY <2>1
  <2>3. Traducidos(t, dl, a[i + 1] - dl, h[i])
    BY <1>5, <2>1, <2>2
  <2>4. h[i + 1] = TraducirTramo(h[i], a[i + 1], l[i + 1])
    <3>1. (i + 1) - 1 = i
      OBVIOUS
    <3> QED  BY <1>2, <2>1, <3>1
  <2>5. /\ a[i + 1] \in Nat /\ l[i + 1] \in Nat \ {0}
        /\ (a[i + 1] % TAM_PAG) + l[i + 1] <= TAM_PAG
        /\ dl <= a[i + 1] /\ a[i + 1] + l[i + 1] <= tam_proc(enCpu)
    BY <1>1, <1>3, <2>1
  <2>6. x(i + 1) = a[i + 1] - dl + l[i + 1]
    <3>1. CASE i + 1 = N
      BY <1>1, <2>5, <3>1
    <3>2. CASE i + 1 # N
      <4>1. a[(i + 1) + 1] = a[i + 1] + l[i + 1]
        BY <1>1, <2>1, <3>2
      <4> QED  BY <2>5, <3>2, <4>1
    <3> QED  BY <3>1, <3>2
  <2>7. Traducidos(t, dl, a[i + 1] - dl + l[i + 1], TraducirTramo(h[i], a[i + 1], l[i + 1]))
    BY <2>3, <2>5, UnTramoMas
  <2> QED  BY <2>4, <2>6, <2>7
<1>6. N \in S
  <2> HIDE DEF S
  <2> QED  BY <1>1, <1>4, <1>5, Induccion
<1>7. Traducidos(t, dl, n, h[N])
  BY <1>1, <1>6
<1> QED  BY <1>7 DEF Traducir, h, N

-----------------------------------------------------------------------------
(***************************************************************************)
(* The bytes                                                               *)
(***************************************************************************)

LEMMA LeerEs ==
  ASSUME MemoriaTypeOK, NEW f \in Seq(DireccionesFisicas)
  PROVE  /\ Leer(f) \in Seq(Octetos) /\ Len(Leer(f)) = Len(f)
         /\ \A k \in 1..Len(f) : Leer(f)[k] = memoria_contigua[f[k]]
<1>1. ASSUME NEW k \in DOMAIN f PROVE memoria_contigua[f[k]] \in Octetos
  BY DEF MemoriaTypeOK
<1>2. Leer(f) = [k \in 1..Len(f) |-> memoria_contigua[f[k]]] /\ Len(f) \in Nat
  BY DEF Leer
<1> QED  BY <1>1, <1>2

\* The text that LeerString gives is what there is up to the first zero.
LEMMA LeerStringEs ==
  ASSUME MemoriaTypeOK, NEW f \in Seq(DireccionesFisicas)
  PROVE  /\ LeerString(f) \in Seq(Octetos) /\ Len(LeerString(f)) \in 0..Len(f)
         /\ \A k \in 1..Len(LeerString(f)) :
              LeerString(f)[k] = memoria_contigua[f[k]] /\ LeerString(f)[k] # 0
         /\ Len(LeerString(f)) < Len(f) => memoria_contigua[f[Len(LeerString(f)) + 1]] = 0
<1> DEFINE cadena == Leer(f)
           ceros == {k \in DOMAIN cadena : cadena[k] = 0}
<1>1. /\ cadena \in Seq(Octetos) /\ Len(cadena) = Len(f)
      /\ \A k \in 1..Len(f) : cadena[k] = memoria_contigua[f[k]]
  BY LeerEs
<1> HIDE DEF cadena
<1>a. DOMAIN cadena = 1..Len(f) /\ Len(f) \in Nat
  BY <1>1
<1>2. CASE ceros = {}
  <2>1. LeerString(f) = cadena
    BY <1>2 DEF LeerString, cadena
  <2>2. \A k \in 1..Len(f) : cadena[k] # 0
    BY <1>2, <1>a
  <2> QED  BY <1>1, <1>a, <2>1, <2>2
<1>3. CASE ceros # {}
  <2> DEFINE m == Min(ceros) - 1
  <2>1. LeerString(f) = SubSeq(cadena, 1, m)
    BY <1>3 DEF LeerString, cadena
  <2>2. /\ Min(ceros) \in 1..Len(cadena) /\ cadena[Min(ceros)] = 0
        /\ \A k \in 1..Len(f) : k < Min(ceros) => cadena[k] # 0
    <3>1. ceros \in SUBSET Nat
      BY <1>a
    <3>2. Min(ceros) \in ceros /\ Min(ceros) \in Nat /\ \A k \in ceros : Min(ceros) <= k
      <4> HIDE DEF ceros
      <4> QED  BY <1>3, <3>1, MinEs
    <3> DEFINE c == Min(ceros)
    <3> HIDE DEF c
    <3>3. c \in ceros /\ c \in Nat /\ \A k \in ceros : c <= k
      BY <3>2 DEF c
    <3>4. \A k \in 1..Len(f) : k < c => cadena[k] # 0
      BY <1>a, <3>3
    <3>5. c \in 1..Len(cadena) /\ cadena[c] = 0
      BY <1>1, <1>a, <3>3
    <3> QED  BY <3>4, <3>5 DEF c
  <2> HIDE DEF ceros
  <2>3. m \in 0..Len(cadena) /\ m < Len(f) /\ m + 1 = Min(ceros)
    BY <1>1, <1>a, <2>2
  <2>5. cadena[m + 1] = 0 /\ (\A k \in 1..m : cadena[k] # 0) /\ m + 1 \in 1..Len(f)
    BY <1>a, <2>2, <2>3
  <2> HIDE DEF m
  <2>4. /\ SubSeq(cadena, 1, m) \in Seq(Octetos) /\ Len(SubSeq(cadena, 1, m)) = m
        /\ \A k \in 1..m : SubSeq(cadena, 1, m)[k] = cadena[k]
    BY <1>1, <2>3
  <2> QED  BY <1>1, <1>a, <2>1, <2>3, <2>4, <2>5
<1> QED  BY <1>2, <1>3

\* Each byte is what it was or one of those written there.
LEMMA EscribirEs ==
  ASSUME NEW f \in Seq(DireccionesFisicas), NEW bytes, Escribir(f, bytes)
  PROVE  /\ DOMAIN memoria_contigua' = DireccionesFisicas
         /\ \A x \in DireccionesFisicas :
              \/ memoria_contigua'[x] = memoria_contigua[x] /\ \A k \in 1..Len(f) : f[k] # x
              \/ \E k \in 1..Len(f) : f[k] = x /\ memoria_contigua'[x] = bytes[k]
         /\ UNCHANGED <<bitmap, cambia, paginas, vida, faltan>>
<1>1. DOMAIN f = 1..Len(f) /\ Len(f) \in Nat
  OBVIOUS
<1>2. ASSUME NEW x \in DireccionesFisicas
      PROVE  \/ memoria_contigua'[x] = memoria_contigua[x] /\ \A k \in 1..Len(f) : f[k] # x
             \/ \E k \in 1..Len(f) : f[k] = x /\ memoria_contigua'[x] = bytes[k]
  <2> DEFINE E == {k \in DOMAIN f : f[k] = x}
  <2>1. memoria_contigua'[x] = IF E = {} THEN memoria_contigua[x] ELSE bytes[Max(E)]
    BY DEF Escribir
  <2>2. CASE E = {}
    BY <1>1, <2>1, <2>2
  <2>3. CASE E # {}
    <3>1. E \in SUBSET (0..Len(f))
      BY <1>1
    <3>2. Max(E) \in E
      <4> HIDE DEF E
      <4> QED  BY <1>1, <2>3, <3>1, MaxEs
    <3> QED  BY <1>1, <2>1, <2>3, <3>2
  <2> QED  BY <2>2, <2>3
<1> QED  BY <1>2 DEF Escribir

LEMMA EscribirTipos ==
  ASSUME MemoriaTypeOK, NEW f \in Seq(DireccionesFisicas), NEW bytes, Escribir(f, bytes),
         \A k \in 1..Len(f) : bytes[k] \in Octetos
  PROVE  MemoriaTypeOK'
<1>1. memoria_contigua' \in [DireccionesFisicas -> Octetos]
  <2>1. \A x \in DireccionesFisicas : memoria_contigua'[x] \in Octetos
    BY EscribirEs DEF MemoriaTypeOK
  <2>2. memoria_contigua' = [x \in DireccionesFisicas |-> memoria_contigua'[x]]
    BY DEF Escribir
  <2> QED  BY <2>1, <2>2
<1>2. UNCHANGED <<bitmap, cambia, paginas, vida, faltan>>
  BY EscribirEs
<1> QED  BY <1>1, <1>2 DEF MemoriaTypeOK

\* What MOV_OUT stores is the beginning of the register, however many pages it takes.
LEMMA EnMemoriaEs ==
  ASSUME NEW p \in Procesos, NEW dl \in Nat, NEW n \in Anchos
  PROVE  /\ EnMemoria(Registro(p), n, PagNecesarias(dl, n)) = SubSeq(Registro(p), 1, n)
         /\ EnMemoria(Registro(p), n, PagNecesarias(dl, n)) \in Seq(Octetos)
         /\ Len(EnMemoria(Registro(p), n, PagNecesarias(dl, n))) = n
<1> DEFINE e == EnMemoria(Registro(p), n, PagNecesarias(dl, n))
<1>1. n = 1 \/ n = 4
  BY DEF Anchos
<1>2. Registro(p) \in Seq(Octetos) /\ Len(Registro(p)) = 4
  BY DEF Registro, Octetos
<1>3. <<p>> \in Seq(Octetos) /\ Len(<<p>>) = 1
  BY DEF Octetos
<1>4. CASE n = 1
  <2>1. EspacioEnPag(dl) >= 1
    <3>1. TAM_PAG \in Nat \ {0} /\ (dl % TAM_PAG) \in 0..(TAM_PAG - 1)
      <4>1. TAM_PAG \in Nat \ {0}
        BY MemoriaAssumption
      <4> QED  BY <4>1, Division
    <3> QED  BY <3>1 DEF EspacioEnPag
  <2>2. PagNecesarias(dl, n) = 1
    BY <1>4, <2>1 DEF PagNecesarias
  <2>3. e = SubSeq(Registro(p), 1, 1)
    BY <1>4, <2>2 DEF EnMemoria
  <2>4. SubSeq(Registro(p), 1, 1) = <<p>>
    <3>1. /\ SubSeq(Registro(p), 0 + 1, 0 + 1) \in Seq(Octetos)
          /\ Len(SubSeq(Registro(p), 0 + 1, 0 + 1)) = 1
          /\ \A i \in 1..1 : SubSeq(Registro(p), 0 + 1, 0 + 1)[i] = Registro(p)[0 + i]
      <4>1. 0 + 1 <= Len(Registro(p)) /\ 0 \in Nat /\ 1 \in Nat
        BY <1>2
      <4>2. Registro(p) \in Seq(Octetos)
        BY <1>2
      <4> QED  BY ONLY <4>1, <4>2, Recorte
    <3> DEFINE s == SubSeq(Registro(p), 1, 1)
    <3>2. s \in Seq(Octetos) /\ Len(s) = 1 /\ s[1] = Registro(p)[1]
      BY <3>1
    <3>3. Registro(p)[1] = p
      BY DEF Registro
    <3> HIDE DEF s
    <3>4. s = <<p>>
      BY <1>3, <3>2, <3>3
    <3> QED  BY <3>4 DEF s
  <2> QED  BY <1>3, <1>4, <2>3, <2>4
<1>5. CASE n = 4
  <2>1. SubSeq(Registro(p), 1, 4) = Registro(p)
    BY <1>2, SubSeqFull
  <2>2. <<Registro(p)[1], Registro(p)[2], Registro(p)[2], Registro(p)[2]>> = Registro(p)
    BY DEF Registro
  <2>3. e = Registro(p)
    BY <1>5, <2>1, <2>2 DEF EnMemoria
  <2> QED  BY <1>2, <1>5, <2>1, <2>3
<1> QED  BY <1>1, <1>4, <1>5

-----------------------------------------------------------------------------
(***************************************************************************)
(* Types                                                                   *)
(***************************************************************************)

LEMMA TypeOKInit == Init => TypeOK
<1> SUFFICES ASSUME Init PROVE TypeOK
  OBVIOUS
<1>1. MemoriaTypeOK
  BY DEF Init, MemoriaInit, MemoriaTypeOK, Octetos, Vidas, Hilos
<1>2. Ninguno \in [op : {"ninguna", "LECTURA_STRING", "ESCRITURA_STRING"},
                   dl : Nat, fisicas : Seq(DireccionesFisicas)]
  BY DEF Ninguno
<1>3. CANT_ENTRADAS_TLB \in Nat
  BY DireccionamientoAssumption
<1> QED  BY <1>1, <1>2, <1>3 DEF Init, TypeOK

\* What the instructions read, write and translate.
LEMMA AccesoTipos ==
  ASSUME TypeOK, NEW p \in Procesos, Ejecuta(p), NEW t, TlbBien(t),
         NEW dl \in Direcciones, NEW n \in Nat \ {0}, EnSuEspacio(p, dl, n)
  PROVE  Traducidos(t, dl, n, Traducir(t, dl, n))
<1>1. MemoriaTypeOK /\ enCpu \in Procesos /\ dl \in Nat /\ dl + n <= tam_proc(enCpu)
  BY DireccionamientoAssumption DEF TypeOK, Ejecuta, EnSuEspacio
<1> QED  BY <1>1, TraducirEs

LEMMA PideIOTipos ==
  ASSUME TypeOK, NEW p \in Procesos, NEW op \in {"LECTURA_STRING", "ESCRITURA_STRING"},
         NEW dl \in Direcciones, NEW n \in Cadenas, PideIO(p, op, dl, n)
  PROVE  TypeOK'
<1> DEFINE r == Traducir(tlb, dl, n)
<1>1. /\ n \in Nat \ {0} /\ dl \in Nat /\ TlbBien(tlb)
      /\ Ejecuta(p) /\ EnSuEspacio(p, dl, n)
  BY DireccionamientoAssumption DEF PideIO, TypeOK, TlbBien
<1>2. TlbBien(r.tlb) /\ r.fisicas \in Seq(DireccionesFisicas)
  BY <1>1, AccesoTipos DEF Traducidos
<1>3. /\ tlb' = r.tlb
      /\ pedido' = [pedido EXCEPT ![p] = [op |-> op, dl |-> dl, fisicas |-> r.fisicas]]
      /\ enCpu' = Nadie /\ leido' = <<>> /\ UNCHANGED memoriaVars
  BY DEF PideIO, Sirve
<1> HIDE DEF r
<1>4. MemoriaTypeOK'
  BY <1>3 DEF TypeOK, MemoriaTypeOK, memoriaVars
<1> QED  BY <1>1, <1>2, <1>3, <1>4 DEF TypeOK, TlbBien

LEMMA MovInTipos ==
  ASSUME TypeOK, NEW p \in Procesos, NEW dl \in Direcciones, NEW n \in Anchos, MovIn(p, dl, n)
  PROVE  TypeOK'
<1> DEFINE r == Traducir(tlb, dl, n)
<1>1. n \in Nat \ {0} /\ TlbBien(tlb) /\ Ejecuta(p) /\ EnSuEspacio(p, dl, n)
  BY DEF MovIn, TypeOK, TlbBien, Anchos
<1>2. TlbBien(r.tlb) /\ r.fisicas \in Seq(DireccionesFisicas)
  BY <1>1, AccesoTipos DEF Traducidos
<1>3. tlb' = r.tlb /\ leido' = Leer(r.fisicas) /\ UNCHANGED <<memoriaVars, enCpu, pedido>>
  BY DEF MovIn
<1> HIDE DEF r
<1>4. MemoriaTypeOK'
  BY <1>3 DEF TypeOK, MemoriaTypeOK, memoriaVars
<1>5. leido' \in Seq(Octetos)
  BY <1>2, <1>3, LeerEs DEF TypeOK
<1> QED  BY <1>2, <1>3, <1>4, <1>5 DEF TypeOK, TlbBien

LEMMA MovOutTipos ==
  ASSUME TypeOK, NEW p \in Procesos, NEW dl \in Direcciones, NEW n \in Anchos, MovOut(p, dl, n)
  PROVE  TypeOK'
<1> DEFINE r == Traducir(tlb, dl, n)
           b == EnMemoria(Registro(p), n, PagNecesarias(dl, n))
<1>1. /\ n \in Nat \ {0} /\ dl \in Nat /\ TlbBien(tlb) /\ Ejecuta(p) /\ EnSuEspacio(p, dl, n)
      /\ MemoriaTypeOK
  BY DireccionamientoAssumption DEF MovOut, TypeOK, TlbBien, Anchos
<1>2. TlbBien(r.tlb) /\ r.fisicas \in Seq(DireccionesFisicas) /\ Len(r.fisicas) = n
  BY <1>1, AccesoTipos DEF Traducidos
<1>3. /\ tlb' = r.tlb /\ Escribir(r.fisicas, b) /\ leido' = <<>> /\ UNCHANGED <<enCpu, pedido>>
  BY DEF MovOut, Sirve
<1>4. b \in Seq(Octetos) /\ Len(b) = n
  BY <1>1, EnMemoriaEs
<1> HIDE DEF r, b
<1>5. \A k \in 1..Len(r.fisicas) : b[k] \in Octetos
  BY <1>2, <1>4
<1>6. MemoriaTypeOK'
  BY <1>1, <1>2, <1>3, <1>5, EscribirTipos
<1> QED  BY <1>2, <1>3, <1>6 DEF TypeOK, TlbBien

LEMMA CopyStringTipos ==
  ASSUME TypeOK, NEW p \in Procesos, NEW si \in Direcciones, NEW di \in Direcciones,
         NEW n \in Cadenas, CopyString(p, si, di, n)
  PROVE  TypeOK'
<1> DEFINE o == Traducir(tlb, si, n)
           d == Traducir(o.tlb, di, n)
           c == LeerString(o.fisicas)
<1>1. /\ n \in Nat \ {0} /\ TlbBien(tlb) /\ Ejecuta(p)
      /\ EnSuEspacio(p, si, n) /\ EnSuEspacio(p, di, n) /\ MemoriaTypeOK
  BY DireccionamientoAssumption DEF CopyString, TypeOK, TlbBien
<1>2. TlbBien(o.tlb) /\ o.fisicas \in Seq(DireccionesFisicas)
  BY <1>1, AccesoTipos DEF Traducidos
<1>3. /\ Len(c) = n /\ tlb' = d.tlb /\ EscribirString(d.fisicas, c)
      /\ leido' = <<>> /\ UNCHANGED <<enCpu, pedido>>
  BY DEF CopyString, Sirve
<1> HIDE DEF o
<1>4. TlbBien(d.tlb) /\ d.fisicas \in Seq(DireccionesFisicas) /\ Len(d.fisicas) = n
  BY <1>1, <1>2, AccesoTipos DEF Traducidos
<1>5. c \in Seq(Octetos)
  BY <1>1, <1>2, LeerStringEs
<1> HIDE DEF d, c
<1>6. \A k \in 1..Len(d.fisicas) : c[k] \in Octetos
  BY <1>3, <1>4, <1>5
<1>7. MemoriaTypeOK'
  BY <1>1, <1>3, <1>4, <1>6, EscribirTipos DEF EscribirString
<1> QED  BY <1>3, <1>4, <1>7 DEF TypeOK, TlbBien

LEMMA InterfazTipos ==
  ASSUME TypeOK, NEW p \in Procesos, EscribeInterfaz(p) \/ LeeInterfaz(p)
  PROVE  TypeOK'
<1> DEFINE f == pedido[p].fisicas
<1>1. f \in Seq(DireccionesFisicas) /\ MemoriaTypeOK
  BY DEF TypeOK
<1>2. Ninguno \in [op : {"ninguna", "LECTURA_STRING", "ESCRITURA_STRING"},
                   dl : Nat, fisicas : Seq(DireccionesFisicas)]
  BY DEF Ninguno
<1>3. CASE EscribeInterfaz(p)
  <2> DEFINE b == [k \in DOMAIN f |-> Texto]
  <2>1. Escribir(f, b) /\ pedido' = [pedido EXCEPT ![p] = Ninguno] /\ leido' = <<>>
        /\ UNCHANGED <<tlb, enCpu>>
    BY <1>3 DEF EscribeInterfaz, EscribirString, Sirve
  <2>2. \A k \in 1..Len(f) : b[k] \in Octetos
    BY <1>1 DEF Octetos
  <2> HIDE DEF f, b
  <2>3. MemoriaTypeOK'
    BY <1>1, <2>1, <2>2, EscribirTipos
  <2> QED  BY <1>2, <2>1, <2>3 DEF TypeOK
<1>4. CASE LeeInterfaz(p)
  <2>1. /\ leido' = LeerString(f) /\ pedido' = [pedido EXCEPT ![p] = Ninguno]
        /\ UNCHANGED <<memoriaVars, tlb, enCpu>>
    BY <1>4 DEF LeeInterfaz
  <2> HIDE DEF f
  <2>2. leido' \in Seq(Octetos)
    BY <1>1, <2>1, LeerStringEs
  <2>3. MemoriaTypeOK'
    BY <1>1, <2>1 DEF MemoriaTypeOK, memoriaVars
  <2> QED  BY <1>2, <2>1, <2>2, <2>3 DEF TypeOK
<1> QED  BY <1>3, <1>4

\* The steps that leave the bytes, the TLB and the requests alone.
LEMMA SinAccesoTipos ==
  ASSUME TypeOK, Base', NEW p \in Procesos,
         \/ Carga(p) \/ Despacha(p) \/ Vuelve(p) \/ Finaliza(p) \/ Limpia(p)
         \/ \E tamanio \in Tamanios : AchicaProceso(p, tamanio) \/ AgrandaProceso(p, tamanio)
         \/ BuscaPagina(p) \/ DevuelvePagina(p) \/ RecibePagina(p) \/ SaleSinMemoria(p)
  PROVE  TypeOK'
<1>1. UNCHANGED <<memoria_contigua, tlb, pedido>> /\ leido' = <<>>
  BY DEF Carga, NuevoProceso, Despacha, Vuelve, Finaliza, LiberarProceso, Limpia, LeeAlLiberar,
     LimpiaMarco, LiberaTabla, AchicaProceso, AgrandaProceso, BuscaPagina, LeeAlSacar, BuscaMarco,
     DevuelvePagina, SacaPagina, RecibePagina, AniadePagina, SaleSinMemoria, SinMarcos, Sirve,
     memoriaVars
<1>2. MemoriaTypeOK' /\ enCpu' \in Procesos \cup {Nadie}
  BY <1>1 DEF TypeOK, MemoriaTypeOK, Base, TipoMarcos
<1> QED  BY <1>1, <1>2 DEF TypeOK

LEMMA TypeOKNext == TypeOK /\ Base' /\ [Next]_vars => TypeOK'
<1> SUFFICES ASSUME TypeOK, Base', [Next]_vars PROVE TypeOK'
  OBVIOUS
<1>1. CASE UNCHANGED vars
  BY <1>1 DEF vars, memoriaVars, TypeOK, MemoriaTypeOK
<1>2. CASE Next
  BY <1>2, SinAccesoTipos, MovInTipos, MovOutTipos, CopyStringTipos, PideIOTipos, InterfazTipos
     DEF Next
<1> QED  BY <1>1, <1>2

\* Whatever the programs do with the memory they have, the MMU only gives addresses
\* of the machine's memory and the TLB never holds more than CANT_ENTRADAS_TLB
\* entries, also when bits of the bitmap are lost ("byte" is not assumed).
THEOREM DireccionamientoTipos == Spec => []TypeOK
  BY TypeOKInit, TypeOKNext, BaseSiempre, PTL DEF Spec

-----------------------------------------------------------------------------
(***************************************************************************)
(* The TLB                                                                 *)
(***************************************************************************)

\* A RESIZE in progress never reaches a page that the TLB has.
TlbEncoge == faltan < 0 =>
  \A k \in DOMAIN tlb : tlb[k].pid = enCpu => tlb[k].pagina < Len(paginas[enCpu]) + faltan

InvTlb == TypeOK /\ Base /\ TlbBuena(tlb) /\ TlbEncoge

LEMMA InvTlbInit == Init => InvTlb
  BY TypeOKInit, BaseInit DEF Init, MemoriaInit, InvTlb, TlbEncoge, TlbBuena

\* The process that executes is alive, and what it translates is its own.
LEMMA AccesoBueno ==
  ASSUME InvTlb, NEW p \in Procesos, Ejecuta(p), NEW t, TlbBien(t), TlbBuena(t),
         NEW dl \in Direcciones, NEW n \in Nat \ {0}, EnSuEspacio(p, dl, n),
         NEW r, r = Traducir(t, dl, n)
  PROVE  /\ vida[p] = "cargado" /\ TlbBien(r.tlb) /\ TlbBuena(r.tlb)
         /\ r.fisicas \in Seq(DireccionesFisicas) /\ Len(r.fisicas) = n
         /\ \A k \in 1..n : r.fisicas[k] = Fisica(p, dl + (k - 1))
<1>1. enCpu = p /\ vida[p] = "cargado"
  BY MemoriaAssumption DEF InvTlb, Base, CpuBuena, Ejecuta, Nadie
<1>2. Traducidos(t, dl, n, r)
  BY AccesoTipos DEF InvTlb
<1> QED  BY <1>1, <1>2 DEF Traducidos

\* The steps that change neither the TLB, nor the tables, nor who lives.
LEMMA InvTlbQuieto ==
  ASSUME InvTlb,
         \/ UNCHANGED vars
         \/ \E p \in Procesos : \/ Despacha(p) \/ Vuelve(p) \/ BuscaPagina(p)
                                \/ EscribeInterfaz(p) \/ LeeInterfaz(p)
         \/ \E p \in Procesos, tamanio \in Tamanios : AgrandaProceso(p, tamanio)
  PROVE  TlbBuena(tlb)' /\ TlbEncoge'
<1>1. UNCHANGED <<vida, paginas, tlb>>
  BY DEF vars, memoriaVars, EscribeInterfaz, EscribirString, Escribir, LeeInterfaz,
     AgrandaProceso, Despacha, Vuelve, BuscaPagina, LeeAlSacar, BuscaMarco
<1>2. TlbBuena(tlb)'
  BY <1>1 DEF InvTlb, TlbBuena, EntradaBuena
<1>3. (faltan' = faltan /\ enCpu' = enCpu) \/ ~ (faltan' < 0)
  <2>1. ASSUME NEW p \in Procesos, NEW tamanio \in Tamanios, AgrandaProceso(p, tamanio)
        PROVE  ~ (faltan' < 0)
    <3>1. tam_proc(p) \in Nat /\ tamanio \in Nat /\ TAM_PAG \in Nat \ {0}
      BY DireccionamientoAssumption, MemoriaAssumption
         DEF InvTlb, TypeOK, MemoriaTypeOK, tam_proc
    <3>2. tamanio - tam_proc(p) \in Nat /\ faltan' = Techo(tamanio - tam_proc(p), TAM_PAG)
      BY <2>1, <3>1 DEF AgrandaProceso
    <3>3. faltan' \in Nat
      BY <3>1, <3>2 DEF Techo
    <3> QED  BY <3>3
  <2>2. ASSUME NEW p \in Procesos, Despacha(p) \/ Vuelve(p)
        PROVE  ~ (faltan' < 0)
    BY <2>2 DEF Despacha, Vuelve, Ejecuta, memoriaVars, InvTlb, Base, Achicando
  <2>3. ASSUME NEW p \in Procesos, BuscaPagina(p) \/ EscribeInterfaz(p) \/ LeeInterfaz(p)
        PROVE  faltan' = faltan /\ enCpu' = enCpu
    BY <2>3 DEF BuscaPagina, LeeAlSacar, BuscaMarco, EscribeInterfaz, EscribirString, Escribir,
       LeeInterfaz, memoriaVars
  <2>4. CASE UNCHANGED vars
    BY <2>4 DEF vars, memoriaVars
  <2> QED  BY <2>1, <2>2, <2>3, <2>4
<1>4. TlbEncoge'
  BY <1>1, <1>3 DEF InvTlb, TlbEncoge
<1> QED  BY <1>2, <1>4

\* The instructions that translate.
LEMMA InvTlbAcceso ==
  ASSUME InvTlb, NEW p \in Procesos, NEW dl \in Direcciones,
         \/ \E n \in Anchos : MovIn(p, dl, n) \/ MovOut(p, dl, n)
         \/ \E n \in Cadenas : \/ \E di \in Direcciones : CopyString(p, dl, di, n)
                               \/ \E op \in {"LECTURA_STRING", "ESCRITURA_STRING"} :
                                    PideIO(p, op, dl, n)
  PROVE  TlbBuena(tlb)' /\ TlbEncoge'
<1>1. TlbBien(tlb) /\ TlbBuena(tlb)
  BY DEF InvTlb, TypeOK, TlbBien
<1>2. /\ \A n \in Anchos : n \in Nat \ {0}
      /\ \A n \in Cadenas : n \in Nat \ {0}
  BY DireccionamientoAssumption DEF Anchos
<1>3. /\ UNCHANGED <<vida, paginas, faltan>>
      /\ Ejecuta(p)
  BY DEF MovIn, MovOut, CopyString, PideIO, EscribirString, Escribir, memoriaVars
<1>4. TlbEncoge'
  BY <1>3 DEF TlbEncoge, Ejecuta
<1>5. TlbBuena(tlb')
  <2>1. ASSUME NEW n \in Nat \ {0}, EnSuEspacio(p, dl, n), tlb' = Traducir(tlb, dl, n).tlb
        PROVE  TlbBuena(tlb')
    BY <1>1, <1>3, <2>1, AccesoBueno
  <2>2. ASSUME NEW n \in Anchos, MovIn(p, dl, n) \/ MovOut(p, dl, n)
        PROVE  TlbBuena(tlb')
    BY <1>2, <2>1, <2>2 DEF MovIn, MovOut
  <2>3. ASSUME NEW n \in Cadenas, NEW op, PideIO(p, op, dl, n)
        PROVE  TlbBuena(tlb')
    BY <1>2, <2>1, <2>3 DEF PideIO
  <2>4. ASSUME NEW n \in Cadenas, NEW di \in Direcciones, CopyString(p, dl, di, n)
        PROVE  TlbBuena(tlb')
    <3> DEFINE o == Traducir(tlb, dl, n)
    <3>1. EnSuEspacio(p, dl, n) /\ EnSuEspacio(p, di, n) /\ tlb' = Traducir(o.tlb, di, n).tlb
      BY <2>4 DEF CopyString
    <3>2. TlbBien(o.tlb) /\ TlbBuena(o.tlb)
      BY <1>1, <1>2, <1>3, <3>1, AccesoBueno
    <3> HIDE DEF o
    <3> QED  BY <1>2, <1>3, <3>1, <3>2, AccesoBueno
  <2> QED  BY <2>2, <2>3, <2>4
<1>6. TlbBuena(tlb)'
  BY <1>3, <1>5 DEF TlbBuena, EntradaBuena
<1> QED  BY <1>4, <1>6

\* The steps that change what the page tables say, or who lives.
LEMMA InvTlbTablas ==
  ASSUME InvTlb, "tlb" \in Cuidados, NEW p \in Procesos,
         \/ Carga(p) \/ Finaliza(p) \/ Limpia(p) \/ SaleSinMemoria(p)
         \/ DevuelvePagina(p) \/ RecibePagina(p)
         \/ \E tamanio \in Tamanios : AchicaProceso(p, tamanio)
  PROVE  TlbBuena(tlb)' /\ TlbEncoge'
<1> DEFINE s == paginas[p]
<1>1. /\ tlb' = tlb /\ paginas \in [Procesos -> Seq(Marcos)] /\ vida \in [Procesos -> Vidas]
      /\ s \in Seq(Marcos) /\ Len(s) \in Nat
      /\ faltan \in Int /\ p # Nadie /\ CpuBuena /\ Achicando /\ TlbEncoge
      /\ \A k \in DOMAIN tlb : tlb[k].pid \in Procesos /\ EntradaBuena(tlb[k])
                               /\ tlb[k].pagina \in Nat
  <2>1. tlb \in Seq(EntradaTLB)
    BY DEF InvTlb, TypeOK
  <2>2. \A k \in DOMAIN tlb : tlb[k] \in EntradaTLB
    BY <2>1
  <2>3. tlb' = tlb
    BY DEF Carga, Finaliza, Limpia, SaleSinMemoria, DevuelvePagina, RecibePagina, AchicaProceso
  <2>4. \A k \in DOMAIN tlb : tlb[k].pid \in Procesos /\ EntradaBuena(tlb[k])
                              /\ tlb[k].pagina \in Nat
    BY <2>2 DEF InvTlb, TlbBuena, EntradaTLB
  <2>5. paginas \in [Procesos -> Seq(Marcos)] /\ vida \in [Procesos -> Vidas] /\ faltan \in Int
    BY DEF InvTlb, TypeOK, MemoriaTypeOK
  <2>6. s \in Seq(Marcos) /\ Len(s) \in Nat
    BY <2>5
  <2>7. p # Nadie /\ CpuBuena /\ Achicando /\ TlbEncoge
    BY MemoriaAssumption DEF InvTlb, Base, Nadie
  <2> HIDE DEF s
  <2> QED  BY <2>3, <2>4, <2>5, <2>6, <2>7
<1> HIDE DEF s
<1>2. \A q \in Procesos : q # p => vida'[q] = vida[q] /\ paginas'[q] = paginas[q]
  BY <1>1 DEF Carga, NuevoProceso, Finaliza, LiberarProceso, Limpia, LeeAlLiberar, LimpiaMarco,
     LiberaTabla, SaleSinMemoria, SinMarcos, DevuelvePagina, SacaPagina, RecibePagina,
     AniadePagina, AchicaProceso
<1>3. CASE Carga(p)
  <2>1. vida[p] = "sin_cargar" /\ UNCHANGED <<paginas, faltan, enCpu>>
    BY <1>3 DEF Carga, NuevoProceso
  <2>2. \A k \in DOMAIN tlb : tlb[k].pid # p
    BY <1>1, <2>1 DEF EntradaBuena
  <2> QED  BY <1>1, <1>2, <2>1, <2>2 DEF TlbBuena, TlbEncoge, EntradaBuena
<1>4. CASE Finaliza(p) \/ Limpia(p)
  <2>1. /\ vida'[p] \in {"liberando", "liberado"} /\ (enCpu # p \/ vida[p] = "liberando")
        /\ UNCHANGED <<faltan, enCpu>>
    BY <1>1, <1>4 DEF Finaliza, LiberarProceso, Limpia, LeeAlLiberar, LimpiaMarco, LiberaTabla
  <2>2. enCpu # p
    BY <1>1, <2>1 DEF CpuBuena
  <2>3. TlbEncoge'
    <3>1. faltan < 0 => enCpu \in Procesos /\ enCpu # p
      BY <1>1, <2>2 DEF Achicando, InvTlb, TypeOK
    <3>2. faltan < 0 => paginas'[enCpu] = paginas[enCpu]
      BY <1>2, <3>1
    <3> QED  BY <1>1, <2>1, <3>2 DEF TlbEncoge
  <2> QED  BY <1>1, <1>2, <2>1, <2>3 DEF TlbBuena, EntradaBuena
<1>5. CASE SaleSinMemoria(p)
  <2>1. vida'[p] = "saliendo" /\ faltan' = 0
    BY <1>1, <1>5 DEF SaleSinMemoria, SinMarcos
  <2> QED  BY <1>1, <1>2, <2>1 DEF TlbBuena, TlbEncoge, EntradaBuena
<1>6. ASSUME NEW tamanio \in Tamanios, AchicaProceso(p, tamanio)
      PROVE  TlbBuena(tlb)' /\ TlbEncoge'
  <2> DEFINE n == Techo(tam_proc(p) - tamanio, TAM_PAG)
  <2>1. /\ UNCHANGED <<vida, paginas, enCpu>> /\ faltan' = -n /\ enCpu = p
        /\ \A k \in DOMAIN tlb : tlb[k].pid = p => tlb[k].pagina < Len(s) - n
    BY <1>6 DEF AchicaProceso, Ejecuta, s
  <2>2. n \in 0..Len(s)
    <3>1. tamanio \in Nat /\ tamanio < Len(s) * TAM_PAG
      BY <1>6, DireccionamientoAssumption DEF AchicaProceso, tam_proc, s
    <3> QED  BY <1>1, <3>1, MemoriaAssumption, PaginasDeMas DEF tam_proc, s
  <2> HIDE DEF n
  <2>3. Len(s) - n = Len(s) + (-n)
    BY <1>1, <2>2
  <2> QED  BY <1>1, <2>1, <2>3 DEF TlbBuena, TlbEncoge, EntradaBuena, s
<1>7. CASE DevuelvePagina(p)
  <2>1. /\ UNCHANGED <<vida, enCpu>> /\ enCpu = p /\ faltan < 0 /\ faltan' = faltan + 1
        /\ paginas'[p] = SubSeq(s, 1, Len(s) - 1)
    BY <1>1, <1>7 DEF DevuelvePagina, SacaPagina, Quedan, s
  <2>2. Len(s) + faltan >= 0
    BY <1>1, <2>1 DEF Achicando, s
  <2>3. /\ Len(paginas'[p]) = Len(s) - 1
        /\ \A i \in 1..(Len(s) - 1) : paginas'[p][i] = s[i]
    <3> DEFINE m == Len(s) - 1
    <3>1. m \in Nat /\ 0 + m <= Len(s) /\ 0 + 1 = 1 /\ 0 + m = m
      BY <1>1, <2>1, <2>2
    <3>2. s \in Seq(Marcos)
      BY <1>1
    <3>3. \A i \in 1..m : 0 + i = i
      OBVIOUS
    <3> HIDE DEF m
    <3>4. /\ Len(SubSeq(s, 0 + 1, 0 + m)) = m
          /\ \A i \in 1..m : SubSeq(s, 0 + 1, 0 + m)[i] = s[0 + i]
      BY ONLY <3>1, <3>2, Recorte
    <3>5. paginas'[p] = SubSeq(s, 0 + 1, 0 + m)
      BY <2>1, <3>1 DEF m
    <3>6. Len(paginas'[p]) = m /\ \A i \in 1..m : paginas'[p][i] = s[i]
      BY <3>3, <3>4, <3>5
    <3> QED  BY <3>6 DEF m
  <2>4. \A k \in DOMAIN tlb : tlb[k].pid = p => tlb[k].pagina < Len(s) + faltan
    BY <1>1, <2>1 DEF TlbEncoge, s
  <2>5. ASSUME NEW k \in DOMAIN tlb PROVE EntradaBuena(tlb[k])'
    <3>1. CASE tlb[k].pid # p
      BY <1>1, <1>2, <3>1 DEF EntradaBuena
    <3>2. CASE tlb[k].pid = p
      <4>1. tlb[k].pagina + 1 \in 1..(Len(s) - 1) /\ tlb[k].pagina < Len(s) - 1
        BY <1>1, <2>1, <2>4, <3>2
      <4> SUFFICES ASSUME vida[p] = "cargado"
                   PROVE  EntradaBuena(tlb[k])'
        BY <1>1, <2>1, <3>2 DEF EntradaBuena
      <4>2. s[tlb[k].pagina + 1] = tlb[k].marco
        BY <1>1, <3>2 DEF EntradaBuena, s
      <4>3. tlb[k].pagina < Len(paginas'[p]) /\ paginas'[p][tlb[k].pagina + 1] = tlb[k].marco
        BY <2>3, <4>1, <4>2
      <4> QED  BY <1>1, <2>1, <3>2, <4>3 DEF EntradaBuena
    <3> QED  BY <3>1, <3>2
  <2>6. Len(paginas'[p]) + faltan' = Len(s) + faltan
    <3>1. Len(paginas'[p]) = Len(s) - 1 /\ faltan' = faltan + 1
      BY <2>1, <2>3
    <3>2. Len(s) \in Int /\ faltan \in Int
      BY <1>1
    <3> QED  BY ONLY <3>1, <3>2
  <2>7. TlbBuena(tlb)'
    BY <1>1, <2>5 DEF TlbBuena
  <2>8. TlbEncoge'
    <3>1. tlb' = tlb /\ enCpu' = p
      BY <1>1, <2>1
    <3> SUFFICES ASSUME NEW k \in DOMAIN tlb, tlb[k].pid = p
                 PROVE  tlb[k].pagina < Len(paginas'[p]) + faltan'
      BY <3>1 DEF TlbEncoge
    <3> QED  BY <2>4, <2>6
  <2> QED  BY <2>7, <2>8
<1>8. CASE RecibePagina(p)
  <2>1. PICK m \in Marcos : paginas' = [paginas EXCEPT ![p] = Append(s, m)]
    BY <1>1, <1>8 DEF RecibePagina, AniadePagina, s
  <2>2. vida' = vida /\ faltan > 0 /\ faltan' = faltan - 1
    BY <1>8 DEF RecibePagina, AniadePagina
  <2>3. /\ Len(paginas'[p]) = Len(s) + 1
        /\ \A i \in 1..Len(s) : paginas'[p][i] = s[i]
    BY <1>1, <2>1
  <2>4. ASSUME NEW k \in DOMAIN tlb PROVE EntradaBuena(tlb[k])'
    <3>1. CASE tlb[k].pid # p
      BY <1>1, <1>2, <3>1 DEF EntradaBuena
    <3>2. CASE tlb[k].pid = p
      <4> SUFFICES ASSUME vida[p] = "cargado"
                   PROVE  EntradaBuena(tlb[k])'
        BY <1>1, <2>2, <3>2 DEF EntradaBuena
      <4>1. tlb[k].pagina \in Nat /\ tlb[k].pagina < Len(s) /\ s[tlb[k].pagina + 1] = tlb[k].marco
        BY <1>1, <3>2 DEF EntradaBuena, s
      <4>2. tlb[k].pagina + 1 \in 1..Len(s) /\ tlb[k].pagina < Len(s) + 1
        BY <1>1, <4>1
      <4>3. tlb[k].pagina < Len(paginas'[p]) /\ paginas'[p][tlb[k].pagina + 1] = tlb[k].marco
        BY <2>3, <4>1, <4>2
      <4> QED  BY <1>1, <2>2, <3>2, <4>3 DEF EntradaBuena
    <3> QED  BY <3>1, <3>2
  <2>5. ~ (faltan' < 0)
    BY <1>1, <2>2
  <2> QED  BY <1>1, <2>4, <2>5 DEF TlbBuena, TlbEncoge
<1> QED  BY <1>3, <1>4, <1>5, <1>6, <1>7, <1>8

LEMMA InvTlbNext ==
  ASSUME "tlb" \in Cuidados
  PROVE  InvTlb /\ [Next]_vars => InvTlb'
<1> SUFFICES ASSUME InvTlb, [Next]_vars PROVE InvTlb'
  OBVIOUS
<1>1. TypeOK' /\ Base'
  BY TypeOKNext, BaseNext DEF InvTlb
<1>2. TlbBuena(tlb)' /\ TlbEncoge'
  <2>1. CASE UNCHANGED vars
    BY <2>1, InvTlbQuieto
  <2>2. CASE Next
    BY <2>2, InvTlbQuieto, InvTlbTablas, InvTlbAcceso DEF Next
  <2> QED  BY <2>1, <2>2
<1> QED  BY <1>1, <1>2 DEF InvTlb

\* The programs that give back no page they have in the TLB: what the TLB says of a
\* living process is what its page table says, although nobody clears the TLB when a
\* process ends, is moved out of the CPU or gets more pages.
THEOREM TLBSinMarcosAjenos ==
  ASSUME "tlb" \in Cuidados
  PROVE  Spec => []TLBCoherente
<1>1. InvTlb => TLBCoherente
  BY DEF InvTlb, TlbBuena, EntradaBuena, TLBCoherente
<1> QED  BY <1>1, InvTlbInit, InvTlbNext, PTL DEF Spec

-----------------------------------------------------------------------------
(***************************************************************************)
(* The address spaces                                                      *)
(***************************************************************************)

LEMMA FisicaEs ==
  ASSUME MemoriaTypeOK, NEW p \in Procesos, NEW a \in Nat, a < tam_proc(p)
  PROVE  /\ Fisica(p, a) \in DireccionesFisicas
         /\ a \div TAM_PAG + 1 \in 1..Len(paginas[p]) /\ a \div TAM_PAG \in Nat
         /\ paginas[p][a \div TAM_PAG + 1] \in Marcos
         /\ (a % TAM_PAG) \in 0..(TAM_PAG - 1)
<1>1. /\ a \div TAM_PAG + 1 \in 1..Len(paginas[p]) /\ a \div TAM_PAG \in Nat
      /\ paginas[p][a \div TAM_PAG + 1] \in Marcos
  BY PaginaDe DEF TraducirPagina
<1>2. (a % TAM_PAG) \in 0..(TAM_PAG - 1)
  <2>1. TAM_PAG \in Nat \ {0}
    BY MemoriaAssumption
  <2> QED  BY <2>1, Division
<1>3. Fisica(p, a) \in DireccionesFisicas
  BY ONLY <1>1, <1>2, EnElMarco DEF Fisica
<1> QED  BY <1>1, <1>2, <1>3

\* No byte of the memory is two bytes of the processes.
LEMMA FisicaInyectiva ==
  ASSUME MemoriaTypeOK, SinRepetir,
         NEW p \in Procesos, NEW a \in Nat, a < tam_proc(p),
         NEW q \in Procesos, NEW b \in Nat, b < tam_proc(q),
         Fisica(p, a) = Fisica(q, b)
  PROVE  p = q /\ a = b
<1> DEFINE T == TAM_PAG
           i == a \div T + 1
           j == b \div T + 1
           m == paginas[p][i]
           n == paginas[q][j]
<1>1. T \in Nat \ {0}
  BY MemoriaAssumption
<1>2. /\ i \in 1..Len(paginas[p]) /\ m \in Marcos /\ (a % T) \in 0..(T - 1)
      /\ j \in 1..Len(paginas[q]) /\ n \in Marcos /\ (b % T) \in 0..(T - 1)
  BY FisicaEs
<1>3. m * T + (a % T) = n * T + (b % T)
  BY DEF Fisica
<1> DEFINE r == a % T
           s == b % T
<1>4. /\ m \in Nat /\ n \in Nat /\ r \in Nat /\ s \in Nat /\ r < T /\ s < T
      /\ m * T + r = n * T + s
  <2>1. \A x \in Marcos : x \in Nat
    BY MemoriaAssumption DEF Marcos
  <2> HIDE DEF i, j, m, n
  <2> QED  BY <1>1, <1>2, <1>3, <2>1
<1> HIDE DEF m, n
<1>5. m = n /\ r = s
  <2> HIDE DEF r, s, T
  <2>1. (m * T + r) \div T = m /\ (m * T + r) % T = r
    BY ONLY <1>1, <1>4, Cociente
  <2>2. (n * T + s) \div T = n /\ (n * T + s) % T = s
    BY ONLY <1>1, <1>4, Cociente
  <2> QED  BY <1>4, <2>1, <2>2
<1>6. p = q /\ i = j
  <2> HIDE DEF i, j
  <2> QED  BY <1>2, <1>5 DEF SinRepetir, m, n
<1>7. a \div T = b \div T
  <2>1. a \div T \in Nat /\ b \div T \in Nat
    BY FisicaEs
  <2> QED  BY <1>6, <2>1
<1>8. a = (a \div T) * T + (a % T) /\ b = (b \div T) * T + (b % T)
  <2> HIDE DEF T
  <2> QED  BY <1>1, Division
<1> QED  BY <1>5, <1>6, <1>7, <1>8

LEMMA EspacioEs ==
  ASSUME MemoriaTypeOK, NEW p \in Procesos, vida[p] = "cargado"
  PROVE  /\ Espacio(p) \in Seq(Octetos) /\ Len(Espacio(p)) = tam_proc(p)
         /\ tam_proc(p) \in Nat
         /\ \A k \in 1..tam_proc(p) : Espacio(p)[k] = memoria_contigua[Fisica(p, k - 1)]
<1>1. tam_proc(p) \in Nat
  BY MemoriaAssumption DEF MemoriaTypeOK, tam_proc
<1>2. Espacio(p) = [k \in 1..tam_proc(p) |-> memoria_contigua[Fisica(p, k - 1)]]
  BY DEF Espacio, Fisica
<1>3. ASSUME NEW k \in 1..tam_proc(p) PROVE memoria_contigua[Fisica(p, k - 1)] \in Octetos
  <2>1. k - 1 \in Nat /\ k - 1 < tam_proc(p)
    BY <1>1
  <2>2. Fisica(p, k - 1) \in DireccionesFisicas
    BY <2>1, FisicaEs
  <2> QED  BY <2>2 DEF MemoriaTypeOK
<1> QED  BY <1>1, <1>2, <1>3

\* The same, to be said of the next state.
Espaciados == MemoriaTypeOK => \A q \in Procesos : vida[q] = "cargado" =>
  /\ Espacio(q) \in Seq(Octetos) /\ Len(Espacio(q)) = tam_proc(q)
  /\ tam_proc(q) \in Nat
  /\ \A k \in 1..tam_proc(q) : Espacio(q)[k] = memoria_contigua[Fisica(q, k - 1)]

LEMMA EspaciosEs == Espaciados
  BY EspacioEs DEF Espaciados

LEMMA EspaciosEsDespues == Espaciados'
  BY EspaciosEs, PTL

LEMMA EspacioEsDespues ==
  ASSUME NEW p \in Procesos, MemoriaTypeOK', vida'[p] = "cargado"
  PROVE  /\ Espacio(p)' \in Seq(Octetos) /\ Len(Espacio(p)') = tam_proc(p)'
         /\ tam_proc(p)' \in Nat
         /\ \A k \in 1..tam_proc(p)' : Espacio(p)'[k] = memoria_contigua'[Fisica(p, k - 1)']
  BY EspaciosEsDespues DEF Espaciados

LEMMA EspacioTipo ==
  ASSUME MemoriaTypeOK, NEW p \in Procesos
  PROVE  Espacio(p) \in Seq(Octetos) /\ Len(Espacio(p)) \in Nat
<1>1. CASE vida[p] = "cargado"
  BY <1>1, EspacioEs
<1>2. CASE vida[p] # "cargado"
  BY <1>2 DEF Espacio
<1> QED  BY <1>1, <1>2

\* What is the same when neither the bytes nor the page table of p change.
LEMMA EspacioIgual ==
  ASSUME NEW p, vida'[p] = vida[p], paginas'[p] = paginas[p],
         memoria_contigua' = memoria_contigua
  PROVE  Espacio(p)' = Espacio(p)
  BY DEF Espacio, tam_proc

\* The addresses f are those of the bytes of p from dl on.
SonDe(p, dl, f) ==
  /\ f \in Seq(DireccionesFisicas)
  /\ dl \in Nat /\ dl + Len(f) <= tam_proc(p)
  /\ vida[p] = "cargado"
  /\ \A k \in 1..Len(f) : f[k] = Fisica(p, dl + (k - 1))

\* Those bytes are at d of p's space now, and nothing else has changed.
Sobrescrito(p, d, bytes) ==
  /\ d + Len(bytes) <= Len(Espacio(p)) /\ Len(Espacio(p)') = Len(Espacio(p))
  /\ \A k \in DOMAIN Espacio(p) :
       Espacio(p)'[k] = IF d < k /\ k <= d + Len(bytes) THEN bytes[k - d] ELSE Espacio(p)[k]
  /\ \A q \in Procesos \ {p} : Espacio(q)' = Espacio(q)

\* Writing there writes those bytes of p and no others.
LEMMA EscribirEnSuEspacio ==
  ASSUME MemoriaTypeOK, SinRepetir, NEW p \in Procesos, NEW dl, NEW f, SonDe(p, dl, f),
         NEW bytes \in Seq(Octetos), Len(bytes) = Len(f), Escribir(f, bytes)
  PROVE  Sobrescrito(p, dl, bytes)
<1>1. /\ f \in Seq(DireccionesFisicas) /\ dl \in Nat /\ dl + Len(f) <= tam_proc(p)
      /\ vida[p] = "cargado" /\ Len(f) \in Nat
      /\ \A k \in 1..Len(f) : f[k] = Fisica(p, dl + (k - 1))
  BY DEF SonDe
<1>2. /\ \A x \in DireccionesFisicas :
           \/ memoria_contigua'[x] = memoria_contigua[x] /\ \A k \in 1..Len(f) : f[k] # x
           \/ \E k \in 1..Len(f) : f[k] = x /\ memoria_contigua'[x] = bytes[k]
      /\ UNCHANGED <<bitmap, cambia, paginas, vida, faltan>>
  BY <1>1, EscribirEs
<1>3. MemoriaTypeOK'
  <2>1. \A k \in 1..Len(f) : bytes[k] \in Octetos
    OBVIOUS
  <2> QED  BY <1>1, <2>1, EscribirTipos
\* A byte of a living process after the write.
<1>4. ASSUME NEW q \in Procesos, vida[q] = "cargado", NEW a \in Nat, a < tam_proc(q)
      PROVE  memoria_contigua'[Fisica(q, a)] =
               IF q = p /\ dl <= a /\ a < dl + Len(f) THEN bytes[a - dl + 1]
               ELSE memoria_contigua[Fisica(q, a)]
  <2>1. Fisica(q, a) \in DireccionesFisicas
    BY <1>4, FisicaEs
  <2>2. ASSUME NEW k \in 1..Len(f), f[k] = Fisica(q, a)
        PROVE  q = p /\ a = dl + (k - 1)
    <3>1. dl + (k - 1) \in Nat /\ dl + (k - 1) < tam_proc(p) /\ tam_proc(p) \in Nat
      BY <1>1, EspacioEs
    <3>2. Fisica(q, a) = Fisica(p, dl + (k - 1))
      BY <1>1, <2>2
    <3> QED  BY <1>4, <3>1, <3>2, FisicaInyectiva
  <2>3. CASE q = p /\ dl <= a /\ a < dl + Len(f)
    <3> DEFINE k == a - dl + 1
    <3>1. k \in 1..Len(f) /\ dl + (k - 1) = a
      BY <1>1, <2>3
    <3> HIDE DEF k
    <3>2. f[k] = Fisica(q, a)
      BY <1>1, <2>3, <3>1
    <3>3. PICK j \in 1..Len(f) : f[j] = Fisica(q, a) /\ memoria_contigua'[Fisica(q, a)] = bytes[j]
      BY <1>2, <2>1, <3>1, <3>2
    <3>4. j = k
      BY <1>1, <2>2, <3>1, <3>3
    <3> QED  BY <2>3, <3>3, <3>4 DEF k
  <2>4. CASE ~ (q = p /\ dl <= a /\ a < dl + Len(f))
    <3>1. \A k \in 1..Len(f) : f[k] # Fisica(q, a)
      BY <1>1, <2>2, <2>4
    <3>2. memoria_contigua'[Fisica(q, a)] = memoria_contigua[Fisica(q, a)]
      BY <1>2, <2>1, <3>1
    <3> QED  BY <2>4, <3>2
  <2> QED  BY <2>3, <2>4
<1>5. \A q : \A a : Fisica(q, a)' = Fisica(q, a)
  BY <1>2 DEF Fisica
<1>6. \A q : tam_proc(q)' = tam_proc(q)
  BY <1>2 DEF tam_proc
<1>7. ASSUME NEW q \in Procesos, vida[q] = "cargado"
      PROVE  /\ Espacio(q)' \in Seq(Octetos) /\ Len(Espacio(q)') = tam_proc(q)
             /\ \A k \in 1..tam_proc(q) : Espacio(q)'[k] = memoria_contigua'[Fisica(q, k - 1)]
  <2>1. (vida[q] = "cargado")'
    BY <1>2, <1>7
  <2>2. /\ Espacio(q)' \in Seq(Octetos) /\ Len(Espacio(q)') = tam_proc(q)'
        /\ \A k \in 1..tam_proc(q)' : Espacio(q)'[k] = memoria_contigua'[Fisica(q, k - 1)']
    BY <1>3, <2>1, EspacioEsDespues
  <2> QED  BY <1>5, <1>6, <2>2
<1>8. ASSUME NEW q \in Procesos \ {p} PROVE Espacio(q)' = Espacio(q)
  <2>1. CASE vida[q] # "cargado"
    BY <1>2, <2>1 DEF Espacio
  <2>2. CASE vida[q] = "cargado"
    <3>1. /\ Espacio(q) \in Seq(Octetos) /\ Len(Espacio(q)) = tam_proc(q)
          /\ tam_proc(q) \in Nat
          /\ \A k \in 1..tam_proc(q) : Espacio(q)[k] = memoria_contigua[Fisica(q, k - 1)]
      BY <2>2, EspacioEs
    <3>2. ASSUME NEW k \in 1..tam_proc(q) PROVE Espacio(q)'[k] = Espacio(q)[k]
      <4>1. k - 1 \in Nat /\ k - 1 < tam_proc(q)
        BY <3>1
      <4>2. memoria_contigua'[Fisica(q, k - 1)] = memoria_contigua[Fisica(q, k - 1)]
        BY <1>4, <2>2, <4>1
      <4> QED  BY <1>7, <2>2, <3>1, <4>2
    <3>3. /\ Espacio(q)' \in Seq(Octetos) /\ Len(Espacio(q)') = tam_proc(q)
      BY <1>7, <2>2
    <3> DEFINE x == Espacio(q)
               y == Espacio(q)'
    <3>4. /\ x \in Seq(Octetos) /\ y \in Seq(Octetos) /\ Len(y) = Len(x)
          /\ \A k \in 1..Len(y) : y[k] = x[k]
      BY <3>1, <3>2, <3>3
    <3> HIDE DEF x, y
    <3>5. y = x
      BY ONLY <3>4, SeqEqual
    <3> QED  BY <3>5 DEF x, y
  <2> QED  BY <2>1, <2>2
<1>9. Sobrescrito(p, dl, bytes)
  <2>1. /\ Espacio(p) \in Seq(Octetos) /\ Len(Espacio(p)) = tam_proc(p)
        /\ tam_proc(p) \in Nat
        /\ \A k \in 1..tam_proc(p) : Espacio(p)[k] = memoria_contigua[Fisica(p, k - 1)]
    BY <1>1, EspacioEs
  <2>2. /\ Len(Espacio(p)') = tam_proc(p)
        /\ \A k \in 1..tam_proc(p) : Espacio(p)'[k] = memoria_contigua'[Fisica(p, k - 1)]
    BY <1>1, <1>7
  <2>3. DOMAIN Espacio(p) = 1..tam_proc(p)
    BY <2>1
  <2>4. ASSUME NEW k \in 1..tam_proc(p)
        PROVE  Espacio(p)'[k] = IF dl < k /\ k <= dl + Len(bytes) THEN bytes[k - dl]
                                ELSE Espacio(p)[k]
    <3>1. k - 1 \in Nat /\ k - 1 < tam_proc(p) /\ (k - 1) - dl + 1 = k - dl
      BY <1>1, <2>1
    <3>2. dl <= k - 1 <=> dl < k
      BY <1>1, <2>1
    <3>3. k - 1 < dl + Len(f) <=> k <= dl + Len(bytes)
      BY <1>1, <2>1
    <3>4. memoria_contigua'[Fisica(p, k - 1)] =
            IF dl <= k - 1 /\ k - 1 < dl + Len(f) THEN bytes[(k - 1) - dl + 1]
            ELSE memoria_contigua[Fisica(p, k - 1)]
      BY <1>1, <1>4, <3>1
    <3> QED  BY <2>1, <2>2, <3>1, <3>2, <3>3, <3>4
  <2>5. dl + Len(bytes) <= Len(Espacio(p)) /\ Len(Espacio(p)') = Len(Espacio(p))
    BY <1>1, <2>1, <2>2
  <2> QED  BY <1>8, <2>3, <2>4, <2>5 DEF Sobrescrito
<1> QED  BY <1>9

\* Reading there gives those bytes of p.
LEMMA LeerDeSuEspacio ==
  ASSUME MemoriaTypeOK, NEW p \in Procesos, NEW dl, NEW f, SonDe(p, dl, f),
         NEW s \in Seq(Octetos), Len(s) <= Len(f),
         \A k \in 1..Len(s) : s[k] = memoria_contigua[f[k]]
  PROVE  /\ dl \in Nat /\ dl + Len(s) <= Len(Espacio(p))
         /\ s = SubSeq(Espacio(p), dl + 1, dl + Len(s))
<1>1. /\ f \in Seq(DireccionesFisicas) /\ dl \in Nat /\ dl + Len(f) <= tam_proc(p)
      /\ vida[p] = "cargado" /\ Len(f) \in Nat /\ Len(s) \in Nat
      /\ \A k \in 1..Len(f) : f[k] = Fisica(p, dl + (k - 1))
  BY DEF SonDe
<1>2. /\ Espacio(p) \in Seq(Octetos) /\ Len(Espacio(p)) = tam_proc(p)
      /\ tam_proc(p) \in Nat
      /\ \A k \in 1..tam_proc(p) : Espacio(p)[k] = memoria_contigua[Fisica(p, k - 1)]
  BY <1>1, EspacioEs
<1> DEFINE e == Espacio(p)
           t == SubSeq(e, dl + 1, dl + Len(s))
<1>3. dl + Len(s) <= Len(e)
  BY <1>1, <1>2
<1>4. t \in Seq(Octetos) /\ Len(t) = Len(s) /\ \A i \in 1..Len(s) : t[i] = e[dl + i]
  <2> HIDE DEF e
  <2>1. e \in Seq(Octetos)
    BY <1>2 DEF e
  <2> QED  BY ONLY <1>1, <1>3, <2>1, Recorte
<1>5. ASSUME NEW k \in 1..Len(s) PROVE s[k] = t[k]
  <2>1. k \in 1..Len(f) /\ dl + k \in 1..tam_proc(p) /\ (dl + k) - 1 = dl + (k - 1)
    BY <1>1, <1>2
  <2> HIDE DEF t
  <2>2. s[k] = memoria_contigua[f[k]] /\ f[k] = Fisica(p, dl + (k - 1))
    BY <1>1, <2>1
  <2>3. Espacio(p)[dl + k] = memoria_contigua[Fisica(p, (dl + k) - 1)]
    BY <1>2, <2>1
  <2>4. Fisica(p, (dl + k) - 1) = Fisica(p, dl + (k - 1))
    BY <2>1
  <2>5. t[k] = Espacio(p)[dl + k]
    BY <1>4
  <2> QED  BY <2>2, <2>3, <2>4, <2>5
<1> HIDE DEF t
<1>6. s = t
  BY ONLY <1>4, <1>5, s \in Seq(Octetos), SeqEqual
<1> QED  BY <1>1, <1>3, <1>6 DEF t

\* The beginning of a space is what it was.
LEMMA PrefijoEs ==
  ASSUME NEW a \in Seq(Octetos), NEW d \in Seq(Octetos), Len(a) <= Len(d),
         \A k \in 1..Len(a) : d[k] = a[k]
  PROVE  SubSeq(d, 1, Len(a)) = a
<1> DEFINE t == SubSeq(d, 0 + 1, 0 + Len(a))
<1>1. Len(a) \in Nat /\ 0 + Len(a) <= Len(d)
  OBVIOUS
<1>2. t \in Seq(Octetos) /\ Len(t) = Len(a) /\ \A i \in 1..Len(a) : t[i] = d[0 + i]
  BY ONLY <1>1, d \in Seq(Octetos), Recorte
<1>3. SubSeq(d, 1, Len(a)) = t
  BY <1>1
<1> HIDE DEF t
<1>4. \A i \in 1..Len(t) : t[i] = a[i]
  <2>1. \A i \in 1..Len(a) : 0 + i = i
    OBVIOUS
  <2> QED  BY <1>2, <2>1
<1>5. t = a
  BY ONLY <1>2, <1>4, a \in Seq(Octetos), SeqEqual
<1> QED  BY <1>3, <1>5

\* The page of an address of the next state.
Paginadas == MemoriaTypeOK => \A q \in Procesos : \A a \in Nat : a < tam_proc(q) =>
  a \div TAM_PAG + 1 \in 1..Len(paginas[q])

LEMMA PaginasEstan == Paginadas
  BY PaginaDe DEF Paginadas

LEMMA PaginasEstanDespues == Paginadas'
  BY PaginasEstan, PTL

LEMMA PaginasDespues ==
  ASSUME MemoriaTypeOK', NEW p \in Procesos, NEW a \in Nat, a < tam_proc(p)'
  PROVE  a \div TAM_PAG + 1 \in 1..Len(paginas'[p])
  BY PaginasEstanDespues DEF Paginadas

\* One space is the beginning of the other when one page table is of the other.
LEMMA EspacioCambiaDeTamanio ==
  ASSUME MemoriaTypeOK, MemoriaTypeOK', NEW p \in Procesos,
         vida[p] = "cargado", vida'[p] = "cargado", memoria_contigua' = memoria_contigua,
         \A i \in 1..Len(paginas[p]) : i <= Len(paginas'[p]) => paginas'[p][i] = paginas[p][i]
  PROVE  /\ Espacio(p) \in Seq(Octetos) /\ Len(Espacio(p)) = tam_proc(p)
         /\ Espacio(p)' \in Seq(Octetos) /\ Len(Espacio(p)') = tam_proc(p)'
         /\ Len(Espacio(p)') <= Len(Espacio(p)) =>
              Espacio(p)' = SubSeq(Espacio(p), 1, Len(Espacio(p)'))
         /\ Len(Espacio(p)') >= Len(Espacio(p)) =>
              SubSeq(Espacio(p)', 1, Len(Espacio(p))) = Espacio(p)
<1> DEFINE e == Espacio(p)
           d == Espacio(p)'
<1>1. /\ e \in Seq(Octetos) /\ Len(e) = tam_proc(p) /\ tam_proc(p) \in Nat
      /\ \A k \in 1..tam_proc(p) : e[k] = memoria_contigua[Fisica(p, k - 1)]
  BY EspacioEs
<1>2. /\ d \in Seq(Octetos) /\ Len(d) = tam_proc(p)' /\ tam_proc(p)' \in Nat
      /\ \A k \in 1..tam_proc(p)' : d[k] = memoria_contigua'[Fisica(p, k - 1)']
  BY EspacioEsDespues
<1>3. ASSUME NEW k \in 1..tam_proc(p), k <= tam_proc(p)' PROVE d[k] = e[k]
  <2> DEFINE i == (k - 1) \div TAM_PAG + 1
  <2>1. k - 1 \in Nat /\ k - 1 < tam_proc(p) /\ k - 1 < tam_proc(p)'
    BY <1>1, <1>2, <1>3
  <2>2. i \in 1..Len(paginas[p])
    BY <2>1, FisicaEs
  <2>3. i \in 1..Len(paginas'[p])
    BY <2>1, PaginasDespues
  <2>4. paginas'[p][i] = paginas[p][i]
    <3> HIDE DEF i
    <3> QED  BY <2>2, <2>3
  <2>5. Fisica(p, k - 1)' = Fisica(p, k - 1)
    BY <2>4 DEF Fisica
  <2>6. k \in 1..tam_proc(p)'
    BY <1>2, <1>3
  <2> QED  BY <1>1, <1>2, <2>5, <2>6
<1> HIDE DEF e, d
<1>4. CASE Len(d) <= Len(e)
  <2>1. \A k \in 1..Len(d) : e[k] = d[k]
    BY <1>1, <1>2, <1>3, <1>4
  <2>2. SubSeq(e, 1, Len(d)) = d
    BY ONLY <1>1, <1>2, <1>4, <2>1, PrefijoEs
  <2>3. Len(d) >= Len(e) => d = e
    <3> SUFFICES ASSUME Len(d) >= Len(e) PROVE d = e
      OBVIOUS
    <3>1. Len(d) = Len(e) /\ \A k \in 1..Len(d) : d[k] = e[k]
      BY <1>1, <1>2, <1>4, <2>1
    <3> QED  BY ONLY <1>1, <1>2, <3>1, SeqEqual
  <2> QED  BY <1>1, <1>2, <2>2, <2>3 DEF e, d
<1>5. CASE Len(d) >= Len(e) /\ ~ (Len(d) <= Len(e))
  <2>1. \A k \in 1..Len(e) : d[k] = e[k]
    BY <1>1, <1>2, <1>3, <1>5
  <2>2. Len(e) <= Len(d)
    BY <1>1, <1>2, <1>5
  <2>3. SubSeq(d, 1, Len(e)) = e
    BY ONLY <1>1, <1>2, <2>1, <2>2, PrefijoEs
  <2> QED  BY <1>1, <1>2, <1>5, <2>3 DEF e, d
<1> QED  BY <1>1, <1>2, <1>4, <1>5

-----------------------------------------------------------------------------
(***************************************************************************)
(* The steps of the abstract specification                                 *)
(***************************************************************************)

\* What was asked for is what the abstract step serves.
LEMMA PidePeticion ==
  ASSUME NEW op, NEW p, NEW desde, NEW donde, NEW largo,
         peticion' = Peticion(op, p, desde, donde, largo)
  PROVE  Privados!Pide(op, p, desde, donde, largo)
  BY DEF Peticion, Privados!Pide

LEMMA PasoSobrescribe ==
  ASSUME NEW p \in Procesos, NEW d, NEW bytes, Sobrescrito(p, d, bytes), leido' = <<>>
  PROVE  Privados!Sobrescribir(p, d, bytes)
  BY DEF Sobrescrito, Privados!Sobrescribir, Privados!HayEn, Privados!Aparte

LEMMA PasoQuieto ==
  ASSUME Sirve(Ninguna), \A q \in Procesos : Espacio(q)' = Espacio(q)
  PROVE  Privados!Quieto
  BY DEF Sirve, Ninguna, Privados!Quieto

LEMMA PasoTerminar ==
  ASSUME NEW p \in Procesos, Sirve(Peticion("FINALIZACION", p, 0, 0, 0)),
         Espacio(p)' = <<>>, \A q \in Procesos \ {p} : Espacio(q)' = Espacio(q)
  PROVE  Privados!Siguiente
<1>1. Privados!Pide("FINALIZACION", p, 0, 0, 0)
  BY PidePeticion DEF Sirve
<1>2. Privados!Terminar(p)
  BY <1>1 DEF Privados!Terminar, Privados!Aparte, Sirve
<1> QED  BY <1>2 DEF Privados!Siguiente

LEMMA PasoAchicar ==
  ASSUME NEW p \in Procesos, Sirve(Peticion("MENOS_PAGINA", p, 0, 0, 0)),
         Len(Espacio(p)') < Len(Espacio(p)),
         Espacio(p)' = SubSeq(Espacio(p), 1, Len(Espacio(p)')),
         \A q \in Procesos \ {p} : Espacio(q)' = Espacio(q)
  PROVE  Privados!Siguiente
<1>1. Privados!Pide("MENOS_PAGINA", p, 0, 0, 0)
  BY PidePeticion DEF Sirve
<1>2. Privados!Achicar(p)
  BY <1>1 DEF Privados!Achicar, Privados!Aparte, Sirve
<1> QED  BY <1>2 DEF Privados!Siguiente

LEMMA PasoAgrandar ==
  ASSUME NEW p \in Procesos, Sirve(Peticion("MAS_PAGINA", p, 0, 0, 0)),
         Len(Espacio(p)') > Len(Espacio(p)), Espacio(p)' \in Seq(Octetos),
         SubSeq(Espacio(p)', 1, Len(Espacio(p))) = Espacio(p),
         \A q \in Procesos \ {p} : Espacio(q)' = Espacio(q)
  PROVE  Privados!Siguiente
<1>1. Privados!Pide("MAS_PAGINA", p, 0, 0, 0)
  BY PidePeticion DEF Sirve
<1>2. \A k \in DOMAIN Espacio(p)' : Espacio(p)'[k] \in Octetos
  OBVIOUS
<1>3. Privados!Agrandar(p)
  BY <1>1, <1>2 DEF Privados!Agrandar, Privados!Aparte, Sirve
<1> QED  BY <1>3 DEF Privados!Siguiente

LEMMA PasoCargar ==
  ASSUME NEW p \in Procesos, NEW d \in Direcciones, NEW n \in Anchos,
         peticion' = Peticion("MOV_IN", p, d, 0, n),
         d + n <= Len(Espacio(p)), leido' = SubSeq(Espacio(p), d + 1, d + n),
         \A q \in Procesos : Espacio(q)' = Espacio(q)
  PROVE  Privados!Siguiente
<1>1. Privados!Pide("MOV_IN", p, d, 0, n)
  BY PidePeticion
<1>2. Privados!Cargar(p, d, n)
  BY <1>1 DEF Privados!Cargar, Privados!HayEn, Privados!Bytes
<1> QED  BY <1>2 DEF Privados!Siguiente

LEMMA PasoGuardar ==
  ASSUME NEW p \in Procesos, NEW d \in Direcciones, NEW n \in Anchos,
         Sirve(Peticion("MOV_OUT", p, 0, d, n)),
         Sobrescrito(p, d, SubSeq(Registro(p), 1, n))
  PROVE  Privados!Siguiente
<1>1. Privados!Pide("MOV_OUT", p, 0, d, n)
  BY PidePeticion DEF Sirve
<1>2. Privados!Sobrescribir(p, d, SubSeq(Registro(p), 1, n))
  BY PasoSobrescribe DEF Sirve
<1>3. [q \in Procesos |-> Registro(q)][p] = Registro(p)
  OBVIOUS
<1>4. Privados!Guardar(p, d, n)
  BY <1>1, <1>2, <1>3 DEF Privados!Guardar
<1> QED  BY <1>4 DEF Privados!Siguiente

LEMMA PasoCopiar ==
  ASSUME NEW p \in Procesos, NEW desde \in Direcciones, NEW d \in Direcciones,
         NEW n \in Cadenas, Sirve(Peticion("COPY_STRING", p, desde, d, n)),
         desde + n <= Len(Espacio(p)),
         Sobrescrito(p, d, SubSeq(Espacio(p), desde + 1, desde + n))
  PROVE  Privados!Siguiente
<1>1. Privados!Pide("COPY_STRING", p, desde, d, n)
  BY PidePeticion DEF Sirve
<1>2. Privados!Sobrescribir(p, d, SubSeq(Espacio(p), desde + 1, desde + n))
  BY PasoSobrescribe DEF Sirve
<1>3. Privados!Bytes(p, desde, n) = SubSeq(Espacio(p), desde + 1, desde + n)
  BY DEF Privados!Bytes
<1>4. Privados!HayEn(p, desde, n)
  BY DEF Privados!HayEn
<1>5. Privados!Copiar(p, desde, d, n)
  BY <1>1, <1>2, <1>3, <1>4 DEF Privados!Copiar
<1> QED  BY <1>5 DEF Privados!Siguiente

\* The text delivered is the first l of those n bytes, the ones before the first zero.
Mostrado(p, d, n, l, b) ==
  /\ peticion' = Peticion("LECTURA_STRING", p, d, 0, n)
  /\ d + n <= Len(Espacio(p)) /\ b = SubSeq(Espacio(p), d + 1, d + n)
  /\ leido' = SubSeq(b, 1, l) /\ (\A k \in 1..l : b[k] # 0) /\ (l < n => b[l + 1] = 0)
  /\ \A q \in Procesos : Espacio(q)' = Espacio(q)

LEMMA PasoMostrar ==
  ASSUME NEW p \in Procesos, NEW d \in Direcciones, NEW n \in Cadenas, NEW l \in 0..n,
         NEW b, Mostrado(p, d, n, l, b)
  PROVE  Privados!Siguiente
<1>1. Privados!Pide("LECTURA_STRING", p, d, 0, n)
  BY PidePeticion DEF Mostrado
<1>2. Privados!Bytes(p, d, n) = b
  BY DEF Privados!Bytes, Mostrado
<1>3. Privados!HayEn(p, d, n)
  BY DEF Privados!HayEn, Mostrado
<1>4. Privados!Mostrar(p, d, n)
  BY <1>1, <1>2, <1>3 DEF Privados!Mostrar, Mostrado
<1> QED  BY <1>4 DEF Privados!Siguiente

LEMMA PasoRecibir ==
  ASSUME NEW p \in Procesos, NEW d \in Direcciones, NEW n \in Cadenas,
         Sirve(Peticion("ESCRITURA_STRING", p, 0, d, n)),
         Sobrescrito(p, d, [k \in 1..n |-> Texto])
  PROVE  Privados!Siguiente
<1>1. Privados!Pide("ESCRITURA_STRING", p, 0, d, n)
  BY PidePeticion DEF Sirve
<1>2. Privados!Sobrescribir(p, d, [k \in 1..n |-> Texto])
  BY PasoSobrescribe DEF Sirve
<1>3. Privados!Recibir(p, d, n)
  BY <1>1, <1>2 DEF Privados!Recibir
<1> QED  BY <1>3 DEF Privados!Siguiente

-----------------------------------------------------------------------------
(***************************************************************************)
(* The requests                                                            *)
(***************************************************************************)

Cuidadosos == {"byte", "tlb", "vive", "entrega"} \subseteq Cuidados

\* The addresses that an interface has are those of the bytes that its process asked
\* for, which it still has.
PedidoBueno(p) == pedido[p] # Ninguno =>
  /\ SonDe(p, pedido[p].dl, pedido[p].fisicas)
  /\ pedido[p].dl \in Direcciones /\ Len(pedido[p].fisicas) \in Cadenas

PedidosBuenos == \A p \in Procesos : PedidoBueno(p)

CpuSinPedido == enCpu # Nadie => pedido[enCpu] = Ninguno

\* A process that has not been loaded has no pages.
SinCargarVacios == \A p \in Procesos : vida[p] = "sin_cargar" => paginas[p] = <<>>

InvEspacios == InvTlb /\ InvMarcos /\ PedidosBuenos /\ CpuSinPedido /\ SinCargarVacios

LEMMA InvEspaciosInit == Init => InvEspacios
<1> SUFFICES ASSUME Init PROVE InvEspacios
  OBVIOUS
<1>1. PedidosBuenos /\ CpuSinPedido
  BY DEF Init, PedidosBuenos, PedidoBueno, CpuSinPedido
<1>2. SinCargarVacios
  BY DEF Init, MemoriaInit, SinCargarVacios
<1> QED  BY <1>1, <1>2, InvTlbInit, InvMarcosInit DEF InvEspacios

\* A request whose process keeps its pages is as good as it was.
LEMMA PedidoSigue ==
  ASSUME PedidosBuenos, NEW p \in Procesos, pedido'[p] = Ninguno \/ pedido'[p] = pedido[p],
         pedido'[p] # Ninguno => vida'[p] = vida[p] /\ paginas'[p] = paginas[p]
  PROVE  PedidoBueno(p)'
<1> SUFFICES ASSUME pedido'[p] # Ninguno
             PROVE  /\ SonDe(p, pedido[p].dl, pedido[p].fisicas)'
                    /\ pedido'[p].dl \in Direcciones /\ Len(pedido'[p].fisicas) \in Cadenas
  BY DEF PedidoBueno
<1>1. pedido'[p] = pedido[p] /\ vida'[p] = vida[p] /\ paginas'[p] = paginas[p]
  OBVIOUS
<1>2. /\ SonDe(p, pedido[p].dl, pedido[p].fisicas)
      /\ pedido[p].dl \in Direcciones /\ Len(pedido[p].fisicas) \in Cadenas
  BY <1>1 DEF PedidosBuenos, PedidoBueno
<1>3. SonDe(p, pedido[p].dl, pedido[p].fisicas)'
  BY <1>1, <1>2 DEF SonDe, Fisica, tam_proc
<1> QED  BY <1>1, <1>2, <1>3

LEMMA PedidosSinAcceso ==
  ASSUME InvEspacios, Cuidadosos, NEW p \in Procesos,
         \/ Carga(p) \/ Despacha(p) \/ Vuelve(p) \/ Finaliza(p) \/ Limpia(p)
         \/ \E tamanio \in Tamanios : AchicaProceso(p, tamanio) \/ AgrandaProceso(p, tamanio)
         \/ BuscaPagina(p) \/ DevuelvePagina(p) \/ RecibePagina(p) \/ SaleSinMemoria(p)
  PROVE  PedidosBuenos' /\ CpuSinPedido'
<1>1. TypeOK /\ PedidosBuenos /\ CpuSinPedido
  BY DEF InvEspacios, InvTlb
<1>2. pedido' = pedido /\ (enCpu' \in {enCpu, Nadie} \/ (enCpu' = p /\ pedido[p] = Ninguno))
  BY DEF Carga, Despacha, Vuelve, Finaliza, Limpia, AchicaProceso, AgrandaProceso, BuscaPagina,
     DevuelvePagina, RecibePagina, SaleSinMemoria, Cuidadosos
<1>3. CpuSinPedido'
  BY <1>1, <1>2 DEF CpuSinPedido
<1>4. \A q \in Procesos : q # p => vida'[q] = vida[q] /\ paginas'[q] = paginas[q]
  BY <1>1 DEF TypeOK, MemoriaTypeOK, Carga, NuevoProceso, Despacha, Vuelve, Finaliza,
     LiberarProceso, Limpia, LeeAlLiberar, LimpiaMarco, LiberaTabla, AchicaProceso,
     AgrandaProceso, BuscaPagina, LeeAlSacar, BuscaMarco, DevuelvePagina, SacaPagina,
     RecibePagina, AniadePagina, SaleSinMemoria, SinMarcos, memoriaVars
<1>5. pedido[p] # Ninguno => vida'[p] = vida[p] /\ paginas'[p] = paginas[p]
  <2>1. pedido[p] # Ninguno => vida[p] = "cargado"
    BY <1>1 DEF PedidosBuenos, PedidoBueno, SonDe
  <2>2. CASE Carga(p) \/ Finaliza(p) \/ Limpia(p)
    BY <2>1, <2>2 DEF Carga, NuevoProceso, Finaliza, Limpia, LeeAlLiberar, LimpiaMarco,
       LiberaTabla, Cuidadosos
  <2>3. CASE DevuelvePagina(p) \/ RecibePagina(p) \/ SaleSinMemoria(p)
    <3>1. enCpu = p /\ p # Nadie
      BY <2>3, MemoriaAssumption DEF DevuelvePagina, RecibePagina, SaleSinMemoria, Nadie
    <3> QED  BY <1>1, <3>1 DEF CpuSinPedido
  <2>4. CASE \/ Despacha(p) \/ Vuelve(p) \/ BuscaPagina(p)
             \/ \E tamanio \in Tamanios : AchicaProceso(p, tamanio) \/ AgrandaProceso(p, tamanio)
    BY <2>4 DEF Despacha, Vuelve, BuscaPagina, LeeAlSacar, BuscaMarco, AchicaProceso,
       AgrandaProceso, memoriaVars
  <2> QED  BY <2>2, <2>3, <2>4
<1>6. ASSUME NEW q \in Procesos
      PROVE  PedidoBueno(q)'
  BY <1>1, <1>2, <1>4, <1>5, PedidoSigue
<1> QED  BY <1>3, <1>6 DEF PedidosBuenos

LEMMA PedidosAcceso ==
  ASSUME InvEspacios, NEW p \in Procesos,
         \/ UNCHANGED vars
         \/ EscribeInterfaz(p) \/ LeeInterfaz(p)
         \/ \E dl \in Direcciones, n \in Anchos : MovIn(p, dl, n) \/ MovOut(p, dl, n)
         \/ \E dl, di \in Direcciones, n \in Cadenas : CopyString(p, dl, di, n)
  PROVE  PedidosBuenos' /\ CpuSinPedido'
<1>1. TypeOK /\ PedidosBuenos /\ CpuSinPedido
  BY DEF InvEspacios, InvTlb
<1>2. UNCHANGED <<vida, paginas, enCpu>>
  BY DEF vars, memoriaVars, EscribeInterfaz, EscribirString, Escribir, LeeInterfaz, MovIn, MovOut,
     CopyString
<1>3. pedido' = pedido \/ pedido' = [pedido EXCEPT ![p] = Ninguno]
  BY DEF vars, EscribeInterfaz, LeeInterfaz, MovIn, MovOut, CopyString
<1>4. \A q \in Procesos : pedido'[q] = Ninguno \/ pedido'[q] = pedido[q]
  BY <1>1, <1>3 DEF TypeOK
<1>5. ASSUME NEW q \in Procesos
      PROVE  PedidoBueno(q)'
  BY <1>1, <1>2, <1>4, PedidoSigue
<1>6. CpuSinPedido'
  BY <1>1, <1>2, <1>4 DEF CpuSinPedido, TypeOK
<1> QED  BY <1>5, <1>6 DEF PedidosBuenos

\* The addresses of an instruction are the process's own.
LEMMA AccesoEsSuyo ==
  ASSUME InvTlb, NEW p \in Procesos, Ejecuta(p), NEW t, TlbBien(t), TlbBuena(t),
         NEW dl \in Direcciones, NEW n \in Nat \ {0}, EnSuEspacio(p, dl, n),
         NEW r, r = Traducir(t, dl, n)
  PROVE  TlbBien(r.tlb) /\ TlbBuena(r.tlb) /\ SonDe(p, dl, r.fisicas) /\ Len(r.fisicas) = n
<1>1. /\ vida[p] = "cargado" /\ TlbBien(r.tlb) /\ TlbBuena(r.tlb)
      /\ r.fisicas \in Seq(DireccionesFisicas) /\ Len(r.fisicas) = n
      /\ \A k \in 1..n : r.fisicas[k] = Fisica(p, dl + (k - 1))
  BY AccesoBueno
<1>2. dl \in Nat /\ dl + n <= tam_proc(p)
  BY DireccionamientoAssumption DEF EnSuEspacio
<1> QED  BY <1>1, <1>2 DEF SonDe

LEMMA PedidosAlPedir ==
  ASSUME InvEspacios, NEW p \in Procesos, NEW op, NEW dl \in Direcciones, NEW n \in Cadenas,
         PideIO(p, op, dl, n)
  PROVE  PedidosBuenos' /\ CpuSinPedido'
<1> DEFINE r == Traducir(tlb, dl, n)
<1>1. TypeOK /\ PedidosBuenos /\ InvTlb
  BY DEF InvEspacios, InvTlb
<1>2. /\ pedido' = [pedido EXCEPT ![p] = [op |-> op, dl |-> dl, fisicas |-> r.fisicas]]
      /\ enCpu' = Nadie /\ UNCHANGED <<vida, paginas>>
  BY DEF PideIO, memoriaVars
<1>3. SonDe(p, dl, r.fisicas) /\ Len(r.fisicas) = n
  <2>1. /\ n \in Nat \ {0} /\ TlbBien(tlb) /\ TlbBuena(tlb) /\ Ejecuta(p)
        /\ EnSuEspacio(p, dl, n)
    BY <1>1, DireccionamientoAssumption DEF PideIO, InvTlb, TypeOK, TlbBien
  <2> QED  BY <1>1, <2>1, AccesoEsSuyo
<1> HIDE DEF r
<1>4. /\ pedido'[p].fisicas = r.fisicas /\ pedido'[p].dl = dl
      /\ \A q \in Procesos : q # p => pedido'[q] = pedido[q]
  BY <1>1, <1>2 DEF TypeOK
<1>5. PedidoBueno(p)'
  <2>1. SonDe(p, pedido[p].dl, pedido[p].fisicas)'
    BY <1>2, <1>3, <1>4 DEF SonDe, Fisica, tam_proc
  <2> QED  BY <1>3, <1>4, <2>1 DEF PedidoBueno
<1>6. ASSUME NEW q \in Procesos, q # p
      PROVE  PedidoBueno(q)'
  BY <1>1, <1>2, <1>4, <1>6, PedidoSigue
<1> QED  BY <1>2, <1>5, <1>6 DEF PedidosBuenos, CpuSinPedido

LEMMA SinCargarVaciosSigue == InvEspacios /\ [Next]_vars => SinCargarVacios'
<1> SUFFICES ASSUME InvEspacios, [Next]_vars PROVE SinCargarVacios'
  OBVIOUS
<1>1. /\ SinCargarVacios /\ CpuBuena /\ 0 \notin Procesos
      /\ paginas \in [Procesos -> Seq(Marcos)] /\ vida \in [Procesos -> Vidas]
  BY MemoriaAssumption DEF InvEspacios, InvTlb, Base, TypeOK, MemoriaTypeOK
\* No step makes a process not loaded.
<1>2. ASSUME \A q \in Procesos : vida'[q] = "sin_cargar" => vida[q] = "sin_cargar",
             \A q \in Procesos : vida[q] = "sin_cargar" => paginas'[q] = paginas[q]
      PROVE  SinCargarVacios'
  BY <1>1, <1>2 DEF SinCargarVacios
<1>3. CASE UNCHANGED vars
  BY <1>2, <1>3 DEF vars, memoriaVars
<1>4. ASSUME NEW p \in Procesos,
             \/ Carga(p) \/ Despacha(p) \/ Vuelve(p) \/ Finaliza(p) \/ Limpia(p)
             \/ \E tamanio \in Tamanios : AchicaProceso(p, tamanio) \/ AgrandaProceso(p, tamanio)
             \/ BuscaPagina(p) \/ SaleSinMemoria(p)
      PROVE  SinCargarVacios'
  <2>1. /\ vida' = vida \/ \E v \in Vidas \ {"sin_cargar"} : vida' = [vida EXCEPT ![p] = v]
        /\ paginas' = paginas \/ (vida[p] = "liberando" /\ \E s : paginas' = [paginas EXCEPT ![p] = s])
    BY <1>4 DEF Carga, NuevoProceso, Despacha, Vuelve, Finaliza, LiberarProceso, Limpia,
       LeeAlLiberar, LimpiaMarco, LiberaTabla, AchicaProceso, AgrandaProceso, BuscaPagina,
       LeeAlSacar, BuscaMarco, SaleSinMemoria, SinMarcos, memoriaVars, Vidas
  <2> QED  BY <1>1, <1>2, <2>1
<1>5. ASSUME NEW p \in Procesos, DevuelvePagina(p) \/ RecibePagina(p)
      PROVE  SinCargarVacios'
  <2>1. vida' = vida /\ enCpu = p /\ \E s : paginas' = [paginas EXCEPT ![p] = s]
    BY <1>5 DEF DevuelvePagina, SacaPagina, RecibePagina, AniadePagina
  <2>2. vida[p] = "cargado"
    BY <1>1, <2>1 DEF CpuBuena, Nadie
  <2> QED  BY <1>1, <1>2, <2>1, <2>2
<1>6. ASSUME NEW p \in Procesos, NEW dl, NEW n,
             \/ MovIn(p, dl, n) \/ MovOut(p, dl, n) \/ EscribeInterfaz(p) \/ LeeInterfaz(p)
             \/ \E di \in Direcciones : CopyString(p, dl, di, n)
             \/ \E op \in {"LECTURA_STRING", "ESCRITURA_STRING"} : PideIO(p, op, dl, n)
      PROVE  SinCargarVacios'
  <2>1. UNCHANGED <<vida, paginas>>
    BY <1>6 DEF MovIn, MovOut, EscribeInterfaz, LeeInterfaz, CopyString, PideIO, EscribirString,
       Escribir, memoriaVars
  <2> QED  BY <1>2, <2>1
<1> QED  BY <1>3, <1>4, <1>5, <1>6 DEF Next

LEMMA InvEspaciosNext ==
  ASSUME Cuidadosos
  PROVE  InvEspacios /\ [Next]_vars => InvEspacios'
<1> SUFFICES ASSUME InvEspacios, [Next]_vars PROVE InvEspacios'
  OBVIOUS
<1>1. InvMarcos'
  BY InvMarcosNext DEF InvEspacios, Cuidadosos
<1>2. InvTlb'
  BY InvTlbNext DEF InvEspacios, Cuidadosos
<1>3. PedidosBuenos' /\ CpuSinPedido'
  <2>1. CASE UNCHANGED vars
    <3>1. CASE Procesos = {}
      BY <2>1, <3>1 DEF vars, PedidosBuenos, CpuSinPedido, InvEspacios
    <3>2. CASE Procesos # {}
      BY <2>1, <3>2, PedidosAcceso
    <3> QED  BY <3>1, <3>2
  <2>2. CASE Next
    BY <2>2, PedidosSinAcceso, PedidosAcceso, PedidosAlPedir DEF Next
  <2> QED  BY <2>1, <2>2
<1> QED  BY <1>1, <1>2, <1>3, SinCargarVaciosSigue DEF InvEspacios

-----------------------------------------------------------------------------
(***************************************************************************)
(* Every step is a step of the private address spaces                      *)
(***************************************************************************)

\* The kernel's and the TLB's own steps, and the turns of the loops that read a byte
\* of the bitmap, which neither move a byte of the memory nor deliver any.
LEMMA PasosQuietos ==
  ASSUME InvEspacios, NEW p \in Procesos,
         \/ Carga(p) \/ Despacha(p) \/ Vuelve(p) \/ Limpia(p) \/ BuscaPagina(p)
         \/ \E tamanio \in Tamanios : AchicaProceso(p, tamanio) \/ AgrandaProceso(p, tamanio)
         \/ \E op \in {"LECTURA_STRING", "ESCRITURA_STRING"}, dl \in Direcciones, n \in Cadenas :
              PideIO(p, op, dl, n)
  PROVE  Privados!Quieto
<1>1. /\ MemoriaTypeOK /\ SinCargarVacios /\ Sirve(Ninguna)
      /\ memoria_contigua' = memoria_contigua
  BY DEF InvEspacios, InvTlb, TypeOK, Carga, NuevoProceso, Despacha, Vuelve, Limpia, LeeAlLiberar,
     LimpiaMarco, LiberaTabla, BuscaPagina, LeeAlSacar, BuscaMarco, AchicaProceso, AgrandaProceso,
     PideIO, memoriaVars
<1>2. CASE ~ (Limpia(p) \/ Carga(p))
  <2>1. UNCHANGED <<vida, paginas>>
    BY <1>2 DEF Despacha, Vuelve, BuscaPagina, LeeAlSacar, BuscaMarco, AchicaProceso,
       AgrandaProceso, PideIO, memoriaVars
  <2>2. \A q \in Procesos : Espacio(q)' = Espacio(q)
    BY <1>1, <2>1, EspacioIgual
  <2> QED  BY <1>1, <2>2, PasoQuieto
<1>3. CASE Limpia(p)
  <2>1. /\ vida[p] = "liberando" /\ vida'[p] \in {"liberando", "liberado"}
        /\ \A q \in Procesos : q # p => vida'[q] = vida[q] /\ paginas'[q] = paginas[q]
    BY <1>1, <1>3 DEF Limpia, LeeAlLiberar, LimpiaMarco, LiberaTabla, MemoriaTypeOK
  <2>2. Espacio(p)' = Espacio(p)
    BY <2>1 DEF Espacio
  <2>3. \A q \in Procesos : Espacio(q)' = Espacio(q)
    BY <1>1, <2>1, <2>2, EspacioIgual
  <2> QED  BY <1>1, <2>3, PasoQuieto
<1>4. CASE Carga(p)
  <2>1. /\ vida[p] = "sin_cargar" /\ vida'[p] = "cargado" /\ paginas' = paginas
        /\ paginas[p] = <<>> /\ \A q \in Procesos : q # p => vida'[q] = vida[q]
    BY <1>1, <1>4 DEF Carga, NuevoProceso, MemoriaTypeOK, SinCargarVacios
  <2>2. Espacio(p)' = Espacio(p)
    <3>1. Espacio(p) = <<>>
      BY <2>1 DEF Espacio
    <3>2. tam_proc(p)' = 0 /\ tam_proc(p)' \in Nat
      BY <2>1, MemoriaAssumption DEF tam_proc
    <3>3. /\ Espacio(p)' = [k \in 1..tam_proc(p)' |->
                memoria_contigua'[paginas'[p][(k - 1) \div TAM_PAG + 1] * TAM_PAG + ((k - 1) % TAM_PAG)]]
      BY <2>1 DEF Espacio
    <3>4. 1..tam_proc(p)' = {}
      BY <3>2
    <3>5. Espacio(p)' = <<>>
      BY <3>3, <3>4
    <3> QED  BY <3>1, <3>5
  <2>3. \A q \in Procesos : Espacio(q)' = Espacio(q)
    BY <1>1, <2>1, <2>2, EspacioIgual
  <2> QED  BY <1>1, <2>3, PasoQuieto
<1> QED  BY <1>2, <1>3, <1>4

\* A process loses its address space.
LEMMA PasosDelFin ==
  ASSUME InvEspacios, NEW p \in Procesos, Finaliza(p) \/ SaleSinMemoria(p)
  PROVE  Privados!Siguiente
<1>1. /\ Sirve(Peticion("FINALIZACION", p, 0, 0, 0))
      /\ UNCHANGED <<paginas, memoria_contigua>>
  BY DEF Finaliza, LiberarProceso, SaleSinMemoria, SinMarcos
<1>2. vida'[p] \in {"liberando", "saliendo"} /\ \A q \in Procesos : q # p => vida'[q] = vida[q]
  BY DEF InvEspacios, InvTlb, TypeOK, MemoriaTypeOK, Finaliza, LiberarProceso, SaleSinMemoria,
     SinMarcos
<1>3. Espacio(p)' = <<>>
  BY <1>2 DEF Espacio
<1>4. \A q \in Procesos \ {p} : Espacio(q)' = Espacio(q)
  BY <1>1, <1>2, EspacioIgual
<1> QED  BY <1>1, <1>3, <1>4, PasoTerminar

\* Or gives back or gets a page.
LEMMA PasosDeTamanio ==
  ASSUME InvEspacios, InvEspacios', NEW p \in Procesos, DevuelvePagina(p) \/ RecibePagina(p)
  PROVE  Privados!Siguiente
<1> DEFINE s == paginas[p]
           t == paginas'[p]
<1>0. MemoriaTypeOK /\ MemoriaTypeOK' /\ CpuBuena /\ Achicando
  BY DEF InvEspacios, InvTlb, TypeOK, Base
<1>1. /\ MemoriaTypeOK /\ MemoriaTypeOK' /\ CpuBuena /\ Achicando /\ faltan \in Int
      /\ paginas \in [Procesos -> Seq(Marcos)] /\ s \in Seq(Marcos) /\ Len(s) \in Nat
      /\ TAM_PAG \in Nat \ {0}
  <2>1. faltan \in Int /\ paginas \in [Procesos -> Seq(Marcos)] /\ TAM_PAG \in Nat \ {0}
    BY <1>0, MemoriaAssumption DEF MemoriaTypeOK
  <2>2. s \in Seq(Marcos)
    BY <2>1
  <2> HIDE DEF s
  <2>3. Len(s) \in Nat
    BY <2>2
  <2> QED  BY <1>0, <2>1, <2>2, <2>3
<1>2. /\ UNCHANGED <<memoria_contigua, vida>> /\ enCpu = p
      /\ \A q \in Procesos : q # p => paginas'[q] = paginas[q]
  BY <1>1 DEF DevuelvePagina, SacaPagina, RecibePagina, AniadePagina
<1>3. vida[p] = "cargado" /\ vida'[p] = "cargado"
  BY <1>1, <1>2, MemoriaAssumption DEF CpuBuena, Nadie
<1>4. \A q \in Procesos \ {p} : Espacio(q)' = Espacio(q)
  BY <1>2, EspacioIgual
<1>5. tam_proc(p) = Len(s) * TAM_PAG /\ tam_proc(p)' = Len(t) * TAM_PAG
  BY DEF tam_proc
<1>6. \A a, b \in Nat : a = b + 1 => b * TAM_PAG < a * TAM_PAG
  <2> SUFFICES ASSUME NEW b \in Nat PROVE b * TAM_PAG < (b + 1) * TAM_PAG
    OBVIOUS
  <2>1. (b + 1) * TAM_PAG = b * TAM_PAG + TAM_PAG /\ b * TAM_PAG \in Nat
    BY <1>1
  <2> QED  BY <1>1, <2>1
<1>7. CASE DevuelvePagina(p)
  <2>1. t = SubSeq(s, 1, Len(s) - 1) /\ faltan < 0
    BY <1>1, <1>7 DEF DevuelvePagina, SacaPagina, Quedan
  <2>2. Len(s) - 1 \in Nat
    BY <1>1, <1>2, <2>1 DEF Achicando
  <2>3. Len(t) = Len(s) - 1 /\ Len(t) \in Nat /\ \A i \in 1..Len(t) : t[i] = s[i]
    <3> DEFINE m == Len(s) - 1
    <3>1. m \in Nat /\ 0 + m <= Len(s) /\ 0 + 1 = 1 /\ 0 + m = m /\ \A i \in 1..m : 0 + i = i
      BY <1>1, <2>2
    <3>2. s \in Seq(Marcos)
      BY <1>1
    <3> HIDE DEF m, s, t
    <3>3. /\ Len(SubSeq(s, 0 + 1, 0 + m)) = m
          /\ \A i \in 1..m : SubSeq(s, 0 + 1, 0 + m)[i] = s[0 + i]
      BY ONLY <3>1, <3>2, Recorte
    <3>4. t = SubSeq(s, 0 + 1, 0 + m)
      BY <2>1, <3>1 DEF m
    <3>5. Len(t) = m /\ \A i \in 1..m : t[i] = s[i]
      BY <3>1, <3>3, <3>4
    <3> QED  BY <3>1, <3>5 DEF m
  <2> HIDE DEF s, t
  <2>4. \A i \in 1..Len(s) : i <= Len(t) => t[i] = s[i]
    BY <1>1, <2>3
  <2>5. Len(t) * TAM_PAG < Len(s) * TAM_PAG
    <3>1. Len(s) = Len(t) + 1
      BY <1>1, <2>3
    <3> QED  BY <1>1, <1>6, <2>3, <3>1
  <2>6. /\ Len(Espacio(p)) = tam_proc(p) /\ Len(Espacio(p)') = tam_proc(p)'
        /\ Len(Espacio(p)') <= Len(Espacio(p)) =>
             Espacio(p)' = SubSeq(Espacio(p), 1, Len(Espacio(p)'))
    BY <1>1, <1>2, <1>3, <2>4, EspacioCambiaDeTamanio DEF s, t
  <2>7. Len(Espacio(p)') < Len(Espacio(p)) /\ Len(Espacio(p)') <= Len(Espacio(p))
    <3>1. Len(t) * TAM_PAG \in Nat /\ Len(s) * TAM_PAG \in Nat
      BY <1>1, <2>3
    <3> QED  BY <1>5, <2>5, <2>6, <3>1
  <2>8. Sirve(Peticion("MENOS_PAGINA", p, 0, 0, 0))
    BY <1>7 DEF DevuelvePagina
  <2> QED  BY <1>4, <2>6, <2>7, <2>8, PasoAchicar
<1>8. CASE RecibePagina(p)
  <2>1. PICK m \in Marcos : paginas' = [paginas EXCEPT ![p] = Append(s, m)]
    BY <1>8 DEF RecibePagina, AniadePagina
  <2>2. t = Append(s, m)
    BY <1>1, <2>1
  <2>3. Len(t) = Len(s) + 1 /\ Len(t) \in Nat /\ \A i \in 1..Len(s) : t[i] = s[i]
    <3> HIDE DEF s, t
    <3> QED  BY <1>1, <2>2
  <2> HIDE DEF s, t
  <2>5. Len(s) * TAM_PAG < Len(t) * TAM_PAG
    BY <1>1, <1>6, <2>3
  <2>6. /\ Len(Espacio(p)) = tam_proc(p) /\ Len(Espacio(p)') = tam_proc(p)'
        /\ Espacio(p)' \in Seq(Octetos)
        /\ Len(Espacio(p)') >= Len(Espacio(p)) =>
             SubSeq(Espacio(p)', 1, Len(Espacio(p))) = Espacio(p)
    BY <1>1, <1>2, <1>3, <2>3, EspacioCambiaDeTamanio DEF s, t
  <2>7. Len(Espacio(p)') > Len(Espacio(p)) /\ Len(Espacio(p)') >= Len(Espacio(p))
    <3>1. Len(t) * TAM_PAG \in Nat /\ Len(s) * TAM_PAG \in Nat
      BY <1>1, <2>3
    <3> QED  BY <1>5, <2>5, <2>6, <3>1
  <2>8. Sirve(Peticion("MAS_PAGINA", p, 0, 0, 0))
    BY <1>8 DEF RecibePagina
  <2> QED  BY <1>4, <2>6, <2>7, <2>8, PasoAgrandar
<1> QED  BY <1>7, <1>8

\* What is read at the addresses f is the bytes from dl on.
LEMMA LecturaEs ==
  ASSUME MemoriaTypeOK, NEW p \in Procesos, NEW dl, NEW f, SonDe(p, dl, f)
  PROVE  /\ dl + Len(f) <= Len(Espacio(p))
         /\ Leer(f) = SubSeq(Espacio(p), dl + 1, dl + Len(f))
         /\ Len(f) \in Nat /\ f \in Seq(DireccionesFisicas)
<1>1. f \in Seq(DireccionesFisicas) /\ Len(f) \in Nat
  BY DEF SonDe
<1> DEFINE s == Leer(f)
<1>2. /\ s \in Seq(Octetos) /\ Len(s) = Len(f)
      /\ \A k \in 1..Len(f) : s[k] = memoria_contigua[f[k]]
  BY <1>1, LeerEs
<1> HIDE DEF s
<1>3. Len(s) <= Len(f) /\ \A k \in 1..Len(s) : s[k] = memoria_contigua[f[k]]
  BY <1>1, <1>2
<1>4. dl + Len(s) <= Len(Espacio(p)) /\ s = SubSeq(Espacio(p), dl + 1, dl + Len(s))
  BY ONLY <1>2, <1>3, MemoriaTypeOK, p \in Procesos, SonDe(p, dl, f), LeerDeSuEspacio
<1> QED  BY <1>1, <1>2, <1>4 DEF s

LEMMA PasoMovIn ==
  ASSUME InvEspacios, NEW p \in Procesos, NEW dl \in Direcciones, NEW n \in Anchos,
         MovIn(p, dl, n)
  PROVE  Privados!Siguiente
<1> DEFINE r == Traducir(tlb, dl, n)
<1>1. InvTlb /\ MemoriaTypeOK /\ TlbBien(tlb) /\ TlbBuena(tlb) /\ n \in Nat \ {0}
  BY DEF InvEspacios, InvTlb, TypeOK, TlbBien, Anchos
<1>2. /\ Ejecuta(p) /\ EnSuEspacio(p, dl, n) /\ leido' = Leer(r.fisicas)
      /\ UNCHANGED memoriaVars /\ peticion' = Peticion("MOV_IN", p, dl, 0, n)
  BY DEF MovIn
<1>3. SonDe(p, dl, r.fisicas) /\ Len(r.fisicas) = n
  BY <1>1, <1>2, AccesoEsSuyo
<1> HIDE DEF r
<1>4. dl + n <= Len(Espacio(p)) /\ leido' = SubSeq(Espacio(p), dl + 1, dl + n)
  BY <1>1, <1>2, <1>3, LecturaEs
<1>5. \A q \in Procesos : Espacio(q)' = Espacio(q)
  BY <1>2, EspacioIgual DEF memoriaVars
<1> QED  BY <1>2, <1>4, <1>5, PasoCargar

LEMMA PasoLeeInterfaz ==
  ASSUME InvEspacios, NEW p \in Procesos, LeeInterfaz(p)
  PROVE  Privados!Siguiente
<1> DEFINE f == pedido[p].fisicas
           dl == pedido[p].dl
           n == Len(f)
           b == Leer(f)
           l == Len(LeerString(f))
<1>1. /\ MemoriaTypeOK /\ leido' = LeerString(f) /\ UNCHANGED memoriaVars
      /\ peticion' = Peticion("LECTURA_STRING", p, dl, 0, n)
  BY DEF InvEspacios, InvTlb, TypeOK, LeeInterfaz
<1>2. SonDe(p, dl, f) /\ dl \in Direcciones /\ n \in Cadenas
  BY DEF LeeInterfaz, InvEspacios, PedidosBuenos, PedidoBueno, Ninguno
<1> HIDE DEF f, dl
<1>3. /\ dl + n <= Len(Espacio(p)) /\ b = SubSeq(Espacio(p), dl + 1, dl + n)
      /\ n \in Nat /\ f \in Seq(DireccionesFisicas)
  BY <1>1, <1>2, LecturaEs
<1>4. b \in Seq(Octetos) /\ Len(b) = n /\ \A k \in 1..n : b[k] = memoria_contigua[f[k]]
  BY <1>1, <1>3, LeerEs
<1>5. /\ leido' \in Seq(Octetos) /\ l \in 0..n /\ Len(leido') = l
      /\ \A k \in 1..l : leido'[k] = memoria_contigua[f[k]] /\ leido'[k] # 0
      /\ l < n => memoria_contigua[f[l + 1]] = 0
  BY <1>1, <1>3, LeerStringEs
<1> HIDE DEF b, l, n
<1>6. \A k \in 1..l : leido'[k] = b[k] /\ b[k] # 0
  <2> SUFFICES ASSUME NEW k \in 1..l PROVE leido'[k] = b[k] /\ b[k] # 0
    OBVIOUS
  <2>1. k \in 1..n
    BY <1>3, <1>5
  <2>2. b[k] = memoria_contigua[f[k]]
    BY <1>4, <2>1
  <2>3. leido'[k] = memoria_contigua[f[k]] /\ leido'[k] # 0
    BY <1>5
  <2> QED  BY <2>2, <2>3
<1>7. l < n => b[l + 1] = 0
  <2>1. l < n => l + 1 \in 1..n
    BY <1>3, <1>5
  <2> QED  BY <1>4, <1>5, <2>1
<1>8. leido' = SubSeq(b, 1, l)
  <2>1. Len(leido') <= Len(b)
    BY <1>3, <1>4, <1>5
  <2>4. \A k \in 1..Len(leido') : b[k] = leido'[k]
    BY <1>5, <1>6
  <2> DEFINE c == leido'
  <2> HIDE DEF c
  <2>2. c \in Seq(Octetos) /\ Len(c) <= Len(b) /\ \A k \in 1..Len(c) : b[k] = c[k]
    BY <1>5, <2>1, <2>4 DEF c
  <2>3. SubSeq(b, 1, Len(c)) = c
    BY ONLY <1>4, <2>2, PrefijoEs
  <2> QED  BY <1>5, <2>3 DEF c
<1>9. \A q \in Procesos : Espacio(q)' = Espacio(q)
  BY <1>1, EspacioIgual DEF memoriaVars
<1>10. Mostrado(p, dl, n, l, b)
  BY <1>1, <1>3, <1>6, <1>7, <1>8, <1>9 DEF Mostrado
<1> QED  BY ONLY <1>2, <1>5, <1>10, p \in Procesos, PasoMostrar

LEMMA PasoMovOut ==
  ASSUME InvEspacios, NEW p \in Procesos, NEW dl \in Direcciones, NEW n \in Anchos,
         MovOut(p, dl, n)
  PROVE  Privados!Siguiente
<1> DEFINE r == Traducir(tlb, dl, n)
           b == EnMemoria(Registro(p), n, PagNecesarias(dl, n))
<1>1. /\ InvTlb /\ MemoriaTypeOK /\ TlbBien(tlb) /\ TlbBuena(tlb) /\ n \in Nat \ {0}
      /\ SinRepetir
  BY MarcoAMarco DEF InvEspacios, InvMarcos, Base, InvTlb, TypeOK, TlbBien, Anchos
<1>2. /\ Ejecuta(p) /\ EnSuEspacio(p, dl, n) /\ Escribir(r.fisicas, b)
      /\ Sirve(Peticion("MOV_OUT", p, 0, dl, n))
  BY DEF MovOut
<1>3. SonDe(p, dl, r.fisicas) /\ Len(r.fisicas) = n
  BY <1>1, <1>2, AccesoEsSuyo
<1>4. b = SubSeq(Registro(p), 1, n) /\ b \in Seq(Octetos) /\ Len(b) = n
  BY EnMemoriaEs, DireccionamientoAssumption
<1> HIDE DEF r, b
<1>5. Sobrescrito(p, dl, b)
  BY <1>1, <1>2, <1>3, <1>4, EscribirEnSuEspacio
<1> QED  BY <1>2, <1>4, <1>5, PasoGuardar

LEMMA PasoCopyString ==
  ASSUME InvEspacios, NEW p \in Procesos, NEW si \in Direcciones, NEW di \in Direcciones,
         NEW n \in Cadenas, CopyString(p, si, di, n)
  PROVE  Privados!Siguiente
<1> DEFINE o == Traducir(tlb, si, n)
           d == Traducir(o.tlb, di, n)
           c == LeerString(o.fisicas)
<1>1. /\ InvTlb /\ MemoriaTypeOK /\ TlbBien(tlb) /\ TlbBuena(tlb) /\ n \in Nat \ {0}
      /\ SinRepetir
  BY MarcoAMarco, DireccionamientoAssumption
     DEF InvEspacios, InvMarcos, Base, InvTlb, TypeOK, TlbBien
<1>2. /\ Ejecuta(p) /\ EnSuEspacio(p, si, n) /\ EnSuEspacio(p, di, n)
      /\ Len(c) = n /\ Escribir(d.fisicas, c) /\ Sirve(Peticion("COPY_STRING", p, si, di, n))
  BY DEF CopyString, EscribirString
<1>3. /\ TlbBien(o.tlb) /\ TlbBuena(o.tlb)
      /\ SonDe(p, si, o.fisicas) /\ Len(o.fisicas) = n
  BY <1>1, <1>2, AccesoEsSuyo
<1> HIDE DEF o
<1>4. SonDe(p, di, d.fisicas) /\ Len(d.fisicas) = n
  BY <1>1, <1>2, <1>3, AccesoEsSuyo
<1>5. /\ c \in Seq(Octetos)
      /\ \A k \in 1..Len(c) : c[k] = memoria_contigua[o.fisicas[k]]
  <2>1. o.fisicas \in Seq(DireccionesFisicas)
    BY <1>3 DEF SonDe
  <2> QED  BY <1>1, <2>1, LeerStringEs
<1> HIDE DEF c, d
<1>6. si + n <= Len(Espacio(p)) /\ c = SubSeq(Espacio(p), si + 1, si + n)
  <2>1. Len(c) <= Len(o.fisicas)
    BY <1>1, <1>2, <1>3
  <2>2. /\ si + Len(c) <= Len(Espacio(p))
        /\ c = SubSeq(Espacio(p), si + 1, si + Len(c))
    BY <1>1, <1>3, <1>5, <2>1, LeerDeSuEspacio
  <2> QED  BY <1>2, <2>2
<1>7. Sobrescrito(p, di, c)
  BY <1>1, <1>2, <1>4, <1>5, EscribirEnSuEspacio
<1> QED  BY <1>2, <1>6, <1>7, PasoCopiar

LEMMA PasoEscribeInterfaz ==
  ASSUME InvEspacios, NEW p \in Procesos, EscribeInterfaz(p)
  PROVE  Privados!Siguiente
<1> DEFINE f == pedido[p].fisicas
           dl == pedido[p].dl
           n == Len(f)
           b == [k \in 1..n |-> Texto]
<1>1. /\ MemoriaTypeOK /\ SinRepetir
      /\ Sirve(Peticion("ESCRITURA_STRING", p, 0, dl, n))
  BY MarcoAMarco DEF InvEspacios, InvMarcos, Base, InvTlb, TypeOK, EscribeInterfaz
<1>2. SonDe(p, dl, f) /\ dl \in Direcciones /\ n \in Cadenas
  BY DEF EscribeInterfaz, InvEspacios, PedidosBuenos, PedidoBueno, Ninguno
<1>3. f \in Seq(DireccionesFisicas) /\ DOMAIN f = 1..Len(f) /\ Len(f) \in Nat
  BY <1>2 DEF SonDe
<1>4. Escribir(f, b)
  BY <1>3 DEF EscribeInterfaz, EscribirString
<1> HIDE DEF f, dl
<1>5. b \in Seq(Octetos) /\ Len(b) = Len(f)
  BY <1>3 DEF Octetos
<1>6. Sobrescrito(p, dl, b)
  <2> HIDE DEF b
  <2> QED  BY <1>1, <1>2, <1>4, <1>5, EscribirEnSuEspacio
<1> QED  BY <1>1, <1>2, <1>6, PasoRecibir

LEMMA IniciaEspacios == Init => Privados!Iniciar
<1> SUFFICES ASSUME Init PROVE Privados!Iniciar
  OBVIOUS
<1>1. leido = <<>> /\ \A p \in Procesos : vida[p] # "cargado"
  BY DEF Init, MemoriaInit
<1>2. \A p \in Procesos : Espacio(p) = <<>>
  BY <1>1 DEF Espacio
<1> QED  BY <1>1, <1>2 DEF Privados!Iniciar

LEMMA PasoEspacios ==
  ASSUME InvEspacios, InvEspacios', [Next]_vars
  PROVE  Privados!Quieto \/ Privados!Siguiente \/ UNCHANGED Privados!vars
<1>1. CASE UNCHANGED vars
  <2>1. UNCHANGED <<leido, peticion>> /\ \A p \in Procesos : Espacio(p)' = Espacio(p)
    BY <1>1, EspacioIgual DEF vars, memoriaVars
  <2> QED  BY <2>1 DEF Privados!vars
<1>2. CASE Next
  BY <1>2, PasosQuietos, PasosDelFin, PasosDeTamanio, PasoMovIn, PasoMovOut, PasoCopyString,
     PasoEscribeInterfaz, PasoLeeInterfaz DEF Next
<1> QED  BY <1>1, <1>2

\* Paging, the TLB and the interfaces that read and write with the physical addresses
\* they were given implement private address spaces: what a request reads is what its
\* own process holds at the address it named, what it writes goes to that address of
\* the same process, and nobody else's bytes change, for threads that never change two
\* bits of one byte at once, programs that keep the pages they have in the TLB and a
\* user and interfaces that let each request be served before its process goes on or
\* is killed.
THEOREM MemoriaEsPrivada ==
  ASSUME Cuidadosos
  PROVE  Spec => CumpleEspacios
<1>1. InvEspacios /\ InvEspacios' /\ [Next]_vars
        => [Privados!Quieto \/ Privados!Siguiente]_(Privados!vars)
  BY PasoEspacios
<1>2. Spec => []InvEspacios
  BY InvEspaciosInit, InvEspaciosNext, PTL DEF Spec
<1>3. Privados!Iniciar /\ [][Privados!Quieto \/ Privados!Siguiente]_(Privados!vars)
        => Privados!Especificacion
  BY DEF Privados!Especificacion
<1> QED  BY <1>1, <1>2, <1>3, IniciaEspacios, PTL DEF Spec, CumpleEspacios
=============================================================================
