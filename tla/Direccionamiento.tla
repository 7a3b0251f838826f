------------------------- MODULE Direccionamiento -------------------------
(***************************************************************************)
(* How the CPU (cpu.c) and the interfaces (entradasalida.c) reach the      *)
(* memory: the MMU with its TLB, the instructions that use memory, and the *)
(* reads and writes an interface does later with the physical addresses    *)
(* that the MMU gave when the process asked.  The kernel is here only what *)
(* it does to a process: load, dispatch, receive and release it.           *)
(***************************************************************************)
EXTENDS Memoria

CONSTANTS
  CANT_ENTRADAS_TLB,
  ALGORITMO_TLB,
  Tamanios,          \* the sizes RESIZE is asked for
  Direcciones,       \* the logical addresses the programs use
  Cadenas            \* the lengths of their strings

\* Of Cuidados, "tlb": a program only gives back pages it has no TLB entry of.  "vive": the user
\* does not kill a process while an interface serves it.  "entrega": a process is
\* not resumed before memory has handled what its interface wrote.
ASSUME DireccionamientoAssumption ==
  /\ CANT_ENTRADAS_TLB \in Nat
  /\ ALGORITMO_TLB \in {"FIFO", "LRU"}
  /\ Tamanios \in SUBSET Nat
  /\ Direcciones \in SUBSET Nat
  /\ Cadenas \in SUBSET (Nat \ {0})

Nadie == 0
Ninguno == [op |-> "ninguna", dl |-> 0, fisicas |-> <<>>]

EntradaTLB == [pid : Procesos, pagina : Nat, marco : Marcos]

\* A request as it was asked for: by whom, where it reads, where it writes and how much.
Peticion(op, p, desde, donde, largo) ==
  [op |-> op, pid |-> p, desde |-> desde, donde |-> donde, largo |-> largo]
Ninguna == [op |-> "NINGUNA"]

VARIABLES
  tlb,       \* the entries, the first to be replaced first
  enCpu,     \* the process the CPU executes
  pedido,    \* what an interface has to do for each process, dl being history
  leido,     \* the bytes this step delivered to a register, a screen or a file
  peticion   \* history: the request this step served

vars == <<memoriaVars, tlb, enCpu, pedido, leido, peticion>>

TypeOK ==
  /\ MemoriaTypeOK
  /\ tlb \in Seq(EntradaTLB) /\ Len(tlb) <= CANT_ENTRADAS_TLB
  /\ enCpu \in Procesos \cup {Nadie}
  /\ pedido \in [Procesos -> [op : {"ninguna", "LECTURA_STRING", "ESCRITURA_STRING"},
                              dl : Nat, fisicas : Seq(DireccionesFisicas)]]
  /\ leido \in Seq(Octetos)

Init ==
  /\ MemoriaInit
  /\ tlb = <<>>
  /\ enCpu = Nadie
  /\ pedido = [p \in Procesos |-> Ninguno]
  /\ leido = <<>>
  /\ peticion = Ninguna

Sirve(o) == peticion' = o /\ leido' = <<>>

-----------------------------------------------------------------------------
\* mutant: an entry of any process will do
AciertosSinPid(t, pag) == {k \in DOMAIN t : t[k].pagina = pag}

Aciertos(t, pag) == {k \in DOMAIN t : t[k].pid = enCpu /\ t[k].pagina = pag}

\* mutant: no entry is replaced
AcomodarSinSacar(t, entrada) == Append(t, entrada)

\* acomodar_entradas_TLB
Acomodar(t, entrada) ==
  Append(IF Len(t) < CANT_ENTRADAS_TLB THEN t ELSE Tail(t), entrada)

\* MMU: the physical address of dl and the TLB afterwards.  A page the process
\* does not have is never asked for (see EnSuEspacio).
MMU(t, dl) ==
  LET pag == dl \div TAM_PAG
      aciertos == Aciertos(t, pag)
      k == Min(aciertos)
      marco == TraducirPagina(enCpu, pag)
      df(m) == m * TAM_PAG + (dl % TAM_PAG)
  IN CASE CANT_ENTRADAS_TLB = 0 -> [tlb |-> t, df |-> df(marco)]
       [] CANT_ENTRADAS_TLB > 0 /\ aciertos # {} ->
            [tlb |-> IF ALGORITMO_TLB = "LRU" THEN Append(RemoveAt(t, k), t[k]) ELSE t,
             df  |-> df(t[k].marco)]
       [] OTHER ->
            [tlb |-> Acomodar(t, [pid |-> enCpu, pagina |-> pag, marco |-> marco]),
             df  |-> df(marco)]

\* ceil((float) a / b)
Techo(a, b) == (a + b - 1) \div b

EspacioEnPag(dl) == TAM_PAG - (dl % TAM_PAG)

PagNecesarias(dl, n) ==
  IF n <= EspacioEnPag(dl) THEN 1 ELSE Techo(n - EspacioEnPag(dl), TAM_PAG) + 1

\* The logical address of each piece of the n bytes at dl, and its length.
Tramos(dl, n) ==
  [i \in 1..PagNecesarias(dl, n) |->
     IF i = 1 THEN dl ELSE dl + EspacioEnPag(dl) + (i - 2) * TAM_PAG]

Largos(dl, n) ==
  LET resto == (n - EspacioEnPag(dl)) % TAM_PAG IN
    [i \in 1..PagNecesarias(dl, n) |->
       CASE n <= EspacioEnPag(dl) -> n
         [] n > EspacioEnPag(dl) /\ i = 1 -> EspacioEnPag(dl)
         [] i > 1 /\ i = PagNecesarias(dl, n) /\ resto # 0 -> resto
         [] OTHER -> TAM_PAG]

\* The piece of l bytes at dl, after those of h: the TLB and the physical addresses.
TraducirTramo(h, dl, l) ==
  LET m == MMU(h.tlb, dl) IN
    [tlb |-> m.tlb, fisicas |-> h.fisicas \o [k \in 1..l |-> m.df + k - 1]]

TraducirTramos(t, dl, n) ==
  LET hasta[i \in 0..PagNecesarias(dl, n)] ==
        IF i = 0 THEN [tlb |-> t, fisicas |-> <<>>]
        ELSE TraducirTramo(hasta[i - 1], Tramos(dl, n)[i], Largos(dl, n)[i])
  IN hasta

\* The n bytes at dl.
Traducir(t, dl, n) == TraducirTramos(t, dl, n)[PagNecesarias(dl, n)]

-----------------------------------------------------------------------------
(***************************************************************************)
(* The kernel                                                              *)
(***************************************************************************)

Carga(p) == NuevoProceso(p) /\ Sirve(Ninguna) /\ UNCHANGED <<tlb, enCpu, pedido>>

\* The PCB arrives: PROCESO.  STDOUT and IO_FS_WRITE wait for memory's answer before
\* IO_SUCCESS, STDIN and IO_FS_READ do not.
Despacha(p) ==
  /\ enCpu = Nadie /\ vida[p] = "cargado"
  /\ pedido[p].op # "LECTURA_STRING"
  /\ "entrega" \in Cuidados => pedido[p] = Ninguno
  /\ enCpu' = p
  /\ Sirve(Ninguna)
  /\ UNCHANGED <<memoriaVars, tlb, pedido>>

\* The PCB goes back to the kernel, for whatever reason.
Vuelve(p) ==
  /\ enCpu = p /\ faltan = 0
  /\ enCpu' = Nadie
  /\ Sirve(Ninguna)
  /\ UNCHANGED <<memoriaVars, tlb, pedido>>

\* The process ended, or the user killed it.
Finaliza(p) ==
  /\ enCpu # p
  /\ "vive" \in Cuidados => pedido[p] = Ninguno
  /\ LiberarProceso(p)
  /\ Sirve(Peticion("FINALIZACION", p, 0, 0, 0))
  /\ UNCHANGED <<tlb, enCpu, pedido>>

Limpia(p) ==
  /\ LeeAlLiberar(p) \/ LimpiaMarco(p) \/ LiberaTabla(p)
  /\ Sirve(Ninguna)
  /\ UNCHANGED <<tlb, enCpu, pedido>>

-----------------------------------------------------------------------------
(***************************************************************************)
(* The instructions.  A program uses addresses of its own space only.      *)
(***************************************************************************)

Ejecuta(p) == enCpu = p /\ faltan = 0
EnSuEspacio(p, dl, n) == dl + n <= tam_proc(p)

\* cuanto_leo: the widths of the data registers.
Anchos == {1, 4}

\* The value in a data register: below 256, in four bytes.
Registro(p) == <<p, 0, 0, 0>>

\* exe_RESIZE to fewer bytes: the difference is rounded up, so that what is left may
\* be less than what was asked for.  There is no answer: the process is taken not to
\* leave the CPU before memory's thread has done its part (see Ejecuta and Vuelve).
AchicaProceso(p, tamanio) ==
  LET n == Techo(tam_proc(p) - tamanio, TAM_PAG) IN
    /\ Ejecuta(p) /\ tamanio < tam_proc(p)
    /\ "tlb" \in Cuidados =>
         \A k \in DOMAIN tlb : tlb[k].pid = p => tlb[k].pagina < Len(paginas[p]) - n
    /\ faltan' = -n
    /\ Sirve(Ninguna)
    /\ UNCHANGED <<bitmap, cambia, paginas, memoria_contigua, vida, tlb, enCpu, pedido>>

\* exe_RESIZE to more bytes: the CPU waits for the answer.
AgrandaProceso(p, tamanio) ==
  /\ Ejecuta(p) /\ tamanio > tam_proc(p)
  /\ faltan' = Techo(tamanio - tam_proc(p), TAM_PAG)
  /\ Sirve(Ninguna)
  /\ UNCHANGED <<bitmap, cambia, paginas, memoria_contigua, vida, tlb, enCpu, pedido>>

\* The two halves of a turn of memory's loops.
BuscaPagina(p) ==
  /\ enCpu = p /\ (LeeAlSacar(p) \/ BuscaMarco)
  /\ Sirve(Ninguna)
  /\ UNCHANGED <<tlb, enCpu, pedido>>

DevuelvePagina(p) ==
  /\ enCpu = p /\ SacaPagina(p)
  /\ Sirve(Peticion("MENOS_PAGINA", p, 0, 0, 0))
  /\ UNCHANGED <<tlb, enCpu, pedido>>

RecibePagina(p) ==
  /\ enCpu = p /\ AniadePagina(p)
  /\ Sirve(Peticion("MAS_PAGINA", p, 0, 0, 0))
  /\ UNCHANGED <<tlb, enCpu, pedido>>

\* OOM: the process returns to the kernel to be finished.
SaleSinMemoria(p) ==
  /\ enCpu = p /\ SinMarcos(p)
  /\ enCpu' = Nadie
  /\ Sirve(Peticion("FINALIZACION", p, 0, 0, 0))
  /\ UNCHANGED <<tlb, pedido>>

\* exe_MOV_IN
MovIn(p, dl, n) ==
  /\ Ejecuta(p) /\ EnSuEspacio(p, dl, n)
  /\ LET r == Traducir(tlb, dl, n) IN tlb' = r.tlb /\ leido' = Leer(r.fisicas)
  /\ peticion' = Peticion("MOV_IN", p, dl, 0, n)
  /\ UNCHANGED <<memoriaVars, enCpu, pedido>>

\* exe_MOV_OUT
MovOut(p, dl, n) ==
  /\ Ejecuta(p) /\ EnSuEspacio(p, dl, n)
  /\ LET r == Traducir(tlb, dl, n) IN
       /\ tlb' = r.tlb
       /\ Escribir(r.fisicas, EnMemoria(Registro(p), n, PagNecesarias(dl, n)))
  /\ Sirve(Peticion("MOV_OUT", p, 0, dl, n))
  /\ UNCHANGED <<enCpu, pedido>>

\* exe_COPY_STRING of a text, which has no zero byte.
CopyString(p, si, di, n) ==
  /\ Ejecuta(p) /\ EnSuEspacio(p, si, n) /\ EnSuEspacio(p, di, n)
  /\ LET origen == Traducir(tlb, si, n)
         destino == Traducir(origen.tlb, di, n)
         cadena == LeerString(origen.fisicas)
     IN /\ Len(cadena) = n
        /\ tlb' = destino.tlb
        /\ EscribirString(destino.fisicas, cadena)
  /\ Sirve(Peticion("COPY_STRING", p, si, di, n))
  /\ UNCHANGED <<enCpu, pedido>>

\* exe_IO_STD and exe_IO_FS_RW: the process leaves with its physical addresses.
PideIO(p, op, dl, n) ==
  /\ Ejecuta(p) /\ EnSuEspacio(p, dl, n)
  /\ pedido[p] = Ninguno
  /\ LET r == Traducir(tlb, dl, n) IN
       /\ tlb' = r.tlb
       /\ pedido' = [pedido EXCEPT ![p] = [op |-> op, dl |-> dl, fisicas |-> r.fisicas]]
  /\ enCpu' = Nadie
  /\ Sirve(Ninguna)
  /\ UNCHANGED memoriaVars

\* STDIN and IO_FS_READ: the text is written at those addresses.
EscribeInterfaz(p) ==
  /\ pedido[p].op = "ESCRITURA_STRING"
  /\ EscribirString(pedido[p].fisicas, [k \in DOMAIN pedido[p].fisicas |-> Texto])
  /\ pedido' = [pedido EXCEPT ![p] = Ninguno]
  /\ Sirve(Peticion("ESCRITURA_STRING", p, 0, pedido[p].dl, Len(pedido[p].fisicas)))
  /\ UNCHANGED <<tlb, enCpu>>

\* STDOUT and IO_FS_WRITE
LeeInterfaz(p) ==
  /\ pedido[p].op = "LECTURA_STRING"
  /\ leido' = LeerString(pedido[p].fisicas)
  /\ peticion' = Peticion("LECTURA_STRING", p, pedido[p].dl, 0, Len(pedido[p].fisicas))
  /\ pedido' = [pedido EXCEPT ![p] = Ninguno]
  /\ UNCHANGED <<memoriaVars, tlb, enCpu>>

Next == \E p \in Procesos :
  \/ Carga(p) \/ Despacha(p) \/ Vuelve(p) \/ Finaliza(p) \/ Limpia(p)
  \/ \E tamanio \in Tamanios : AchicaProceso(p, tamanio) \/ AgrandaProceso(p, tamanio)
  \/ BuscaPagina(p) \/ DevuelvePagina(p) \/ RecibePagina(p) \/ SaleSinMemoria(p)
  \/ \E dl \in Direcciones :
       \/ \E n \in Anchos : MovIn(p, dl, n) \/ MovOut(p, dl, n)
       \/ \E n \in Cadenas :
            \/ \E di \in Direcciones : CopyString(p, dl, di, n)
            \/ \E op \in {"LECTURA_STRING", "ESCRITURA_STRING"} : PideIO(p, op, dl, n)
  \/ EscribeInterfaz(p) \/ LeeInterfaz(p)

Spec == Init /\ [][Next]_vars

-----------------------------------------------------------------------------
\* An entry of the TLB says what the page table says, for the processes that live:
\* a page is never translated to a frame that is no longer its own.
TLBCoherente ==
  \A k \in DOMAIN tlb : LET e == tlb[k] IN
    vida[e.pid] = "cargado" =>
      e.pagina < Len(paginas[e.pid]) /\ paginas[e.pid][e.pagina + 1] = e.marco

\* The bytes of a process as its page table lays them out.
Espacio(p) ==
  IF vida[p] = "cargado"
  THEN [k \in 1..tam_proc(p) |->
          memoria_contigua[paginas[p][(k - 1) \div TAM_PAG + 1] * TAM_PAG + ((k - 1) % TAM_PAG)]]
  ELSE <<>>

Privados == INSTANCE Espacios WITH
              Duenios <- Procesos,
              Registros <- [p \in Procesos |-> Registro(p)],
              espacio <- [p \in Procesos |-> Espacio(p)]

\* Paging gives every process an address space of its own: whatever the TLB, the
\* frames and the interfaces do, an access reads or writes the bytes of the process
\* that made it, at the place it named, and a size that changes or a process that ends
\* is nobody else's concern.
CumpleEspacios == Privados!Especificacion
=============================================================================
