------------------------------ MODULE Memoria ------------------------------
(***************************************************************************)
(* The memory module (memoria.c).  One thread serves the kernel, another   *)
(* the CPU and one each interface; the frame bitmap and the bytes are      *)
(* theirs together and have no lock.  A request is one step, but for the   *)
(* three loops over the bitmap: liberar_proceso in the kernel's thread,    *)
(* aniadir_paginas and sacar_paginas in the CPU's.  Those take two steps   *)
(* per frame, because to change a bit a thread reads the byte it is in and *)
(* writes that byte back.                                                  *)
(***************************************************************************)
EXTENDS Integers, SequencesExt

CONSTANTS
  Procesos,   \* the pids
  CANT_PAG,   \* frames
  TAM_PAG,    \* bytes per frame
  BITS,       \* frames per byte of the bitmap: 8
  Texto,      \* a character that comes from an interface
  Cuidados    \* what the programs, the user and the threads are assumed to respect

\* "byte": the two threads are never both between the read and the write of one byte
\* of the bitmap.  The others are about processes: see Direccionamiento.
ASSUME MemoriaAssumption ==
  /\ Procesos \in SUBSET (Nat \ {0})
  /\ CANT_PAG \in Nat \ {0}
  /\ TAM_PAG \in Nat \ {0}
  /\ BITS \in Nat \ {0}
  /\ Texto \in Nat \ ({0} \cup Procesos)
  /\ Cuidados \in SUBSET {"byte", "tlb", "vive", "entrega"}

Marcos == 0..(CANT_PAG - 1)
DireccionesFisicas == 0..(CANT_PAG * TAM_PAG - 1)

\* A byte a process stores is its pid: it names who stored it.
Octetos == {0, Texto} \cup Procesos

\* The threads that change the bitmap, and what each has in hand: the frame whose bit
\* it is changing and the byte it read.
Hilos == {"kernel", "cpu"}
Nada == [marco |-> -1, byte |-> {}]

VARIABLES
  bitmap,            \* the frames in use
  cambia,            \* the byte each thread has read and not written back
  paginas,           \* the page table of each process: the frames of its pages
  memoria_contigua,  \* the bytes
  vida,              \* what the kernel has done with each process
  faltan             \* the pages a RESIZE has still to add or, below zero, to take away

memoriaVars == <<bitmap, cambia, paginas, memoria_contigua, vida, faltan>>

\* A process "saliendo" has been sent back for lack of memory and is never resumed.
Vidas == {"sin_cargar", "cargado", "saliendo", "liberando", "liberado"}

MemoriaTypeOK ==
  /\ bitmap \in SUBSET Marcos
  /\ cambia \in [Hilos -> {Nada} \cup [marco : Marcos, byte : SUBSET Marcos]]
  /\ paginas \in [Procesos -> Seq(Marcos)]
  /\ memoria_contigua \in [DireccionesFisicas -> Octetos]
  /\ vida \in [Procesos -> Vidas]
  /\ faltan \in Int

\* inicializar_memoria; what malloc gives is taken to be zero.
MemoriaInit ==
  /\ bitmap = {}
  /\ cambia = [h \in Hilos |-> Nada]
  /\ paginas = [p \in Procesos |-> <<>>]
  /\ memoria_contigua = [x \in DireccionesFisicas |-> 0]
  /\ vida = [p \in Procesos |-> "sin_cargar"]
  /\ faltan = 0

-----------------------------------------------------------------------------
(***************************************************************************)
(* A bit of the bitmap: bitarray_set_bit and bitarray_clean_bit            *)
(***************************************************************************)

\* The frames whose bits are in the byte of this one's.
Byte(marco) == {m \in Marcos : m \div BITS = marco \div BITS}

LeeByte(h, marco) ==
  /\ cambia[h] = Nada
  /\ "byte" \in Cuidados => \A otro \in Hilos : cambia[otro].marco \notin Byte(marco)
  /\ cambia' = [cambia EXCEPT ![h] = [marco |-> marco, byte |-> bitmap \cap Byte(marco)]]

\* The byte goes back, whatever was done to it meanwhile.
EscribeByte(h, marco, byte) ==
  /\ cambia[h].marco = marco
  /\ bitmap' = (bitmap \ Byte(marco)) \cup byte
  /\ cambia' = [cambia EXCEPT ![h] = Nada]

PoneBit(h, marco) == EscribeByte(h, marco, cambia[h].byte \cup {marco})
LimpiaBit(h, marco) == EscribeByte(h, marco, cambia[h].byte \ {marco})

-----------------------------------------------------------------------------
(***************************************************************************)
(* The kernel's thread                                                     *)
(***************************************************************************)

\* recibir_proceso: a process starts with no pages.
NuevoProceso(p) ==
  /\ vida[p] = "sin_cargar"
  /\ vida' = [vida EXCEPT ![p] = "cargado"]
  /\ UNCHANGED <<bitmap, cambia, paginas, memoria_contigua, faltan>>

\* liberar_proceso, when FINALIZACION arrives.
LiberarProceso(p) ==
  /\ vida[p] \in {"cargado", "saliendo"}
  /\ \A q \in Procesos : vida[q] # "liberando"
  /\ vida' = [vida EXCEPT ![p] = "liberando"]
  /\ UNCHANGED <<bitmap, cambia, paginas, memoria_contigua, faltan>>

\* The loop of liberar_proceso over the pages.
LeeAlLiberar(p) ==
  /\ vida[p] = "liberando" /\ paginas[p] # <<>>
  /\ LeeByte("kernel", Head(paginas[p]))
  /\ UNCHANGED <<bitmap, paginas, memoria_contigua, vida, faltan>>

LimpiaMarco(p) ==
  /\ vida[p] = "liberando" /\ paginas[p] # <<>>
  /\ LimpiaBit("kernel", Head(paginas[p]))
  /\ paginas' = [paginas EXCEPT ![p] = Tail(@)]
  /\ UNCHANGED <<memoria_contigua, vida, faltan>>

\* The table is freed after the last page.
LiberaTabla(p) ==
  /\ vida[p] = "liberando" /\ paginas[p] = <<>>
  /\ vida' = [vida EXCEPT ![p] = "liberado"]
  /\ UNCHANGED <<bitmap, cambia, paginas, memoria_contigua, faltan>>

-----------------------------------------------------------------------------
(***************************************************************************)
(* The CPU's thread, on behalf of process p                                *)
(***************************************************************************)

tam_proc(p) == Len(paginas[p]) * TAM_PAG

\* mutant: the index of the page does not go down
MarcoInicial(p) == paginas[p][1]

\* One turn of sacar_paginas: the last page.
UltimoMarco(p) == paginas[p][Len(paginas[p])]

\* mutant: the pages are taken from the first one on
QuedanLasUltimas(p) == Tail(paginas[p])

Quedan(p) == SubSeq(paginas[p], 1, Len(paginas[p]) - 1)

LeeAlSacar(p) ==
  /\ faltan < 0
  /\ LeeByte("cpu", UltimoMarco(p))
  /\ UNCHANGED <<bitmap, paginas, memoria_contigua, vida, faltan>>

SacaPagina(p) ==
  /\ faltan < 0
  /\ LimpiaBit("cpu", UltimoMarco(p))
  /\ paginas' = [paginas EXCEPT ![p] = Quedan(p)]
  /\ faltan' = faltan + 1
  /\ UNCHANGED <<memoria_contigua, vida>>

MarcosLibres == Marcos \ bitmap

\* One turn of aniadir_paginas: buscar_marco takes the first free frame.
BuscaMarco == \E marco \in MarcosLibres :
  /\ faltan > 0
  /\ \A otro \in MarcosLibres : marco <= otro
  /\ LeeByte("cpu", marco)
  /\ UNCHANGED <<bitmap, paginas, memoria_contigua, vida, faltan>>

AniadePagina(p) == \E marco \in Marcos :
  /\ faltan > 0
  /\ PoneBit("cpu", marco)
  /\ paginas' = [paginas EXCEPT ![p] = Append(@, marco)]
  /\ faltan' = faltan - 1
  /\ UNCHANGED <<memoria_contigua, vida>>

\* buscar_marco gives -1: OOM, and the pages added so far stay.  The kernel will end
\* the process.
SinMarcos(p) ==
  /\ faltan > 0 /\ cambia["cpu"] = Nada /\ MarcosLibres = {}
  /\ faltan' = 0
  /\ vida' = [vida EXCEPT ![p] = "saliendo"]
  /\ UNCHANGED <<bitmap, cambia, paginas, memoria_contigua>>

-----------------------------------------------------------------------------
\* traducir_pagina, asked only of a page the process has.
TraducirPagina(p, pag) == paginas[p][pag + 1]

\* leer: the bytes at those physical addresses, in that order.
Leer(fisicas) == [k \in DOMAIN fisicas |-> memoria_contigua[fisicas[k]]]

\* escribir: one memcpy after another.
Escribir(fisicas, bytes) ==
  /\ memoria_contigua' = [x \in DireccionesFisicas |->
       LET escritas == {k \in DOMAIN fisicas : fisicas[k] = x} IN
         IF escritas = {} THEN memoria_contigua[x] ELSE bytes[Max(escritas)]]
  /\ UNCHANGED <<bitmap, cambia, paginas, vida, faltan>>

\* escribir: the first page's byte is right, and the second byte of the value is
\* stored in the three places left when the value spans pages.
EnMemoria(valor, tamanio, cantPag) ==
  IF cantPag = 1 THEN SubSeq(valor, 1, tamanio) ELSE <<valor[1], valor[2], valor[2], valor[2]>>

\* leer_string answers with enviar_string, which ends at the first zero.
LeerString(fisicas) ==
  LET cadena == Leer(fisicas)
      ceros == {k \in DOMAIN cadena : cadena[k] = 0}
  IN IF ceros = {} THEN cadena ELSE SubSeq(cadena, 1, Min(ceros) - 1)

EscribirString(fisicas, cadena) == Escribir(fisicas, cadena)

-----------------------------------------------------------------------------
\* buscar_marco finds an empty frame (memoria.h:106): what aniadir_paginas appends to a
\* table is in no other page.
SinCompartir == \A p, q \in Procesos :
  \A i \in DOMAIN paginas[p], j \in DOMAIN paginas[q] :
    paginas[p][i] = paginas[q][j] => p = q /\ i = j

\* Besides, the bitmap is exactly the frames in the page tables: the releases of the
\* kernel's thread and the RESIZEs of the CPU's neither leak a frame nor give it twice,
\* whatever they do between the read and the write of a byte of the bitmap, if it is not
\* the same byte ("byte").
MarcosExactos == bitmap = UNION {ToSet(paginas[p]) : p \in Procesos} /\ SinCompartir
=============================================================================
