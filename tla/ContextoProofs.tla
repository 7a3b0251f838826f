--------------------------- MODULE ContextoProofs ---------------------------
(***************************************************************************)
(* For any processes and programs: MemoriaEnPie of Contexto, and that it   *)
(* implements Maquina when no program subtracts.                           *)
(***************************************************************************)
EXTENDS Contexto, TLAPS

Cargandose(p) == estado[p] \in {"RUTA", "CARGA"}
Cargado(p) == estado[p] \in {"READY", "RUNNING", "BLOCKED"}

\* One process is loaded at a time, and one is on its way to the CPU, in it or on its
\* way back.
Unicos ==
  /\ \A p, q \in Procesos : Cargandose(p) /\ Cargandose(q) => p = q
  /\ \A p, q \in Procesos : estado[p] = "RUNNING" /\ estado[q] = "RUNNING" => p = q

\* A pointer that the kernel holds is its process's, and the struct is there.
PunterosBuenos ==
  /\ \A p \in Procesos : Cargado(p) => pcbs[p].instrucciones = p /\ p \in cargados
  /\ \A p \in Procesos : estado[p] = "EXIT" =>
       pcbs[p].instrucciones = NULL \/ (pcbs[p].instrucciones = p /\ p \in cargados)

\* What travels between the kernel and memory.
ConexionBuena ==
  /\ \A k \in DOMAIN conexion : conexion[k].op = FINALIZACION /\ conexion[k].arg # NULL =>
       conexion[k].arg \in cargados /\ estado[conexion[k].arg] = "FINISHED"
  /\ \A j, k \in DOMAIN conexion :
       /\ conexion[j].op = FINALIZACION /\ conexion[k].op = FINALIZACION
       /\ conexion[j].arg = conexion[k].arg /\ conexion[j].arg # NULL
       => j = k
  /\ \A k \in DOMAIN conexion : conexion[k].op = NUEVO_PROCESO =>
       conexion[k].arg \in Procesos /\ Cargandose(conexion[k].arg) /\ punteros = <<>>
  /\ \A j, k \in DOMAIN conexion :
       conexion[j].op = NUEVO_PROCESO /\ conexion[k].op = NUEVO_PROCESO => j = k
  /\ Len(punteros) < 2
  /\ punteros # <<>> =>
       /\ \E p \in Procesos : Cargandose(p)
       /\ punteros[1] # NULL => punteros[1] \in cargados /\ Cargandose(punteros[1])

\* Where the context that was dispatched is.
ContextoBueno ==
  /\ Len(despacho) < 2 /\ Len(vueltas) < 2
  /\ despacho # <<>> =>
       /\ fase = "libre" /\ vueltas = <<>>
       /\ despacho[1].pid \in Procesos /\ estado[despacho[1].pid] = "RUNNING"
       /\ despacho[1].instrucciones = despacho[1].pid
  /\ fase # "libre" =>
       /\ vueltas = <<>>
       /\ pcb.pid \in Procesos /\ estado[pcb.pid] = "RUNNING" /\ pcb.instrucciones = pcb.pid
  /\ vueltas # <<>> =>
       /\ vueltas[1].pcb.pid \in Procesos /\ estado[vueltas[1].pcb.pid] = "RUNNING"
       /\ vueltas[1].pcb.instrucciones = vueltas[1].pcb.pid

\* What the CPU asks memory is about a struct that is there when it is served: the one
\* of the only notice in the queue for what comes after it, the global pointer's for
\* what comes before.
Pide(k, op) == aMemoria[k].op = op

PedidosBuenos ==
  /\ fase = "libre" =>
       deMemoria = <<>> /\ \A k \in DOMAIN aMemoria : ~Pide(k, "PROCESO") /\ ~Pide(k, "FETCH")
  /\ fase = "fetch" => deMemoria = <<>> /\ \A k \in DOMAIN aMemoria : ~Pide(k, "FETCH")
  /\ fase = "espera" =>
       /\ Len(deMemoria) < 2
       /\ deMemoria # <<>> => aMemoria = <<>>
       /\ \A k \in DOMAIN aMemoria : Pide(k, "FETCH") => k = Len(aMemoria)
  /\ \A j, k \in DOMAIN aMemoria : Pide(j, "PROCESO") /\ Pide(k, "PROCESO") => j = k
  /\ \A k \in DOMAIN aMemoria : Pide(k, "PROCESO") => aMemoria[k].arg = pcb.pid
  /\ fase # "libre" /\ (\A k \in DOMAIN aMemoria : ~Pide(k, "PROCESO")) => proceso = pcb.pid
  /\ \A k \in DOMAIN aMemoria : (\A j \in 1..k : ~Pide(j, "PROCESO")) => proceso \in cargados

IInv ==
  /\ ContextoTypeOK /\ Unicos /\ PunterosBuenos /\ ConexionBuena /\ ContextoBueno
  /\ PedidosBuenos /\ MemoriaEnPie

-----------------------------------------------------------------------------
(***************************************************************************)
(* Types                                                                   *)
(***************************************************************************)

\* What a send leaves.
LEMMA Agregado ==
  ASSUME NEW S, NEW s \in Seq(S), NEW x \in S
  PROVE  /\ Append(s, x) \in Seq(S) /\ Len(Append(s, x)) = Len(s) + 1
         /\ \A k \in DOMAIN Append(s, x) :
              Append(s, x)[k] = IF k = Len(s) + 1 THEN x ELSE s[k]
  OBVIOUS

\* What a receive takes and what it leaves.
LEMMA Cola ==
  ASSUME NEW S, NEW s \in Seq(S), s # <<>>
  PROVE  /\ Head(s) \in S /\ Head(s) = s[1]
         /\ Tail(s) \in Seq(S) /\ Len(Tail(s)) = Len(s) - 1
         /\ \A k \in DOMAIN Tail(s) : Tail(s)[k] = s[k + 1]
  OBVIOUS

LEMMA NoVacia ==
  ASSUME NEW S, NEW s \in Seq(S)
  PROVE  s # <<>> <=> Len(s) > 0
  OBVIOUS

\* A removal leaves a queue of the same kind.
LEMMA TipoSin ==
  ASSUME NEW S, NEW s \in Seq(S), NEW x
  PROVE  Sin(s, x) \in Seq(S)
<1>1. CASE \E i \in DOMAIN s : s[i] = x
  <2> DEFINE k == CHOOSE i \in DOMAIN s : s[i] = x
  <2>1. k \in 1..Len(s)
    BY <1>1
  <2> HIDE DEF k
  <2>2. SubSeq(s, 1, k - 1) \in Seq(S) /\ SubSeq(s, k + 1, Len(s)) \in Seq(S)
    BY <2>1
  <2>3. RemoveAt(s, k) \in Seq(S)
    BY <2>2 DEF RemoveAt
  <2> QED  BY <1>1, <2>3 DEF Sin, k
<1>2. CASE ~ \E i \in DOMAIN s : s[i] = x
  BY <1>2 DEF Sin
<1> QED  BY <1>1, <1>2

\* Whatever is assigned to a register is cut to its width.
LEMMA SetRegistroTipo ==
  ASSUME NEW registros \in Contenidos, NEW r, NEW valor \in Int
  PROVE  set_registro(registros, r, valor) \in Contenidos
<1>1. CASE r \notin Registros8y32
  BY <1>1 DEF set_registro
<1>2. CASE r \in Registros8y32
  <2>1. Modulo(r) \in Nat \ {0}
    BY RegistrosAssumption DEF Modulo
  <2> DEFINE x == valor % Modulo(r)
  <2>2. x \in Nat /\ x < Modulo(r)
    BY <2>1
  <2> HIDE DEF x
  <2>3. set_registro(registros, r, valor) = [registros EXCEPT ![r] = x]
    BY <1>2 DEF set_registro, x
  <2> QED  BY <1>2, <2>2, <2>3 DEF Contenidos, Modulo, Registros8y32, De8, De32
<1> QED  BY <1>1, <1>2

LEMMA GetRegistroTipo ==
  ASSUME NEW registros \in Contenidos, NEW r
  PROVE  get_registro(registros, r) \in Int
BY DEF get_registro, Contenidos

\* A cycle keeps every register within its width.
LEMMA CicloTipo ==
  ASSUME NEW registros \in Contenidos, NEW i \in Instrucciones
  PROVE  Ciclo(registros, i) \in Contenidos
<1>1. i.n \in Int
  BY DEF Instrucciones
<1>2. execute(registros, i) \in Contenidos
  BY <1>1, SetRegistroTipo, GetRegistroTipo DEF execute, exe_SET, exe_SUM, exe_SUB, exe_JNZ
<1>3. execute(registros, i)["PC"] + 1 \in Int
  BY <1>2 DEF Contenidos, Registros8y32, De32
<1> QED  BY <1>2, <1>3, SetRegistroTipo DEF Ciclo

LEMMA VacioTipo ==
  ASSUME NEW b \in Nat
  PROVE  Vacio(b) \in Contenidos
<1>1. \A r : Modulo(r) \in Nat \ {0}
  BY RegistrosAssumption DEF Modulo
<1>2. \A r \in Registros8y32 : Vacio(b)[r] \in Nat /\ Vacio(b)[r] < Modulo(r)
  <2> SUFFICES ASSUME NEW r \in Registros8y32
               PROVE  Vacio(b)[r] \in Nat /\ Vacio(b)[r] < Modulo(r)
    OBVIOUS
  <2>1. b % Modulo(r) \in Nat /\ b % Modulo(r) < Modulo(r)
    BY <1>1
  <2> QED  BY <1>1, <2>1 DEF Vacio
<1>3. Vacio(b) \in [Registros8y32 -> Nat]
  BY <1>2 DEF Vacio
<1> QED  BY <1>2, <1>3 DEF Contenidos, Modulo, Registros8y32, De8, De32

LEMMA TiposInit == ContextoInit => ContextoTypeOK
<1> SUFFICES ASSUME ContextoInit PROVE ContextoTypeOK
  OBVIOUS
<1>1. pcbs \in [Procesos -> Guardados]
  BY VacioTipo, ContextoAssumption DEF ContextoInit, Punteros, Guardados
<1>2. pcb \in Pcbs
  BY VacioTipo DEF ContextoInit, SinPcb, Pcbs, Punteros
<1> QED  BY <1>1, <1>2 DEF ContextoInit, ContextoTypeOK, Estados, Punteros

LEMMA TiposPaso == ContextoTypeOK /\ [ContextoNext]_contextoVars => ContextoTypeOK'
<1> SUFFICES ASSUME ContextoTypeOK, [ContextoNext]_contextoVars PROVE ContextoTypeOK'
  OBVIOUS
<1> USE DEF ContextoTypeOK, kernelVars, pedidosVars, cpuVars, cargaVars, memVars
<1>1. ASSUME NEW p \in Procesos, CrearProceso(p) PROVE ContextoTypeOK'
  BY <1>1 DEF CrearProceso, Pasar, Estados
<1>2. ASSUME NEW p \in Procesos, Finalizar(p) PROVE ContextoTypeOK'
  <2>1. Sin(cREADY, p) \in Seq(Procesos)
    BY TipoSin
  <2>2. \A x \in Punteros :
          [pcbs EXCEPT ![p].instrucciones = x] \in [Procesos -> Guardados]
    BY DEF Guardados
  <2>3. [motivo |-> "INTERRUPCION", pid |-> p] \in Intrs
    BY DEF Intrs
  <2>4. estado' \in [Procesos -> Estados] /\ cIntr' \in SUBSET Intrs /\ cREADY' \in Seq(Procesos)
    BY <1>2, <2>1, <2>3 DEF Finalizar, Estados
  <2>5. pcbs' \in [Procesos -> Guardados]
    <3>1. \/ pcbs' = pcbs
          \/ \E x \in Punteros : pcbs' = [pcbs EXCEPT ![p].instrucciones = x]
      BY <1>2 DEF Finalizar
    <3> QED  BY <2>2, <3>1
  <2> QED  BY <1>2, <2>4, <2>5 DEF Finalizar
<1>3. ASSUME NEW p \in Procesos, EnviarRuta(p) PROVE ContextoTypeOK'
  BY <1>3 DEF EnviarRuta, Pasar, Estados, Cargas
<1>4. ASSUME NEW p \in Procesos, EnviarPid(p) PROVE ContextoTypeOK'
  BY <1>4 DEF EnviarPid, Pasar, Estados, Cargas
<1>5. ASSUME NEW p \in Procesos, RecibirPuntero(p) PROVE ContextoTypeOK'
  <2>1. Head(punteros) \in Punteros /\ Tail(punteros) \in Seq(Punteros)
    BY <1>5, Cola DEF RecibirPuntero
  <2>2. [pcbs EXCEPT ![p].instrucciones = Head(punteros)] \in [Procesos -> Guardados]
    BY <2>1 DEF Guardados
  <2>3. estado' \in [Procesos -> Estados] /\ cREADY' \in {cREADY, Append(cREADY, p)}
    BY <1>5 DEF RecibirPuntero, Pasar, AReady, Estados
  <2>4. cREADY' \in Seq(Procesos)
    <3>1. Append(cREADY, p) \in Seq(Procesos)
      BY Agregado
    <3> QED  BY <2>3, <3>1
  <2>5. pcbs' \in [Procesos -> Guardados] /\ punteros' \in Seq(Punteros)
    BY <1>5, <2>1, <2>2 DEF RecibirPuntero
  <2> QED  BY <1>5, <2>3, <2>4, <2>5 DEF RecibirPuntero
<1>6. ASSUME NEW p \in Procesos, Despachar(p) PROVE ContextoTypeOK'
  <2>1. [pid |-> p, registros |-> pcbs[p].registros,
         instrucciones |-> pcbs[p].instrucciones] \in Pcbs
    BY DEF Guardados, Pcbs, Punteros
  <2>2. cREADY' \in Seq(Procesos) /\ despacho' \in Seq(Pcbs)
    BY <1>6, <2>1 DEF Despachar
  <2>3. estado' \in [Procesos -> Estados]
    BY <1>6 DEF Despachar, Pasar, Estados
  <2> QED  BY <1>6, <2>2, <2>3 DEF Despachar
<1>7. ASSUME NEW p \in Procesos, RecibirPcb(p) PROVE ContextoTypeOK'
  <2>1. /\ Head(vueltas) \in Vueltas
        /\ Tail(vueltas) \in Seq(Vueltas)
    BY <1>7, Cola DEF RecibirPcb
  <2>2. pcb_deserializar(Head(vueltas)) \in Guardados
    BY <2>1 DEF pcb_deserializar, Pcbs, Vueltas, Guardados
  <2>3. estado' \in [Procesos -> Estados] /\ cREADY' \in {cREADY, Append(cREADY, p)}
    BY <1>7 DEF RecibirPcb, Pasar, AReady, Estados
  <2>4. cREADY' \in Seq(Procesos)
    <3>1. Append(cREADY, p) \in Seq(Procesos)
      BY Agregado
    <3> QED  BY <2>3, <3>1
  <2>5. pcbs' \in [Procesos -> Guardados] /\ vueltas' \in Seq(Vueltas)
    BY <1>7, <2>1, <2>2 DEF RecibirPcb
  <2> QED  BY <1>7, <2>3, <2>4, <2>5 DEF RecibirPcb
<1>8. ASSUME NEW p \in Procesos, Desbloquear(p) PROVE ContextoTypeOK'
  BY <1>8 DEF Desbloquear, Pasar, AReady, Estados
<1>9. ASSUME NEW p \in Procesos, VenceTimer(p) PROVE ContextoTypeOK'
  BY <1>9 DEF VenceTimer, Intrs
<1>10. ASSUME NEW p \in Procesos, EnviarFinalizacion(p) PROVE ContextoTypeOK'
  <2>1. [op |-> FINALIZACION, arg |-> pcbs[p].instrucciones] \in Cargas
    BY DEF Guardados, Cargas
  <2>2. conexion' \in Seq(Cargas)
    BY <1>10, <2>1 DEF EnviarFinalizacion
  <2>3. estado' \in [Procesos -> Estados]
    BY <1>10 DEF EnviarFinalizacion, Pasar, Estados
  <2> QED  BY <1>10, <2>2, <2>3 DEF EnviarFinalizacion
<1>11. ASSUME RecibirDespacho PROVE ContextoTypeOK'
  <2>1. Head(despacho) \in Pcbs /\ Tail(despacho) \in Seq(Pcbs)
    BY <1>11, Cola DEF RecibirDespacho
  <2>2. Pedido("PROCESO", Head(despacho).instrucciones) \in Pedidos
    BY <2>1 DEF Pcbs, Pedido, Pedidos
  <2>3. aMemoria' \in Seq(Pedidos)
    BY <1>11, <2>2, Agregado DEF RecibirDespacho
  <2> QED  BY <1>11, <2>1, <2>3 DEF RecibirDespacho
<1>12. ASSUME Fetch PROVE ContextoTypeOK'
  <2>1. Pedido("FETCH", pcb.registros["PC"]) \in Pedidos
    <3>1. pcb.registros \in [Registros8y32 -> Nat] /\ "PC" \in Registros8y32
      BY DEF Pcbs, Contenidos, Registros8y32, De32
    <3>2. pcb.registros["PC"] \in Int
      BY <3>1
    <3> QED  BY <3>2 DEF Pedido, Pedidos
  <2>2. aMemoria' \in Seq(Pedidos)
    BY <1>12, <2>1, Agregado DEF Fetch
  <2> QED  BY <1>12, <2>2 DEF Fetch
<1>13. ASSUME Ejecutar PROVE ContextoTypeOK'
  <2> DEFINE i == Head(deMemoria)
             despues == [pcb EXCEPT !.registros = Ciclo(@, i)]
             seVa == SeVaTrasIntr(pcb.pid, SeVaDe(i))
  <2>1. i \in Instrucciones /\ Tail(deMemoria) \in Seq(Instrucciones)
    BY <1>13, Cola DEF Ejecutar
  <2>2. despues \in Pcbs
    BY <2>1, CicloTipo DEF Pcbs
  <2>3. i.op = "MENOS_PAGINA" => Pedido(i.op, i.n) \in Pedidos
    BY <2>1 DEF Pedido, Pedidos, Instrucciones
  <2>4. aMemoria' \in Seq(Pedidos)
    BY <1>13, <2>3 DEF Ejecutar
  <2>5. seVa \in Motivos \cup {"SIGUE"}
    BY DEF SeVaTrasIntr, SeVaDe, Motivos
  <2> HIDE DEF i, despues, seVa
  <2>6. /\ pcb' = despues /\ cIntr' = {} /\ deMemoria' = Tail(deMemoria)
        /\ IF seVa = "SIGUE" THEN fase' = "fetch" /\ UNCHANGED vueltas
           ELSE fase' = "libre" /\ vueltas' = Append(vueltas, [pcb |-> despues, motivo |-> seVa])
    BY <1>13 DEF Ejecutar, i, despues, seVa
  <2>7. vueltas' \in Seq(Vueltas) /\ fase' \in {"libre", "fetch", "espera"}
    <3>1. CASE seVa = "SIGUE"
      BY <2>6, <3>1
    <3>2. CASE seVa # "SIGUE"
      <4>1. [pcb |-> despues, motivo |-> seVa] \in Vueltas
        BY <2>2, <2>5, <3>2 DEF Vueltas
      <4>2. Append(vueltas, [pcb |-> despues, motivo |-> seVa]) \in Seq(Vueltas)
        BY <4>1, Agregado
      <4> QED  BY <2>6, <3>2, <4>2
    <3> QED  BY <3>1, <3>2
  <2> QED  BY <1>13, <2>1, <2>2, <2>4, <2>6, <2>7 DEF Ejecutar
<1>14. ASSUME AtenderCpu PROVE ContextoTypeOK'
  <2>1. Tail(aMemoria) \in Seq(Pedidos)
    BY <1>14, Cola DEF AtenderCpu
  <2>2. Head(aMemoria) \in Pedidos
    BY <1>14, Cola DEF AtenderCpu
  <2>3. Head(aMemoria).op = "PROCESO" => Head(aMemoria).arg \in Punteros
    BY <2>2 DEF Pedidos
  <2>4. proceso \in cargados /\ Head(aMemoria).arg + 1 \in DOMAIN Programa[proceso] =>
          Programa[proceso][Head(aMemoria).arg + 1] \in Instrucciones
    BY ContextoAssumption
  <2>5. proceso' \in Punteros
    BY <1>14, <2>3 DEF AtenderCpu
  <2>7. \/ deMemoria' = deMemoria
        \/ /\ proceso \in cargados /\ Head(aMemoria).arg + 1 \in DOMAIN Programa[proceso]
           /\ deMemoria' = Append(deMemoria, Programa[proceso][Head(aMemoria).arg + 1])
    BY <1>14 DEF AtenderCpu, Usable
  <2>8. deMemoria' \in Seq(Instrucciones)
    <3>1. CASE deMemoria' = deMemoria
      BY <3>1
    <3>2. CASE deMemoria' # deMemoria
      <4> DEFINE i == Programa[proceso][Head(aMemoria).arg + 1]
      <4>1. i \in Instrucciones /\ deMemoria' = Append(deMemoria, i)
        BY <2>4, <2>7, <3>2
      <4> HIDE DEF i
      <4>2. Append(deMemoria, i) \in Seq(Instrucciones)
        BY <4>1, Agregado
      <4> QED  BY <4>1, <4>2
    <3> QED  BY <3>1, <3>2
  <2>6. caida' \in {"no", "liberado", "sin_instruccion"}
    BY <1>14 DEF AtenderCpu
  <2> QED  BY <1>14, <2>1, <2>5, <2>6, <2>8 DEF AtenderCpu
<1>15. ASSUME RecibirProceso PROVE ContextoTypeOK'
  <2> DEFINE p == conexion[1].arg
  <2>1. conexion # <<>> /\ Tail(conexion) # <<>>
    <3>1. Len(conexion) > 1
      BY <1>15 DEF RecibirProceso
    <3>2. conexion # <<>>
      BY <3>1
    <3>3. Tail(conexion) \in Seq(Cargas) /\ Len(Tail(conexion)) > 0
      BY <3>1, <3>2, Cola
    <3> QED  BY <3>2, <3>3, NoVacia
  <2>2. Tail(Tail(conexion)) \in Seq(Cargas)
    BY <2>1, Cola
  <2>3. conexion[1] \in Cargas /\ conexion[1].op = NUEVO_PROCESO
    BY <1>15 DEF RecibirProceso
  <2>4. p \in Procesos
    BY <2>3 DEF Cargas, NUEVO_PROCESO, FINALIZACION
  <2>5. punteros' \in Seq(Punteros) /\ cargados' \in SUBSET Procesos
    <3>1. punteros' \in {Append(punteros, NULL), Append(punteros, p)}
          /\ cargados' \in {cargados, cargados \cup {p}}
      BY <1>15 DEF RecibirProceso
    <3>2. NULL \in Punteros /\ p \in Punteros
      BY <2>4 DEF Punteros
    <3>3. Append(punteros, NULL) \in Seq(Punteros) /\ Append(punteros, p) \in Seq(Punteros)
      BY <3>2, Agregado
    <3> QED  BY <2>4, <3>1, <3>3
  <2> QED  BY <1>15, <2>2, <2>5 DEF RecibirProceso
<1>16. ASSUME IgnorarPid PROVE ContextoTypeOK'
  BY <1>16 DEF IgnorarPid
<1>17. ASSUME LiberarProceso PROVE ContextoTypeOK'
  BY <1>17 DEF LiberarProceso
<1>18. CASE UNCHANGED contextoVars
  BY <1>18 DEF contextoVars
<1> QED
  BY <1>1, <1>2, <1>3, <1>4, <1>5, <1>6, <1>7, <1>8, <1>9, <1>10,
     <1>11, <1>12, <1>13, <1>14, <1>15, <1>16, <1>17, <1>18
  DEF ContextoNext, Kernel_

\* Every copy of the registers, the CPU's, the kernel's and those on the dispatch
\* socket, stays within the widths of t_registros, for any programs.
THEOREM TiposContexto == ContextoSpec => []ContextoTypeOK
BY TiposInit, TiposPaso, PTL DEF ContextoSpec

-----------------------------------------------------------------------------
(***************************************************************************)
(* Memory never uses a freed struct                                        *)
(***************************************************************************)

\* A change of place of one process leaves the others where they are.
LEMMA PasarEfecto ==
  ASSUME ContextoTypeOK, NEW p \in Procesos, NEW a, NEW b, Pasar(p, a, b)
  PROVE  /\ estado[p] = a /\ estado'[p] = b
         /\ \A q \in Procesos : q # p => estado'[q] = estado[q]
  BY DEF ContextoTypeOK, Pasar

\* finalizar_proceso moves p only if it is loaded and not on the CPU.
LEMMA FinalizarEfecto ==
  ASSUME ContextoTypeOK, "mata_cargado" \in Cuidados, NEW p \in Procesos, Finalizar(p)
  PROVE  \/ UNCHANGED kernelVars
         \/ /\ estado[p] \in {"READY", "BLOCKED"} /\ estado'[p] = "EXIT"
            /\ \A q \in Procesos : q # p => estado'[q] = estado[q]
            /\ UNCHANGED pcbs
  BY DEF ContextoTypeOK, Finalizar, EstaEnCpu

\* The actions that move no process.
Quietas == \/ \E p \in Procesos : VenceTimer(p)
           \/ RecibirDespacho \/ Fetch \/ Ejecutar
           \/ AtenderCpu \/ RecibirProceso \/ IgnorarPid \/ LiberarProceso

LEMMA QuietasEfecto == Quietas => UNCHANGED kernelVars
BY DEF Quietas, VenceTimer, RecibirDespacho, Fetch, Ejecutar, AtenderCpu, RecibirProceso,
       IgnorarPid, LiberarProceso

LEMMA UnicosPaso ==
  ASSUME IInv, "mata_cargado" \in Cuidados, ContextoNext
  PROVE  Unicos'
<1> USE DEF IInv, Unicos, Cargandose
<1>1. ASSUME NEW p \in Procesos, CrearProceso(p) PROVE Unicos'
  BY <1>1, PasarEfecto DEF CrearProceso
<1>2. ASSUME NEW p \in Procesos, EnviarRuta(p) PROVE Unicos'
  BY <1>2, PasarEfecto DEF EnviarRuta
<1>3. ASSUME NEW p \in Procesos, EnviarPid(p) PROVE Unicos'
  BY <1>3, PasarEfecto DEF EnviarPid
<1>4. ASSUME NEW p \in Procesos, RecibirPuntero(p) PROVE Unicos'
  BY <1>4, PasarEfecto DEF RecibirPuntero
<1>5. ASSUME NEW p \in Procesos, Despachar(p) PROVE Unicos'
  BY <1>5, PasarEfecto DEF Despachar
<1>6. ASSUME NEW p \in Procesos, RecibirPcb(p) PROVE Unicos'
  BY <1>6, PasarEfecto DEF RecibirPcb
<1>7. ASSUME NEW p \in Procesos, Desbloquear(p) PROVE Unicos'
  BY <1>7, PasarEfecto DEF Desbloquear
<1>8. ASSUME NEW p \in Procesos, EnviarFinalizacion(p) PROVE Unicos'
  BY <1>8, PasarEfecto DEF EnviarFinalizacion
<1>9. ASSUME NEW p \in Procesos, Finalizar(p) PROVE Unicos'
  BY <1>9, FinalizarEfecto DEF kernelVars
<1>10. CASE Quietas
  BY <1>10, QuietasEfecto DEF kernelVars
<1> QED
  BY <1>1, <1>2, <1>3, <1>4, <1>5, <1>6, <1>7, <1>8, <1>9, <1>10
  DEF ContextoNext, Kernel_, Quietas

\* A release that memory receives is of a struct that is there, of a process that ended.
LEMMA LiberaFinalizado ==
  ASSUME IInv, LiberarProceso
  PROVE  Head(conexion).arg # NULL =>
           Head(conexion).arg \in cargados /\ estado[Head(conexion).arg] = "FINISHED"
<1>1. conexion # <<>> /\ Head(conexion).op = FINALIZACION
  BY DEF LiberarProceso
<1>2. Head(conexion) = conexion[1] /\ 1 \in DOMAIN conexion
  BY <1>1, Cola, NoVacia DEF IInv, ContextoTypeOK
<1> QED  BY <1>1, <1>2 DEF IInv, ConexionBuena

\* What reaches a process in RecibirPuntero is its own struct.
LEMMA PunteroPropio ==
  ASSUME IInv, NEW p \in Procesos, estado[p] = "CARGA", punteros # <<>>
  PROVE  Head(punteros) = NULL \/ (Head(punteros) = p /\ p \in cargados)
<1>1. Head(punteros) = punteros[1] /\ Head(punteros) \in Punteros
  BY Cola DEF IInv, ContextoTypeOK
<1>2. punteros[1] # NULL => punteros[1] \in cargados /\ Cargandose(punteros[1])
  BY DEF IInv, ConexionBuena
<1> QED  BY <1>1, <1>2 DEF IInv, Unicos, Cargandose, Punteros

\* What comes back is the context of the process that was dispatched.
LEMMA VueltaPropia ==
  ASSUME IInv, NEW p \in Procesos, vueltas # <<>>, Head(vueltas).pcb.pid = p
  PROVE  /\ Head(vueltas).pcb.instrucciones = p /\ estado[p] = "RUNNING"
         /\ Tail(vueltas) = <<>>
<1>1. /\ Head(vueltas) = vueltas[1] /\ Tail(vueltas) \in Seq(Vueltas)
      /\ Len(Tail(vueltas)) = Len(vueltas) - 1
  BY Cola DEF IInv, ContextoTypeOK
<1>2. Len(vueltas) < 2 /\ Len(vueltas) \in Nat
  BY DEF IInv, ContextoTypeOK, ContextoBueno
<1>3. Tail(vueltas) = <<>>
  BY <1>1, <1>2, NoVacia
<1> QED  BY <1>1, <1>3 DEF IInv, ContextoBueno

LEMMA PunterosPaso ==
  ASSUME IInv, "mata_cargado" \in Cuidados, ContextoNext
  PROVE  PunterosBuenos'
<1> USE DEF IInv, PunterosBuenos, Cargado
<1>1. ASSUME NEW p \in Procesos, CrearProceso(p) PROVE PunterosBuenos'
  BY <1>1, PasarEfecto DEF CrearProceso, memVars
<1>2. ASSUME NEW p \in Procesos, EnviarRuta(p) PROVE PunterosBuenos'
  BY <1>2, PasarEfecto DEF EnviarRuta, memVars
<1>3. ASSUME NEW p \in Procesos, EnviarPid(p) PROVE PunterosBuenos'
  BY <1>3, PasarEfecto DEF EnviarPid, memVars
<1>4. ASSUME NEW p \in Procesos, RecibirPuntero(p) PROVE PunterosBuenos'
  <2>1. Head(punteros) = NULL \/ (Head(punteros) = p /\ p \in cargados)
    BY <1>4, PunteroPropio DEF RecibirPuntero, Pasar
  <2>2. /\ pcbs'[p].instrucciones = Head(punteros)
        /\ \A q \in Procesos : q # p => pcbs'[q] = pcbs[q]
    BY <1>4 DEF RecibirPuntero, ContextoTypeOK, Guardados
  <2>3. /\ estado'[p] \in {"EXIT", "READY"} /\ (estado'[p] = "READY" => Head(punteros) # NULL)
        /\ \A q \in Procesos : q # p => estado'[q] = estado[q]
    BY <1>4, PasarEfecto DEF RecibirPuntero
  <2>4. UNCHANGED cargados
    BY <1>4 DEF RecibirPuntero, memVars
  <2> QED  BY <2>1, <2>2, <2>3, <2>4
<1>5. ASSUME NEW p \in Procesos, Despachar(p) PROVE PunterosBuenos'
  BY <1>5, PasarEfecto DEF Despachar, memVars
<1>6. ASSUME NEW p \in Procesos, RecibirPcb(p) PROVE PunterosBuenos'
  <2>1. Head(vueltas).pcb.instrucciones = p /\ estado[p] = "RUNNING"
    BY <1>6, VueltaPropia DEF RecibirPcb
  <2>2. /\ pcbs'[p].instrucciones = p
        /\ \A q \in Procesos : q # p => pcbs'[q] = pcbs[q]
    BY <1>6, <2>1 DEF RecibirPcb, pcb_deserializar, ContextoTypeOK
  <2>3. \A q \in Procesos : q # p => estado'[q] = estado[q]
    BY <1>6, PasarEfecto DEF RecibirPcb
  <2>4. UNCHANGED cargados
    BY <1>6 DEF RecibirPcb, memVars
  <2> QED  BY <2>1, <2>2, <2>3, <2>4
<1>7. ASSUME NEW p \in Procesos, Desbloquear(p) PROVE PunterosBuenos'
  BY <1>7, PasarEfecto DEF Desbloquear, memVars
<1>8. ASSUME NEW p \in Procesos, EnviarFinalizacion(p) PROVE PunterosBuenos'
  BY <1>8, PasarEfecto DEF EnviarFinalizacion, memVars
<1>9. ASSUME NEW p \in Procesos, Finalizar(p) PROVE PunterosBuenos'
  <2>1. UNCHANGED cargados
    BY <1>9 DEF Finalizar, memVars
  <2> QED  BY <1>9, <2>1, FinalizarEfecto DEF kernelVars
<1>10. CASE Quietas /\ ~LiberarProceso
  <2>1. cargados \subseteq cargados'
    BY <1>10 DEF Quietas, VenceTimer, RecibirDespacho, Fetch, Ejecutar, AtenderCpu,
                 RecibirProceso, IgnorarPid, memVars
  <2> QED  BY <1>10, <2>1, QuietasEfecto DEF kernelVars
<1>11. CASE LiberarProceso
  <2>1. UNCHANGED kernelVars /\ cargados' = cargados \ {Head(conexion).arg}
    BY <1>11 DEF LiberarProceso
  <2>2. Head(conexion).arg # NULL => estado[Head(conexion).arg] = "FINISHED"
    BY <1>11, LiberaFinalizado
  <2>3. \A p \in Procesos : p # NULL
    BY ContextoAssumption DEF NULL
  <2> QED  BY <2>1, <2>2, <2>3 DEF kernelVars
<1> QED
  BY <1>1, <1>2, <1>3, <1>4, <1>5, <1>6, <1>7, <1>8, <1>9, <1>10, <1>11
  DEF ContextoNext, Kernel_, Quietas

LEMMA ConexionPaso ==
  ASSUME IInv, "mata_cargado" \in Cuidados, ContextoNext
  PROVE  ConexionBuena'
<1> DEFINE n == Len(conexion)
<1>n. n \in Nat /\ DOMAIN conexion = 1..n
  BY DEF IInv, ContextoTypeOK
<1>t. ConexionBuena /\ Unicos /\ ContextoTypeOK
  BY DEF IInv
<1>s. cargados \subseteq Procesos
  BY DEF IInv, ContextoTypeOK
<1>z. NUEVO_PROCESO # FINALIZACION /\ FINALIZACION # "PID" /\ NUEVO_PROCESO # "PID"
  BY DEF NUEVO_PROCESO, FINALIZACION
<1> USE DEF Cargandose
<1>1. ASSUME NEW p \in Procesos, CrearProceso(p) PROVE ConexionBuena'
  <2>1. UNCHANGED <<conexion, punteros, cargados>>
    BY <1>1 DEF CrearProceso, cargaVars, memVars
  <2>2. \E a, b \in Estados \ {"RUTA", "CARGA", "FINISHED"} : Pasar(p, a, b)
    BY <1>1 DEF CrearProceso, Estados
  <2>3. \A q \in Procesos : /\ Cargandose(q) => Cargandose(q)'
                            /\ estado[q] = "FINISHED" => estado'[q] = "FINISHED"
    BY <1>t, <2>2, PasarEfecto
  <2> QED  BY <1>s, <1>t, <2>1, <2>3 DEF ConexionBuena
<1>2. ASSUME NEW p \in Procesos, EnviarRuta(p) PROVE ConexionBuena'
  <2> DEFINE m == [op |-> NUEVO_PROCESO, arg |-> p]
  <2>1. /\ UNCHANGED <<punteros, cargados>> /\ conexion' = Append(conexion, m)
    BY <1>2 DEF EnviarRuta, memVars
  <2>2. m \in Cargas
    BY <1>t DEF Cargas, ContextoTypeOK, Guardados
  <2>3. /\ DOMAIN conexion' = 1..(n + 1) /\ conexion'[n + 1] = m
        /\ \A k \in 1..n : conexion'[k] = conexion[k]
    BY <2>1, <2>2, <1>t DEF ContextoTypeOK
  <2>4. /\ estado'[p] = "RUTA" /\ \A q \in Procesos : estado[q] \notin {"RUTA", "CARGA"}
        /\ estado[p] = "NEW" /\ \A q \in Procesos : q # p => estado'[q] = estado[q]
    BY <1>2, <1>t, PasarEfecto DEF EnviarRuta
  <2> HIDE DEF n
  <2>6. ASSUME NEW k \in DOMAIN conexion', conexion'[k].op = FINALIZACION, conexion'[k].arg # NULL
        PROVE  conexion'[k].arg \in cargados' /\ estado'[conexion'[k].arg] = "FINISHED"
    BY <1>n, <1>t, <1>z, <2>1, <2>3, <2>4, <2>6 DEF ConexionBuena, ContextoTypeOK
  <2>7. ASSUME NEW j \in DOMAIN conexion', NEW k \in DOMAIN conexion',
               conexion'[j].op = FINALIZACION, conexion'[k].op = FINALIZACION,
               conexion'[j].arg = conexion'[k].arg, conexion'[j].arg # NULL
        PROVE  j = k
    BY <1>n, <1>t, <1>z, <2>3, <2>4, <2>7 DEF ConexionBuena
  <2>8. ASSUME NEW k \in DOMAIN conexion', conexion'[k].op = NUEVO_PROCESO
        PROVE  /\ conexion'[k].arg \in Procesos /\ estado'[conexion'[k].arg] \in {"RUTA", "CARGA"}
               /\ punteros' = <<>>
    BY <1>n, <1>t, <1>z, <2>1, <2>3, <2>4, <2>8 DEF ConexionBuena
  <2>9. ASSUME NEW j \in DOMAIN conexion', NEW k \in DOMAIN conexion',
               conexion'[j].op = NUEVO_PROCESO, conexion'[k].op = NUEVO_PROCESO
        PROVE  j = k
    BY <1>n, <1>t, <1>z, <2>3, <2>4, <2>9 DEF ConexionBuena
  <2>10. /\ Len(punteros') < 2
         /\ punteros' # <<>> =>
              /\ \E q \in Procesos : Cargandose(q)'
              /\ punteros'[1] # NULL =>
                   punteros'[1] \in cargados' /\ estado'[punteros'[1]] \in {"RUTA", "CARGA"}
    BY <1>s, <1>t, <2>1, <2>4 DEF ConexionBuena
  <2> QED  BY <2>6, <2>7, <2>8, <2>9, <2>10 DEF ConexionBuena
<1>3. ASSUME NEW p \in Procesos, EnviarPid(p) PROVE ConexionBuena'
  <2> DEFINE m == [op |-> "PID", arg |-> p]
  <2>1. /\ UNCHANGED <<punteros, cargados>> /\ conexion' = Append(conexion, m)
    BY <1>3 DEF EnviarPid, memVars
  <2>2. m \in Cargas
    BY <1>t DEF Cargas, ContextoTypeOK, Guardados
  <2>3. /\ DOMAIN conexion' = 1..(n + 1) /\ conexion'[n + 1] = m
        /\ \A k \in 1..n : conexion'[k] = conexion[k]
    BY <2>1, <2>2, <1>t DEF ContextoTypeOK
  <2>4. /\ estado'[p] = "CARGA" /\ estado[p] = "RUTA"
        /\ \A q \in Procesos : q # p => estado'[q] = estado[q]
    BY <1>3, <1>t, PasarEfecto DEF EnviarPid
  <2> HIDE DEF n
  <2>6. ASSUME NEW k \in DOMAIN conexion', conexion'[k].op = FINALIZACION, conexion'[k].arg # NULL
        PROVE  conexion'[k].arg \in cargados' /\ estado'[conexion'[k].arg] = "FINISHED"
    BY <1>n, <1>t, <1>z, <2>1, <2>3, <2>4, <2>6 DEF ConexionBuena, ContextoTypeOK
  <2>7. ASSUME NEW j \in DOMAIN conexion', NEW k \in DOMAIN conexion',
               conexion'[j].op = FINALIZACION, conexion'[k].op = FINALIZACION,
               conexion'[j].arg = conexion'[k].arg, conexion'[j].arg # NULL
        PROVE  j = k
    BY <1>n, <1>t, <1>z, <2>3, <2>4, <2>7 DEF ConexionBuena
  <2>8. ASSUME NEW k \in DOMAIN conexion', conexion'[k].op = NUEVO_PROCESO
        PROVE  /\ conexion'[k].arg \in Procesos /\ estado'[conexion'[k].arg] \in {"RUTA", "CARGA"}
               /\ punteros' = <<>>
    BY <1>n, <1>t, <1>z, <2>1, <2>3, <2>4, <2>8 DEF ConexionBuena
  <2>9. ASSUME NEW j \in DOMAIN conexion', NEW k \in DOMAIN conexion',
               conexion'[j].op = NUEVO_PROCESO, conexion'[k].op = NUEVO_PROCESO
        PROVE  j = k
    BY <1>n, <1>t, <1>z, <2>3, <2>4, <2>9 DEF ConexionBuena
  <2>10. /\ Len(punteros') < 2
         /\ punteros' # <<>> =>
              /\ \E q \in Procesos : Cargandose(q)'
              /\ punteros'[1] # NULL =>
                   punteros'[1] \in cargados' /\ estado'[punteros'[1]] \in {"RUTA", "CARGA"}
    BY <1>s, <1>t, <2>1, <2>4 DEF ConexionBuena
  <2> QED  BY <2>6, <2>7, <2>8, <2>9, <2>10 DEF ConexionBuena
<1>4. ASSUME NEW p \in Procesos, RecibirPuntero(p) PROVE ConexionBuena'
  <2>1. punteros # <<>> /\ punteros' = Tail(punteros) /\ UNCHANGED <<conexion, cargados>>
    BY <1>4 DEF RecibirPuntero, memVars
  <2>2. punteros' = <<>>
    <3>1. Tail(punteros) \in Seq(Punteros) /\ Len(Tail(punteros)) = Len(punteros) - 1
      BY <1>t, <2>1, Cola DEF ContextoTypeOK
    <3>2. Len(punteros) < 2 /\ Len(punteros) \in Nat
      BY <1>t DEF ConexionBuena, ContextoTypeOK
    <3> QED  BY <2>1, <3>1, <3>2, NoVacia
  <2>3. \A k \in DOMAIN conexion : conexion[k].op # NUEVO_PROCESO
    BY <1>t, <2>1 DEF ConexionBuena
  <2>4. estado[p] = "CARGA" /\ \A q \in Procesos : q # p => estado'[q] = estado[q]
    BY <1>4, <1>t, PasarEfecto DEF RecibirPuntero
  <2> QED  BY <1>s, <1>t, <2>1, <2>2, <2>3, <2>4 DEF ConexionBuena
<1>5. ASSUME NEW p \in Procesos, Despachar(p) PROVE ConexionBuena'
  <2>1. UNCHANGED <<conexion, punteros, cargados>>
    BY <1>5 DEF Despachar, cargaVars, memVars
  <2>2. \E a, b \in Estados \ {"RUTA", "CARGA", "FINISHED"} : Pasar(p, a, b)
    BY <1>5 DEF Despachar, Estados
  <2>3. \A q \in Procesos : /\ Cargandose(q) => Cargandose(q)'
                            /\ estado[q] = "FINISHED" => estado'[q] = "FINISHED"
    BY <1>t, <2>2, PasarEfecto
  <2> QED  BY <1>s, <1>t, <2>1, <2>3 DEF ConexionBuena
<1>6. ASSUME NEW p \in Procesos, RecibirPcb(p) PROVE ConexionBuena'
  <2>1. UNCHANGED <<conexion, punteros, cargados>>
    BY <1>6 DEF RecibirPcb, cargaVars, memVars
  <2>2. \E a, b \in Estados \ {"RUTA", "CARGA", "FINISHED"} : Pasar(p, a, b)
    BY <1>6 DEF RecibirPcb, Estados
  <2>3. \A q \in Procesos : /\ Cargandose(q) => Cargandose(q)'
                            /\ estado[q] = "FINISHED" => estado'[q] = "FINISHED"
    BY <1>t, <2>2, PasarEfecto
  <2> QED  BY <1>s, <1>t, <2>1, <2>3 DEF ConexionBuena
<1>7. ASSUME NEW p \in Procesos, Desbloquear(p) PROVE ConexionBuena'
  <2>1. UNCHANGED <<conexion, punteros, cargados>>
    BY <1>7 DEF Desbloquear, cargaVars, memVars
  <2>2. \E a, b \in Estados \ {"RUTA", "CARGA", "FINISHED"} : Pasar(p, a, b)
    BY <1>7 DEF Desbloquear, Estados
  <2>3. \A q \in Procesos : /\ Cargandose(q) => Cargandose(q)'
                            /\ estado[q] = "FINISHED" => estado'[q] = "FINISHED"
    BY <1>t, <2>2, PasarEfecto
  <2> QED  BY <1>s, <1>t, <2>1, <2>3 DEF ConexionBuena
<1>8. ASSUME NEW p \in Procesos, EnviarFinalizacion(p) PROVE ConexionBuena'
  <2> DEFINE m == [op |-> FINALIZACION, arg |-> pcbs[p].instrucciones]
  <2>1. /\ UNCHANGED <<punteros, cargados>> /\ conexion' = Append(conexion, m)
    BY <1>8 DEF EnviarFinalizacion, memVars
  <2>2. m \in Cargas
    BY <1>t DEF Cargas, ContextoTypeOK, Guardados
  <2>3. /\ DOMAIN conexion' = 1..(n + 1) /\ conexion'[n + 1] = m
        /\ \A k \in 1..n : conexion'[k] = conexion[k]
    BY <2>1, <2>2, <1>t DEF ContextoTypeOK
  <2>4. /\ estado'[p] = "FINISHED" /\ estado[p] = "EXIT"
        /\ \A q \in Procesos : q # p => estado'[q] = estado[q]
    BY <1>8, <1>t, PasarEfecto DEF EnviarFinalizacion
  <2>5. m.arg # NULL => m.arg = p /\ p \in cargados
    BY <2>4 DEF IInv, PunterosBuenos
  <2> HIDE DEF n
  <2>6. ASSUME NEW k \in DOMAIN conexion', conexion'[k].op = FINALIZACION, conexion'[k].arg # NULL
        PROVE  conexion'[k].arg \in cargados' /\ estado'[conexion'[k].arg] = "FINISHED"
    BY <1>n, <1>t, <1>z, <2>1, <2>3, <2>4, <2>5, <2>6 DEF ConexionBuena, ContextoTypeOK
  <2>7. ASSUME NEW j \in DOMAIN conexion', NEW k \in DOMAIN conexion',
               conexion'[j].op = FINALIZACION, conexion'[k].op = FINALIZACION,
               conexion'[j].arg = conexion'[k].arg, conexion'[j].arg # NULL
        PROVE  j = k
    BY <1>n, <1>t, <1>z, <2>3, <2>4, <2>5, <2>7 DEF ConexionBuena
  <2>8. ASSUME NEW k \in DOMAIN conexion', conexion'[k].op = NUEVO_PROCESO
        PROVE  /\ conexion'[k].arg \in Procesos /\ estado'[conexion'[k].arg] \in {"RUTA", "CARGA"}
               /\ punteros' = <<>>
    BY <1>n, <1>t, <1>z, <2>1, <2>3, <2>4, <2>8 DEF ConexionBuena
  <2>9. ASSUME NEW j \in DOMAIN conexion', NEW k \in DOMAIN conexion',
               conexion'[j].op = NUEVO_PROCESO, conexion'[k].op = NUEVO_PROCESO
        PROVE  j = k
    BY <1>n, <1>t, <1>z, <2>3, <2>4, <2>9 DEF ConexionBuena
  <2>10. /\ Len(punteros') < 2
         /\ punteros' # <<>> =>
              /\ \E q \in Procesos : Cargandose(q)'
              /\ punteros'[1] # NULL =>
                   punteros'[1] \in cargados' /\ estado'[punteros'[1]] \in {"RUTA", "CARGA"}
    BY <1>s, <1>t, <2>1, <2>4 DEF ConexionBuena
  <2> QED  BY <2>6, <2>7, <2>8, <2>9, <2>10 DEF ConexionBuena
<1>9. ASSUME NEW p \in Procesos, Finalizar(p) PROVE ConexionBuena'
  <2>1. UNCHANGED <<conexion, punteros, cargados>>
    BY <1>9 DEF Finalizar, cargaVars, memVars
  <2>2. \A q \in Procesos : /\ Cargandose(q) => Cargandose(q)'
                            /\ estado[q] = "FINISHED" => estado'[q] = "FINISHED"
    BY <1>9, <1>t, FinalizarEfecto DEF kernelVars
  <2> QED  BY <1>s, <1>t, <2>1, <2>2 DEF ConexionBuena
<1>10. CASE \/ \E p \in Procesos : VenceTimer(p)
            \/ RecibirDespacho \/ Fetch \/ Ejecutar \/ AtenderCpu
  <2>1. UNCHANGED <<estado, conexion, punteros, cargados>>
    BY <1>10 DEF VenceTimer, RecibirDespacho, Fetch, Ejecutar, AtenderCpu, kernelVars,
                 cargaVars, memVars
  <2> QED  BY <1>t, <2>1 DEF ConexionBuena
<1>11. CASE RecibirProceso
  <2> DEFINE p == conexion[1].arg
  <2>1. /\ UNCHANGED estado /\ n > 1 /\ conexion[1].op = NUEVO_PROCESO
        /\ conexion' = Tail(Tail(conexion))
        /\ \/ punteros' = Append(punteros, NULL) /\ cargados' = cargados
           \/ punteros' = Append(punteros, p) /\ cargados' = cargados \cup {p}
    BY <1>11 DEF RecibirProceso, kernelVars
  <2>2. p \in Procesos /\ Cargandose(p) /\ punteros = <<>>
    BY <1>n, <1>t, <2>1 DEF ConexionBuena
  <2>3. /\ punteros' = <<punteros'[1]>> /\ Len(punteros') = 1
        /\ punteros'[1] = NULL \/ (punteros'[1] = p /\ p \in cargados')
    BY <2>1, <2>2
  <2>4. DOMAIN conexion' = 1..(n - 2) /\ \A k \in 1..(n - 2) : conexion'[k] = conexion[k + 2]
    <3>1. /\ Tail(conexion) \in Seq(Cargas) /\ Len(Tail(conexion)) = n - 1
          /\ \A k \in 1..(n - 1) : Tail(conexion)[k] = conexion[k + 1]
      BY <1>t, <2>1, Cola, NoVacia DEF ContextoTypeOK
    <3> DEFINE t == Tail(conexion)
    <3> HIDE DEF t
    <3>2. /\ t \in Seq(Cargas) /\ Len(t) = n - 1 /\ conexion' = Tail(t) /\ n > 1
          /\ \A k \in 1..(n - 1) : t[k] = conexion[k + 1]
      BY <2>1, <3>1 DEF t
    <3> HIDE DEF n
    <3>3. t # <<>>
      BY <1>n, <3>2, NoVacia
    <3>4. DOMAIN Tail(t) = 1..(n - 2) /\ \A k \in 1..(n - 2) : Tail(t)[k] = t[k + 1]
      <4>1. /\ Tail(t) \in Seq(Cargas) /\ Len(Tail(t)) = n - 2
            /\ \A k \in DOMAIN Tail(t) : Tail(t)[k] = t[k + 1]
        BY <1>n, <3>2, <3>3, Cola
      <4> QED  BY <1>n, <4>1
    <3> QED  BY <1>n, <3>2, <3>4
  <2>5. cargados \subseteq cargados'
    BY <2>1
  <2> HIDE DEF n
  <2>6. ASSUME NEW k \in 1..(n - 2) PROVE k + 2 \in 1..n /\ conexion'[k] = conexion[k + 2]
    BY <1>n, <2>4
  <2>7. \A k \in DOMAIN conexion' : conexion'[k].op # NUEVO_PROCESO
    <3> SUFFICES ASSUME NEW k \in DOMAIN conexion', conexion'[k].op = NUEVO_PROCESO PROVE FALSE
      OBVIOUS
    <3>1. k \in 1..(n - 2) /\ k + 2 # 1 /\ 1 \in 1..n
      BY <1>n, <2>1, <2>4
    <3>2. conexion[k + 2].op = NUEVO_PROCESO /\ k + 2 \in DOMAIN conexion /\ 1 \in DOMAIN conexion
      BY <1>n, <2>6, <3>1
    <3> QED  BY <1>t, <2>1, <3>1, <3>2 DEF ConexionBuena
  <2>8. ASSUME NEW k \in DOMAIN conexion', conexion'[k].op = FINALIZACION, conexion'[k].arg # NULL
        PROVE  conexion'[k].arg \in cargados' /\ estado'[conexion'[k].arg] = "FINISHED"
    BY <1>n, <1>t, <2>1, <2>4, <2>5, <2>6, <2>8 DEF ConexionBuena
  <2>9. ASSUME NEW j \in DOMAIN conexion', NEW k \in DOMAIN conexion',
               conexion'[j].op = FINALIZACION, conexion'[k].op = FINALIZACION,
               conexion'[j].arg = conexion'[k].arg, conexion'[j].arg # NULL
        PROVE  j = k
    <3>1. j \in Int /\ k \in Int /\ j + 2 = k + 2
      BY <1>n, <1>t, <2>4, <2>6, <2>9 DEF ConexionBuena
    <3> QED  BY <3>1
  <2>10. /\ Len(punteros') < 2 /\ estado'[p] \in {"RUTA", "CARGA"} /\ p \in Procesos
         /\ punteros'[1] # NULL =>
              punteros'[1] \in cargados' /\ estado'[punteros'[1]] \in {"RUTA", "CARGA"}
    BY <2>1, <2>2, <2>3
  <2> QED  BY <2>7, <2>8, <2>9, <2>10 DEF ConexionBuena
<1>12. CASE IgnorarPid \/ LiberarProceso
  <2>1. /\ conexion # <<>> /\ conexion' = Tail(conexion) /\ UNCHANGED <<estado, punteros>>
        /\ \/ cargados' = cargados
           \/ Head(conexion).op = FINALIZACION /\ cargados' = cargados \ {Head(conexion).arg}
    BY <1>12 DEF IgnorarPid, LiberarProceso, kernelVars, memVars
  <2>2. /\ n > 0 /\ Head(conexion) = conexion[1] /\ DOMAIN conexion' = 1..(n - 1)
        /\ \A k \in 1..(n - 1) : conexion'[k] = conexion[k + 1]
    BY <1>t, <2>1, Cola, NoVacia DEF ContextoTypeOK
  <2> HIDE DEF n
  <2>3. ASSUME NEW k \in DOMAIN conexion'
        PROVE  /\ k \in Int /\ k + 1 \in DOMAIN conexion /\ conexion'[k] = conexion[k + 1]
               /\ k + 1 # 1 /\ 1 \in DOMAIN conexion
    BY <1>n, <2>2
  <2>4. ASSUME NEW k \in DOMAIN conexion', conexion'[k].op = FINALIZACION, conexion'[k].arg # NULL
        PROVE  conexion'[k].arg \in cargados' /\ estado'[conexion'[k].arg] = "FINISHED"
    <3>1. conexion[k + 1].arg \in cargados /\ estado[conexion[k + 1].arg] = "FINISHED"
      BY <1>t, <2>3, <2>4 DEF ConexionBuena
    <3>2. Head(conexion).op = FINALIZACION => conexion[1].arg # conexion[k + 1].arg
      BY <1>t, <2>2, <2>3, <2>4 DEF ConexionBuena
    <3> QED  BY <2>1, <2>2, <2>3, <3>1, <3>2
  <2>5. ASSUME NEW j \in DOMAIN conexion', NEW k \in DOMAIN conexion',
               conexion'[j].op = FINALIZACION, conexion'[k].op = FINALIZACION,
               conexion'[j].arg = conexion'[k].arg, conexion'[j].arg # NULL
        PROVE  j = k
    <3>1. j + 1 = k + 1
      BY <1>t, <2>3, <2>5 DEF ConexionBuena
    <3> QED  BY <2>3, <3>1
  <2>6. ASSUME NEW k \in DOMAIN conexion', conexion'[k].op = NUEVO_PROCESO
        PROVE  /\ conexion'[k].arg \in Procesos /\ estado'[conexion'[k].arg] \in {"RUTA", "CARGA"}
               /\ punteros' = <<>>
    BY <1>t, <2>1, <2>3, <2>6 DEF ConexionBuena
  <2>7. ASSUME NEW j \in DOMAIN conexion', NEW k \in DOMAIN conexion',
               conexion'[j].op = NUEVO_PROCESO, conexion'[k].op = NUEVO_PROCESO
        PROVE  j = k
    <3>1. j + 1 = k + 1
      BY <1>t, <2>3, <2>7 DEF ConexionBuena
    <3> QED  BY <2>3, <3>1
  <2>8. /\ Len(punteros') < 2
        /\ punteros' # <<>> =>
             /\ \E q \in Procesos : Cargandose(q)'
             /\ punteros'[1] # NULL =>
                  punteros'[1] \in cargados' /\ estado'[punteros'[1]] \in {"RUTA", "CARGA"}
    <3>1. /\ Len(punteros) < 2
          /\ punteros # <<>> =>
               /\ \E q \in Procesos : Cargandose(q)
               /\ punteros[1] # NULL => punteros[1] \in cargados /\ Cargandose(punteros[1])
      BY <1>t DEF ConexionBuena
    <3>2. ASSUME punteros # <<>>, punteros[1] # NULL PROVE punteros[1] \in cargados'
      <4>1. Head(conexion).op = FINALIZACION /\ conexion[1].arg # NULL =>
              estado[conexion[1].arg] = "FINISHED"
        BY <1>n, <1>t, <2>2 DEF ConexionBuena
      <4> QED  BY <2>1, <2>2, <3>1, <3>2, <4>1
    <3> QED  BY <2>1, <3>1, <3>2
  <2> QED  BY <2>4, <2>5, <2>6, <2>7, <2>8 DEF ConexionBuena
<1> QED
  BY <1>1, <1>2, <1>3, <1>4, <1>5, <1>6, <1>7, <1>8, <1>9, <1>10, <1>11, <1>12
  DEF ContextoNext, Kernel_

LEMMA ContextoPaso ==
  ASSUME IInv, "mata_cargado" \in Cuidados, ContextoNext
  PROVE  ContextoBueno'
<1>t. ContextoBueno /\ Unicos /\ ContextoTypeOK
  BY DEF IInv
<1>l. Len(despacho) \in Nat /\ Len(vueltas) \in Nat
  BY DEF IInv, ContextoTypeOK
<1>1. ASSUME NEW p \in Procesos, CrearProceso(p) PROVE ContextoBueno'
  <2>1. UNCHANGED <<despacho, vueltas, pcb, fase>>
    BY <1>1 DEF CrearProceso, cpuVars
  <2>2. estado[p] # "RUNNING" /\ \A q \in Procesos : q # p => estado'[q] = estado[q]
    BY <1>1, <1>t, PasarEfecto DEF CrearProceso
  <2> QED  BY <1>t, <2>1, <2>2 DEF ContextoBueno
<1>2. ASSUME NEW p \in Procesos, EnviarRuta(p) PROVE ContextoBueno'
  <2>1. UNCHANGED <<despacho, vueltas, pcb, fase>>
    BY <1>2 DEF EnviarRuta, cpuVars
  <2>2. estado[p] # "RUNNING" /\ \A q \in Procesos : q # p => estado'[q] = estado[q]
    BY <1>2, <1>t, PasarEfecto DEF EnviarRuta
  <2> QED  BY <1>t, <2>1, <2>2 DEF ContextoBueno
<1>3. ASSUME NEW p \in Procesos, EnviarPid(p) PROVE ContextoBueno'
  <2>1. UNCHANGED <<despacho, vueltas, pcb, fase>>
    BY <1>3 DEF EnviarPid, cpuVars
  <2>2. estado[p] # "RUNNING" /\ \A q \in Procesos : q # p => estado'[q] = estado[q]
    BY <1>3, <1>t, PasarEfecto DEF EnviarPid
  <2> QED  BY <1>t, <2>1, <2>2 DEF ContextoBueno
<1>4. ASSUME NEW p \in Procesos, RecibirPuntero(p) PROVE ContextoBueno'
  <2>1. UNCHANGED <<despacho, vueltas, pcb, fase>>
    BY <1>4 DEF RecibirPuntero, cpuVars
  <2>2. estado[p] # "RUNNING" /\ \A q \in Procesos : q # p => estado'[q] = estado[q]
    BY <1>4, <1>t, PasarEfecto DEF RecibirPuntero
  <2> QED  BY <1>t, <2>1, <2>2 DEF ContextoBueno
<1>5. ASSUME NEW p \in Procesos, Despachar(p) PROVE ContextoBueno'
  <2> DEFINE m == [pid |-> p, registros |-> pcbs[p].registros,
                   instrucciones |-> pcbs[p].instrucciones]
  <2>1. /\ UNCHANGED <<vueltas, pcb, fase>> /\ despacho' = Append(despacho, m)
        /\ \A q \in Procesos : estado[q] # "RUNNING"
    BY <1>5 DEF Despachar, cpuVars
  <2>2. despacho = <<>> /\ fase = "libre" /\ vueltas = <<>>
    BY <1>t, <2>1 DEF ContextoBueno
  <2>3. despacho' = <<m>>
    BY <2>1, <2>2
  <2>4. estado'[p] = "RUNNING" /\ pcbs[p].instrucciones = p
    BY <1>5, <1>t, PasarEfecto DEF Despachar, IInv, PunterosBuenos, Cargado
  <2> QED  BY <2>1, <2>2, <2>3, <2>4 DEF ContextoBueno
<1>6. ASSUME NEW p \in Procesos, RecibirPcb(p) PROVE ContextoBueno'
  <2>1. /\ UNCHANGED <<despacho, pcb, fase>> /\ vueltas # <<>> /\ vueltas' = Tail(vueltas)
        /\ Head(vueltas).pcb.pid = p
    BY <1>6 DEF RecibirPcb, cpuVars
  <2>2. vueltas' = <<>>
    BY <2>1, VueltaPropia
  <2>3. despacho = <<>> /\ fase = "libre"
    BY <1>t, <2>1 DEF ContextoBueno
  <2>4. despacho' = <<>> /\ vueltas' = <<>> /\ fase' = "libre"
    BY <2>1, <2>2, <2>3
  <2>5. Len(despacho') < 2 /\ Len(vueltas') < 2
    BY <2>4
  <2> QED  BY <2>4, <2>5 DEF ContextoBueno
<1>7. ASSUME NEW p \in Procesos, Desbloquear(p) PROVE ContextoBueno'
  <2>1. UNCHANGED <<despacho, vueltas, pcb, fase>>
    BY <1>7 DEF Desbloquear, cpuVars
  <2>2. estado[p] # "RUNNING" /\ \A q \in Procesos : q # p => estado'[q] = estado[q]
    BY <1>7, <1>t, PasarEfecto DEF Desbloquear
  <2> QED  BY <1>t, <2>1, <2>2 DEF ContextoBueno
<1>8. ASSUME NEW p \in Procesos, EnviarFinalizacion(p) PROVE ContextoBueno'
  <2>1. UNCHANGED <<despacho, vueltas, pcb, fase>>
    BY <1>8 DEF EnviarFinalizacion, cpuVars
  <2>2. estado[p] # "RUNNING" /\ \A q \in Procesos : q # p => estado'[q] = estado[q]
    BY <1>8, <1>t, PasarEfecto DEF EnviarFinalizacion
  <2> QED  BY <1>t, <2>1, <2>2 DEF ContextoBueno
<1>9. ASSUME NEW p \in Procesos, Finalizar(p) PROVE ContextoBueno'
  <2>1. UNCHANGED <<despacho, vueltas, pcb, fase>>
    BY <1>9 DEF Finalizar
  <2>2. \A q \in Procesos : estado[q] = "RUNNING" => estado'[q] = "RUNNING"
    BY <1>9, <1>t, FinalizarEfecto DEF kernelVars
  <2> QED  BY <1>t, <2>1, <2>2 DEF ContextoBueno
<1>10. CASE \/ \E p \in Procesos : VenceTimer(p)
            \/ AtenderCpu \/ RecibirProceso \/ IgnorarPid \/ LiberarProceso
  <2>1. UNCHANGED <<estado, despacho, vueltas, pcb, fase>>
    BY <1>10 DEF VenceTimer, AtenderCpu, RecibirProceso, IgnorarPid, LiberarProceso,
                 kernelVars, cpuVars
  <2> QED  BY <1>t, <2>1 DEF ContextoBueno
<1>11. CASE RecibirDespacho
  <2>1. /\ UNCHANGED <<estado, vueltas>> /\ despacho # <<>> /\ despacho' = Tail(despacho)
        /\ pcb' = Head(despacho) /\ fase' = "fetch"
    BY <1>11 DEF RecibirDespacho, kernelVars
  <2>2. /\ Head(despacho) = despacho[1] /\ Tail(despacho) \in Seq(Pcbs)
        /\ Len(Tail(despacho)) = Len(despacho) - 1
    BY <1>t, <2>1, Cola DEF ContextoTypeOK
  <2>3. despacho' = <<>>
    <3>1. Len(Tail(despacho)) = 0
      BY <1>t, <1>l, <2>1, <2>2, NoVacia DEF ContextoBueno, ContextoTypeOK
    <3> QED  BY <2>1, <2>2, <3>1, NoVacia
  <2> QED  BY <1>t, <2>1, <2>2, <2>3 DEF ContextoBueno
<1>12. CASE Fetch
  <2>1. UNCHANGED <<estado, despacho, vueltas, pcb>> /\ fase = "fetch" /\ fase' = "espera"
    BY <1>12 DEF Fetch, kernelVars
  <2> QED  BY <1>t, <2>1 DEF ContextoBueno
<1>13. CASE Ejecutar
  <2>1. /\ UNCHANGED <<estado, despacho>> /\ fase = "espera"
        /\ pcb'.pid = pcb.pid /\ pcb'.instrucciones = pcb.instrucciones
        /\ \/ fase' = "fetch" /\ UNCHANGED vueltas
           \/ /\ fase' = "libre"
              /\ \E m : vueltas' = Append(vueltas, [pcb |-> pcb', motivo |-> m])
    BY <1>13, <1>t DEF Ejecutar, kernelVars, ContextoTypeOK, Pcbs
  <2>2. /\ despacho = <<>> /\ vueltas = <<>> /\ pcb.pid \in Procesos
        /\ estado[pcb.pid] = "RUNNING" /\ pcb.instrucciones = pcb.pid
    BY <1>t, <2>1 DEF ContextoBueno
  <2>3. CASE fase' = "fetch" /\ UNCHANGED vueltas
    BY <2>1, <2>2, <2>3 DEF ContextoBueno
  <2>4. ASSUME fase' = "libre", NEW m, vueltas' = Append(vueltas, [pcb |-> pcb', motivo |-> m])
        PROVE  ContextoBueno'
    <3>1. vueltas' = <<[pcb |-> pcb', motivo |-> m]>>
      BY <2>2, <2>4
    <3> QED  BY <2>1, <2>2, <2>4, <3>1 DEF ContextoBueno
  <2> QED  BY <2>1, <2>3, <2>4
<1> QED
  BY <1>1, <1>2, <1>3, <1>4, <1>5, <1>6, <1>7, <1>8, <1>9, <1>10, <1>11, <1>12, <1>13
  DEF ContextoNext, Kernel_

LEMMA PedidosEnviados ==
  ASSUME ContextoTypeOK, NEW m \in Pedidos, aMemoria' = Append(aMemoria, m)
  PROVE  /\ Len(aMemoria) \in Nat /\ DOMAIN aMemoria = 1..Len(aMemoria)
         /\ Len(aMemoria') = Len(aMemoria) + 1 /\ DOMAIN aMemoria' = 1..(Len(aMemoria) + 1)
         /\ aMemoria'[Len(aMemoria) + 1] = m
         /\ \A k \in 1..Len(aMemoria) : aMemoria'[k] = aMemoria[k]
  BY DEF ContextoTypeOK

LEMMA PedidosAtendidos ==
  ASSUME ContextoTypeOK, aMemoria # <<>>, aMemoria' = Tail(aMemoria)
  PROVE  /\ Len(aMemoria) \in Nat /\ DOMAIN aMemoria = 1..Len(aMemoria) /\ Len(aMemoria) > 0
         /\ Head(aMemoria) = aMemoria[1] /\ Head(aMemoria) \in Pedidos
         /\ Len(aMemoria') = Len(aMemoria) - 1 /\ DOMAIN aMemoria' = 1..(Len(aMemoria) - 1)
         /\ \A k \in 1..(Len(aMemoria) - 1) : aMemoria'[k] = aMemoria[k + 1]
  BY Cola, NoVacia DEF ContextoTypeOK

LEMMA PedidosPaso ==
  ASSUME IInv, "sirve_antes" \in Cuidados, ContextoNext
  PROVE  PedidosBuenos'
<1>t. PedidosBuenos /\ ContextoTypeOK
  BY DEF IInv
<1>p. fase # "libre" => /\ pcb.pid \in cargados /\ pcb.instrucciones = pcb.pid
                        /\ despacho = <<>>
  BY DEF IInv, ContextoBueno, PunterosBuenos, Cargado
<1>1. ASSUME UNCHANGED <<aMemoria, deMemoria, fase, pcb, proceso>>, cargados \subseteq cargados'
      PROVE  PedidosBuenos'
  BY <1>t, <1>1 DEF PedidosBuenos, Pide
<1>2. ASSUME NEW p \in Procesos, CrearProceso(p) \/ Finalizar(p) \/ Kernel_(p)
      PROVE  PedidosBuenos'
  <2>1. UNCHANGED <<aMemoria, deMemoria, fase, pcb, proceso, cargados>>
    BY <1>2 DEF CrearProceso, Finalizar, Kernel_, EnviarRuta, EnviarPid, RecibirPuntero,
                Despachar, RecibirPcb, Desbloquear, VenceTimer, EnviarFinalizacion,
                pedidosVars, cpuVars, memVars
  <2> QED  BY <1>1, <2>1
<1>3. CASE RecibirProceso \/ IgnorarPid
  <2>1. UNCHANGED <<aMemoria, deMemoria, fase, pcb, proceso>> /\ cargados \subseteq cargados'
    BY <1>3 DEF RecibirProceso, IgnorarPid, pedidosVars, cpuVars, memVars
  <2> QED  BY <1>1, <2>1
<1>4. CASE LiberarProceso
  <2>1. /\ UNCHANGED <<aMemoria, deMemoria, fase, pcb, proceso>>
        /\ proceso = Head(conexion).arg => aMemoria = <<>>
        /\ cargados' = cargados \ {Head(conexion).arg}
    BY <1>4 DEF LiberarProceso, pedidosVars, cpuVars
  <2>2. CASE aMemoria = <<>>
    <3>1. DOMAIN aMemoria = {}
      BY <2>2
    <3> QED  BY <1>t, <2>1, <3>1 DEF PedidosBuenos, Pide
  <2>3. CASE proceso # Head(conexion).arg
    BY <1>t, <2>1, <2>3 DEF PedidosBuenos, Pide
  <2> QED  BY <2>1, <2>2, <2>3
<1>5. CASE RecibirDespacho
  <2> DEFINE m == Pedido("PROCESO", Head(despacho).instrucciones)
             n == Len(aMemoria)
  <2>1. /\ UNCHANGED <<deMemoria, proceso, cargados>> /\ fase = "libre" /\ fase' = "fetch"
        /\ despacho # <<>> /\ pcb' = Head(despacho) /\ aMemoria' = Append(aMemoria, m)
    BY <1>5 DEF RecibirDespacho, memVars
  <2>2. Head(despacho) = despacho[1] /\ Head(despacho) \in Pcbs
    BY <1>t, <2>1, Cola DEF ContextoTypeOK
  <2>3. m \in Pedidos /\ m.op = "PROCESO" /\ m.arg = pcb'.pid
    BY <2>1, <2>2 DEF Pedido, Pedidos, Pcbs, IInv, ContextoBueno
  <2> HIDE DEF m
  <2>4. /\ n \in Nat /\ DOMAIN aMemoria = 1..n
        /\ DOMAIN aMemoria' = 1..(n + 1) /\ aMemoria'[n + 1] = m
        /\ \A k \in 1..n : aMemoria'[k] = aMemoria[k]
    BY <1>t, <2>1, <2>3, PedidosEnviados
  <2> HIDE DEF n
  <2>5. deMemoria = <<>> /\ \A k \in 1..n : aMemoria'[k].op \notin {"PROCESO", "FETCH"}
    BY <1>t, <2>1, <2>4 DEF PedidosBuenos, Pide
  <2>6. \A k \in DOMAIN aMemoria' : aMemoria'[k].op = "PROCESO" <=> k = n + 1
    BY <2>3, <2>4, <2>5
  <2>7. \A k \in 1..n : proceso \in cargados
    BY <1>t, <2>1, <2>4 DEF PedidosBuenos, Pide
  <2>8. \A k \in DOMAIN aMemoria' : aMemoria'[k].op # "FETCH"
    BY <2>3, <2>4, <2>5
  <2>9. ASSUME NEW k \in DOMAIN aMemoria', \A j \in 1..k : aMemoria'[j].op # "PROCESO"
        PROVE  proceso' \in cargados'
    <3>1. k # n + 1
      BY <2>3, <2>4, <2>9
    <3> QED  BY <2>1, <2>4, <2>7, <3>1
  <2> QED  BY <2>1, <2>3, <2>4, <2>5, <2>6, <2>8, <2>9 DEF PedidosBuenos, Pide
<1>6. CASE Fetch
  <2> DEFINE m == Pedido("FETCH", pcb.registros["PC"])
             n == Len(aMemoria)
  <2>1. /\ UNCHANGED <<deMemoria, pcb, proceso, cargados>> /\ fase = "fetch" /\ fase' = "espera"
        /\ aMemoria' = Append(aMemoria, m)
    BY <1>6 DEF Fetch, memVars
  <2>3. m \in Pedidos /\ m.op = "FETCH"
    <3>1. pcb.registros \in [Registros8y32 -> Nat] /\ "PC" \in Registros8y32
      BY <1>t DEF ContextoTypeOK, Pcbs, Contenidos, Registros8y32, De32
    <3>2. pcb.registros["PC"] \in Int
      BY <3>1
    <3> QED  BY <3>2 DEF Pedido, Pedidos
  <2> HIDE DEF m
  <2>4. /\ n \in Nat /\ DOMAIN aMemoria = 1..n /\ Len(aMemoria') = n + 1
        /\ DOMAIN aMemoria' = 1..(n + 1) /\ aMemoria'[n + 1] = m
        /\ \A k \in 1..n : aMemoria'[k] = aMemoria[k]
    BY <1>t, <2>1, <2>3, PedidosEnviados
  <2> HIDE DEF n
  <2>5. deMemoria = <<>> /\ \A k \in 1..n : aMemoria'[k].op # "FETCH"
    BY <1>t, <2>1, <2>4 DEF PedidosBuenos, Pide
  <2>6. \A j, k \in DOMAIN aMemoria' :
          aMemoria'[j].op = "PROCESO" /\ aMemoria'[k].op = "PROCESO" => j = k
    BY <1>t, <2>3, <2>4 DEF PedidosBuenos, Pide
  <2>7. \A k \in DOMAIN aMemoria' : aMemoria'[k].op = "PROCESO" => aMemoria'[k].arg = pcb'.pid
    BY <1>t, <2>1, <2>3, <2>4 DEF PedidosBuenos, Pide
  <2>8. (\A k \in DOMAIN aMemoria' : aMemoria'[k].op # "PROCESO") => proceso' = pcb'.pid
    BY <1>t, <2>1, <2>4 DEF PedidosBuenos, Pide
  <2>9. ASSUME NEW k \in DOMAIN aMemoria', \A j \in 1..k : aMemoria'[j].op # "PROCESO"
        PROVE  proceso' \in cargados'
    <3>1. CASE k = n + 1
      <4>1. proceso = pcb.pid
        BY <2>1, <2>4, <2>8, <2>9, <3>1
      <4> QED  BY <1>p, <2>1, <4>1
    <3>2. CASE k # n + 1
      <4>1. k \in 1..n /\ \A j \in 1..k : aMemoria[j].op # "PROCESO"
        BY <2>4, <2>9, <3>2
      <4> QED  BY <1>t, <2>1, <2>4, <4>1 DEF PedidosBuenos, Pide
    <3> QED  BY <3>1, <3>2
  <2>10. /\ Len(deMemoria') < 2 /\ deMemoria' = <<>>
         /\ \A k \in DOMAIN aMemoria' : aMemoria'[k].op = "FETCH" => k = Len(aMemoria')
    BY <2>1, <2>4, <2>5
  <2> QED  BY <2>1, <2>6, <2>7, <2>8, <2>9, <2>10 DEF PedidosBuenos, Pide
<1>7. CASE Ejecutar
  <2> DEFINE i == Head(deMemoria)
             m == Pedido(i.op, i.n)
  <2>1. /\ UNCHANGED <<proceso, cargados>> /\ fase = "espera" /\ deMemoria # <<>>
        /\ deMemoria' = Tail(deMemoria) /\ fase' \in {"fetch", "libre"} /\ pcb'.pid = pcb.pid
        /\ \/ aMemoria' = aMemoria
           \/ i.op = "MENOS_PAGINA" /\ aMemoria' = Append(aMemoria, m)
    BY <1>7, <1>t DEF Ejecutar, memVars, ContextoTypeOK, Pcbs
  <2>2. aMemoria = <<>> /\ Len(deMemoria) < 2
    BY <1>t, <2>1 DEF PedidosBuenos
  <2>3. deMemoria' = <<>>
    <3>1. Tail(deMemoria) \in Seq(Instrucciones) /\ Len(Tail(deMemoria)) = Len(deMemoria) - 1
      BY <1>t, <2>1, Cola DEF ContextoTypeOK
    <3>2. Len(deMemoria) \in Nat
      BY <1>t DEF ContextoTypeOK
    <3> QED  BY <2>1, <2>2, <3>1, <3>2, NoVacia
  <2>4. proceso = pcb.pid /\ proceso \in cargados
    <3>1. DOMAIN aMemoria = {}
      BY <2>2
    <3> QED  BY <1>p, <1>t, <2>1, <3>1 DEF PedidosBuenos
  <2>5. \A k \in DOMAIN aMemoria' : aMemoria'[k].op = "MENOS_PAGINA"
    <3>1. CASE aMemoria' = aMemoria
      BY <2>2, <3>1
    <3>2. CASE i.op = "MENOS_PAGINA" /\ aMemoria' = Append(aMemoria, m)
      <4>1. aMemoria' = <<m>> /\ m.op = "MENOS_PAGINA"
        BY <2>2, <3>2 DEF Pedido
      <4> HIDE DEF m
      <4> QED  BY <4>1
    <3> QED  BY <2>1, <3>1, <3>2
  <2> HIDE DEF i, m
  <2> QED  BY <2>1, <2>3, <2>4, <2>5 DEF PedidosBuenos, Pide
<1>8. CASE AtenderCpu
  <2> DEFINE n == Len(aMemoria)
  <2>1. /\ UNCHANGED <<fase, pcb, cargados>> /\ aMemoria # <<>> /\ aMemoria' = Tail(aMemoria)
        /\ CASE Head(aMemoria).op = "PROCESO" -> /\ proceso' = Head(aMemoria).arg
                                                 /\ UNCHANGED deMemoria
             [] Head(aMemoria).op = "FETCH" ->
                  /\ UNCHANGED proceso
                  /\ \/ UNCHANGED deMemoria
                     \/ \E x : deMemoria' = Append(deMemoria, x)
             [] OTHER -> UNCHANGED <<proceso, deMemoria>>
    BY <1>8 DEF AtenderCpu, cpuVars
  <2>2. /\ n \in Nat /\ DOMAIN aMemoria = 1..n /\ n > 0 /\ Head(aMemoria) = aMemoria[1]
        /\ Len(aMemoria') = n - 1 /\ DOMAIN aMemoria' = 1..(n - 1)
        /\ \A k \in 1..(n - 1) : aMemoria'[k] = aMemoria[k + 1]
    BY <1>t, <2>1, PedidosAtendidos
  <2> HIDE DEF n
  <2>3. ASSUME NEW k \in DOMAIN aMemoria'
        PROVE  /\ k \in Int /\ k + 1 \in DOMAIN aMemoria /\ k + 1 # 1 /\ 1 \in DOMAIN aMemoria
               /\ aMemoria'[k] = aMemoria[k + 1]
    BY <2>2
  <2>4. 1 \in DOMAIN aMemoria
    BY <2>2
  <2>5. deMemoria = <<>> /\ (fase # "espera" => aMemoria[1].op # "FETCH")
    <3>1. fase \in {"libre", "fetch", "espera"}
      BY <1>t DEF ContextoTypeOK
    <3> QED  BY <1>t, <2>1, <2>4, <3>1 DEF PedidosBuenos, Pide
  <2>6. ASSUME NEW j \in DOMAIN aMemoria', NEW k \in DOMAIN aMemoria',
               aMemoria'[j].op = "PROCESO", aMemoria'[k].op = "PROCESO"
        PROVE  j = k
    <3>1. j + 1 = k + 1
      BY <1>t, <2>3, <2>6 DEF PedidosBuenos, Pide
    <3> QED  BY <2>3, <3>1
  <2>7. \A k \in DOMAIN aMemoria' : aMemoria'[k].op = "PROCESO" => aMemoria'[k].arg = pcb'.pid
    BY <1>t, <2>1, <2>3 DEF PedidosBuenos, Pide
  <2>8. fase = "espera" =>
          \A k \in DOMAIN aMemoria' : aMemoria'[k].op = "FETCH" => k = Len(aMemoria')
    <3> SUFFICES ASSUME fase = "espera", NEW k \in DOMAIN aMemoria', aMemoria'[k].op = "FETCH"
                 PROVE  k = n - 1
      BY <2>2
    <3>1. k + 1 = Len(aMemoria)
      BY <1>t, <2>3 DEF PedidosBuenos, Pide
    <3> QED  BY <2>2, <2>3, <3>1 DEF n
  <2>9. CASE aMemoria[1].op = "PROCESO"
    <3>1. fase # "libre" /\ proceso' = pcb.pid /\ proceso' \in cargados /\ UNCHANGED deMemoria
      BY <1>p, <1>t, <2>1, <2>2, <2>4, <2>9 DEF PedidosBuenos, Pide
    <3>2. fase = "fetch" => \A k \in DOMAIN aMemoria' : aMemoria'[k].op # "FETCH"
      BY <1>t, <2>3 DEF PedidosBuenos, Pide
    <3> QED  BY <2>1, <2>5, <2>6, <2>7, <2>8, <3>1, <3>2 DEF PedidosBuenos, Pide
  <2>10. CASE aMemoria[1].op = "FETCH"
    <3>1. fase = "espera" /\ n = 1
      BY <1>t, <2>4, <2>5, <2>10 DEF PedidosBuenos, Pide, n
    <3>2. DOMAIN aMemoria' = {} /\ aMemoria' = <<>>
      <4>1. aMemoria' \in Seq(Pedidos) /\ Len(aMemoria') = 0
        BY <1>t, <2>1, <2>2, <3>1, Cola DEF ContextoTypeOK
      <4>2. aMemoria' = <<>>
        BY <4>1, NoVacia
      <4> QED  BY <4>2
    <3>3. proceso' = proceso /\ proceso = pcb.pid
      <4>1. \A k \in DOMAIN aMemoria : k = 1
        BY <2>2, <3>1
      <4> QED  BY <1>t, <2>1, <2>2, <2>10, <3>1, <4>1 DEF PedidosBuenos, Pide
    <3>4. Len(deMemoria') < 2
      <4>1. CASE UNCHANGED deMemoria
        BY <2>5, <4>1
      <4>2. ASSUME NEW x, deMemoria' = Append(deMemoria, x) PROVE Len(deMemoria') < 2
        BY <2>5, <4>2
      <4> QED  BY <2>1, <2>2, <2>10, <4>1, <4>2
    <3> QED  BY <2>1, <3>1, <3>2, <3>3, <3>4 DEF PedidosBuenos, Pide
  <2>11. CASE aMemoria[1].op \notin {"PROCESO", "FETCH"}
    <3>1. UNCHANGED <<proceso, deMemoria>>
      BY <2>1, <2>2, <2>11
    <3>2. (\A k \in DOMAIN aMemoria' : aMemoria'[k].op # "PROCESO") =>
            \A k \in DOMAIN aMemoria : aMemoria[k].op # "PROCESO"
      <4> SUFFICES ASSUME \A k \in DOMAIN aMemoria' : aMemoria'[k].op # "PROCESO",
                          NEW k \in DOMAIN aMemoria
                   PROVE  aMemoria[k].op # "PROCESO"
        OBVIOUS
      <4>1. CASE k = 1
        BY <2>11, <4>1
      <4>2. CASE k # 1
        <5>1. k - 1 \in 1..(n - 1) /\ (k - 1) + 1 = k
          BY <2>2, <4>2
        <5> QED  BY <2>2, <5>1
      <4> QED  BY <4>1, <4>2
    <3>3. ASSUME NEW k \in DOMAIN aMemoria', \A j \in 1..k : aMemoria'[j].op # "PROCESO"
          PROVE  proceso \in cargados
      <4>1. ASSUME NEW j \in 1..1 PROVE aMemoria[j].op # "PROCESO"
        BY <2>11, <4>1
      <4> QED  BY <1>t, <2>4, <4>1 DEF PedidosBuenos, Pide
    <3>4. /\ fase \in {"libre", "fetch"} => \A k \in DOMAIN aMemoria' : aMemoria'[k].op # "FETCH"
          /\ fase = "libre" => \A k \in DOMAIN aMemoria' : aMemoria'[k].op # "PROCESO"
      BY <1>t, <2>3 DEF PedidosBuenos, Pide
    <3>5. fase # "libre" /\ (\A k \in DOMAIN aMemoria' : aMemoria'[k].op # "PROCESO") =>
            proceso = pcb.pid
      BY <1>t, <3>2 DEF PedidosBuenos, Pide
    <3> QED  BY <2>1, <2>5, <2>6, <2>7, <2>8, <3>1, <3>3, <3>4, <3>5 DEF PedidosBuenos, Pide
  <2> QED  BY <2>9, <2>10, <2>11
<1> QED
  BY <1>2, <1>3, <1>4, <1>5, <1>6, <1>7, <1>8 DEF ContextoNext

\* A request that the CPU's thread serves is about a struct that is there.
LEMMA MemoriaPaso ==
  ASSUME IInv, ContextoNext
  PROVE  MemoriaEnPie'
<1> USE DEF MemoriaEnPie
<1>1. CASE AtenderCpu
  <2>1. ASSUME aMemoria[1].op # "PROCESO" PROVE proceso \in cargados
    <3>1. 1 \in DOMAIN aMemoria
      BY <1>1, NoVacia DEF AtenderCpu, IInv, ContextoTypeOK
    <3>2. ASSUME NEW j \in 1..1 PROVE aMemoria[j].op # "PROCESO"
      BY <2>1, <3>2
    <3> QED  BY <3>1, <3>2 DEF IInv, PedidosBuenos, Pide
  <2>2. Head(aMemoria) = aMemoria[1]
    BY <1>1, Cola DEF AtenderCpu, IInv, ContextoTypeOK
  <2> QED  BY <1>1, <2>1, <2>2 DEF AtenderCpu, Usable, IInv
<1>2. CASE LiberarProceso
  BY <1>2, LiberaFinalizado DEF LiberarProceso
<1>3. CASE RecibirDespacho \/ Fetch \/ Ejecutar \/ RecibirProceso \/ IgnorarPid
  BY <1>3 DEF RecibirDespacho, Fetch, Ejecutar, RecibirProceso, IgnorarPid, memVars, IInv
<1>4. ASSUME NEW p \in Procesos, CrearProceso(p) \/ Finalizar(p) \/ Kernel_(p)
      PROVE  caida' # "liberado"
  BY <1>4 DEF CrearProceso, Finalizar, Kernel_, EnviarRuta, EnviarPid, RecibirPuntero,
              Despachar, RecibirPcb, Desbloquear, VenceTimer, EnviarFinalizacion, memVars, IInv
<1> QED  BY <1>1, <1>2, <1>3, <1>4 DEF ContextoNext

LEMMA IInvInit == ContextoInit => IInv
<1> SUFFICES ASSUME ContextoInit PROVE IInv
  OBVIOUS
<1>1. ContextoTypeOK
  BY TiposInit
<1>2. /\ \A p \in Procesos : estado[p] = "SIN_CREAR"
      /\ despacho = <<>> /\ vueltas = <<>> /\ aMemoria = <<>> /\ deMemoria = <<>>
      /\ conexion = <<>> /\ punteros = <<>> /\ fase = "libre" /\ caida = "no"
  BY DEF ContextoInit
<1>3. /\ DOMAIN conexion = {} /\ DOMAIN aMemoria = {}
      /\ Len(punteros) = 0 /\ Len(despacho) = 0 /\ Len(vueltas) = 0 /\ Len(deMemoria) = 0
  BY <1>2
<1>4. Unicos /\ PunterosBuenos
  BY <1>2 DEF Unicos, PunterosBuenos, Cargandose, Cargado
<1>5. ConexionBuena /\ ContextoBueno
  BY <1>2, <1>3 DEF ConexionBuena, ContextoBueno
<1>6. PedidosBuenos /\ MemoriaEnPie
  BY <1>2, <1>3 DEF PedidosBuenos, MemoriaEnPie
<1> QED  BY <1>1, <1>4, <1>5, <1>6 DEF IInv

LEMMA IInvPaso ==
  ASSUME "sirve_antes" \in Cuidados, "mata_cargado" \in Cuidados,
         IInv, [ContextoNext]_contextoVars
  PROVE  IInv'
<1>1. CASE ContextoNext
  <2>1. ContextoTypeOK'
    BY TiposPaso DEF IInv
  <2> QED
    BY <1>1, <2>1, UnicosPaso, PunterosPaso, ConexionPaso, ContextoPaso, PedidosPaso,
       MemoriaPaso DEF IInv
<1>2. CASE UNCHANGED contextoVars
  BY <1>2 DEF contextoVars, kernelVars, pedidosVars, cpuVars, cargaVars, memVars, IInv,
       ContextoTypeOK, Unicos, PunterosBuenos, ConexionBuena, ContextoBueno, PedidosBuenos,
       MemoriaEnPie, Cargandose, Cargado, Pide
<1> QED  BY <1>1, <1>2

\* If no NEW process is killed and the CPU's thread has served what a process asked for
\* before it is freed, memory never uses a freed struct, whatever the processes, their
\* programs and the order in which they are loaded, killed, dispatched and released.
THEOREM MemoriaNoUsaLiberados ==
  ASSUME "sirve_antes" \in Cuidados, "mata_cargado" \in Cuidados
  PROVE  ContextoSpec => []MemoriaEnPie
<1>1. IInv => MemoriaEnPie
  BY DEF IInv
<1>2. IInv /\ [ContextoNext]_contextoVars => IInv'
  BY IInvPaso
<1> QED  BY <1>1, <1>2, IInvInit, PTL DEF ContextoSpec

-----------------------------------------------------------------------------
(***************************************************************************)
(* Contexto implements Maquina.                                            *)
(***************************************************************************)

\* No instruction of any program is a SUB, which the CPU executes as a sum.
SinRestas == \A p \in Procesos : \A k \in DOMAIN Programa[p] : Programa[p][k].op # "SUB"

\* The registers dispatched are those the kernel has; what the CPU asks for, and what
\* memory answers, is the instruction its PC points to.
CopiasIguales ==
  /\ despacho # <<>> => despacho[1].registros = pcbs[despacho[1].pid].registros
  /\ \A k \in DOMAIN aMemoria : Pide(k, "FETCH") => aMemoria[k].arg = pcb.registros["PC"]
  /\ deMemoria # <<>> =>
       /\ pcb.registros["PC"] + 1 \in DOMAIN Programa[pcb.pid]
       /\ deMemoria[1] = Programa[pcb.pid][pcb.registros["PC"] + 1]

\* The context of p that has come back, if there is one.
Vuelto(p) == vueltas # <<>> /\ vueltas[1].pcb.pid = p

\* RegistrosDe and VidaDe, when at most one context is on its way back.
RegistrosAqui(p) ==
  IF fase # "libre" /\ pcb.pid = p THEN pcb.registros
  ELSE IF Vuelto(p) THEN vueltas[1].pcb.registros
  ELSE pcbs[p].registros

VidaAqui(p) ==
  IF estado[p] \in {"SIN_CREAR", "NEW", "RUTA", "CARGA"} THEN "nuevo"
  ELSE IF estado[p] \in {"EXIT", "FINISHED"} \/ (Vuelto(p) /\ vueltas[1].motivo \in Finales)
  THEN "fin" ELSE "activo"

-----------------------------------------------------------------------------
(***************************************************************************)
(* Where the registers are                                                 *)
(***************************************************************************)
LEMMA MaxDeUno == Max({1}) = 1
BY DEF Max

Coinciden == \A p \in Procesos : RegistrosDe(p) = RegistrosAqui(p) /\ VidaDe(p) = VidaAqui(p)

LEMMA Aqui == IInv => Coinciden
<1> SUFFICES ASSUME IInv, NEW p \in Procesos
             PROVE  RegistrosDe(p) = RegistrosAqui(p) /\ VidaDe(p) = VidaAqui(p)
  BY DEF Coinciden
<1>1. vueltas # <<>> => Len(vueltas) = 1
  <2>1. vueltas \in Seq(Vueltas) /\ Len(vueltas) < 2
    BY DEF IInv, ContextoTypeOK, ContextoBueno
  <2>2. Len(vueltas) \in Nat
    BY <2>1
  <2>3. vueltas # <<>> => Len(vueltas) > 0
    BY <2>1, NoVacia, Zenon
  <2>4. \A n \in Nat : n < 2 /\ n > 0 => n = 1
    OBVIOUS
  <2> QED  BY <2>1, <2>2, <2>3, <2>4, Zenon
<1>2. vueltas = <<>> => VueltasDe(p) = {}
  BY DEF VueltasDe
<1>3. vueltas # <<>> => VueltasDe(p) = IF vueltas[1].pcb.pid = p THEN {1} ELSE {}
  <2> SUFFICES ASSUME vueltas # <<>>
               PROVE  VueltasDe(p) = IF vueltas[1].pcb.pid = p THEN {1} ELSE {}
    OBVIOUS
  <2>1. DOMAIN vueltas = 1..Len(vueltas)
    BY DEF IInv, ContextoTypeOK
  <2>2. Len(vueltas) = 1
    BY <1>1
  <2> QED  BY <2>1, <2>2 DEF VueltasDe
<1>4. RegistrosDe(p) = RegistrosAqui(p)
  BY <1>2, <1>3, MaxDeUno DEF RegistrosDe, RegistrosAqui, Vuelto
<1>5. VidaDe(p) = VidaAqui(p)
  <2>1. (\E k \in VueltasDe(p) : vueltas[k].motivo \in Finales)
          <=> Vuelto(p) /\ vueltas[1].motivo \in Finales
    BY <1>2, <1>3 DEF Vuelto
  <2>2. CASE Vuelto(p) /\ vueltas[1].motivo \in Finales
    BY <2>1, <2>2, Zenon DEF VidaDe, VidaAqui
  <2>3. CASE ~(Vuelto(p) /\ vueltas[1].motivo \in Finales)
    BY <2>1, <2>3, Zenon DEF VidaDe, VidaAqui
  <2> QED  BY <2>2, <2>3
<1> QED  BY <1>4, <1>5

LEMMA AquiDespues == IInv' => Coinciden'
BY Aqui, PTL

-----------------------------------------------------------------------------
(***************************************************************************)
(* The arithmetic of the registers                                         *)
(***************************************************************************)
LEMMA RestoUnico ==
  ASSUME NEW M \in Nat \ {0}, NEW q \in Int, NEW x \in Int, 0 <= x, x < M
  PROVE  (M * q + x) % M = x
OBVIOUS

LEMMA RestoPropio ==
  ASSUME NEW M \in Nat \ {0}, NEW x \in Nat, x < M
  PROVE  x % M = x
OBVIOUS

\* Cutting before the increment of PC or after is the same.
LEMMA RestoSiguiente ==
  ASSUME NEW M \in Nat \ {0}, NEW a \in Int
  PROVE  ((a % M) + 1) % M = (a + 1) % M
<1> DEFINE q == a \div M
           x == a % M
<1>1. a = M * q + x /\ q \in Int /\ x \in Nat /\ 0 <= x /\ x < M
  OBVIOUS
<1> HIDE DEF q, x
<1>2. CASE x + 1 < M
  <2>1. (a + 1) % M = x + 1
    <3>1. a + 1 = M * q + (x + 1)
      BY <1>1
    <3> QED  BY <1>1, <1>2, <3>1, RestoUnico
  <2> QED  BY <1>1, <1>2, <2>1, RestoPropio DEF x
<1>3. CASE x + 1 = M
  <2>1. (a + 1) % M = 0
    <3>1. a + 1 = M * (q + 1) + 0
      BY <1>1, <1>3
    <3> QED  BY <1>1, <3>1, RestoUnico
  <2>2. (x + 1) % M = 0
    <3>1. x + 1 = M * 1 + 0
      BY <1>1, <1>3
    <3> QED  BY <3>1, RestoUnico
  <2> QED  BY <2>1, <2>2 DEF x
<1> QED  BY <1>1, <1>2, <1>3

\* A cycle that assigns valor to register r, in one go.
LEMMA AsignaYSigue ==
  ASSUME NEW R \in Contenidos, NEW d, NEW valor \in Int
  PROVE  LET E == set_registro(R, d, valor) IN
         set_registro(E, "PC", E["PC"] + 1) =
           [r \in Registros8y32 |->
             ((IF d = r THEN valor ELSE R[r]) + (IF r = "PC" THEN 1 ELSE 0)) % Modulo(r)]
<1> DEFINE E == set_registro(R, d, valor)
           F == set_registro(E, "PC", E["PC"] + 1)
           G == [r \in Registros8y32 |->
                  ((IF d = r THEN valor ELSE R[r]) + (IF r = "PC" THEN 1 ELSE 0)) % Modulo(r)]
<1>1. \A r : Modulo(r) \in Nat \ {0}
  BY RegistrosAssumption DEF Modulo
<1>2. /\ R \in [Registros8y32 -> Nat] /\ \A r \in Registros8y32 : R[r] < Modulo(r)
      /\ "PC" \in Registros8y32
  BY DEF Contenidos, Modulo, Registros8y32, De8, De32
<1>3. E \in Contenidos /\ E \in [Registros8y32 -> Nat]
  BY SetRegistroTipo DEF Contenidos
<1>4. \A r \in Registros8y32 : E[r] = IF d = r THEN valor % Modulo(r) ELSE R[r]
  BY <1>2 DEF set_registro
<1>5. F = [E EXCEPT !["PC"] = (E["PC"] + 1) % Modulo("PC")]
  BY <1>2 DEF set_registro
<1> HIDE DEF E
<1>6. \A r \in Registros8y32 : F[r] = G[r]
  <2> SUFFICES ASSUME NEW r \in Registros8y32 PROVE F[r] = G[r]
    OBVIOUS
  <2> DEFINE M == Modulo(r)
  <2>1. M \in Nat \ {0} /\ R[r] \in Nat /\ R[r] < M
    BY <1>1, <1>2
  <2>2. CASE r = "PC" /\ d = r
    <3>1. F[r] = ((valor % M) + 1) % M
      BY <1>2, <1>3, <1>4, <1>5, <2>2
    <3>2. G[r] = (valor + 1) % M
      BY <2>2
    <3> HIDE DEF M
    <3> QED  BY <2>1, <3>1, <3>2, RestoSiguiente
  <2>3. CASE r = "PC" /\ d # r
    BY <1>2, <1>3, <1>4, <1>5, <2>3
  <2>4. CASE r # "PC" /\ d = r
    <3>1. F[r] = valor % M
      BY <1>3, <1>4, <1>5, <2>4
    <3>2. G[r] = (valor + 0) % M
      BY <2>4
    <3>3. valor + 0 = valor
      OBVIOUS
    <3> QED  BY <3>1, <3>2, <3>3
  <2>5. CASE r # "PC" /\ d # r
    <3>1. F[r] = R[r]
      BY <1>3, <1>4, <1>5, <2>5
    <3>2. G[r] = (R[r] + 0) % M
      BY <2>5
    <3>3. R[r] + 0 = R[r]
      BY <2>1
    <3> HIDE DEF M
    <3> QED  BY <2>1, <3>1, <3>2, <3>3, RestoPropio
  <2> QED  BY <2>2, <2>3, <2>4, <2>5
<1>7. F \in [Registros8y32 -> Nat] /\ DOMAIN G = Registros8y32
  <2>1. (E["PC"] + 1) % Modulo("PC") \in Nat
    BY <1>1, <1>2, <1>3
  <2> QED  BY <1>3, <1>5, <2>1
<1>8. F = G
  BY <1>6, <1>7
<1> QED  BY <1>8 DEF E

\* The registers after instruction i, as Maquina has them.
Asignados(R, i, r) ==
  IF i.destino # r THEN R[r]
  ELSE CASE i.op = "SET" -> i.n
         [] i.op = "SUM" -> R[r] + get_registro(R, i.origen)
         [] i.op = "SUB" -> R[r] - get_registro(R, i.origen)
         [] OTHER -> R[r]

Salida(R, i) == [r \in Registros8y32 |->
  (IF i.op = "JNZ" /\ get_registro(R, i.destino) # 0 /\ r = "PC" THEN i.n
   ELSE Asignados(R, i, r) + (IF r = "PC" THEN 1 ELSE 0)) % Modulo(r)]

LEMMA SinAsignar ==
  ASSUME NEW R \in Contenidos
  PROVE  set_registro(R, "ninguno", 0) = R
BY DEF set_registro, Registros8y32, De8, De32

\* The code's cycle does what Maquina says, except for SUB.
LEMMA CicloSalida ==
  ASSUME NEW R \in Contenidos, NEW i \in Instrucciones, i.op # "SUB"
  PROVE  Ciclo(R, i) = Salida(R, i)
<1> DEFINE Sigue(d, v) ==
             [r \in Registros8y32 |->
               ((IF d = r THEN v ELSE R[r]) + (IF r = "PC" THEN 1 ELSE 0)) % Modulo(r)]
           Fin(E) == set_registro(E, "PC", E["PC"] + 1)
<1>1. \A d : \A v \in Int : Fin(set_registro(R, d, v)) = Sigue(d, v)
  BY AsignaYSigue
<1>2. /\ i.n \in Int /\ get_registro(R, i.origen) \in Int
      /\ R \in [Registros8y32 -> Nat] /\ "PC" \in Registros8y32
  BY GetRegistroTipo DEF Instrucciones, Contenidos, Registros8y32, De32
<1>3. Ciclo(R, i) = Fin(execute(R, i))
  BY DEF Ciclo
<1> HIDE DEF Fin
<1>4. CASE i.op = "SET"
  <2>1. execute(R, i) = set_registro(R, i.destino, i.n)
    BY <1>4 DEF execute, exe_SET
  <2>2. Ciclo(R, i) = Sigue(i.destino, i.n)
    BY <1>1, <1>2, <1>3, <2>1
  <2>3. Salida(R, i) = Sigue(i.destino, i.n)
    BY <1>4 DEF Salida, Asignados
  <2> QED  BY <2>2, <2>3
<1>5. CASE i.op = "SUM"
  <2> DEFINE v == get_registro(R, i.destino) + get_registro(R, i.origen)
  <2>1. execute(R, i) = set_registro(R, i.destino, v)
    BY <1>5 DEF execute, exe_SUM
  <2>2. v \in Int
    BY GetRegistroTipo
  <2>3. \A r \in Registros8y32 : i.destino = r => v = R[r] + get_registro(R, i.origen)
    BY DEF get_registro
  <2> HIDE DEF v
  <2>4. Ciclo(R, i) = Sigue(i.destino, v)
    BY <1>1, <1>3, <2>1, <2>2
  <2>5. Salida(R, i) = Sigue(i.destino, v)
    BY <1>5, <2>3 DEF Salida, Asignados
  <2> QED  BY <2>4, <2>5
<1>6. CASE i.op = "JNZ" /\ get_registro(R, i.destino) # 0
  <2>1. execute(R, i) = set_registro(R, "PC", i.n - 1)
    BY <1>6 DEF execute, exe_JNZ
  <2>2. Ciclo(R, i) = Sigue("PC", i.n - 1)
    BY <1>1, <1>2, <1>3, <2>1
  <2>3. (i.n - 1) + 1 = i.n
    BY <1>2
  <2>4. Salida(R, i) = Sigue("PC", i.n - 1)
    BY <1>6, <2>3 DEF Salida, Asignados
  <2> QED  BY <2>2, <2>4
<1>7. CASE i.op \notin {"SET", "SUM", "JNZ"} \/ (i.op = "JNZ" /\ get_registro(R, i.destino) = 0)
  <2>1. execute(R, i) = set_registro(R, "ninguno", 0)
    BY <1>7, SinAsignar DEF execute, exe_JNZ
  <2>2. Ciclo(R, i) = Sigue("ninguno", 0)
    BY <1>1, <1>3, <2>1
  <2>3. \A r \in Registros8y32 : r # "ninguno" /\ Asignados(R, i, r) = R[r]
    BY <1>7 DEF Asignados, Registros8y32, De8, De32
  <2>4. Salida(R, i) = Sigue("ninguno", 0)
    BY <1>7, <2>3 DEF Salida
  <2> QED  BY <2>2, <2>4
<1> QED  BY <1>4, <1>5, <1>6, <1>7

LEMMA ResultadoSalida ==
  ASSUME NEW p \in Procesos, NEW i \in Instrucciones, RegistrosDe(p) \in Contenidos
  PROVE  Propia!Resultado(p, i) = Salida(RegistrosDe(p), i)
<1> DEFINE R == RegistrosDe(p)
           anchos == [r \in Registros8y32 |-> Modulo(r)]
<1>1. \A r : Propia!Valor(p, r) = get_registro(R, r)
  BY DEF Propia!Valor, get_registro
<1>2. \A r \in Registros8y32 : get_registro(R, r) = R[r] /\ anchos[r] = Modulo(r)
  BY DEF get_registro
<1>3. \A r \in Registros8y32 : Propia!Asignado(p, i, r) = Asignados(R, i, r)
  <2> SUFFICES ASSUME NEW r \in Registros8y32
               PROVE  Propia!Asignado(p, i, r) = Asignados(R, i, r)
    OBVIOUS
  <2> HIDE DEF R
  <2>1. CASE i.destino # r
    BY <1>1, <1>2, <2>1 DEF Propia!Asignado, Asignados
  <2>2. CASE i.destino = r
    BY <1>1, <1>2, <2>2 DEF Propia!Asignado, Asignados
  <2> QED  BY <2>1, <2>2
<1> HIDE DEF R
<1>4. Propia!Resultado(p, i) = [r \in Registros8y32 |->
        (IF i.op = "JNZ" /\ Propia!Valor(p, i.destino) # 0 /\ r = "PC" THEN i.n
         ELSE Propia!Asignado(p, i, r) + (IF r = "PC" THEN 1 ELSE 0)) % Modulo(r)]
  BY <1>2 DEF Propia!Resultado
<1>5. Propia!Resultado(p, i) = Salida(R, i)
  BY <1>1, <1>3, <1>4 DEF Salida
<1> QED  BY <1>5 DEF R

-----------------------------------------------------------------------------
(***************************************************************************)
(* The copies agree                                                        *)
(***************************************************************************)
LEMMA CopiasInit == ContextoInit => CopiasIguales
BY DEF ContextoInit, CopiasIguales

\* What memory answers is the instruction that was asked for.
LEMMA CopiasAtender ==
  ASSUME IInv, CopiasIguales, AtenderCpu
  PROVE  CopiasIguales'
<1> USE DEF Pide
<1>1. /\ Head(aMemoria) = aMemoria[1] /\ 1 \in DOMAIN aMemoria
      /\ aMemoria' = Tail(aMemoria) /\ UNCHANGED <<despacho, pcbs, pcb, fase>>
  BY Cola, NoVacia DEF AtenderCpu, IInv, ContextoTypeOK, kernelVars, cpuVars
<1>2. \A k \in DOMAIN aMemoria' : k + 1 \in DOMAIN aMemoria /\ aMemoria'[k] = aMemoria[k + 1]
  BY <1>1, PedidosAtendidos DEF IInv, ContextoTypeOK
<1>3. \A k \in DOMAIN aMemoria' : aMemoria'[k].op = "FETCH" =>
        aMemoria'[k].arg = pcb'.registros["PC"]
  BY <1>1, <1>2 DEF CopiasIguales
<1>4. CASE UNCHANGED deMemoria
  BY <1>1, <1>3, <1>4 DEF CopiasIguales
<1>5. CASE ~ UNCHANGED deMemoria
  <2>1. /\ aMemoria[1].op = "FETCH"
        /\ aMemoria[1].arg + 1 \in DOMAIN Programa[proceso]
        /\ deMemoria' = Append(deMemoria, Programa[proceso][aMemoria[1].arg + 1])
    BY <1>1, <1>5 DEF AtenderCpu
  <2>2. fase = "espera" /\ deMemoria = <<>> /\ proceso = pcb.pid
    BY <1>1, <2>1 DEF IInv, ContextoTypeOK, PedidosBuenos
  <2>3. aMemoria[1].arg = pcb.registros["PC"]
    BY <1>1, <2>1 DEF CopiasIguales
  <2>4. deMemoria'[1] = Programa[proceso][aMemoria[1].arg + 1]
    BY <2>1, <2>2
  <2> QED  BY <1>1, <1>3, <2>1, <2>2, <2>3, <2>4 DEF CopiasIguales
<1> QED  BY <1>4, <1>5

\* The context that is on the CPU is the one of its last dispatch, and the requests of
\* the cycle that ends were served.
LEMMA CopiasCpu ==
  ASSUME IInv, CopiasIguales, RecibirDespacho \/ Fetch \/ Ejecutar
  PROVE  CopiasIguales'
<1> USE DEF Pide
<1>1. CASE RecibirDespacho
  <2>1. despacho' = <<>>
    <3>1. Len(despacho) < 2 /\ despacho # <<>> /\ despacho' = Tail(despacho)
      BY <1>1 DEF RecibirDespacho, IInv, ContextoBueno
    <3>2. Tail(despacho) \in Seq(Pcbs) /\ Len(Tail(despacho)) = Len(despacho) - 1
          /\ Len(despacho) \in Nat
      BY <3>1, Cola DEF IInv, ContextoTypeOK
    <3> QED  BY <3>1, <3>2, NoVacia
  <2>2. deMemoria' = <<>> /\ \A k \in DOMAIN aMemoria : aMemoria[k].op # "FETCH"
    BY <1>1 DEF RecibirDespacho, IInv, PedidosBuenos
  <2>3. \A k \in DOMAIN aMemoria' : aMemoria'[k].op # "FETCH"
    <3> DEFINE m == Pedido("PROCESO", Head(despacho).instrucciones)
    <3>1. aMemoria' = Append(aMemoria, m) /\ m.op = "PROCESO"
      BY <1>1 DEF RecibirDespacho, Pedido
    <3>2. m \in Pedidos
      <4>1. Head(despacho) \in Pcbs
        BY <1>1, Cola DEF RecibirDespacho, IInv, ContextoTypeOK
      <4> QED  BY <4>1 DEF Pcbs, Pedido, Pedidos
    <3> HIDE DEF m
    <3> QED  BY <2>2, <3>1, <3>2, PedidosEnviados DEF IInv
  <2> QED  BY <2>1, <2>2, <2>3 DEF CopiasIguales
<1>2. CASE Fetch
  <2> DEFINE m == Pedido("FETCH", pcb.registros["PC"])
  <2>1. /\ aMemoria' = Append(aMemoria, m) /\ m.arg = pcb.registros["PC"]
        /\ UNCHANGED <<despacho, pcbs, pcb>> /\ deMemoria' = <<>>
        /\ \A k \in DOMAIN aMemoria : aMemoria[k].op # "FETCH"
    BY <1>2 DEF Fetch, Pedido, IInv, PedidosBuenos, kernelVars
  <2>2. m \in Pedidos
    <3>1. pcb.registros \in [Registros8y32 -> Nat] /\ "PC" \in Registros8y32
      BY DEF IInv, ContextoTypeOK, Pcbs, Contenidos, Registros8y32, De32
    <3>2. pcb.registros["PC"] \in Int
      BY <3>1
    <3> QED  BY <3>2 DEF Pedido, Pedidos
  <2> HIDE DEF m
  <2>3. \A k \in DOMAIN aMemoria' : aMemoria'[k].op = "FETCH" =>
          aMemoria'[k].arg = pcb.registros["PC"]
    BY <2>1, <2>2, PedidosEnviados DEF IInv
  <2> QED  BY <2>1, <2>3 DEF CopiasIguales
<1>3. CASE Ejecutar
  <2>1. despacho = <<>> /\ despacho' = <<>>
    BY <1>3 DEF Ejecutar, IInv, ContextoBueno
  <2>2. deMemoria' = <<>> /\ aMemoria = <<>>
    <3>1. deMemoria # <<>> /\ deMemoria' = Tail(deMemoria) /\ fase = "espera"
      BY <1>3 DEF Ejecutar
    <3>2. aMemoria = <<>> /\ Len(deMemoria) < 2
      BY <3>1 DEF IInv, PedidosBuenos
    <3>3. /\ Tail(deMemoria) \in Seq(Instrucciones) /\ Len(deMemoria) \in Nat
          /\ Len(Tail(deMemoria)) = Len(deMemoria) - 1
      BY <3>1, Cola DEF IInv, ContextoTypeOK
    <3> QED  BY <3>1, <3>2, <3>3, NoVacia
  <2>3. \A k \in DOMAIN aMemoria' : aMemoria'[k].op # "FETCH"
    <3> DEFINE i == Head(deMemoria)
    <3>1. \/ aMemoria' = <<>>
          \/ i.op = "MENOS_PAGINA" /\ aMemoria' = Append(<<>>, Pedido(i.op, i.n))
      BY <1>3, <2>2 DEF Ejecutar
    <3> HIDE DEF i
    <3> QED  BY <3>1 DEF Pedido
  <2> QED  BY <2>1, <2>2, <2>3 DEF CopiasIguales
<1> QED  BY <1>1, <1>2, <1>3

\* The registers are dispatched as the kernel has them.
LEMMA CopiasKernel ==
  ASSUME IInv, CopiasIguales, "mata_cargado" \in Cuidados,
         NEW p \in Procesos, CrearProceso(p) \/ Finalizar(p) \/ Kernel_(p)
  PROVE  CopiasIguales'
<1> USE DEF Pide
<1>1. UNCHANGED <<aMemoria, deMemoria, pcb>>
  BY DEF CrearProceso, Finalizar, Kernel_, EnviarRuta, EnviarPid, RecibirPuntero, Despachar,
         RecibirPcb, Desbloquear, VenceTimer, EnviarFinalizacion, pedidosVars, cpuVars
<1>2. despacho' # <<>> => despacho'[1].registros = pcbs'[despacho'[1].pid].registros
  <2>1. CASE Despachar(p)
    <3>1. despacho = <<>> /\ UNCHANGED pcbs
      BY <2>1 DEF Despachar, IInv, ContextoBueno
    <3>2. despacho'[1] = [pid |-> p, registros |-> pcbs[p].registros,
                          instrucciones |-> pcbs[p].instrucciones]
      BY <2>1, <3>1 DEF Despachar
    <3> QED  BY <3>1, <3>2
  <2>2. CASE RecibirPcb(p)
    BY <2>2 DEF RecibirPcb, IInv, ContextoBueno
  <2>3. CASE RecibirPuntero(p)
    <3>1. pcbs' = [pcbs EXCEPT ![p].instrucciones = Head(punteros)] /\ UNCHANGED despacho
      BY <2>3 DEF RecibirPuntero
    <3>2. despacho # <<>> => despacho[1].pid \in Procesos
      BY DEF IInv, ContextoBueno
    <3>3. pcbs \in [Procesos -> Guardados]
      BY DEF IInv, ContextoTypeOK
    <3>4. \A q \in Procesos : pcbs'[q].registros = pcbs[q].registros
      BY <3>1, <3>3 DEF Guardados
    <3> QED  BY <3>1, <3>2, <3>4 DEF CopiasIguales
  <2>4. CASE Finalizar(p)
    <3>1. UNCHANGED <<pcbs, despacho>>
      BY <2>4, FinalizarEfecto DEF Finalizar, kernelVars, IInv
    <3> QED  BY <3>1 DEF CopiasIguales
  <2>5. CASE CrearProceso(p) \/ EnviarRuta(p) \/ EnviarPid(p) \/ Desbloquear(p)
             \/ VenceTimer(p) \/ EnviarFinalizacion(p)
    <3>1. UNCHANGED <<pcbs, despacho>>
      BY <2>5 DEF CrearProceso, EnviarRuta, EnviarPid, Desbloquear, VenceTimer,
                  EnviarFinalizacion, kernelVars
    <3> QED  BY <3>1 DEF CopiasIguales
  <2> QED  BY <2>1, <2>2, <2>3, <2>4, <2>5 DEF Kernel_
<1> QED  BY <1>1, <1>2 DEF CopiasIguales

LEMMA CopiasPaso ==
  ASSUME IInv, CopiasIguales, "mata_cargado" \in Cuidados, [ContextoNext]_contextoVars
  PROVE  CopiasIguales'
<1>1. CASE RecibirProceso \/ IgnorarPid \/ LiberarProceso \/ UNCHANGED contextoVars
  <2>1. UNCHANGED <<despacho, pcbs, aMemoria, deMemoria, pcb>>
    BY <1>1 DEF RecibirProceso, IgnorarPid, LiberarProceso, contextoVars, kernelVars,
                pedidosVars, cpuVars
  <2> QED  BY <2>1 DEF CopiasIguales, Pide
<1> QED  BY <1>1, CopiasAtender, CopiasCpu, CopiasKernel DEF ContextoNext

-----------------------------------------------------------------------------
(***************************************************************************)
(* The steps                                                               *)
(***************************************************************************)
Igual(q) == RegistrosAqui(q)' = RegistrosAqui(q) /\ VidaAqui(q)' = VidaAqui(q)

LEMMA SigueIgual ==
  ASSUME Coinciden, Coinciden', \A q \in Procesos : Igual(q)
  PROVE  UNCHANGED Propia!maquinaVars
BY DEF Coinciden, Igual, Propia!maquinaVars

LEMMA CambiaUno ==
  ASSUME Coinciden, Coinciden', NEW p \in Procesos, \A q \in Procesos \ {p} : Igual(q)
  PROVE  /\ [q \in Procesos |-> VidaDe(q)]'
              = [[q \in Procesos |-> VidaDe(q)] EXCEPT ![p] = VidaAqui(p)']
         /\ [q \in Procesos |-> RegistrosDe(q)]'
              = [[q \in Procesos |-> RegistrosDe(q)] EXCEPT ![p] = RegistrosAqui(p)']
BY DEF Coinciden, Igual

LEMMA VidaTermina ==
  ASSUME Coinciden, Coinciden', NEW p \in Procesos, \A q \in Procesos \ {p} : Igual(q),
         RegistrosAqui(p)' = RegistrosAqui(p), VidaAqui(p) # "fin", VidaAqui(p)' = "fin"
  PROVE  Propia!Terminar(p)
<1>1. VidaDe(p) # "fin" /\ RegistrosDe(p) = RegistrosAqui(p)
  BY DEF Coinciden
<1> QED  BY <1>1, CambiaUno DEF Propia!Terminar

LEMMA VidaEmpieza ==
  ASSUME Coinciden, Coinciden', NEW p \in Procesos, \A q \in Procesos \ {p} : Igual(q),
         RegistrosAqui(p)' = RegistrosAqui(p), VidaAqui(p) = "nuevo", VidaAqui(p)' = "activo"
  PROVE  Propia!Cargar(p)
<1>1. VidaDe(p) = "nuevo" /\ RegistrosDe(p) = RegistrosAqui(p)
  BY DEF Coinciden
<1> QED  BY <1>1, CambiaUno DEF Propia!Cargar

\* A context on its way back is the one of the process that runs.
LEMMA VueltoCorre ==
  ASSUME IInv, NEW q \in Procesos, Vuelto(q)
  PROVE  estado[q] = "RUNNING" /\ fase = "libre"
BY DEF IInv, ContextoBueno, Vuelto

\* The steps of the kernel that move a process.
LEMMA MaquinaKernel ==
  ASSUME IInv, Coinciden, Coinciden', "mata_cargado" \in Cuidados, NEW p \in Procesos,
         CrearProceso(p) \/ Finalizar(p) \/ EnviarRuta(p) \/ EnviarPid(p) \/ RecibirPuntero(p)
           \/ Despachar(p) \/ Desbloquear(p) \/ VenceTimer(p) \/ EnviarFinalizacion(p)
  PROVE  [Propia!Siguiente]_Propia!maquinaVars
<1> USE DEF VidaAqui
<1>1. UNCHANGED <<vueltas, pcb, fase>> /\ \A q \in Procesos : Vuelto(q)' <=> Vuelto(q)
  BY DEF CrearProceso, Finalizar, EnviarRuta, EnviarPid, RecibirPuntero, Despachar, Desbloquear,
         VenceTimer, EnviarFinalizacion, cpuVars, Vuelto
<1>2. \A q \in Procesos : pcbs'[q].registros = pcbs[q].registros
  <2>1. CASE RecibirPuntero(p)
    <3>1. pcbs' = [pcbs EXCEPT ![p].instrucciones = Head(punteros)]
      BY <2>1 DEF RecibirPuntero
    <3>2. pcbs \in [Procesos -> Guardados]
      BY DEF IInv, ContextoTypeOK
    <3> QED  BY <3>1, <3>2 DEF Guardados
  <2>2. CASE Finalizar(p)
    <3>1. UNCHANGED pcbs
      BY <2>2, FinalizarEfecto DEF kernelVars, IInv
    <3> QED  BY <3>1
  <2>3. CASE ~RecibirPuntero(p) /\ ~Finalizar(p)
    <3>1. UNCHANGED pcbs
      BY <2>3 DEF CrearProceso, EnviarRuta, EnviarPid, Despachar, Desbloquear,
                  VenceTimer, EnviarFinalizacion, kernelVars
    <3> QED  BY <3>1
  <2> QED  BY <2>1, <2>2, <2>3
<1>3. \A q \in Procesos : RegistrosAqui(q)' = RegistrosAqui(q)
  BY <1>1, <1>2 DEF RegistrosAqui
<1>4. \A q \in Procesos : UNCHANGED estado[q] => Igual(q)
  BY <1>1, <1>3 DEF Igual
<1>5. Vuelto(p) => estado[p] = "RUNNING"
  BY VueltoCorre
<1>6. CASE Igual(p) /\ \A q \in Procesos \ {p} : UNCHANGED estado[q]
  BY <1>4, <1>6, SigueIgual
<1>7. CASE CrearProceso(p) \/ EnviarRuta(p) \/ EnviarPid(p) \/ Despachar(p) \/ Desbloquear(p)
             \/ EnviarFinalizacion(p)
  <2>1. \/ Pasar(p, "SIN_CREAR", "NEW") \/ Pasar(p, "NEW", "RUTA") \/ Pasar(p, "RUTA", "CARGA")
        \/ Pasar(p, "READY", "RUNNING") \/ Pasar(p, "BLOCKED", "READY")
        \/ Pasar(p, "EXIT", "FINISHED")
    BY <1>7 DEF CrearProceso, EnviarRuta, EnviarPid, Despachar, Desbloquear, EnviarFinalizacion
  <2>2. /\ \/ estado[p] = "SIN_CREAR" /\ estado'[p] = "NEW"
           \/ estado[p] = "NEW" /\ estado'[p] = "RUTA"
           \/ estado[p] = "RUTA" /\ estado'[p] = "CARGA"
           \/ estado[p] = "READY" /\ estado'[p] = "RUNNING"
           \/ estado[p] = "BLOCKED" /\ estado'[p] = "READY"
           \/ estado[p] = "EXIT" /\ estado'[p] = "FINISHED"
        /\ \A q \in Procesos \ {p} : UNCHANGED estado[q]
    BY <2>1 DEF Pasar, IInv, ContextoTypeOK
  <2>3. VidaAqui(p)' = VidaAqui(p)
    BY <1>1, <1>5, <2>2
  <2> QED  BY <1>3, <1>6, <2>2, <2>3 DEF Igual
<1>8. CASE VenceTimer(p)
  <2>1. UNCHANGED estado
    BY <1>8 DEF VenceTimer, kernelVars
  <2> QED  BY <1>4, <1>6, <2>1
<1>9. CASE RecibirPuntero(p)
  <2>1. /\ estado[p] = "CARGA" /\ estado'[p] \in {"EXIT", "READY"}
        /\ \A q \in Procesos \ {p} : UNCHANGED estado[q]
    BY <1>9 DEF RecibirPuntero, Pasar, IInv, ContextoTypeOK
  <2>2. VidaAqui(p) = "nuevo"
    BY <2>1
  <2>3. CASE estado'[p] = "EXIT"
    <3>1. VidaAqui(p)' = "fin"
      BY <2>3
    <3>2. Propia!Terminar(p)
      BY <1>3, <1>4, <2>1, <2>2, <3>1, VidaTermina
    <3> QED  BY <3>2 DEF Propia!Siguiente
  <2>4. CASE estado'[p] = "READY"
    <3>1. VidaAqui(p)' = "activo"
      BY <1>1, <1>5, <2>1, <2>4
    <3>2. Propia!Cargar(p)
      BY <1>3, <1>4, <2>1, <2>2, <3>1, VidaEmpieza
    <3> QED  BY <3>2 DEF Propia!Siguiente
  <2> QED  BY <2>1, <2>3, <2>4
<1>10. CASE Finalizar(p)
  <2>1. CASE UNCHANGED estado
    BY <1>4, <1>6, <2>1
  <2>2. CASE /\ estado[p] \in {"READY", "BLOCKED"} /\ estado'[p] = "EXIT"
             /\ \A q \in Procesos : q # p => estado'[q] = estado[q]
    <3>1. VidaAqui(p) # "fin" /\ VidaAqui(p)' = "fin"
      BY <1>5, <2>2
    <3>2. Propia!Terminar(p)
      BY <1>3, <1>4, <2>2, <3>1, VidaTermina
    <3> QED  BY <3>2 DEF Propia!Siguiente
  <2> QED  BY <1>10, <2>1, <2>2, FinalizarEfecto DEF kernelVars, IInv
<1> QED  BY <1>7, <1>8, <1>9, <1>10

\* The context that comes back is the one the table of PCBs gets.
LEMMA MaquinaVuelve ==
  ASSUME IInv, Coinciden, Coinciden', NEW p \in Procesos, RecibirPcb(p)
  PROVE  UNCHANGED Propia!maquinaVars
<1>1. /\ vueltas # <<>> /\ Head(vueltas) = vueltas[1] /\ vueltas[1] \in Vueltas
      /\ vueltas[1].pcb.pid = p /\ Vuelto(p)
      /\ pcbs' = [pcbs EXCEPT ![p] = pcb_deserializar(vueltas[1])]
      /\ pcbs \in [Procesos -> Guardados] /\ UNCHANGED <<pcb, fase>>
  BY Cola DEF RecibirPcb, IInv, ContextoTypeOK, Vuelto, cpuVars
<1>2. vueltas' = <<>>
  <2>1. Len(vueltas) < 2 /\ vueltas' = Tail(vueltas) /\ vueltas \in Seq(Vueltas)
    BY DEF RecibirPcb, IInv, ContextoBueno, ContextoTypeOK
  <2>2. Tail(vueltas) \in Seq(Vueltas) /\ Len(Tail(vueltas)) = Len(vueltas) - 1
        /\ Len(vueltas) \in Nat
    BY <1>1, <2>1, Cola
  <2> QED  BY <2>1, <2>2, NoVacia
<1>3. estado[p] = "RUNNING" /\ fase = "libre"
  BY <1>1, VueltoCorre
<1>4. /\ pcbs'[p].registros = vueltas[1].pcb.registros
      /\ \A q \in Procesos \ {p} : UNCHANGED pcbs[q] /\ ~Vuelto(q)
      /\ \A q \in Procesos : ~Vuelto(q)'
  BY <1>1, <1>2 DEF pcb_deserializar, Vuelto
<1>5. \A q \in Procesos : RegistrosAqui(q)' = RegistrosAqui(q)
  BY <1>1, <1>3, <1>4 DEF RegistrosAqui
<1>6. /\ \/ vueltas[1].motivo = "FIN_DE_QUANTUM" /\ estado'[p] = "READY"
         \/ vueltas[1].motivo = "IO" /\ estado'[p] = "BLOCKED"
         \/ vueltas[1].motivo \notin {"FIN_DE_QUANTUM", "IO"} /\ estado'[p] = "EXIT"
      /\ \A q \in Procesos \ {p} : UNCHANGED estado[q]
  BY <1>1 DEF RecibirPcb, Pasar, IInv, ContextoTypeOK
<1>7. vueltas[1].motivo \in Motivos
  BY <1>1 DEF Vueltas
<1>8. VidaAqui(p)' = VidaAqui(p)
  BY <1>1, <1>3, <1>4, <1>6, <1>7 DEF VidaAqui, Finales, Motivos
<1>9. \A q \in Procesos \ {p} : VidaAqui(q)' = VidaAqui(q)
  BY <1>4, <1>6 DEF VidaAqui
<1> QED  BY <1>5, <1>8, <1>9, SigueIgual DEF Igual

\* The steps of the CPU and of memory that leave every context as it was.
LEMMA MaquinaQuieta ==
  ASSUME IInv, CopiasIguales, Coinciden, Coinciden',
         RecibirDespacho \/ Fetch \/ AtenderCpu \/ RecibirProceso \/ IgnorarPid \/ LiberarProceso
           \/ UNCHANGED contextoVars
  PROVE  UNCHANGED Propia!maquinaVars
<1>1. UNCHANGED <<estado, pcbs, vueltas>> /\ \A q \in Procesos : Vuelto(q)' <=> Vuelto(q)
  BY DEF RecibirDespacho, Fetch, AtenderCpu, RecibirProceso, IgnorarPid, LiberarProceso,
         contextoVars, kernelVars, Vuelto
<1>2. \A q \in Procesos : VidaAqui(q)' = VidaAqui(q)
  BY <1>1 DEF VidaAqui
<1>3. CASE RecibirDespacho
  <2>1. /\ fase = "libre" /\ fase' = "fetch" /\ pcb' = despacho[1]
        /\ despacho[1].registros = pcbs[despacho[1].pid].registros
        /\ \A q \in Procesos : ~Vuelto(q)
    BY <1>3, Cola DEF RecibirDespacho, IInv, ContextoTypeOK, ContextoBueno, CopiasIguales, Vuelto
  <2>2. \A q \in Procesos : RegistrosAqui(q)' = RegistrosAqui(q)
    BY <1>1, <2>1 DEF RegistrosAqui
  <2> QED  BY <1>2, <2>2, SigueIgual DEF Igual
<1>4. CASE ~RecibirDespacho
  <2>1. UNCHANGED pcb /\ (fase' = "libre" <=> fase = "libre")
    BY <1>4 DEF Fetch, AtenderCpu, RecibirProceso, IgnorarPid, LiberarProceso, contextoVars, cpuVars
  <2>2. \A q \in Procesos : RegistrosAqui(q)' = RegistrosAqui(q)
    BY <1>1, <2>1 DEF RegistrosAqui
  <2> QED  BY <1>2, <2>2, SigueIgual DEF Igual
<1> QED  BY <1>3, <1>4

\* A cycle of the CPU is a step of the machine of the process that runs.
LEMMA MaquinaEjecuta ==
  ASSUME IInv, CopiasIguales, Coinciden, Coinciden', SinRestas, Ejecutar,
         NEW p \in Procesos, pcb.pid = p
  PROVE  Propia!Paso(p)
<1> DEFINE i == Head(deMemoria)
           R == pcb.registros
           seVa == SeVaTrasIntr(p, SeVaDe(i))
           despues == [pcb EXCEPT !.registros = Ciclo(R, i)]
<1>1. /\ estado[p] = "RUNNING" /\ vueltas = <<>> /\ fase = "espera"
      /\ pcb \in Pcbs /\ R \in Contenidos
  BY DEF Ejecutar, IInv, ContextoBueno, ContextoTypeOK, Pcbs
<1>2. /\ i \in Instrucciones /\ R["PC"] + 1 \in DOMAIN Programa[p]
      /\ i = Programa[p][R["PC"] + 1]
  BY Cola DEF Ejecutar, IInv, ContextoTypeOK, CopiasIguales
<1>3. i.op # "SUB"
  BY <1>1, <1>2 DEF SinRestas
<1>4. /\ pcb' = despues /\ UNCHANGED <<estado, pcbs>>
      /\ IF seVa = "SIGUE" THEN fase' = "fetch" /\ UNCHANGED vueltas
         ELSE fase' = "libre" /\ vueltas' = Append(vueltas, [pcb |-> despues, motivo |-> seVa])
  BY DEF Ejecutar, kernelVars
<1>5. despues.pid = p /\ despues.registros = Ciclo(R, i)
  BY <1>1 DEF Pcbs
<1>6. Ciclo(R, i) = Salida(R, i)
  BY <1>1, <1>2, <1>3, CicloSalida
<1>7. RegistrosAqui(p) = R /\ VidaAqui(p) = "activo"
  BY <1>1 DEF RegistrosAqui, VidaAqui, Vuelto
<1>8. RegistrosDe(p) = R /\ VidaDe(p) = "activo"
  BY <1>1, <1>7 DEF Coinciden
<1>9. Propia!Actual(p) = i
  BY <1>1, <1>2, <1>8 DEF Propia!Actual
<1>10. Propia!Resultado(p, i) = Ciclo(R, i)
  BY <1>1, <1>2, <1>6, <1>8, ResultadoSalida
<1>11. seVa \in Motivos \cup {"SIGUE"} /\
       (seVa \in {"SIGUE", "IO", "FIN_DE_QUANTUM"} => i.op \notin {"EXIT", "DESCONOCIDA"})
  BY DEF SeVaTrasIntr, SeVaDe, Motivos
<1> HIDE DEF i, R, seVa, despues
<1>12. vueltas' = <<>> \/ (vueltas' = <<[pcb |-> despues, motivo |-> seVa]>>)
  BY <1>1, <1>4
<1>13. ASSUME NEW q \in Procesos \ {p} PROVE Igual(q)
  <2>1. ~Vuelto(q) /\ ~Vuelto(q)' /\ pcb.pid # q /\ pcb'.pid # q
    BY <1>1, <1>4, <1>5, <1>12, <1>13 DEF Vuelto
  <2> QED  BY <1>4, <2>1 DEF Igual, RegistrosAqui, VidaAqui
<1>14. RegistrosAqui(p)' = Ciclo(R, i)
  <2>1. CASE seVa = "SIGUE"
    BY <1>4, <1>5, <2>1 DEF RegistrosAqui
  <2>2. CASE seVa # "SIGUE"
    <3>1. vueltas' = <<[pcb |-> despues, motivo |-> seVa]>> /\ fase' = "libre"
      BY <1>1, <1>4, <2>2
    <3> QED  BY <1>5, <3>1 DEF RegistrosAqui, Vuelto
  <2> QED  BY <2>1, <2>2
<1>15. \/ VidaAqui(p)' = "fin"
       \/ VidaAqui(p)' = "activo" /\ i.op \notin {"EXIT", "DESCONOCIDA"}
  <2>1. CASE seVa = "SIGUE"
    BY <1>1, <1>4, <1>11, <2>1 DEF VidaAqui, Vuelto
  <2>2. CASE seVa # "SIGUE"
    <3>1. vueltas' = <<[pcb |-> despues, motivo |-> seVa]>> /\ fase' = "libre"
      BY <1>1, <1>4, <2>2
    <3>2. Vuelto(p)' /\ vueltas'[1].motivo = seVa
      BY <1>5, <3>1 DEF Vuelto
    <3> QED  BY <1>1, <1>4, <1>11, <2>2, <3>2 DEF VidaAqui, Finales, Motivos
  <2> QED  BY <2>1, <2>2
<1> DEFINE vida == [q \in Procesos |-> VidaDe(q)]
           registros == [q \in Procesos |-> RegistrosDe(q)]
<1>16. vida' = [vida EXCEPT ![p] = VidaAqui(p)'] /\ registros' = [registros EXCEPT ![p] = Ciclo(R, i)]
  BY <1>1, <1>13, <1>14, CambiaUno
<1>17. /\ vida[p] = "activo"
       /\ registros' = [registros EXCEPT ![p] = Propia!Resultado(p, Propia!Actual(p))]
  BY <1>1, <1>8, <1>9, <1>10, <1>16
<1>18. CASE VidaAqui(p)' = "fin"
  <2>1. vida' = [vida EXCEPT ![p] = "fin"]
    BY <1>16, <1>18
  <2> QED  BY <1>17, <2>1 DEF Propia!Paso
<1>19. CASE VidaAqui(p)' = "activo" /\ i.op \notin {"EXIT", "DESCONOCIDA"}
  <2>1. UNCHANGED vida
    BY <1>8, <1>16, <1>19
  <2>2. Propia!Actual(p).op \notin Propia!Finales
    BY <1>9, <1>19 DEF Propia!Finales
  <2> QED  BY <1>17, <2>1, <2>2 DEF Propia!Paso
<1> QED  BY <1>15, <1>18, <1>19

-----------------------------------------------------------------------------
(***************************************************************************)
(* The refinement                                                          *)
(***************************************************************************)
LEMMA MaquinaInit == ContextoInit => Propia!Iniciar
<1> SUFFICES ASSUME ContextoInit PROVE Propia!Iniciar
  OBVIOUS
<1>1. Coinciden
  BY Aqui, IInvInit
<1>2. \A p \in Procesos : VidaAqui(p) = "nuevo" /\ RegistrosAqui(p)["PC"] = 0
  <2>1. /\ estado = [p \in Procesos |-> "SIN_CREAR"] /\ vueltas = <<>> /\ fase = "libre"
        /\ \E b : pcbs = [p \in Procesos |-> [registros |-> Vacio(b[p]), instrucciones |-> NULL]]
    BY DEF ContextoInit
  <2>2. \A b : Vacio(b)["PC"] = 0
    BY DEF Vacio, Registros8y32, De32
  <2> QED  BY <2>1, <2>2 DEF VidaAqui, RegistrosAqui, Vuelto
<1> QED  BY <1>1, <1>2 DEF Coinciden, Propia!Iniciar

LEMMA MaquinaPaso ==
  ASSUME "sirve_antes" \in Cuidados, "mata_cargado" \in Cuidados, SinRestas,
         IInv, CopiasIguales, [ContextoNext]_contextoVars
  PROVE  [Propia!Siguiente]_Propia!maquinaVars
<1>1. IInv'
  BY IInvPaso
<1>2. Coinciden /\ Coinciden'
  BY <1>1, Aqui, AquiDespues
<1>3. ASSUME NEW p \in Procesos, CrearProceso(p) \/ Finalizar(p) \/ Kernel_(p)
      PROVE  [Propia!Siguiente]_Propia!maquinaVars
  <2>1. CASE RecibirPcb(p)
    BY <1>2, <2>1, MaquinaVuelve
  <2>2. CASE ~RecibirPcb(p)
    BY <1>2, <1>3, <2>2, MaquinaKernel DEF Kernel_
  <2> QED  BY <2>1, <2>2
<1>4. CASE Ejecutar
  <2>1. PICK p \in Procesos : pcb.pid = p
    BY <1>4 DEF Ejecutar, IInv, ContextoBueno
  <2>2. Propia!Paso(p)
    BY <1>2, <1>4, <2>1, MaquinaEjecuta
  <2> QED  BY <2>2 DEF Propia!Siguiente
<1>5. CASE RecibirDespacho \/ Fetch \/ AtenderCpu \/ RecibirProceso \/ IgnorarPid
             \/ LiberarProceso \/ UNCHANGED contextoVars
  BY <1>2, <1>5, MaquinaQuieta
<1> QED  BY <1>3, <1>4, <1>5 DEF ContextoNext

\* Whatever the processes, their programs (without SUB), what malloc leaves in the
\* registers and the order of dispatches, interrupts, kills, loads and releases, every
\* process runs its own instructions, in order, on its own registers: the kernel, the
\* CPU and memory together implement one machine for each, under the same conditions
\* on the threads and the operator as MemoriaNoUsaLiberados.
THEOREM ContextoImplementaMaquina ==
  ASSUME "sirve_antes" \in Cuidados, "mata_cargado" \in Cuidados, SinRestas
  PROVE  ContextoSpec => CumpleMaquina
<1>1. ContextoInit => IInv /\ CopiasIguales /\ Propia!Iniciar
  BY IInvInit, CopiasInit, MaquinaInit
<1>2. IInv /\ CopiasIguales /\ [ContextoNext]_contextoVars => IInv' /\ CopiasIguales'
  BY IInvPaso, CopiasPaso
<1>3. IInv /\ CopiasIguales /\ [ContextoNext]_contextoVars => [Propia!Siguiente]_Propia!maquinaVars
  BY MaquinaPaso
<1> QED  BY <1>1, <1>2, <1>3, PTL DEF ContextoSpec, CumpleMaquina, Propia!Especificacion
=============================================================================
