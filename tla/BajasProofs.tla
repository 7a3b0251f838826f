---------------------------- MODULE BajasProofs ----------------------------
(***************************************************************************)
(* Theorems about killing processes (FINALIZAR_PROCESO, a failed I/O       *)
(* request, a program that ends), for every value of the constants but     *)
(* VRR: whatever the operator types, the interfaces answer and the racing  *)
(* list operations lose, a process that has ended is never given another   *)
(* state.  EnJuego are the places from where a thread takes a process to   *)
(* change its state: the proof follows who is in them.                     *)
(***************************************************************************)
EXTENDS RecursosProofs

-----------------------------------------------------------------------------
(***************************************************************************)
(* The places from where a process goes on living                          *)
(***************************************************************************)

\* What is at each, before the step...
LEMMA JuegoEn ==
  /\ EnJuegoEn(<<"cNEW", "-">>) = cNEW /\ EnJuegoEn(<<"cREADY", "-">>) = cREADY
  /\ EnJuegoEn(<<"cREADY_PLUS", "-">>) = cREADY_PLUS /\ EnJuegoEn(<<"cEXIT", "-">>) = <<>>
  /\ \A r : EnJuegoEn(<<"cBloqueados", r>>) = cBloqueados[r]
  /\ \A p : EnJuegoEn(<<"lBlocked", p>>) = <<>>
  /\ \A p : EnJuegoEn(<<"io", p>>) = Si(pcIO[p] = "despierta", p)
  /\ \A h : EnJuegoEn(<<"mano", h>>) = Si(Atiende(h), mano[h])
  /\ \A h : EnJuegoEn(<<"desbl", h>>) = Si(pc[h] = "despierta", desbl[h])
  BY DEF EnJuegoEn, En

\* ...and after it.
LEMMA JuegoEnDespues ==
  /\ EnJuegoEn(<<"cNEW", "-">>)' = cNEW' /\ EnJuegoEn(<<"cREADY", "-">>)' = cREADY'
  /\ EnJuegoEn(<<"cREADY_PLUS", "-">>)' = cREADY_PLUS' /\ EnJuegoEn(<<"cEXIT", "-">>)' = <<>>
  /\ \A r : EnJuegoEn(<<"cBloqueados", r>>)' = cBloqueados'[r]
  /\ \A p : EnJuegoEn(<<"lBlocked", p>>)' = <<>>
  /\ \A p : EnJuegoEn(<<"io", p>>)' = Si(pcIO'[p] = "despierta", p)
  /\ \A h : EnJuegoEn(<<"mano", h>>)' = Si(Atiende(h)', mano'[h])
  /\ \A h : EnJuegoEn(<<"desbl", h>>)' = Si(pc'[h] = "despierta", desbl'[h])
  BY DEF EnJuegoEn, En, Si

\* The elements of every place are processes.
LEMMA TipoJuego == ITipo => EnJuego \in [Sitios -> Seq(Pids)]
<1> SUFFICES ASSUME ITipo PROVE EnJuego \in [Sitios -> Seq(Pids)]
  OBVIOUS
<1>1. ASSUME NEW s \in Sitios PROVE EnJuegoEn(s) \in Seq(Pids)
  <2>1. CASE s \in {<<"cNEW", "-">>, <<"cREADY", "-">>, <<"cREADY_PLUS", "-">>, <<"cEXIT", "-">>}
    <3>1. /\ cNEW \in Seq(Pids) /\ cREADY \in Seq(Pids) /\ cREADY_PLUS \in Seq(Pids)
          /\ <<>> \in Seq(Pids)
      BY DEF ITipo, TypeOK, PlanificacionTypeOK, ColasTypeOK
    <3> QED  BY <2>1, <3>1, JuegoEn
  <2>2. ASSUME NEW r \in Recursos, s = <<"cBloqueados", r>> PROVE EnJuegoEn(s) \in Seq(Pids)
    BY <2>2, JuegoEn DEF ITipo, TypeOK, PlanificacionTypeOK, RecursosTypeOK
  <2>3. ASSUME NEW p \in Pids, s = <<"lBlocked", p>> \/ s = <<"io", p>>
        PROVE  EnJuegoEn(s) \in Seq(Pids)
    <3>1. Si(pcIO[p] = "despierta", p) \in Seq(Pids) /\ <<>> \in Seq(Pids)
      BY DEF Si
    <3> QED  BY <2>3, <3>1, JuegoEn
  <2>4. ASSUME NEW h \in Hilos, s = <<"mano", h>> PROVE EnJuegoEn(s) \in Seq(Pids)
    <3>1. Atiende(h) \in BOOLEAN /\ (Atiende(h) => mano[h] \in Pids)
      BY DEF ITipo, TypeOK, PlanificacionTypeOK, LocalesTypeOK, Atiende, LocalesEnUso
    <3>2. Si(Atiende(h), mano[h]) \in Seq(Pids)
      BY <3>1, TipoSi
    <3> QED  BY <2>4, <3>2, JuegoEn
  <2>5. ASSUME NEW h \in Hilos, s = <<"desbl", h>> PROVE EnJuegoEn(s) \in Seq(Pids)
    <3>1. pc[h] = "despierta" => desbl[h] \in Pids
      BY DEF ITipo, LocalesEnUso
    <3>2. Si(pc[h] = "despierta", desbl[h]) \in Seq(Pids)
      BY <3>1, TipoSi
    <3> QED  BY <2>5, <3>2, JuegoEn
  <2> QED  BY <2>1, <2>2, <2>3, <2>4, <2>5, CadaSitio
<1> QED  BY <1>1 DEF EnJuego

LEMMA TipoJuegoDespues == (ITipo => EnJuego \in [Sitios -> Seq(Pids)])'
  BY TipoJuego, PTL

\* A step leaves alone every place but those of Q.
Aparte(Q) ==
  /\ <<"cNEW", "-">> \notin Q => UNCHANGED cNEW
  /\ <<"cREADY", "-">> \notin Q => UNCHANGED cREADY
  /\ <<"cREADY_PLUS", "-">> \notin Q => UNCHANGED cREADY_PLUS
  /\ \A r \in Recursos : <<"cBloqueados", r>> \notin Q => cBloqueados'[r] = cBloqueados[r]
  /\ \A p \in Pids : <<"io", p>> \notin Q => (pcIO'[p] = "despierta" <=> pcIO[p] = "despierta")
  /\ \A h \in Hilos :
       <<"mano", h>> \notin Q =>
         (Atiende(h)' <=> Atiende(h)) /\ (Atiende(h) => mano'[h] = mano[h])
  /\ \A h \in Hilos :
       <<"desbl", h>> \notin Q =>
         /\ pc'[h] = "despierta" <=> pc[h] = "despierta"
         /\ pc[h] = "despierta" => desbl'[h] = desbl[h]

LEMMA MarcoJuego ==
  ASSUME NEW Q, Aparte(Q)
  PROVE  \A s \in Sitios \ Q : EnJuegoEn(s)' = EnJuegoEn(s)
<1> USE DEF Aparte
<1> TAKE s \in Sitios \ Q
<1>1. CASE s \in {<<"cNEW", "-">>, <<"cREADY", "-">>, <<"cREADY_PLUS", "-">>, <<"cEXIT", "-">>}
  BY <1>1, JuegoEn, JuegoEnDespues
<1>2. ASSUME NEW r \in Recursos, s = <<"cBloqueados", r>> PROVE EnJuegoEn(s)' = EnJuegoEn(s)
  BY <1>2, JuegoEn, JuegoEnDespues
<1>3. ASSUME NEW p \in Pids, s = <<"lBlocked", p>> PROVE EnJuegoEn(s)' = EnJuegoEn(s)
  BY <1>3, JuegoEn, JuegoEnDespues
<1>4. ASSUME NEW p \in Pids, s = <<"io", p>> PROVE EnJuegoEn(s)' = EnJuegoEn(s)
  BY <1>4, JuegoEn, JuegoEnDespues DEF Si
<1>5. ASSUME NEW h \in Hilos, s = <<"mano", h>> PROVE EnJuegoEn(s)' = EnJuegoEn(s)
  <2>1. (Atiende(h)' <=> Atiende(h)) /\ (Atiende(h) => mano'[h] = mano[h])
    BY <1>5
  <2>2. Si(Atiende(h)', mano'[h]) = Si(Atiende(h), mano[h])
    BY <2>1 DEF Si
  <2>3. EnJuegoEn(<<"mano", h>>)' = EnJuegoEn(<<"mano", h>>)
    BY <2>2, JuegoEn, JuegoEnDespues
  <2> QED  BY <1>5, <2>3
<1>6. ASSUME NEW h \in Hilos, s = <<"desbl", h>> PROVE EnJuegoEn(s)' = EnJuegoEn(s)
  <2>1. Si(pc'[h] = "despierta", desbl'[h]) = Si(pc[h] = "despierta", desbl[h])
    BY <1>6 DEF Si
  <2>2. EnJuegoEn(<<"desbl", h>>)' = EnJuegoEn(<<"desbl", h>>)
    BY <2>1, JuegoEn, JuegoEnDespues
  <2> QED  BY <1>6, <2>2
<1> QED  BY <1>1, <1>2, <1>3, <1>4, <1>5, <1>6, CadaSitio

-----------------------------------------------------------------------------
(***************************************************************************)
(* What a step does                                                        *)
(***************************************************************************)

\* Nobody is repeated; those of S leave or stay out, and only those of N enter.
Siguen(S, N) ==
  /\ SinRepetir(EnJuego')
  /\ \A p \in Pids : Presente(EnJuego', p) => (Presente(EnJuego, p) \/ p \in N) /\ p \notin S

LEMMA JuegoIgual ==
  ASSUME SinRepetir(EnJuego), Aparte({})
  PROVE  Siguen({}, {})
<1>1. EnJuego' = EnJuego
  BY MarcoJuego DEF EnJuego
<1> QED  BY <1>1 DEF Siguen

LEMMA JuegoMueve ==
  ASSUME ITipo, ITipo', SinRepetir(EnJuego), NEW a \in Sitios, NEW b \in Sitios, a # b,
         NEW p, EnJuegoEn(a) # <<>>, p = Head(EnJuegoEn(a)),
         EnJuegoEn(a)' = Tail(EnJuegoEn(a)), EnJuegoEn(b)' = Append(EnJuegoEn(b), p),
         Aparte({a, b})
  PROVE  Siguen({}, {})
<1>1. EnJuego \in [Sitios -> Seq(Pids)] /\ EnJuego' \in [Sitios -> Seq(Pids)]
  BY TipoJuego, TipoJuegoDespues
<1>2. \A s \in Sitios : EnJuego[s] = EnJuegoEn(s) /\ (EnJuego')[s] = EnJuegoEn(s)'
  BY DEF EnJuego
<1>3. \A s \in Sitios \ {a, b} : EnJuegoEn(s)' = EnJuegoEn(s)
  BY MarcoJuego
<1>4. /\ EnJuego[a] # <<>> /\ (EnJuego')[a] = Tail(EnJuego[a])
      /\ (EnJuego')[b] = Append(EnJuego[b], Head(EnJuego[a]))
      /\ \A s \in Sitios \ {a, b} : (EnJuego')[s] = EnJuego[s]
  BY <1>2, <1>3
<1>5. SinRepetir(EnJuego') /\ \A q \in Pids : Presente(EnJuego', q) <=> Presente(EnJuego, q)
  BY <1>1, <1>4, Mueve
<1> QED  BY <1>5 DEF Siguen

\* ...of which one may be a variable.
LEMMA JuegoDeja ==
  ASSUME ITipo, ITipo', SinRepetir(EnJuego), NEW v \in Sitios, NEW b \in Sitios, v # b, NEW p,
         EnJuegoEn(v) = <<p>>, EnJuegoEn(v)' = <<>>,
         EnJuegoEn(b)' = Append(EnJuegoEn(b), p), Aparte({v, b})
  PROVE  Siguen({}, {})
<1>1. <<p>> # <<>> /\ Head(<<p>>) = p /\ Tail(<<p>>) = <<>>
  OBVIOUS
<1>2. EnJuegoEn(v) # <<>> /\ p = Head(EnJuegoEn(v)) /\ EnJuegoEn(v)' = Tail(EnJuegoEn(v))
  BY <1>1
<1> QED  BY <1>2, JuegoMueve

LEMMA JuegoToma ==
  ASSUME ITipo, ITipo', SinRepetir(EnJuego), NEW a \in Sitios, NEW v \in Sitios, a # v, NEW p,
         EnJuegoEn(a) # <<>>, p = Head(EnJuegoEn(a)), EnJuegoEn(a)' = Tail(EnJuegoEn(a)),
         EnJuegoEn(v) = <<>>, EnJuegoEn(v)' = <<p>>, Aparte({a, v})
  PROVE  Siguen({}, {})
<1>1. EnJuegoEn(v)' = Append(EnJuegoEn(v), p)
  OBVIOUS
<1> QED  BY <1>1, JuegoMueve

\* Somebody leaves a variable.
LEMMA JuegoSale ==
  ASSUME ITipo, ITipo', SinRepetir(EnJuego), NEW v \in Sitios, NEW p,
         EnJuegoEn(v) = <<p>>, EnJuegoEn(v)' = <<>>, Aparte({v})
  PROVE  Siguen({p}, {})
<1>1. EnJuego \in [Sitios -> Seq(Pids)] /\ EnJuego' \in [Sitios -> Seq(Pids)]
  BY TipoJuego, TipoJuegoDespues
<1>2. \A s \in Sitios : EnJuego[s] = EnJuegoEn(s) /\ (EnJuego')[s] = EnJuegoEn(s)'
  BY DEF EnJuego
<1>3. \A s \in Sitios \ {v} : EnJuegoEn(s)' = EnJuegoEn(s)
  BY MarcoJuego
<1>4. /\ EnJuego[v] # <<>> /\ Head(EnJuego[v]) = p /\ (EnJuego')[v] = Tail(EnJuego[v])
      /\ \A s \in Sitios \ {v} : (EnJuego')[s] = EnJuego[s]
  <2>1. EnJuego[v] = <<p>> /\ (EnJuego')[v] = <<>>
    BY <1>2
  <2>2. <<p>> # <<>> /\ Head(<<p>>) = p /\ Tail(<<p>>) = <<>>
    OBVIOUS
  <2> QED  BY <1>2, <1>3, <2>1, <2>2
<1>5. /\ SinRepetir(EnJuego')
      /\ \A q \in Pids : Presente(EnJuego', q) <=> Presente(EnJuego, q) /\ q # Head(EnJuego[v])
  BY <1>1, <1>4, Sale
<1> QED  BY <1>4, <1>5 DEF Siguen

\* One more process at the end of a place.
LEMMA UnoMas ==
  ASSUME NEW F \in [Sitios -> Seq(Pids)], NEW G \in [Sitios -> Seq(Pids)], SinRepetir(F),
         NEW b \in Sitios, NEW x \in Pids, \A s \in Sitios : \A i \in DOMAIN F[s] : F[s][i] # x,
         G[b] = Append(F[b], x), \A s \in Sitios \ {b} : G[s] = F[s]
  PROVE  SinRepetir(G) /\ \A p \in Pids : Presente(G, p) => Presente(F, p) \/ p = x
<1>1. /\ Len(F[b]) \in Nat /\ DOMAIN F[b] = 1..Len(F[b])
      /\ DOMAIN G[b] = 1..(Len(F[b]) + 1) /\ G[b][Len(F[b]) + 1] = x
      /\ \A i \in 1..Len(F[b]) : G[b][i] = F[b][i]
  BY ElementosAgregado
<1>2. \A s \in Sitios : \A i \in DOMAIN F[s] : F[s][i] # x
  OBVIOUS
<1>3. ASSUME NEW s \in Sitios, NEW i \in DOMAIN G[s], G[s][i] # x
      PROVE  i \in DOMAIN F[s] /\ G[s][i] = F[s][i]
  <2>1. CASE s = b
    BY <1>1, <1>3, <2>1
  <2>2. CASE s # b
    BY <1>3, <2>2
  <2> QED  BY <2>1, <2>2
<1>4. ASSUME NEW s \in Sitios, NEW i \in DOMAIN G[s], G[s][i] = x
      PROVE  s = b /\ i = Len(F[b]) + 1
  <2>1. CASE s = b
    BY <1>1, <1>2, <1>4, <2>1
  <2>2. CASE s # b
    BY <1>2, <1>4, <2>2
  <2> QED  BY <2>1, <2>2
<1>5. SinRepetir(G)
  <2> SUFFICES ASSUME NEW s \in Sitios, NEW t \in Sitios, NEW i \in DOMAIN G[s],
                      NEW j \in DOMAIN G[t], G[s][i] = G[t][j]
               PROVE  s = t /\ i = j
    BY DEF SinRepetir
  <2> QED  BY <1>3, <1>4 DEF SinRepetir
<1>6. ASSUME NEW p \in Pids, Presente(G, p), p # x PROVE Presente(F, p)
  BY <1>3, <1>6 DEF Presente
<1> QED  BY <1>5, <1>6

\* list_remove_element on the place that has x.
LEMMA Quita ==
  ASSUME NEW F \in [Sitios -> Seq(Pids)], NEW G \in [Sitios -> Seq(Pids)], SinRepetir(F),
         NEW a \in Sitios, NEW x \in Pids, EnRango(x, F[a]),
         G[a] = Sin(F[a], x), \A s \in Sitios \ {a} : G[s] = F[s]
  PROVE  SinRepetir(G) /\ \A p \in Pids : Presente(G, p) => Presente(F, p) /\ p # x
<1>1. PICK j \in DOMAIN F[a] : F[a][j] = x
  BY DEF EnRango
<1>2. PICK k \in DOMAIN F[a] : F[a][k] = x /\ SinElDe(F[a], k, G[a])
  BY <1>1, ElementosSin
<1>3. Len(F[a]) \in Nat /\ DOMAIN F[a] = 1..Len(F[a]) /\ k \in 1..Len(F[a])
  BY <1>2
<1> DEFINE En0(s, i) == IF s = a /\ i >= k THEN i + 1 ELSE i
<1>4. ASSUME NEW s \in Sitios, NEW i \in DOMAIN G[s]
      PROVE  /\ En0(s, i) \in DOMAIN F[s] /\ G[s][i] = F[s][En0(s, i)]
             /\ ~(s = a /\ En0(s, i) = k)
  <2>1. CASE s = a
    <3>1. i \in 1..(Len(F[a]) - 1)
      BY <1>2, <1>4, <2>1 DEF SinElDe
    <3>2. CASE i < k
      BY <1>2, <1>3, <2>1, <3>1, <3>2 DEF SinElDe
    <3>3. CASE i >= k
      BY <1>2, <1>3, <2>1, <3>1, <3>3 DEF SinElDe
    <3> QED  BY <1>3, <3>1, <3>2, <3>3
  <2>2. CASE s # a
    BY <1>4, <2>2
  <2> QED  BY <2>1, <2>2
<1>5. ASSUME NEW s \in Sitios, NEW i \in DOMAIN G[s], NEW j2 \in DOMAIN G[s],
             En0(s, i) = En0(s, j2)
      PROVE  i = j2
  <2>1. i \in Nat /\ j2 \in Nat /\ k \in Nat
    BY <1>3
  <2> QED  BY <1>5, <2>1
<1> HIDE DEF En0
<1>6. SinRepetir(G)
  <2> SUFFICES ASSUME NEW s \in Sitios, NEW t \in Sitios, NEW i \in DOMAIN G[s],
                      NEW m \in DOMAIN G[t], G[s][i] = G[t][m]
               PROVE  s = t /\ i = m
    BY DEF SinRepetir
  <2>1. s = t /\ En0(s, i) = En0(t, m)
    BY <1>4 DEF SinRepetir
  <2> QED  BY <1>5, <2>1
<1>7. ASSUME NEW p \in Pids, Presente(G, p) PROVE Presente(F, p) /\ p # x
  <2>1. PICK s \in Sitios : \E i \in DOMAIN G[s] : G[s][i] = p
    BY <1>7 DEF Presente
  <2>2. PICK i \in DOMAIN G[s] : G[s][i] = p
    BY <2>1
  <2>3. En0(s, i) \in DOMAIN F[s] /\ F[s][En0(s, i)] = p /\ ~(s = a /\ En0(s, i) = k)
    BY <1>4, <2>2
  <2>4. p # x
    BY <1>2, <2>3 DEF SinRepetir
  <2> QED  BY <2>3, <2>4 DEF Presente
<1> QED  BY <1>6, <1>7

\* Somebody new enters a place...
LEMMA JuegoEntra ==
  ASSUME ITipo, ITipo', SinRepetir(EnJuego), NEW b \in Sitios, NEW x \in Pids, ~Activo(x),
         EnJuegoEn(b)' = Append(EnJuegoEn(b), x), Aparte({b})
  PROVE  Siguen({}, {x})
<1>1. EnJuego \in [Sitios -> Seq(Pids)] /\ EnJuego' \in [Sitios -> Seq(Pids)]
  BY TipoJuego, TipoJuegoDespues
<1>2. \A s \in Sitios : EnJuego[s] = EnJuegoEn(s) /\ (EnJuego')[s] = EnJuegoEn(s)'
  BY DEF EnJuego
<1>3. \A s \in Sitios \ {b} : EnJuegoEn(s)' = EnJuegoEn(s)
  BY MarcoJuego
<1>4. (EnJuego')[b] = Append(EnJuego[b], x)
  BY <1>2
<1>5. \A s \in Sitios \ {b} : (EnJuego')[s] = EnJuego[s]
  BY <1>2, <1>3
<1>6. \A s \in Sitios : \A i \in DOMAIN EnJuego[s] : EnJuego[s][i] # x
  BY <1>1 DEF Activo, Presente
<1>7. /\ SinRepetir(EnJuego')
      /\ \A p \in Pids : Presente(EnJuego', p) => Presente(EnJuego, p) \/ p = x
  BY ONLY <1>1, <1>4, <1>5, <1>6, SinRepetir(EnJuego), b \in Sitios, x \in Pids, UnoMas
<1> QED  BY <1>7 DEF Siguen

\* ...or the console takes somebody out of the place that has him.
LEMMA JuegoQuita ==
  ASSUME ITipo, ITipo', SinRepetir(EnJuego), NEW a \in Sitios, NEW x \in Pids,
         EnRango(x, EnJuegoEn(a)), EnJuegoEn(a)' = Sin(EnJuegoEn(a), x), Aparte({a})
  PROVE  Siguen({x}, {})
<1>1. EnJuego \in [Sitios -> Seq(Pids)] /\ EnJuego' \in [Sitios -> Seq(Pids)]
  BY TipoJuego, TipoJuegoDespues
<1>2. \A s \in Sitios : EnJuego[s] = EnJuegoEn(s) /\ (EnJuego')[s] = EnJuegoEn(s)'
  BY DEF EnJuego
<1>3. \A s \in Sitios \ {a} : EnJuegoEn(s)' = EnJuegoEn(s)
  BY MarcoJuego
<1>4. /\ EnRango(x, EnJuego[a]) /\ (EnJuego')[a] = Sin(EnJuego[a], x)
      /\ \A s \in Sitios \ {a} : (EnJuego')[s] = EnJuego[s]
  BY <1>2, <1>3
<1>5. /\ SinRepetir(EnJuego')
      /\ \A p \in Pids : Presente(EnJuego', p) => Presente(EnJuego, p) /\ p # x
  BY ONLY <1>1, <1>4, SinRepetir(EnJuego), a \in Sitios, x \in Pids, Quita
<1> QED  BY <1>5 DEF Siguen

\* The states change only of those that go on living, or of those of S, which end;
\* nobody is created beyond idPCB.
TocaEstados(S, N) ==
  /\ idPCB' >= idPCB
  /\ \A p \in Pids :
       /\ estado[p] = "SIN_CREAR" => estado'[p] = "SIN_CREAR" \/ p < idPCB'
       /\ \/ estado'[p] = estado[p] /\ p \notin N
          \/ ~Muerto(p) /\ estado'[p] \notin {"SIN_CREAR", "FINISHED", "LIBERADO"}
          \/ p \in S /\ estado'[p] \in {"FINISHED", "LIBERADO"}

\* Only those of S have a new I/O request.
TocaPedidos(S, N) ==
  \A p \in Pids :
    Pendiente(p)' => p \notin N /\ (Pendiente(p) \/ (p \in S /\ estado[p] # "SIN_CREAR"))

\* A step that takes those of S out of play and those of N into it, which it never does
\* while scheduling is stopped.
Efecto(S, N) ==
  /\ Siguen(S, N) /\ TocaEstados(S, N) /\ TocaPedidos(S, N)
  /\ N # {} => planificacion # "detenida"

HayEfecto == \E S \in SUBSET Pids, N \in SUBSET Pids : Efecto(S, N)

\* No step gives a dead process another state.
NadieRevive == \A p \in Pids : Muerto(p) => estado'[p] \in {"FINISHED", "LIBERADO"}

\* Such a step keeps the living and the dead apart.
LEMMA Mantiene ==
  ASSUME ITipo, ITipo', ActivosVivos, PendientesAparte, PorCrear, HayEfecto
  PROVE  ActivosVivos' /\ PendientesAparte' /\ PorCrear' /\ NadieRevive
<1>1. PICK S \in SUBSET Pids, N \in SUBSET Pids : Efecto(S, N)
  BY DEF HayEfecto
<1>2. \A p \in Pids : Activo(p)' => (Activo(p) \/ p \in N) /\ p \notin S
  BY <1>1 DEF Efecto, Siguen, Activo
<1>3. ActivosVivos'
  BY <1>1, <1>2 DEF ActivosVivos, Efecto, Siguen, TocaEstados
<1>4. ASSUME NEW p \in Pids, Pendiente(p)'
      PROVE  ~(Activo(p)') /\ estado'[p] # "SIN_CREAR"
  <2>1. p \notin N /\ (Pendiente(p) \/ (p \in S /\ estado[p] # "SIN_CREAR"))
    BY <1>1, <1>4 DEF Efecto, TocaPedidos
  <2>2. estado[p] # "SIN_CREAR"
    BY <2>1 DEF PendientesAparte
  <2>3. estado'[p] # "SIN_CREAR"
    BY <1>1, <2>2 DEF Efecto, TocaEstados
  <2> QED  BY <1>2, <2>1, <2>3 DEF PendientesAparte
<1>5. PorCrear'
  <2>1. idPCB \in Int
    BY DEF ITipo, TypeOK, PlanificacionTypeOK, ProcesosTypeOK
  <2>2. ASSUME NEW p \in Pids, p >= idPCB' PROVE estado'[p] = "SIN_CREAR"
    <3>1. idPCB' >= idPCB /\ (estado[p] = "SIN_CREAR" => estado'[p] = "SIN_CREAR" \/ p < idPCB')
      BY <1>1 DEF Efecto, TocaEstados
    <3>2. idPCB' \in Int
      BY DEF ITipo, TypeOK, PlanificacionTypeOK, ProcesosTypeOK
    <3> QED  BY <2>1, <2>2, <3>1, <3>2 DEF PorCrear, Pids
  <2> QED  BY <2>2 DEF PorCrear
<1>6. NadieRevive
  BY <1>1 DEF NadieRevive, Efecto, TocaEstados, Muerto
<1> QED  BY <1>3, <1>4, <1>5, <1>6 DEF PendientesAparte

\* What the steps do to the states...
LEMMA EstadosIguales ==
  ASSUME ITipo, UNCHANGED <<idPCB, estado>>, NEW S
  PROVE  TocaEstados(S, {})
<1>1. idPCB \in Int
  BY DEF ITipo, TypeOK, PlanificacionTypeOK, ProcesosTypeOK
<1> QED  BY <1>1 DEF TocaEstados

LEMMA SigueVivo ==
  ASSUME ITipo, ActivosVivos, UNCHANGED idPCB, NEW x \in Pids, Activo(x), NEW e,
         estado' = [estado EXCEPT ![x] = e], e \notin {"SIN_CREAR", "FINISHED", "LIBERADO"}
  PROVE  TocaEstados({}, {})
<1>1. idPCB \in Int /\ estado \in [Pids -> Estados]
  BY DEF ITipo, TypeOK, PlanificacionTypeOK, ProcesosTypeOK
<1>2. estado[x] \notin {"SIN_CREAR", "FINISHED", "LIBERADO"}
  BY DEF ActivosVivos
<1> QED  BY <1>1, <1>2 DEF TocaEstados, Muerto

LEMMA Termina ==
  ASSUME ITipo, UNCHANGED idPCB, NEW x \in Pids, estado[x] # "SIN_CREAR", NEW e,
         estado' = [estado EXCEPT ![x] = e], e \in {"FINISHED", "LIBERADO"}
  PROVE  TocaEstados({x}, {})
<1>1. idPCB \in Int /\ estado \in [Pids -> Estados]
  BY DEF ITipo, TypeOK, PlanificacionTypeOK, ProcesosTypeOK
<1> QED  BY <1>1 DEF TocaEstados

\* ...and to the requests.
LEMMA PedidosIguales ==
  ASSUME lBlocked' \subseteq lBlocked, UNCHANGED pcIO, NEW S
  PROVE  TocaPedidos(S, {})
  BY DEF TocaPedidos, Pendiente

\* Who is out of play stays out.
LEMMA FueraDeJuego ==
  ASSUME Siguen({}, {}), NEW x, ~Activo(x)
  PROVE  Siguen({x}, {})
  BY DEF Siguen, Activo

\* The five kinds of step.
LEMMA EfectoDe ==
  ASSUME NEW S \in SUBSET Pids, Siguen(S, {}), TocaEstados(S, {}), TocaPedidos(S, {})
  PROVE  HayEfecto
<1>1. {} \in SUBSET Pids
  OBVIOUS
<1>2. Efecto(S, {})
  BY DEF Efecto
<1> QED  BY <1>1, <1>2 DEF HayEfecto

LEMMA EfectoQuieto ==
  ASSUME ITipo, ActivosVivos, Aparte({}), UNCHANGED <<idPCB, estado, pcIO>>,
         lBlocked' \subseteq lBlocked
  PROVE  HayEfecto
<1>1. Siguen({}, {})
  BY JuegoIgual DEF ActivosVivos
<1>2. TocaEstados({}, {}) /\ TocaPedidos({}, {})
  BY EstadosIguales, PedidosIguales
<1>3. {} \in SUBSET Pids
  OBVIOUS
<1> QED  BY <1>1, <1>2, <1>3, EfectoDe

-----------------------------------------------------------------------------
(***************************************************************************)
(* The threads                                                             *)
(***************************************************************************)

\* Whom a thread attends is in its hand, and goes on living.
LEMMA EnManoVivo ==
  ASSUME ITipo, ActivosVivos, NEW h \in {"plp", "pcp"}, Atiende(h)
  PROVE  \E p \in Pids : /\ p = mano[h] /\ Activo(p) /\ <<"mano", h>> \in Sitios
                         /\ EnJuegoEn(<<"mano", h>>) = <<p>>
<1>1. PICK p \in Pids : p = mano[h]
  BY DEF ITipo, TypeOK, PlanificacionTypeOK, LocalesTypeOK, LocalesEnUso, Atiende, Hilos
<1>2. <<"mano", h>> \in Sitios /\ EnJuegoEn(<<"mano", h>>) = <<p>>
  BY <1>1, JuegoEn DEF Sitios, Hilos, Si
<1>3. 1 \in DOMAIN EnJuego[<<"mano", h>>] /\ EnJuego[<<"mano", h>>][1] = p
  BY <1>2 DEF EnJuego
<1>4. Activo(p)
  BY <1>2, <1>3 DEF Activo, Presente, EnJuego
<1> QED  BY <1>1, <1>2, <1>4

\* The long-term scheduler takes from cNEW, admits or rejects, and passes to cREADY.
LEMMA EfectoPLP ==
  ASSUME ITipo, ITipo', IMuertos, PLP, UNCHANGED ioVars
  PROVE  HayEfecto
<1> DEFINE v == <<"mano", "plp">>
<1>1. /\ pc \in [Hilos -> Lugares] /\ mano \in [Hilos -> Pids \cup {Nadie}]
      /\ estado \in [Pids -> Estados] /\ cNEW \in Seq(Pids) /\ LocalesEnUso
      /\ "plp" \in Hilos /\ UNCHANGED pcIO /\ Nadie \notin Pids
      /\ ActivosVivos /\ SinRepetir(EnJuego) /\ v \in Sitios /\ SinPlus
  BY DEF ITipo, TypeOK, PlanificacionTypeOK, LocalesTypeOK, ProcesosTypeOK, ColasTypeOK,
     Hilos, ioVars, IMuertos, ActivosVivos, Sitios, Nadie, Pids
<1>2. CASE \/ EsperaNuevo \/ AdmiteNadie \/ TerminaMatadero("plp")
           \/ (TomaNuevo /\ cNEW = <<>>)
  <2>1. Aparte({}) /\ UNCHANGED <<idPCB, estado>> /\ lBlocked' \subseteq lBlocked
    BY <1>1, <1>2 DEF EsperaNuevo, AdmiteNadie, TerminaMatadero, EncolarExit, TomaNuevo,
       NuevosQueQuedan, Caer, Ir, IrSoltando, procesos, colas, recursosVars, locales, Aparte,
       Atiende
  <2> QED  BY <1>1, <2>1, EfectoQuieto
<1>3. CASE TomaNuevo /\ cNEW # <<>>
  <2> DEFINE a == <<"cNEW", "-">>
  <2>1. PICK p \in Pids : p = Head(cNEW)
    BY <1>1, <1>3, Cola
  <2>2. a \in Sitios /\ a # v /\ EnJuegoEn(a) = cNEW /\ EnJuegoEn(a)' = Tail(cNEW)
    BY <1>3, JuegoEn, JuegoEnDespues DEF Sitios, TomaNuevo, NuevosQueQuedan
  <2>3. ~Atiende("plp") /\ Atiende("plp")' /\ mano'["plp"] = p
    BY <1>1, <1>3, <2>1 DEF TomaNuevo, Ir, Atiende
  <2>4. EnJuegoEn(v) = <<>> /\ EnJuegoEn(v)' = <<p>>
    BY <2>3, JuegoEn, JuegoEnDespues DEF Si
  <2>5. Aparte({a, v})
    BY <1>1, <1>3 DEF TomaNuevo, Ir, recursosVars, Aparte, Atiende
  <2>6. Siguen({}, {})
    BY <1>1, <1>3, <2>1, <2>2, <2>4, <2>5, JuegoToma
  <2>7. UNCHANGED <<idPCB, estado, pcIO, lBlocked>>
    BY <1>1, <1>3 DEF TomaNuevo, procesos
  <2> QED  BY <2>6, <2>7, EstadosIguales, PedidosIguales, EfectoDe
<1>4. CASE Admite
  <2>1. PICK p \in Pids : p = mano["plp"] /\ Activo(p)
    BY <1>1, <1>4, EnManoVivo DEF Admite, EsperaCupo, Atiende
  <2>2. Aparte({}) /\ UNCHANGED <<idPCB, pcIO, lBlocked>>
    BY <1>1, <1>4 DEF Admite, EsperaCupo, Ir, colas, recursosVars, Aparte, Atiende
  <2>3. estado' = [estado EXCEPT ![p] = "READY"]
    BY <1>4, <2>1 DEF Admite
  <2>4. TocaEstados({}, {})
    BY <1>1, <2>1, <2>2, <2>3, SigueVivo
  <2> QED  BY <1>1, <2>2, <2>4, JuegoIgual, PedidosIguales, EfectoDe
<1>5. CASE Rechaza
  <2>1. PICK p \in Pids : p = mano["plp"] /\ Activo(p) /\ EnJuegoEn(v) = <<p>>
    BY <1>1, <1>5, EnManoVivo, LargoPlazoAssumption DEF Rechaza, EsperaCupo, Atiende
  <2>2. Aparte({v}) /\ UNCHANGED <<idPCB, pcIO, lBlocked>>
    BY <1>1, <1>5 DEF Rechaza, EsperaCupo, Ir, colas, recursosVars, Aparte, Atiende
  <2>3. EnJuegoEn(v)' = <<>>
    BY <1>1, <1>5, JuegoEnDespues DEF Rechaza, Ir, Atiende, Si
  <2>4. estado' = [estado EXCEPT ![p] = "FINISHED"] /\ estado[p] # "SIN_CREAR"
    BY <1>1, <1>5, <2>1 DEF Rechaza, ActivosVivos
  <2>5. Siguen({p}, {})
    BY <1>1, <2>1, <2>2, <2>3, JuegoSale
  <2>6. TocaEstados({p}, {})
    BY <2>2, <2>4, Termina
  <2>7. TocaPedidos({p}, {})
    BY <2>2, PedidosIguales
  <2> QED  BY <2>5, <2>6, <2>7, EfectoDe
<1>6. CASE IngresaReady
  <2> DEFINE b == <<"cREADY", "-">>
  <2>1. PICK p \in Pids : p = mano["plp"] /\ EnJuegoEn(v) = <<p>>
    BY <1>1, <1>6, EnManoVivo DEF IngresaReady, Atiende, LocalesEnUso
  <2>2. b \in Sitios /\ b # v /\ EnJuegoEn(b)' = Append(EnJuegoEn(b), p)
    BY <1>6, <2>1, JuegoEn, JuegoEnDespues DEF Sitios, IngresaReady, AReady
  <2>3. EnJuegoEn(v)' = <<>>
    BY <1>1, <1>6, JuegoEnDespues DEF IngresaReady, IrSoltando, Ir, Atiende, Si
  <2>4. Aparte({v, b})
    BY <1>1, <1>6 DEF IngresaReady, AReady, IrSoltando, Ir, recursosVars, Aparte, Atiende
  <2>5. Siguen({}, {})
    BY <1>1, <2>1, <2>2, <2>3, <2>4, JuegoDeja
  <2>6. UNCHANGED <<idPCB, estado, pcIO, lBlocked>>
    BY <1>1, <1>6 DEF IngresaReady, procesos
  <2> QED  BY <2>5, <2>6, EstadosIguales, PedidosIguales, EfectoDe
<1>7. ~IngresaReadyPerdido
  BY <1>1 DEF IngresaReadyPerdido, SinPlus
<1> QED  BY <1>2, <1>3, <1>4, <1>5, <1>6, <1>7 DEF PLP

\* The first of a resource's queue goes on living.
LEMMA PrimeroVivo ==
  ASSUME ITipo, NEW s \in Sitios, NEW p \in Pids, EnJuegoEn(s) # <<>>, p = Head(EnJuegoEn(s))
  PROVE  Activo(p)
<1>1. EnJuego \in [Sitios -> Seq(Pids)] /\ EnJuego[s] = EnJuegoEn(s)
  BY TipoJuego DEF EnJuego
<1>2. 1 \in DOMAIN EnJuego[s] /\ EnJuego[s][1] = p
  BY <1>1
<1> QED  BY <1>1, <1>2 DEF Activo, Presente

\* liberar_recurso takes the first that waits and passes it to cREADY.
LEMMA EfectoLiberarRecurso ==
  ASSUME ITipo, ITipo', IMuertos, Algoritmo # "VRR", NEW h \in {"pcp", "carnicero"},
         LiberarRecurso(h), UNCHANGED ioVars
  PROVE  HayEfecto
<1> DEFINE v == <<"desbl", h>>
<1>1. /\ pc \in [Hilos -> Lugares] /\ mano \in [Hilos -> Pids \cup {Nadie}]
      /\ desbl \in [Hilos -> Pids \cup {Nadie}] /\ cBloqueados \in [Recursos -> Seq(Pids)]
      /\ estado \in [Pids -> Estados] /\ LocalesEnUso /\ h \in Hilos /\ UNCHANGED pcIO
      /\ ActivosVivos /\ SinRepetir(EnJuego) /\ v \in Sitios
  BY DEF ITipo, TypeOK, PlanificacionTypeOK, LocalesTypeOK, ProcesosTypeOK, RecursosTypeOK,
     Hilos, ioVars, IMuertos, ActivosVivos, Sitios
<1>2. CASE LiberaInstancia(h) \/ MiraBloqueados(h) \/ SacaNadie(h)
  <2>1. Aparte({}) /\ UNCHANGED <<idPCB, estado>> /\ lBlocked' \subseteq lBlocked
    BY <1>1, <1>2 DEF LiberaInstancia, MiraBloqueados, SacaNadie, TrasLiberar, Caer, Ir, Hilos,
       procesos, colas, recursosVars, locales, Aparte, Atiende
  <2> QED  BY <1>1, <2>1, EfectoQuieto
<1>3. CASE SacaBloqueado(h)
  <2>1. PICK r \in Recursos : r = rec[h]
    BY <1>1, <1>3 DEF SacaBloqueado, LocalesEnUso
  <2> DEFINE a == <<"cBloqueados", r>>
  <2>2. cBloqueados[r] # <<>> /\ cBloqueados[r] \in Seq(Pids)
    BY <1>1, <1>3, <2>1 DEF SacaBloqueado
  <2>3. PICK p \in Pids : p = Head(cBloqueados[r])
    BY <2>2, Cola
  <2>4. a \in Sitios /\ a # v /\ EnJuegoEn(a) = cBloqueados[r]
    BY JuegoEn DEF Sitios
  <2>5. EnJuegoEn(a)' = Tail(cBloqueados[r])
    BY <1>1, <1>3, <2>1, JuegoEnDespues DEF SacaBloqueado
  <2>6. EnJuegoEn(v) = <<>> /\ EnJuegoEn(v)' = <<p>>
    BY <1>1, <1>3, <2>1, <2>3, JuegoEn, JuegoEnDespues DEF SacaBloqueado, Ir, Si
  <2>7. Aparte({a, v})
    BY <1>1, <1>3, <2>1 DEF SacaBloqueado, Ir, Hilos, colas, Aparte, Atiende
  <2>8. Siguen({}, {})
    BY <1>1, <2>2, <2>3, <2>4, <2>5, <2>6, <2>7, JuegoToma
  <2>9. /\ UNCHANGED <<idPCB, pcIO, lBlocked>>
        /\ estado' = [estado EXCEPT ![p] = EstadoAlDespertar]
        /\ EstadoAlDespertar \notin {"SIN_CREAR", "FINISHED", "LIBERADO"}
    BY <1>1, <1>3, <2>1, <2>3 DEF SacaBloqueado, EstadoAlDespertar, colas
  <2>10. Activo(p)
    BY <2>2, <2>3, <2>4, PrimeroVivo
  <2>11. TocaEstados({}, {})
    BY <1>1, <2>9, <2>10, SigueVivo
  <2> QED  BY <2>8, <2>9, <2>11, PedidosIguales, EfectoDe
<1>4. CASE DespiertaBloqueado(h)
  <2> DEFINE b == <<"cREADY", "-">>
  <2>1. PICK p \in Pids : p = desbl[h]
    BY <1>1, <1>4 DEF DespiertaBloqueado, LocalesEnUso
  <2>2. AReady(p) /\ TrasLiberar(h) \in {"reparte", "a_ready"}
    BY <1>4, <2>1 DEF DespiertaBloqueado, Despertar, TrasLiberar, EsVrr
  <2>3. b \in Sitios /\ b # v /\ EnJuegoEn(b)' = Append(EnJuegoEn(b), p)
    BY <2>2, JuegoEn, JuegoEnDespues DEF Sitios, AReady
  <2>4. EnJuegoEn(v) = <<p>> /\ EnJuegoEn(v)' = <<>>
    BY <1>1, <1>4, <2>1, <2>2, JuegoEn, JuegoEnDespues DEF DespiertaBloqueado, Ir, Si
  <2>5. Aparte({v, b})
    BY <1>1, <1>4, <2>2 DEF DespiertaBloqueado, AReady, Ir, Hilos, recursosVars, Aparte, Atiende
  <2>6. Siguen({}, {})
    BY <1>1, <2>3, <2>4, <2>5, JuegoDeja
  <2>7. UNCHANGED <<idPCB, estado, pcIO, lBlocked>>
    BY <1>1, <1>4 DEF DespiertaBloqueado, procesos
  <2> QED  BY <2>6, <2>7, EstadosIguales, PedidosIguales, EfectoDe
<1> QED  BY <1>2, <1>3, <1>4 DEF LiberarRecurso

\* The carnicero moves only whom liberar_recurso unblocks.
LEMMA EfectoCarnicero ==
  ASSUME ITipo, ITipo', IMuertos, Algoritmo # "VRR", Carnicero, UNCHANGED ioVars
  PROVE  HayEfecto
<1>1. CASE LiberarRecurso("carnicero")
  BY <1>1, EfectoLiberarRecurso
<1>2. /\ pc \in [Hilos -> Lugares] /\ mano \in [Hilos -> Pids \cup {Nadie}]
      /\ LocalesEnUso /\ UNCHANGED pcIO /\ ActivosVivos /\ SinRepetir(EnJuego)
  BY DEF ITipo, TypeOK, PlanificacionTypeOK, LocalesTypeOK, ioVars, IMuertos, ActivosVivos
<1>3. CASE EsperaFinalizado \/ TomaFinalizado \/ SueltaRecurso \/ LiberaProceso
  <2>1. Aparte({}) /\ UNCHANGED <<idPCB, pcIO, lBlocked>>
    BY <1>2, <1>3 DEF EsperaFinalizado, TomaFinalizado, SueltaRecurso, LiberaProceso, Ir,
       IrSoltando, Hilos, procesos, colas, recursosVars, Aparte, Atiende
  <2>2. CASE LiberaProceso
    <3>1. PICK p \in Pids : p = mano["carnicero"]
      BY <1>2, <2>2 DEF LiberaProceso, LocalesEnUso
    <3>2. Muerto(p) /\ estado' = [estado EXCEPT ![p] = "LIBERADO"]
      BY <2>2, <3>1 DEF LiberaProceso, IMuertos, FinDeCamino
    <3>3. ~Activo(p) /\ estado[p] # "SIN_CREAR"
      BY <1>2, <3>2 DEF ActivosVivos, Muerto
    <3>4. Siguen({p}, {})
      BY <1>2, <2>1, <3>3, JuegoIgual, FueraDeJuego
    <3>5. TocaEstados({p}, {})
      BY <2>1, <3>2, <3>3, Termina
    <3>6. TocaPedidos({p}, {})
      BY <2>1, PedidosIguales
    <3> QED  BY <3>4, <3>5, <3>6, EfectoDe
  <2>3. CASE ~LiberaProceso
    <3>1. UNCHANGED estado
      BY <1>3, <2>3 DEF EsperaFinalizado, TomaFinalizado, SueltaRecurso, procesos
    <3> QED  BY <1>2, <2>1, <3>1, EfectoQuieto
  <2> QED  BY <2>2, <2>3
<1> QED  BY <1>1, <1>3 DEF Carnicero

\* The short-term scheduler takes from cREADY and lets go of the process in hand: to a
\* queue, to the thread of an I/O request, or to its end.
LEMMA EfectoPCP ==
  ASSUME ITipo, ITipo', IMuertos, Algoritmo # "VRR", PCP
  PROVE  HayEfecto
<1> DEFINE v == <<"mano", "pcp">>
<1>1. /\ pc \in [Hilos -> Lugares] /\ mano \in [Hilos -> Pids \cup {Nadie}]
      /\ estado \in [Pids -> Estados] /\ cREADY \in Seq(Pids)
      /\ cBloqueados \in [Recursos -> Seq(Pids)] /\ pcIO \in [Pids -> LugaresIO]
      /\ LocalesEnUso /\ "pcp" \in Hilos
      /\ ActivosVivos /\ SinRepetir(EnJuego) /\ v \in Sitios /\ SinPlus
  BY DEF ITipo, TypeOK, PlanificacionTypeOK, LocalesTypeOK, ProcesosTypeOK, ColasTypeOK,
     RecursosTypeOK, AtencionIOTypeOK, Hilos, IMuertos, ActivosVivos, Sitios
<1>2. CASE \/ EsperaListo \/ TomaNadie \/ Despacha \/ Recibe \/ VuelvePorPedido
           \/ VuelvePorDevolucion \/ EsperaVector \/ DescuentaInstancia
           \/ TerminaMatadero("pcp") /\ UNCHANGED ioVars
  <2>1. Aparte({}) /\ UNCHANGED <<idPCB, estado, pcIO>> /\ lBlocked' \subseteq lBlocked
    BY <1>1, <1>2 DEF EsperaListo, ColaElegida, TomaNadie, Despacha, Recibe, VuelvePorPedido,
       VuelvePorDevolucion, EsperaVector, DescuentaInstancia, TerminaMatadero, EncolarExit,
       Caer, Ir, IrSoltando, Hilos, procesos, colas, recursosVars, locales, ioVars, Aparte,
       Atiende
  <2> QED  BY <1>1, <2>1, EfectoQuieto
<1>3. CASE TomaReady
  <2> DEFINE a == <<"cREADY", "-">>
  <2>1. PICK p \in Pids : p = Head(cREADY)
    BY <1>1, <1>3, Cola DEF TomaReady
  <2>2. /\ a \in Sitios /\ a # v /\ EnJuegoEn(a) = cREADY /\ EnJuegoEn(a)' = Tail(cREADY)
        /\ cREADY # <<>>
    BY <1>3, JuegoEn, JuegoEnDespues DEF Sitios, TomaReady
  <2>3. ~Atiende("pcp") /\ Atiende("pcp")' /\ mano'["pcp"] = p
    BY <1>1, <1>3, <2>1 DEF TomaReady, Elegir, Ir, Atiende
  <2>4. EnJuegoEn(v) = <<>> /\ EnJuegoEn(v)' = <<p>>
    BY <2>3, JuegoEn, JuegoEnDespues DEF Si
  <2>5. Aparte({a, v})
    BY <1>1, <1>3 DEF TomaReady, Elegir, Ir, Hilos, recursosVars, ioVars, Aparte, Atiende
  <2>6. Siguen({}, {})
    BY <1>1, <2>1, <2>2, <2>4, <2>5, JuegoToma
  <2>7. /\ UNCHANGED <<idPCB, pcIO, lBlocked>>
        /\ estado' = [estado EXCEPT ![p] = "RUNNING"]
    BY <1>3, <2>1 DEF TomaReady, Elegir, ioVars
  <2>8. Activo(p)
    BY <2>1, <2>2, PrimeroVivo
  <2>9. TocaEstados({}, {})
    BY <1>1, <2>7, <2>8, SigueVivo
  <2> QED  BY <2>6, <2>7, <2>9, PedidosIguales, EfectoDe
<1>4. CASE VuelvePorIO \/ VuelvePorQuantum \/ DecideBloquear \/ DecideOtorgar
  <2>1. PICK p \in Pids : p = Despachado /\ Activo(p)
    BY <1>1, <1>4, EnManoVivo DEF VuelvePorIO, VuelvePorQuantum, DecideBloquear, DecideOtorgar,
       Despachado, Atiende
  <2>2. Aparte({}) /\ UNCHANGED <<idPCB, pcIO, lBlocked>>
    BY <1>1, <1>4 DEF VuelvePorIO, VuelvePorQuantum, DecideBloquear, DecideOtorgar, EsVrr, Ir,
       Hilos, colas, recursosVars, ioVars, Aparte, Atiende
  <2>3. PICK e \in {"BLOCKED", "READY", "READY_PLUS"} : estado' = [estado EXCEPT ![p] = e]
    BY <1>4, <2>1 DEF VuelvePorIO, VuelvePorQuantum, DecideBloquear, DecideOtorgar,
       EstadoAlDespertar
  <2>4. TocaEstados({}, {})
    <3>1. e \notin {"SIN_CREAR", "FINISHED", "LIBERADO"}
      BY <2>3
    <3> QED  BY <1>1, <2>1, <2>2, <2>3, <3>1, SigueVivo
  <2> QED  BY <1>1, <2>2, <2>4, JuegoIgual, PedidosIguales, EfectoDe
<1>5. CASE VuelveParaMorir
  <2>1. PICK p \in Pids : p = Despachado /\ Activo(p) /\ EnJuegoEn(v) = <<p>>
    BY <1>1, <1>5, EnManoVivo DEF VuelveParaMorir, Despachado, Atiende
  <2>2. Aparte({v}) /\ UNCHANGED <<idPCB, pcIO, lBlocked>>
    BY <1>1, <1>5 DEF VuelveParaMorir, Ir, Hilos, colas, recursosVars, ioVars, Aparte, Atiende
  <2>3. EnJuegoEn(v)' = <<>>
    BY <1>1, <1>5, JuegoEnDespues DEF VuelveParaMorir, Ir, Atiende, Si
  <2>4. estado' = [estado EXCEPT ![p] = "FINISHED"] /\ estado[p] # "SIN_CREAR"
    BY <1>1, <1>5, <2>1 DEF VuelveParaMorir, Matar, ActivosVivos
  <2>5. Siguen({p}, {})
    BY <1>1, <2>1, <2>2, <2>3, JuegoSale
  <2>6. TocaEstados({p}, {})
    BY <2>2, <2>4, Termina
  <2>7. TocaPedidos({p}, {})
    BY <2>2, PedidosIguales
  <2> QED  BY <2>5, <2>6, <2>7, EfectoDe
<1>6. CASE CreaHiloIO
  <2>1. PICK p \in Pids : p = Despachado /\ Activo(p) /\ EnJuegoEn(v) = <<p>>
    BY <1>1, <1>6, EnManoVivo DEF CreaHiloIO, Despachado, Atiende
  <2>2. ~Pendiente(p) /\ estado[p] # "SIN_CREAR"
    BY <2>1 DEF IMuertos, PendientesAparte, ActivosVivos
  <2>3. Aparte({v, <<"io", p>>}) /\ UNCHANGED <<idPCB, estado>>
    BY <1>1, <1>6, <2>1 DEF CreaHiloIO, IrIO, Ir, Hilos, procesos, recursosVars, Aparte, Atiende
  <2>4. EnJuegoEn(v)' = <<>>
    BY <1>1, <1>6, JuegoEnDespues DEF CreaHiloIO, Ir, Atiende, Si
  <2>5. CASE pcIO[p] # "despierta"
    <3>1. Aparte({v})
      BY <1>1, <1>6, <2>1, <2>3, <2>5 DEF CreaHiloIO, IrIO, Aparte
    <3>2. Siguen({p}, {})
      BY <1>1, <2>1, <2>4, <3>1, JuegoSale
    <3>3. TocaEstados({p}, {})
      BY <2>3, EstadosIguales
    <3>4. TocaPedidos({p}, {})
      BY <1>1, <1>6, <2>1, <2>2 DEF CreaHiloIO, IrIO, TocaPedidos, Pendiente
    <3> QED  BY <3>2, <3>3, <3>4, EfectoDe
  <2>6. CASE pcIO[p] = "despierta"
    <3>1. <<"io", p>> \in Sitios /\ EnJuegoEn(<<"io", p>>) = <<p>>
      BY <2>6, JuegoEn DEF Sitios, Si
    <3>2. 1 \in DOMAIN EnJuego[v] /\ 1 \in DOMAIN EnJuego[<<"io", p>>]
      BY <1>1, <2>1, <3>1 DEF EnJuego
    <3>3. EnJuego[v][1] = p /\ EnJuego[<<"io", p>>][1] = p /\ v # <<"io", p>>
      BY <1>1, <2>1, <3>1 DEF EnJuego
    <3>4. DOMAIN EnJuego = Sitios
      BY DEF EnJuego
    <3> QED  BY <1>1, <3>1, <3>2, <3>3, <3>4 DEF SinRepetir
  <2> QED  BY <2>5, <2>6
<1>7. CASE EncolaBloqueado
  <2>1. PICK p \in Pids : p = Despachado /\ EnJuegoEn(v) = <<p>>
    BY <1>1, <1>7, EnManoVivo DEF EncolaBloqueado, Despachado, Atiende
  <2>2. PICK r \in Recursos : r = rec["pcp"]
    BY <1>1, <1>7 DEF EncolaBloqueado, LocalesEnUso
  <2> DEFINE b == <<"cBloqueados", r>>
  <2>3. b \in Sitios /\ b # v /\ EnJuegoEn(b)' = Append(EnJuegoEn(b), p)
    BY <1>1, <1>7, <2>1, <2>2, JuegoEn, JuegoEnDespues DEF Sitios, EncolaBloqueado
  <2>4. EnJuegoEn(v)' = <<>>
    BY <1>1, <1>7, JuegoEnDespues DEF EncolaBloqueado, IrSoltando, Ir, Atiende, Si
  <2>5. Aparte({v, b})
    BY <1>1, <1>7, <2>2 DEF EncolaBloqueado, IrSoltando, Ir, Hilos, colas, ioVars, Aparte, Atiende
  <2>6. Siguen({}, {})
    BY <1>1, <2>1, <2>3, <2>4, <2>5, JuegoDeja
  <2>7. UNCHANGED <<idPCB, estado, pcIO, lBlocked>>
    BY <1>1, <1>7 DEF EncolaBloqueado, procesos, colas, ioVars
  <2> QED  BY <2>6, <2>7, EstadosIguales, PedidosIguales, EfectoDe
<1>8. CASE ReingresaReady
  <2> DEFINE b == <<"cREADY", "-">>
  <2>1. PICK p \in Pids : p = Despachado /\ EnJuegoEn(v) = <<p>>
    BY <1>1, <1>8, EnManoVivo DEF ReingresaReady, Despachado, Atiende
  <2>2. b \in Sitios /\ b # v /\ EnJuegoEn(b)' = Append(EnJuegoEn(b), p)
    BY <1>8, <2>1, JuegoEn, JuegoEnDespues DEF Sitios, ReingresaReady, AReady
  <2>3. EnJuegoEn(v)' = <<>>
    BY <1>1, <1>8, JuegoEnDespues DEF ReingresaReady, Reingreso, IrSoltando, Ir, Atiende, Si
  <2>4. Aparte({v, b})
    BY <1>1, <1>8 DEF ReingresaReady, AReady, Reingreso, IrSoltando, Ir, Hilos, recursosVars,
       ioVars, Aparte, Atiende
  <2>5. Siguen({}, {})
    BY <1>1, <2>1, <2>2, <2>3, <2>4, JuegoDeja
  <2>6. UNCHANGED <<idPCB, estado, pcIO, lBlocked>>
    BY <1>1, <1>8 DEF ReingresaReady, Reingreso, procesos, ioVars
  <2> QED  BY <2>5, <2>6, EstadosIguales, PedidosIguales, EfectoDe
<1>9. CASE LiberarRecurso("pcp") /\ UNCHANGED ioVars
  BY <1>9, EfectoLiberarRecurso
<1>10. ~(TomaReadyPlus \/ ReingresaPlus \/ ReingresaSinMutex \/ ReingresaPerdido)
  BY <1>1 DEF TomaReadyPlus, ReingresaPlus, ReingresaSinMutex, ReingresaPerdido, SinPlus
<1> QED  BY <1>2, <1>3, <1>4, <1>5, <1>6, <1>7, <1>8, <1>9, <1>10 DEF PCP

\* The thread of an I/O request brings its process back into play, or ends it, while
\* nobody else attends it.
LEMMA EfectoHiloIO ==
  ASSUME ITipo, ITipo', CerrojosDeConsola, IMuertos, Algoritmo # "VRR", NEW p \in Pids,
         AtenderSolicitudIO(p)
  PROVE  HayEfecto
<1> DEFINE v == <<"io", p>>
<1>1. /\ estado \in [Pids -> Estados] /\ pcIO \in [Pids -> LugaresIO] /\ lBlocked \subseteq Pids
      /\ ActivosVivos /\ PendientesAparte /\ SinRepetir(EnJuego) /\ v \in Sitios
      /\ UNCHANGED locales
  BY DEF ITipo, TypeOK, PlanificacionTypeOK, ProcesosTypeOK, ColasTypeOK, AtencionIOTypeOK,
     IMuertos, ActivosVivos, Sitios, AtenderSolicitudIO, RecibeVector, BuscaInterfaz,
     TomaInterfaz, UsaConexionLiberada, Repone, RespondeIO, FallaIO, FallaIODeMuerto,
     TerminaMataderoIO, CortaConexion, ExitoIO, ExitoIODeMuerto, DespiertaDeIO, Caer, planVars
<1>2. CASE \/ RecibeVector(p) \/ BuscaInterfaz(p) \/ TomaInterfaz(p) \/ UsaConexionLiberada(p)
           \/ Repone(p) \/ RespondeIO(p) \/ FallaIODeMuerto(p) \/ TerminaMataderoIO(p)
           \/ CortaConexion(p) \/ ExitoIODeMuerto(p)
  <2>1. UNCHANGED <<idPCB, estado, cNEW, cREADY, cREADY_PLUS, cBloqueados, pc, mano, desbl>>
    BY <1>1, <1>2 DEF RecibeVector, BuscaInterfaz, TomaInterfaz, UsaConexionLiberada, Repone,
       RespondeIO, FallaIODeMuerto, TerminaMataderoIO, EncolarExit, CortaConexion,
       ExitoIODeMuerto, Caer, procesos, colas, recursosVars, locales, planVars
  <2>2. /\ \A q \in Pids \ {p} : pcIO'[q] = pcIO[q] /\ (q \in lBlocked' => q \in lBlocked)
        /\ pcIO[p] # "despierta" /\ pcIO'[p] # "despierta"
        /\ Pendiente(p)' => Pendiente(p)
    <3>1. ASSUME NEW lugar \in LugaresIO, lugar # "despierta", IrIO(p, lugar),
                 UNCHANGED lBlocked, Pendiente(p), pcIO[p] # "despierta"
          PROVE  /\ \A q \in Pids \ {p} : pcIO'[q] = pcIO[q] /\ (q \in lBlocked' => q \in lBlocked)
                 /\ pcIO[p] # "despierta" /\ pcIO'[p] # "despierta"
                 /\ Pendiente(p)' => Pendiente(p)
      BY <1>1, <3>1 DEF IrIO
    <3>5. CASE RecibeVector(p)
      <4>1. UNCHANGED lBlocked /\ IrIO(p, "busca") /\ Pendiente(p) /\ pcIO[p] # "despierta"
        BY <3>5 DEF RecibeVector, colas, Pendiente
      <4> QED  BY <3>1, <4>1 DEF LugaresIO
    <3>6. CASE BuscaInterfaz(p)
      <4>1. /\ UNCHANGED lBlocked /\ Pendiente(p) /\ pcIO[p] # "despierta"
            /\ IrIO(p, "mutex") \/ IrIO(p, "falla")
        BY <3>6 DEF BuscaInterfaz, planVars, colas, Pendiente
      <4> QED  BY <3>1, <4>1 DEF LugaresIO
    <3>7. CASE RespondeIO(p)
      <4>1. UNCHANGED lBlocked /\ Pendiente(p) /\ pcIO[p] # "despierta"
        BY <3>7 DEF RespondeIO, planVars, colas, Pendiente
      <4>2. \/ IrIO(p, "exito") \/ IrIO(p, "falla") \/ IrIO(p, "falla_cae")
        <5>1. PICK resp \in RespuestasIO :
                IrIO(p, CASE resp = "IO_SUCCESS" -> "exito"
                          [] resp = "IO_FAILURE" -> "falla"
                          [] resp = "DESCONEXION" -> "falla_cae")
          BY <3>7 DEF RespondeIO
        <5>2. resp \in {"IO_SUCCESS", "IO_FAILURE", "DESCONEXION"}
          BY AtencionIOAssumption
        <5> QED  BY <5>1, <5>2
      <4> QED  BY <3>1, <4>1, <4>2 DEF LugaresIO
    <3>2. CASE TomaInterfaz(p) \/ Repone(p)
      BY <1>1, <3>2 DEF TomaInterfaz, Repone, IrIO, Pendiente
    <3>3. CASE UsaConexionLiberada(p) \/ FallaIODeMuerto(p) \/ ExitoIODeMuerto(p)
      BY <1>1, <3>3 DEF UsaConexionLiberada, FallaIODeMuerto, ExitoIODeMuerto, Caer, colas, ioVars,
         Pendiente
    <3>4. CASE TerminaMataderoIO(p) \/ CortaConexion(p)
      BY <1>1, <3>4 DEF TerminaMataderoIO, EncolarExit, CortaConexion, IrIO, colas, planVars,
         Pendiente
    <3> QED  BY <1>2, <3>2, <3>3, <3>4, <3>5, <3>6, <3>7
  <2>3. Aparte({})
    BY <2>1, <2>2 DEF Aparte, Atiende
  <2>4. TocaPedidos({}, {})
    BY <2>2 DEF TocaPedidos, Pendiente
  <2> QED  BY <1>1, <2>1, <2>3, <2>4, JuegoIgual, EstadosIguales, EfectoDe
<1>3. CASE FallaIO(p)
  <2>1. ~Activo(p) /\ estado[p] # "SIN_CREAR"
    BY <1>1, <1>3 DEF FallaIO, PendientesAparte, Pendiente
  <2>2. Aparte({}) /\ UNCHANGED idPCB /\ estado' = [estado EXCEPT ![p] = "FINISHED"]
    BY <1>1, <1>3 DEF FallaIO, Matar, IrIO, recursosVars, locales, Aparte, Atiende
  <2>3. Siguen({p}, {})
    BY <1>1, <2>1, <2>2, JuegoIgual, FueraDeJuego
  <2>4. TocaEstados({p}, {})
    BY <2>1, <2>2, Termina
  <2>5. TocaPedidos({p}, {})
    BY <1>1, <1>3 DEF FallaIO, IrIO, TocaPedidos, Pendiente
  <2> QED  BY <2>3, <2>4, <2>5, EfectoDe
<1>4. CASE ExitoIO(p)
  <2>1. ~Activo(p) /\ estado[p] # "SIN_CREAR"
    BY <1>1, <1>4 DEF ExitoIO, PendientesAparte, Pendiente
  <2>2. CASE p \in lBlocked
    <3>1. /\ UNCHANGED idPCB /\ estado' = [estado EXCEPT ![p] = "READY"] /\ ~Muerto(p)
          /\ pcIO[p] = "exito" /\ pcIO' = [pcIO EXCEPT ![p] = "despierta"]
          /\ lBlocked' = lBlocked \ {p} /\ planificacion # "detenida"
      BY <1>4, <2>2 DEF ExitoIO, SigueBloqueado, BlockedTrasExito, EstadoAlDespertar, EsVrr,
         IrIO, CerrojosDeConsola
    <3>2. EnJuegoEn(v)' = Append(EnJuegoEn(v), p)
      <4>1. EnJuegoEn(v) = <<>> /\ EnJuegoEn(v)' = <<p>>
        BY <1>1, <3>1, JuegoEn, JuegoEnDespues DEF Si
      <4> QED  BY <4>1
    <3>3. Aparte({v})
      BY <1>1, <1>4, <3>1 DEF ExitoIO, recursosVars, locales, Aparte, Atiende
    <3>4. Siguen({}, {p})
      BY <1>1, <2>1, <3>2, <3>3, JuegoEntra
    <3>5. TocaEstados({}, {p})
      <4>1. idPCB \in Int
        BY DEF ITipo, TypeOK, PlanificacionTypeOK, ProcesosTypeOK
      <4> QED  BY <1>1, <2>1, <3>1, <4>1 DEF TocaEstados
    <3>6. TocaPedidos({}, {p})
      BY <1>1, <3>1 DEF TocaPedidos, Pendiente
    <3>7. Efecto({}, {p})
      BY <3>1, <3>4, <3>5, <3>6 DEF Efecto
    <3>8. {} \in SUBSET Pids /\ {p} \in SUBSET Pids
      OBVIOUS
    <3> QED  BY <3>7, <3>8 DEF HayEfecto
  <2>3. CASE p \notin lBlocked
    <3>1. /\ UNCHANGED <<idPCB, estado>> /\ pcIO[p] = "exito"
          /\ pcIO' = [pcIO EXCEPT ![p] = "nada"] /\ lBlocked' = lBlocked \ {p}
      BY <1>4, <2>3 DEF ExitoIO, SigueBloqueado, BlockedTrasExito, IrIO
    <3>2. Aparte({})
      BY <1>1, <1>4, <3>1 DEF ExitoIO, recursosVars, locales, Aparte, Atiende
    <3>3. TocaPedidos({}, {})
      BY <1>1, <3>1 DEF TocaPedidos, Pendiente
    <3> QED  BY <1>1, <3>1, <3>2, <3>3, JuegoIgual, EstadosIguales, EfectoDe
  <2> QED  BY <2>2, <2>3
<1>5. CASE DespiertaDeIO(p)
  <2> DEFINE b == <<"cREADY", "-">>
  <2>1. AReady(p) /\ pcIO[p] = "despierta" /\ pcIO' = [pcIO EXCEPT ![p] = "nada"]
    BY <1>5 DEF DespiertaDeIO, Despertar, EsVrr, IrIO
  <2>2. b \in Sitios /\ b # v /\ EnJuegoEn(b)' = Append(EnJuegoEn(b), p)
    BY <2>1, JuegoEn, JuegoEnDespues DEF Sitios, AReady
  <2>3. EnJuegoEn(v) = <<p>> /\ EnJuegoEn(v)' = <<>>
    BY <1>1, <2>1, JuegoEn, JuegoEnDespues DEF Si
  <2>4. Aparte({v, b})
    BY <1>1, <1>5, <2>1 DEF DespiertaDeIO, AReady, recursosVars, locales, Aparte, Atiende
  <2>5. Siguen({}, {})
    BY <1>1, <2>2, <2>3, <2>4, JuegoDeja
  <2>6. UNCHANGED <<idPCB, estado, lBlocked>>
    BY <1>5 DEF DespiertaDeIO, procesos
  <2>7. TocaPedidos({}, {})
    BY <1>1, <2>1, <2>6 DEF TocaPedidos, Pendiente
  <2> QED  BY <2>5, <2>6, <2>7, EstadosIguales, EfectoDe
<1> QED  BY <1>2, <1>3, <1>4, <1>5 DEF AtenderSolicitudIO

\* The console takes its victim out of every queue.
LEMMA EfectoQuitar ==
  ASSUME ITipo, ITipo', IMuertos, pc["consola"] = "quita", NEW x \in Pids, x = Victima,
         Quitar(x), UNCHANGED <<pcIO, mano, desbl>>,
         \A h \in Hilos \ {"consola"} : pc'[h] = pc[h], pc'["consola"] # "despierta"
  PROVE  Siguen({x}, {})
<1>1. /\ cNEW \in Seq(Pids) /\ cREADY \in Seq(Pids) /\ cREADY_PLUS = <<>>
      /\ cBloqueados \in [Recursos -> Seq(Pids)] /\ SinRepetir(EnJuego)
      /\ pc \in [Hilos -> Lugares] /\ "consola" \in Hilos
  BY DEF ITipo, TypeOK, PlanificacionTypeOK, ColasTypeOK, RecursosTypeOK, LocalesTypeOK, IMuertos,
     ActivosVivos, SinPlus, Hilos
<1>2. /\ <<"cNEW", "-">> \in Sitios /\ <<"cREADY", "-">> \in Sitios
      /\ \A r \in Recursos : <<"cBloqueados", r>> \in Sitios
  BY DEF Sitios
<1>3. /\ EnJuego[<<"cNEW", "-">>] = cNEW /\ EnJuego[<<"cREADY", "-">>] = cREADY
      /\ \A r \in Recursos : EnJuego[<<"cBloqueados", r>>] = cBloqueados[r]
      /\ DOMAIN EnJuego = Sitios
  BY <1>2, JuegoEn DEF EnJuego
<1>4. ~EnRango(x, cNEW) => UNCHANGED cNEW
  BY DEF Quitar, Sin, EnRango
<1>5. ~EnRango(x, cREADY) => UNCHANGED cREADY
  BY DEF Quitar, Sin, EnRango
<1>6. \A r \in Recursos : ~EnRango(x, cBloqueados[r]) => cBloqueados'[r] = cBloqueados[r]
  BY DEF Quitar, Sin, EnRango
<1>7. UNCHANGED cREADY_PLUS
  BY <1>1 DEF Quitar, Sin
<1>8. ASSUME NEW s \in Sitios, NEW t \in Sitios, EnRango(x, EnJuego[s]), EnRango(x, EnJuego[t])
      PROVE  s = t
  BY <1>1, <1>3, <1>8 DEF EnRango, SinRepetir
<1>9. ASSUME NEW s \in Sitios, EnRango(x, EnJuego[s]) PROVE Activo(x)
  BY <1>3, <1>9 DEF EnRango, Activo, Presente
<1>10. ASSUME NEW Q,
              <<"cNEW", "-">> \notin Q => UNCHANGED cNEW,
              <<"cREADY", "-">> \notin Q => UNCHANGED cREADY,
              \A r \in Recursos : <<"cBloqueados", r>> \notin Q => cBloqueados'[r] = cBloqueados[r]
       PROVE  Aparte(Q)
  BY <1>1, <1>7, <1>10 DEF Aparte, Atiende
<1>11. CASE EnRango(x, cNEW)
  <2> DEFINE a == <<"cNEW", "-">>
  <2>1. EnRango(x, EnJuegoEn(a)) /\ EnJuegoEn(a)' = Sin(EnJuegoEn(a), x)
    BY <1>11, JuegoEn, JuegoEnDespues DEF Quitar
  <2>2. ~EnRango(x, cREADY)
    BY <1>2, <1>3, <1>8, <1>11
  <2>3. ASSUME NEW r \in Recursos PROVE ~EnRango(x, cBloqueados[r])
    BY <1>2, <1>3, <1>8, <1>11
  <2>4. Aparte({a})
    BY <1>5, <1>6, <1>10, <2>2, <2>3
  <2> QED  BY <1>1, <1>2, <2>1, <2>4, JuegoQuita
<1>12. CASE EnRango(x, cREADY)
  <2> DEFINE a == <<"cREADY", "-">>
  <2>1. EnRango(x, EnJuegoEn(a)) /\ EnJuegoEn(a)' = Sin(EnJuegoEn(a), x)
    BY <1>12, JuegoEn, JuegoEnDespues DEF Quitar
  <2>2. ~EnRango(x, cNEW)
    BY <1>2, <1>3, <1>8, <1>12
  <2>3. ASSUME NEW r \in Recursos PROVE ~EnRango(x, cBloqueados[r])
    BY <1>2, <1>3, <1>8, <1>12
  <2>4. Aparte({a})
    BY <1>4, <1>6, <1>10, <2>2, <2>3
  <2> QED  BY <1>1, <1>2, <2>1, <2>4, JuegoQuita
<1>13. ASSUME NEW r \in Recursos, EnRango(x, cBloqueados[r]) PROVE Siguen({x}, {})
  <2> DEFINE a == <<"cBloqueados", r>>
  <2>1. EnRango(x, EnJuegoEn(a)) /\ EnJuegoEn(a)' = Sin(EnJuegoEn(a), x)
    BY <1>13, JuegoEn, JuegoEnDespues DEF Quitar
  <2>2. ~EnRango(x, cNEW) /\ ~EnRango(x, cREADY)
    BY <1>2, <1>3, <1>8, <1>13
  <2>3. ASSUME NEW q \in Recursos, q # r PROVE cBloqueados'[q] = cBloqueados[q]
    <3>1. <<"cBloqueados", q>> # a
      BY <2>3
    <3>2. ~EnRango(x, cBloqueados[q])
      BY <1>2, <1>3, <1>8, <1>13, <3>1
    <3> QED  BY <1>6, <3>2
  <2>4. Aparte({a})
    BY <1>4, <1>5, <1>10, <2>2, <2>3
  <2> QED  BY <1>1, <1>2, <2>1, <2>4, JuegoQuita
<1>14. CASE /\ ~EnRango(x, cNEW) /\ ~EnRango(x, cREADY)
            /\ \A r \in Recursos : ~EnRango(x, cBloqueados[r])
  <2>1. ~Activo(x)
    BY <1>14 DEF IMuertos, VictimaQuieta
  <2>2. Aparte({})
    BY <1>4, <1>5, <1>6, <1>10, <1>14
  <2> QED  BY <1>1, <2>1, <2>2, JuegoIgual, FueraDeJuego
<1> QED  BY <1>11, <1>12, <1>13, <1>14

\* The console creates a process, takes its victim out of the queues and ends it.
LEMMA EfectoConsola ==
  ASSUME ITipo, ITipo', CerrojosDeConsola, IMuertos, ConsolaNext, UNCHANGED ioVars
  PROVE  HayEfecto
<1>1. /\ pc \in [Hilos -> Lugares] /\ mano \in [Hilos -> Pids \cup {Nadie}]
      /\ estado \in [Pids -> Estados] /\ idPCB \in Int /\ LocalesEnUso /\ UNCHANGED pcIO
      /\ "consola" \in Hilos /\ ActivosVivos /\ PendientesAparte /\ SinRepetir(EnJuego)
      /\ pc["consola"] # "despierta"
  <2>1. /\ pc \in [Hilos -> Lugares] /\ mano \in [Hilos -> Pids \cup {Nadie}]
        /\ estado \in [Pids -> Estados] /\ LocalesEnUso /\ pc["consola"] # "despierta"
    BY DEF ITipo, TypeOK, PlanificacionTypeOK, LocalesTypeOK, ProcesosTypeOK, Recorridos
  <2>2. idPCB \in Int
    BY DEF ITipo, TypeOK, PlanificacionTypeOK, ProcesosTypeOK
  <2>3. UNCHANGED pcIO /\ "consola" \in Hilos
    BY DEF ioVars, Hilos
  <2>4. ActivosVivos /\ PendientesAparte /\ SinRepetir(EnJuego)
    BY DEF IMuertos, ActivosVivos
  <2> QED  BY <2>1, <2>2, <2>3, <2>4
<1>2. CASE CrearProceso
  <2> DEFINE b == <<"cNEW", "-">>
  <2>1. PICK p \in Pids : p = idPCB
    BY <1>1, <1>2 DEF CrearProceso, Pids, ITipo, TypeOK, PlanificacionTypeOK, ProcesosTypeOK
  <2>2. estado[p] = "SIN_CREAR"
    BY <1>1, <2>1 DEF IMuertos, PorCrear
  <2>3. ~Activo(p) /\ ~Pendiente(p)
    BY <1>1, <2>2 DEF ActivosVivos, PendientesAparte
  <2>4. b \in Sitios /\ EnJuegoEn(b)' = Append(EnJuegoEn(b), p)
    BY <1>2, <2>1, JuegoEn, JuegoEnDespues DEF Sitios, CrearProceso
  <2>5. Aparte({b})
    BY <1>1, <1>2 DEF CrearProceso, recursosVars, locales, Aparte, Atiende
  <2>6. Siguen({}, {p})
    BY <1>1, <2>3, <2>4, <2>5, JuegoEntra
  <2>7. /\ estado' = [estado EXCEPT ![p] = "NEW"] /\ idPCB' = idPCB + 1 /\ UNCHANGED lBlocked
        /\ planificacion # "detenida"
    BY <1>2, <2>1 DEF CrearProceso
  <2>8. TocaEstados({}, {p})
    BY <1>1, <2>1, <2>2, <2>7 DEF TocaEstados, Muerto
  <2>9. TocaPedidos({}, {p})
    BY <1>1, <2>3, <2>7 DEF TocaPedidos, Pendiente
  <2>10. Efecto({}, {p})
    BY <2>6, <2>7, <2>8, <2>9 DEF Efecto
  <2>11. {} \in SUBSET Pids /\ {p} \in SUBSET Pids
    OBVIOUS
  <2> QED  BY <2>10, <2>11 DEF HayEfecto
<1>3. CASE QuitaVictima \/ QuitaVictimaReady
  <2>1. PICK p \in Pids : p = Victima
    BY <1>1, <1>3 DEF QuitaVictima, QuitaVictimaReady, Victima, LocalesEnUso
  <2>2. /\ pc["consola"] = "quita" /\ Quitar(p) /\ UNCHANGED <<idPCB, pcIO, mano, desbl>>
        /\ \A h \in Hilos \ {"consola"} : pc'[h] = pc[h]
        /\ pc'["consola"] # "despierta" /\ lBlocked' \subseteq lBlocked
    BY <1>1, <1>3, <2>1 DEF QuitaVictima, QuitaVictimaReady, Quitar, Ir, Hilos, procesos
  <2>3. Siguen({p}, {})
    BY <2>1, <2>2, EfectoQuitar
  <2>4. TocaEstados({p}, {})
    <3>1. CASE QuitaVictima
      <4>1. estado' = [estado EXCEPT ![p] = "FINISHED"] /\ estado[p] # "SIN_CREAR"
        BY <2>1, <3>1 DEF QuitaVictima, Matar
      <4> QED  BY <2>2, <4>1, Termina
    <3>2. CASE QuitaVictimaReady
      BY <2>2, <3>2, EstadosIguales DEF QuitaVictimaReady, procesos
    <3> QED  BY <1>3, <3>1, <3>2
  <2>5. TocaPedidos({p}, {})
    BY <2>2, PedidosIguales
  <2> QED  BY <2>3, <2>4, <2>5, EfectoDe
<1>4. CASE EsperaToken
  <2>1. PICK p \in Pids : p = Victima
    BY <1>1, <1>4 DEF EsperaToken, Victima, LocalesEnUso
  <2>2. ~Activo(p) /\ estado[p] # "SIN_CREAR"
    BY <1>4, <2>1 DEF EsperaToken, IMuertos, VictimaQuieta
  <2>3. /\ Aparte({}) /\ UNCHANGED <<idPCB, lBlocked>> /\ lBlocked' \subseteq lBlocked
        /\ estado' = [estado EXCEPT ![p] = "FINISHED"]
    BY <1>1, <1>4, <2>1 DEF EsperaToken, Matar, Ir, Hilos, colas, recursosVars, Aparte, Atiende
  <2>4. Siguen({p}, {})
    BY <1>1, <2>2, <2>3, JuegoIgual, FueraDeJuego
  <2>5. TocaEstados({p}, {})
    BY <2>2, <2>3, Termina
  <2>6. TocaPedidos({p}, {})
    BY <1>1, <2>3, PedidosIguales
  <2> QED  BY <2>4, <2>5, <2>6, EfectoDe
<1>5. CASE ~(CrearProceso \/ QuitaVictima \/ QuitaVictimaReady \/ EsperaToken)
  <2>1. /\ UNCHANGED <<idPCB, estado, cNEW, cREADY, cREADY_PLUS, cBloqueados, lBlocked, desbl>>
        /\ \A h \in Hilos \ {"consola"} : pc'[h] = pc[h] /\ mano'[h] = mano[h]
        /\ pc'["consola"] # "despierta"
    BY <1>1, <1>5 DEF ConsolaNext, DetenerPlanificacion, DetenerPara, TomaMutexes,
       IniciarPlanificacion, ProcesoEstado, ListaProcesos, InterrumpirProceso, FinalizarProceso,
       BuscaVictima, NoEncuentra, QuitaVictimaYaLibre, SubirGrado, BajarGrado, RetiraCupo,
       TerminaMatadero, EncolarExit, Reanudar, Caer, Ir, IrSoltando, Hilos, procesos, colas,
       recursosVars, locales, planVars
  <2>2. Aparte({})
    BY <1>1, <2>1 DEF Aparte, Atiende
  <2> QED  BY <1>1, <2>1, <2>2, EfectoQuieto
<1> QED  BY <1>2, <1>3, <1>4, <1>5

\* Every step is of one of those kinds.
LEMMA PasoEfecto ==
  ASSUME Algoritmo # "VRR", IInv, IInv', IMuertos, [Next]_vars
  PROVE  HayEfecto
<1>1. ITipo /\ ITipo' /\ CerrojosDeConsola /\ ActivosVivos
  BY DEF IInv, IMuertos
<1>2. CASE PasoConsola
  BY <1>1, <1>2, EfectoConsola DEF PasoConsola
<1>3. CASE PasoPLP
  BY <1>1, <1>3, EfectoPLP DEF PasoPLP
<1>4. CASE PasoCarnicero
  BY <1>1, <1>4, EfectoCarnicero DEF PasoCarnicero
<1>5. CASE PasoPCP
  BY <1>1, <1>5, EfectoPCP DEF PasoPCP
<1>6. ASSUME NEW p \in Pids, PasoIO(p) PROVE HayEfecto
  BY <1>1, <1>6, EfectoHiloIO DEF PasoIO
<1>7. ASSUME \/ PasoCPU \/ PasoInterrupciones \/ UNCHANGED vars
             \/ \E p \in Pids : PasoTimer(p)
             \/ \E i \in Interfaces : PasoConexion(i)
      PROVE  HayEfecto
  <2>1. UNCHANGED <<planVars, pcIO>>
    BY <1>7 DEF PasoCPU, PasoInterrupciones, PasoTimer, VenceTimer, PasoConexion, ConectarIO,
       vars, ioVars
  <2>2. Aparte({}) /\ UNCHANGED <<idPCB, estado, pcIO>> /\ lBlocked' \subseteq lBlocked
    BY <2>1 DEF planVars, procesos, colas, recursosVars, locales, Aparte, Atiende
  <2> QED  BY <1>1, <2>2, EfectoQuieto
<1> QED  BY <1>2, <1>3, <1>4, <1>5, <1>6, <1>7 DEF Next

-----------------------------------------------------------------------------
(***************************************************************************)
(* The end of the road: cEXIT and the carnicero                            *)
(***************************************************************************)

\* Only those that have ended enter cEXIT, and the carnicero takes them from there.
SoloSalenMuertos ==
  /\ \/ UNCHANGED cEXIT
     \/ \E p \in Pids : Muerto(p) /\ cEXIT' = Append(cEXIT, p)
     \/ cEXIT # <<>> /\ cEXIT' = Tail(cEXIT)
  /\ \A h \in {"plp", "pcp", "consola"} :
       pc'[h] = "exit" =>
         \/ pc[h] = "exit" /\ mano'[h] = mano[h]
         \/ mano'[h] \in Pids /\ estado'[mano'[h]] = "FINISHED"
  /\ pc'["carnicero"] \notin {"espera", "toma"} =>
       \/ pc["carnicero"] \notin {"espera", "toma"} /\ mano'["carnicero"] = mano["carnicero"]
       \/ cEXIT # <<>> /\ mano'["carnicero"] = Head(cEXIT)
  /\ \A p \in Pids :
       pcIO'[p] \in {"exit", "exit_cae"} =>
         pcIO[p] \in {"exit", "exit_cae"} \/ estado'[p] = "FINISHED"

\* Such a step keeps FinDeCamino, since nobody revives.
LEMMA MantieneFin ==
  ASSUME ITipo, ITipo', FinDeCamino, NadieRevive, SoloSalenMuertos
  PROVE  FinDeCamino'
<1>1. /\ cEXIT \in Seq(Pids) /\ estado \in [Pids -> Estados] /\ LocalesEnUso /\ Recorridos
      /\ "carnicero" \in Hilos
  BY DEF ITipo, TypeOK, PlanificacionTypeOK, ColasTypeOK, ProcesosTypeOK, Hilos
<1>2. \A i \in DOMAIN cEXIT : cEXIT[i] \in Pids /\ estado'[cEXIT[i]] \in {"FINISHED", "LIBERADO"}
  BY <1>1 DEF FinDeCamino, NadieRevive
<1>3. \A i \in DOMAIN cEXIT' : estado'[cEXIT'[i]] \in {"FINISHED", "LIBERADO"}
  <2>1. CASE UNCHANGED cEXIT
    BY <1>2, <2>1
  <2>2. ASSUME NEW p \in Pids, Muerto(p), cEXIT' = Append(cEXIT, p)
        PROVE  \A i \in DOMAIN cEXIT' : estado'[cEXIT'[i]] \in {"FINISHED", "LIBERADO"}
    <3>1. estado'[p] \in {"FINISHED", "LIBERADO"}
      BY <2>2 DEF NadieRevive
    <3> QED  BY <1>1, <1>2, <2>2, <3>1
  <2>3. CASE cEXIT # <<>> /\ cEXIT' = Tail(cEXIT)
    BY <1>1, <1>2, <2>3
  <2> QED  BY <2>1, <2>2, <2>3 DEF SoloSalenMuertos
<1>4. ASSUME NEW h \in Hilos, pc'[h] = "exit" PROVE estado'[mano'[h]] \in {"FINISHED", "LIBERADO"}
  <2>1. h \in {"plp", "pcp", "consola"}
    <3>1. pc'["carnicero"] # "exit"
      BY DEF ITipo, Recorridos
    <3> QED  BY <1>4, <3>1 DEF Hilos
  <2>2. CASE pc[h] = "exit" /\ mano'[h] = mano[h]
    <3>1. mano[h] \in Pids /\ Muerto(mano[h])
      BY <1>1, <2>1, <2>2 DEF LocalesEnUso, FinDeCamino
    <3> QED  BY <2>2, <3>1 DEF NadieRevive
  <2> QED  BY <1>4, <2>1, <2>2 DEF SoloSalenMuertos
<1>5. ASSUME pc'["carnicero"] \notin {"espera", "toma"}
      PROVE  estado'[mano'["carnicero"]] \in {"FINISHED", "LIBERADO"}
  <2>1. CASE pc["carnicero"] \notin {"espera", "toma"} /\ mano'["carnicero"] = mano["carnicero"]
    <3>1. mano["carnicero"] \in Pids /\ Muerto(mano["carnicero"])
      BY <1>1, <2>1 DEF LocalesEnUso, FinDeCamino
    <3> QED  BY <2>1, <3>1 DEF NadieRevive
  <2>2. CASE cEXIT # <<>> /\ mano'["carnicero"] = Head(cEXIT)
    <3>1. 1 \in DOMAIN cEXIT /\ Head(cEXIT) = cEXIT[1]
      BY <1>1, <2>2
    <3> QED  BY <1>2, <2>2, <3>1
  <2> QED  BY <1>5, <2>1, <2>2 DEF SoloSalenMuertos
<1>6. ASSUME NEW p \in Pids, pcIO'[p] \in {"exit", "exit_cae"}
      PROVE  estado'[p] \in {"FINISHED", "LIBERADO"}
  BY <1>6 DEF SoloSalenMuertos, FinDeCamino, NadieRevive
<1> QED  BY <1>3, <1>4, <1>5, <1>6 DEF FinDeCamino, Muerto

\* What only the console, PLP and the scheduler do with those that end.
LEMMA SalenDeHilos ==
  ASSUME ITipo, FinDeCamino, PasoConsola \/ PasoPLP \/ PasoPCP
  PROVE  SoloSalenMuertos
<1>1. /\ pc \in [Hilos -> Lugares] /\ mano \in [Hilos -> Pids \cup {Nadie}]
      /\ estado \in [Pids -> Estados] /\ LocalesEnUso
      /\ "plp" \in Hilos /\ "pcp" \in Hilos /\ "consola" \in Hilos /\ "carnicero" \in Hilos
  BY DEF ITipo, TypeOK, PlanificacionTypeOK, LocalesTypeOK, ProcesosTypeOK, Hilos
<1>2. ASSUME NEW h \in {"plp", "pcp", "consola"}, TerminaMatadero(h), UNCHANGED pcIO
      PROVE  SoloSalenMuertos
  <2>1. mano[h] \in Pids /\ Muerto(mano[h])
    BY <1>1, <1>2 DEF TerminaMatadero, LocalesEnUso, FinDeCamino, Hilos
  <2>2. cEXIT' = Append(cEXIT, mano[h])
    BY <1>2 DEF TerminaMatadero, EncolarExit
  <2>3. pc'[h] # "exit" /\ \A k \in Hilos \ {h} : pc'[k] = pc[k] /\ mano'[k] = mano[k]
    BY <1>1, <1>2 DEF TerminaMatadero, IrSoltando, Ir, Hilos
  <2> QED  BY <1>1, <1>2, <2>1, <2>2, <2>3 DEF SoloSalenMuertos, Hilos
<1>3. CASE PasoConsola /\ ~TerminaMatadero("consola")
  <2>1. /\ UNCHANGED <<cEXIT, pcIO>>
        /\ \A h \in Hilos \ {"consola"} : pc'[h] = pc[h] /\ mano'[h] = mano[h]
    BY <1>1, <1>3 DEF PasoConsola, ConsolaNext, CrearProceso, DetenerPlanificacion, DetenerPara,
       TomaMutexes, IniciarPlanificacion, ProcesoEstado, ListaProcesos, InterrumpirProceso,
       FinalizarProceso, BuscaVictima, NoEncuentra, QuitaVictima, QuitaVictimaYaLibre,
       QuitaVictimaReady, EsperaToken, SubirGrado, BajarGrado, RetiraCupo, Ir, IrSoltando,
       Caer, colas, locales, planVars, ioVars, Hilos
  <2>2. pc'["consola"] = "exit" =>
          \/ pc["consola"] = "exit" /\ mano'["consola"] = mano["consola"]
          \/ mano'["consola"] \in Pids /\ estado'[mano'["consola"]] = "FINISHED"
    <3>1. CASE QuitaVictima \/ EsperaToken
      <4>1. mano["consola"] \in Pids /\ UNCHANGED mano
        BY <1>1, <3>1 DEF QuitaVictima, EsperaToken, LocalesEnUso
      <4>2. estado' = [estado EXCEPT ![mano["consola"]] = "FINISHED"]
        BY <3>1 DEF QuitaVictima, EsperaToken, Matar, Victima
      <4> QED  BY <1>1, <4>1, <4>2
    <3>2. CASE ~(QuitaVictima \/ EsperaToken)
      BY <1>1, <1>3, <3>2 DEF PasoConsola, ConsolaNext, CrearProceso, DetenerPlanificacion,
         DetenerPara, TomaMutexes, IniciarPlanificacion, ProcesoEstado, ListaProcesos,
         InterrumpirProceso, FinalizarProceso, BuscaVictima, NoEncuentra, QuitaVictimaYaLibre,
         QuitaVictimaReady, SubirGrado, BajarGrado, RetiraCupo, Lee, Ir, IrSoltando,
         Caer, locales, planVars
    <3> QED  BY <3>1, <3>2
  <2> QED  BY <2>1, <2>2 DEF SoloSalenMuertos, Hilos
<1>4. CASE PasoPLP /\ ~TerminaMatadero("plp")
  <2>1. UNCHANGED <<cEXIT, pcIO>> /\ \A h \in Hilos \ {"plp"} : pc'[h] = pc[h] /\ mano'[h] = mano[h]
    BY <1>1, <1>4 DEF PasoPLP, PLP, EsperaNuevo, TomaNuevo, Admite, Rechaza, AdmiteNadie,
       IngresaReady, IngresaReadyPerdido, Ir, IrSoltando, Caer, colas, locales, ioVars, Hilos
  <2>2. pc'["plp"] = "exit" =>
          \/ pc["plp"] = "exit" /\ mano'["plp"] = mano["plp"]
          \/ mano'["plp"] \in Pids /\ estado'[mano'["plp"]] = "FINISHED"
    <3>1. CASE Rechaza
      <4>1. mano["plp"] \in Pids
        BY <1>1, <3>1, LargoPlazoAssumption DEF Rechaza
      <4> QED  BY <1>1, <3>1, <4>1 DEF Rechaza
    <3>2. CASE ~Rechaza
      BY <1>1, <1>4, <3>2 DEF PasoPLP, PLP, EsperaNuevo, TomaNuevo, Admite, AdmiteNadie,
         IngresaReady, IngresaReadyPerdido, Ir, IrSoltando, Caer, locales
    <3> QED  BY <3>1, <3>2
  <2> QED  BY <2>1, <2>2 DEF SoloSalenMuertos, Hilos
<1>5. CASE PasoPCP /\ ~TerminaMatadero("pcp")
  <2>1. UNCHANGED cEXIT /\ \A h \in Hilos \ {"pcp"} : pc'[h] = pc[h] /\ mano'[h] = mano[h]
    BY <1>1, <1>5 DEF PasoPCP, PCP, EsperaListo, TomaReady, TomaReadyPlus, TomaNadie, Elegir,
       Despacha, Recibe, VuelveParaMorir, VuelvePorIO, VuelvePorPedido, VuelvePorDevolucion,
       VuelvePorQuantum, CreaHiloIO, EsperaVector, DescuentaInstancia, DecideBloquear,
       DecideOtorgar, EncolaBloqueado, ReingresaReady, ReingresaPlus, ReingresaSinMutex,
       ReingresaPerdido, Reingreso, LiberarRecurso, LiberaInstancia, MiraBloqueados,
       SacaBloqueado, SacaNadie, DespiertaBloqueado, Ir, IrSoltando, Caer, colas, locales, Hilos
  <2>2. \A p \in Pids : pcIO'[p] \in {"exit", "exit_cae"} => pcIO'[p] = pcIO[p]
    <3>1. pcIO \in [Pids -> LugaresIO]
      BY DEF ITipo, TypeOK, AtencionIOTypeOK
    <3> QED
      BY <1>5, <3>1 DEF PasoPCP, PCP, EsperaListo, TomaReady, TomaReadyPlus, TomaNadie, Elegir,
         Despacha, Recibe, VuelveParaMorir, VuelvePorIO, VuelvePorPedido, VuelvePorDevolucion,
         VuelvePorQuantum, CreaHiloIO, IrIO, EsperaVector, DescuentaInstancia, DecideBloquear,
         DecideOtorgar, EncolaBloqueado, ReingresaReady, ReingresaPlus, ReingresaSinMutex,
         ReingresaPerdido, Reingreso, ioVars
  <2>3. pc'["pcp"] = "exit" =>
          \/ pc["pcp"] = "exit" /\ mano'["pcp"] = mano["pcp"]
          \/ mano'["pcp"] \in Pids /\ estado'[mano'["pcp"]] = "FINISHED"
    <3>1. CASE VuelveParaMorir
      <4>1. mano["pcp"] \in Pids /\ UNCHANGED mano
        BY <1>1, <3>1 DEF VuelveParaMorir, LocalesEnUso
      <4>2. estado' = [estado EXCEPT ![mano["pcp"]] = "FINISHED"]
        BY <3>1 DEF VuelveParaMorir, Matar, Despachado
      <4> QED  BY <1>1, <4>1, <4>2
    <3>2. CASE ~VuelveParaMorir
      BY <1>1, <1>5, <3>2 DEF PasoPCP, PCP, EsperaListo, ColaElegida, TomaReady, TomaReadyPlus,
         TomaNadie, Elegir, Despacha, Recibe, VuelvePorIO, VuelvePorPedido, VuelvePorDevolucion,
         VuelvePorQuantum, CreaHiloIO, EsperaVector, DescuentaInstancia, DecideBloquear,
         DecideOtorgar, EncolaBloqueado, ReingresaReady, ReingresaPlus, ReingresaSinMutex,
         ReingresaPerdido, Reingreso, LiberarRecurso, LiberaInstancia, MiraBloqueados,
         SacaBloqueado, SacaNadie, DespiertaBloqueado, TrasLiberar, Ir, IrSoltando, Caer, locales
    <3> QED  BY <3>1, <3>2
  <2> QED  BY <2>1, <2>2, <2>3 DEF SoloSalenMuertos, Hilos
<1>6. CASE TerminaMatadero("pcp") /\ PasoPCP
  <2>1. UNCHANGED pcIO
    BY <1>6 DEF TerminaMatadero, PasoPCP, PCP, EsperaListo, TomaReady, TomaReadyPlus, TomaNadie,
       Despacha, Recibe, VuelveParaMorir, VuelvePorIO, VuelvePorPedido, VuelvePorDevolucion,
       VuelvePorQuantum, CreaHiloIO, EsperaVector, DescuentaInstancia, DecideBloquear,
       DecideOtorgar, EncolaBloqueado, ReingresaReady, ReingresaPlus, ReingresaSinMutex,
       ReingresaPerdido, ioVars
  <2> QED  BY <1>2, <1>6, <2>1
<1> QED  BY <1>2, <1>3, <1>4, <1>5, <1>6 DEF PasoConsola, PasoPLP, ioVars

\* The carnicero only takes from cEXIT.
LEMMA SalenDelCarnicero ==
  ASSUME ITipo, PasoCarnicero
  PROVE  SoloSalenMuertos
<1>1. /\ pc \in [Hilos -> Lugares] /\ mano \in [Hilos -> Pids \cup {Nadie}]
      /\ "plp" \in Hilos /\ "pcp" \in Hilos /\ "consola" \in Hilos /\ "carnicero" \in Hilos
  BY DEF ITipo, TypeOK, PlanificacionTypeOK, LocalesTypeOK, Hilos
<1>2. /\ \A h \in Hilos \ {"carnicero"} : pc'[h] = pc[h] /\ mano'[h] = mano[h]
      /\ UNCHANGED pcIO
  BY <1>1 DEF PasoCarnicero, Carnicero, EsperaFinalizado, TomaFinalizado, SueltaRecurso,
     LiberaProceso, LiberarRecurso, LiberaInstancia, MiraBloqueados, SacaBloqueado, SacaNadie,
     DespiertaBloqueado, Ir, IrSoltando, Caer, locales, ioVars
<1>3. CASE TomaFinalizado
  <2>1. cEXIT # <<>>
    BY <1>3 DEF ITipo, TypeOK, PlanificacionTypeOK, SemaforosTypeOK, TokensEXIT, TomaFinalizado
  <2>2. cEXIT' = Tail(cEXIT) /\ mano'["carnicero"] = Head(cEXIT)
    BY <1>1, <1>3 DEF TomaFinalizado
  <2> QED  BY <1>2, <2>1, <2>2 DEF SoloSalenMuertos, Hilos
<1>4. CASE ~TomaFinalizado
  <2>1. /\ UNCHANGED cEXIT
        /\ pc'["carnicero"] \notin {"espera", "toma"} =>
             pc["carnicero"] \notin {"espera", "toma"} /\ mano'["carnicero"] = mano["carnicero"]
    BY <1>1, <1>4 DEF PasoCarnicero, Carnicero, EsperaFinalizado, SueltaRecurso, LiberaProceso,
       LiberarRecurso, LiberaInstancia, MiraBloqueados, SacaBloqueado, SacaNadie,
       DespiertaBloqueado, Ir, IrSoltando, Caer, colas, locales
  <2> QED  BY <1>2, <2>1 DEF SoloSalenMuertos, Hilos
<1> QED  BY <1>3, <1>4

\* The thread of a request ends its process, and then puts it in cEXIT.
LEMMA SalenDeIO ==
  ASSUME ITipo, FinDeCamino, NEW p \in Pids, PasoIO(p)
  PROVE  SoloSalenMuertos
<1>1. pcIO \in [Pids -> LugaresIO] /\ estado \in [Pids -> Estados]
  BY DEF ITipo, TypeOK, PlanificacionTypeOK, ProcesosTypeOK, AtencionIOTypeOK
<1>2. /\ UNCHANGED <<pc, mano>> /\ \A q \in Pids \ {p} : pcIO'[q] = pcIO[q]
  BY <1>1 DEF PasoIO, AtenderSolicitudIO, RecibeVector, BuscaInterfaz, TomaInterfaz,
     UsaConexionLiberada, Repone, RespondeIO, FallaIO, FallaIODeMuerto, TerminaMataderoIO,
     CortaConexion, ExitoIO, ExitoIODeMuerto, DespiertaDeIO, IrIO, Caer, planVars, locales, ioVars
<1>3. CASE TerminaMataderoIO(p)
  <2>1. pcIO[p] \in {"exit", "exit_cae"} /\ Muerto(p) /\ cEXIT' = Append(cEXIT, p)
    BY <1>3 DEF TerminaMataderoIO, EncolarExit, FinDeCamino
  <2> QED  BY <1>2, <2>1 DEF SoloSalenMuertos, Hilos
<1>4. CASE ~TerminaMataderoIO(p)
  <2>1. UNCHANGED cEXIT
    BY <1>4 DEF PasoIO, AtenderSolicitudIO, RecibeVector, BuscaInterfaz, TomaInterfaz,
       UsaConexionLiberada, Repone, RespondeIO, FallaIO, FallaIODeMuerto, CortaConexion, ExitoIO,
       ExitoIODeMuerto, DespiertaDeIO, Caer, planVars, colas
  <2>2. pcIO'[p] \in {"exit", "exit_cae"} =>
          pcIO[p] \in {"exit", "exit_cae"} \/ estado'[p] = "FINISHED"
    <3>1. CASE FallaIO(p)
      BY <1>1, <3>1 DEF FallaIO, Matar
    <3>2. CASE RespondeIO(p)
      <4>1. PICK resp \in RespuestasIO :
              IrIO(p, CASE resp = "IO_SUCCESS" -> "exito"
                        [] resp = "IO_FAILURE" -> "falla"
                        [] resp = "DESCONEXION" -> "falla_cae")
        BY <3>2 DEF RespondeIO
      <4>2. resp \in {"IO_SUCCESS", "IO_FAILURE", "DESCONEXION"}
        BY AtencionIOAssumption
      <4> QED  BY <1>1, <4>1, <4>2 DEF IrIO
    <3>3. CASE ~FallaIO(p) /\ ~RespondeIO(p)
      BY <1>1, <1>4, <3>3 DEF PasoIO, AtenderSolicitudIO, RecibeVector, BuscaInterfaz,
         TomaInterfaz, UsaConexionLiberada, Repone, FallaIODeMuerto, CortaConexion, ExitoIO,
         ExitoIODeMuerto, DespiertaDeIO, IrIO, ioVars
    <3> QED  BY <3>1, <3>2, <3>3
  <2> QED  BY <1>2, <2>1, <2>2 DEF SoloSalenMuertos, Hilos
<1> QED  BY <1>3, <1>4

LEMMA PasoFin ==
  ASSUME ITipo, ITipo', FinDeCamino, NadieRevive, [Next]_vars
  PROVE  FinDeCamino'
<1>1. ASSUME \/ PasoCPU \/ PasoInterrupciones \/ UNCHANGED vars
             \/ \E p \in Pids : PasoTimer(p)
             \/ \E i \in Interfaces : PasoConexion(i)
      PROVE  SoloSalenMuertos
  <2>1. UNCHANGED <<pc, mano, cEXIT, pcIO>>
    BY <1>1 DEF PasoCPU, PasoInterrupciones, PasoTimer, VenceTimer, PasoConexion, ConectarIO,
       vars, ioVars, planVars, locales, colas
  <2> QED  BY <2>1 DEF SoloSalenMuertos
<1>2. ASSUME NEW p \in Pids, PasoIO(p) PROVE SoloSalenMuertos
  BY <1>2, SalenDeIO
<1>3. SoloSalenMuertos
  BY <1>1, <1>2, SalenDeHilos, SalenDelCarnicero DEF Next
<1> QED  BY <1>3, MantieneFin

-----------------------------------------------------------------------------
(***************************************************************************)
(* The victim of the console                                               *)
(***************************************************************************)

\* Without VRR nobody uses cREADY_PLUS.
LEMMA PasoSinPlus ==
  ASSUME ITipo, Algoritmo # "VRR", SinPlus, [Next]_vars
  PROVE  SinPlus'
<1>1. pc \in [Hilos -> Lugares] /\ cREADY_PLUS = <<>> /\ ~EsVrr
  BY DEF ITipo, TypeOK, PlanificacionTypeOK, LocalesTypeOK, SinPlus, EsVrr
<1>2. CASE PasoPCP
  BY <1>1, <1>2 DEF SinPlus, PasoPCP, PCP, EsperaListo, ColaElegida, TomaReady, TomaReadyPlus,
     Elegir, TomaNadie, Despacha, Recibe, VuelveParaMorir, VuelvePorIO, VuelvePorPedido,
     VuelvePorDevolucion, VuelvePorQuantum, CreaHiloIO, EsperaVector, DescuentaInstancia,
     DecideBloquear, DecideOtorgar, EncolaBloqueado, ReingresaReady, ReingresaPlus,
     ReingresaSinMutex, ReingresaPerdido, Reingreso, TerminaMatadero, EncolarExit, LiberarRecurso,
     LiberaInstancia, MiraBloqueados, SacaBloqueado, SacaNadie, DespiertaBloqueado, Despertar,
     AReady, TrasLiberar, Ir, IrSoltando, Caer, Hilos, colas, locales
<1>3. CASE PasoConsola
  <2>1. Sin(cREADY_PLUS, Victima) = <<>>
    BY <1>1 DEF Sin
  <2>2. UNCHANGED cREADY_PLUS
    BY <1>1, <1>3, <2>1 DEF PasoConsola, ConsolaNext, CrearProceso, DetenerPlanificacion,
       DetenerPara, TomaMutexes, IniciarPlanificacion, ProcesoEstado, ListaProcesos,
       InterrumpirProceso, FinalizarProceso, BuscaVictima, NoEncuentra, QuitaVictima, Quitar,
       QuitaVictimaYaLibre, QuitaVictimaReady, EsperaToken, SubirGrado, BajarGrado,
       RetiraCupo, TerminaMatadero, Caer, planVars, colas
  <2>3. pc'["pcp"] = pc["pcp"]
    BY <1>1, <1>3 DEF PasoConsola, ConsolaNext, CrearProceso, DetenerPlanificacion,
       DetenerPara, TomaMutexes, IniciarPlanificacion, ProcesoEstado, ListaProcesos,
       InterrumpirProceso, FinalizarProceso, BuscaVictima, NoEncuentra, QuitaVictima,
       QuitaVictimaYaLibre, QuitaVictimaReady, EsperaToken, SubirGrado, BajarGrado,
       RetiraCupo, TerminaMatadero, Ir, IrSoltando, Caer, Hilos, planVars, locales
  <2> QED  BY <2>2, <2>3 DEF SinPlus
<1>4. CASE PasoPLP \/ PasoCarnicero
  <2>1. UNCHANGED cREADY_PLUS
    BY <1>1, <1>4 DEF PasoPLP, PLP, EsperaNuevo, TomaNuevo, Admite, Rechaza, AdmiteNadie,
       IngresaReady, IngresaReadyPerdido, TerminaMatadero, PasoCarnicero, Carnicero,
       EsperaFinalizado, TomaFinalizado, SueltaRecurso, LiberaProceso, LiberarRecurso,
       LiberaInstancia, MiraBloqueados, SacaBloqueado, SacaNadie, DespiertaBloqueado, Despertar,
       AReady, Caer, colas
  <2>2. pc'["pcp"] = pc["pcp"]
    BY <1>1, <1>4 DEF PasoPLP, PLP, EsperaNuevo, TomaNuevo, Admite, Rechaza, AdmiteNadie,
       IngresaReady, IngresaReadyPerdido, TerminaMatadero, PasoCarnicero, Carnicero,
       EsperaFinalizado, TomaFinalizado, SueltaRecurso, LiberaProceso, LiberarRecurso,
       LiberaInstancia, MiraBloqueados, SacaBloqueado, SacaNadie, DespiertaBloqueado, Ir,
       IrSoltando, Caer, Hilos, locales
  <2> QED  BY <2>1, <2>2 DEF SinPlus
<1>5. ASSUME NEW p \in Pids, PasoIO(p) PROVE UNCHANGED <<cREADY_PLUS, pc>>
  BY <1>1, <1>5 DEF PasoIO, AtenderSolicitudIO, RecibeVector, BuscaInterfaz, TomaInterfaz,
     UsaConexionLiberada, Repone, RespondeIO, FallaIO, FallaIODeMuerto, TerminaMataderoIO,
     CortaConexion, ExitoIO, ExitoIODeMuerto, DespiertaDeIO, Despertar, AReady, Caer, planVars,
     colas, locales
<1>6. ASSUME \/ PasoCPU \/ PasoInterrupciones \/ UNCHANGED vars
             \/ \E p \in Pids : PasoTimer(p)
             \/ \E i \in Interfaces : PasoConexion(i)
      PROVE  UNCHANGED <<cREADY_PLUS, pc>>
  BY <1>6 DEF PasoCPU, PasoInterrupciones, PasoTimer, VenceTimer, PasoConexion, ConectarIO,
     vars, planVars, locales, colas
<1> QED  BY <1>2, <1>3, <1>4, <1>5, <1>6 DEF Next, SinPlus

\* The console finds its victim and takes it out; nobody else moves its program counter
\* or changes whom it is after.
LEMMA ConsolaEnBusca ==
  ASSUME ITipo, [Next]_vars, pc'["consola"] \in {"quita", "token"}
  PROVE  /\ mano'["consola"] = mano["consola"]
         /\ \/ pc'["consola"] = pc["consola"]
            \/ PasoConsola /\ BuscaVictima
            \/ PasoConsola /\ QuitaVictimaReady
<1>1. /\ pc \in [Hilos -> Lugares] /\ mano \in [Hilos -> Pids \cup {Nadie}]
      /\ "plp" \in Hilos /\ "pcp" \in Hilos /\ "consola" \in Hilos /\ "carnicero" \in Hilos
  BY DEF ITipo, TypeOK, PlanificacionTypeOK, LocalesTypeOK, Hilos
<1>2. CASE PasoConsola
  BY <1>1, <1>2 DEF PasoConsola, ConsolaNext, CrearProceso, DetenerPlanificacion,
     DetenerPara, TomaMutexes, IniciarPlanificacion, ProcesoEstado, ListaProcesos,
     InterrumpirProceso, FinalizarProceso, BuscaVictima, NoEncuentra, QuitaVictima,
     QuitaVictimaYaLibre, QuitaVictimaReady, EsperaToken, SubirGrado, BajarGrado,
     RetiraCupo, TerminaMatadero, Ir, IrSoltando, Caer, planVars, locales
<1>3. CASE PasoPLP
  BY <1>1, <1>3 DEF PasoPLP, PLP, EsperaNuevo, TomaNuevo, Admite, Rechaza, AdmiteNadie,
     IngresaReady, IngresaReadyPerdido, TerminaMatadero, Ir, IrSoltando, Caer, locales
<1>4. CASE PasoCarnicero
  BY <1>1, <1>4 DEF PasoCarnicero, Carnicero, EsperaFinalizado, TomaFinalizado, SueltaRecurso,
     LiberaProceso, LiberarRecurso, LiberaInstancia, MiraBloqueados, SacaBloqueado, SacaNadie,
     DespiertaBloqueado, Ir, IrSoltando, Caer, locales
<1>5. CASE PasoPCP
  BY <1>1, <1>5 DEF PasoPCP, PCP, EsperaListo, TomaReady, TomaReadyPlus, Elegir, TomaNadie,
     Despacha, Recibe, VuelveParaMorir, VuelvePorIO, VuelvePorPedido, VuelvePorDevolucion,
     VuelvePorQuantum, CreaHiloIO, EsperaVector, DescuentaInstancia, DecideBloquear,
     DecideOtorgar, EncolaBloqueado, ReingresaReady, ReingresaPlus, ReingresaSinMutex,
     ReingresaPerdido, Reingreso, TerminaMatadero, LiberarRecurso, LiberaInstancia,
     MiraBloqueados, SacaBloqueado, SacaNadie, DespiertaBloqueado, Ir, IrSoltando, Caer, locales
<1>6. ASSUME NEW p \in Pids, PasoIO(p) PROVE UNCHANGED <<mano, pc>>
  BY <1>6 DEF PasoIO, AtenderSolicitudIO, RecibeVector, BuscaInterfaz, TomaInterfaz,
     UsaConexionLiberada, Repone, RespondeIO, FallaIO, FallaIODeMuerto, TerminaMataderoIO,
     CortaConexion, ExitoIO, ExitoIODeMuerto, DespiertaDeIO, Caer, planVars, locales
<1>7. ASSUME \/ PasoCPU \/ PasoInterrupciones \/ UNCHANGED vars
             \/ \E p \in Pids : PasoTimer(p)
             \/ \E i \in Interfaces : PasoConexion(i)
      PROVE  UNCHANGED <<mano, pc>>
  BY <1>7 DEF PasoCPU, PasoInterrupciones, PasoTimer, VenceTimer, PasoConexion, ConectarIO,
     vars, planVars, locales
<1> QED  BY <1>2, <1>3, <1>4, <1>5, <1>6, <1>7 DEF Next

\* While scheduling is stopped nobody comes into play, and who exists goes on existing.
LEMMA DetenidaSinEntradas ==
  ASSUME HayEfecto, planificacion = "detenida", NEW x \in Pids
  PROVE  /\ ~Activo(x) => ~(Activo(x)')
         /\ estado[x] # "SIN_CREAR" => estado'[x] # "SIN_CREAR"
<1>1. PICK S \in SUBSET Pids, N \in SUBSET Pids : Efecto(S, N)
  BY DEF HayEfecto
<1>2. N = {}
  BY <1>1 DEF Efecto
<1>3. ~Activo(x) => ~(Activo(x)')
  BY <1>1, <1>2 DEF Efecto, Siguen, Activo
<1>4. estado[x] # "SIN_CREAR" => estado'[x] # "SIN_CREAR"
  BY <1>1 DEF Efecto, TocaEstados
<1> QED  BY <1>3, <1>4

\* The console's victim stays where the console found it, or out of play, until the
\* console ends it.
LEMMA PasoVictima ==
  ASSUME Algoritmo # "VRR", IInv, IInv', IMuertos, HayEfecto, [Next]_vars
  PROVE  VictimaQuieta'
<1> SUFFICES ASSUME pc'["consola"] \in {"quita", "token"}
             PROVE  VictimaQuieta'
  BY DEF VictimaQuieta
<1>1. /\ ITipo /\ ITipo' /\ CerrojosDeConsola /\ CerrojosDeConsola'
      /\ VictimaQuieta /\ SinPlus /\ PendientesAparte
  BY DEF IInv, IMuertos
<1>2. /\ Victima' = Victima
      /\ \/ pc'["consola"] = pc["consola"]
         \/ PasoConsola /\ BuscaVictima
         \/ PasoConsola /\ QuitaVictimaReady
  BY <1>1, ConsolaEnBusca DEF Victima
<1>3. pc["consola"] \in {"busca", "quita", "token"}
  BY <1>2 DEF BuscaVictima, QuitaVictimaReady
<1>4. PICK x \in Pids : x = Victima /\ x = Victima'
  BY <1>1, <1>2, <1>3 DEF ITipo, LocalesEnUso, Victima
<1>5. planificacion = "detenida" /\ planificacion' = "detenida"
  <2>1. planificacion = "detenida"
    BY <1>1, <1>3 DEF CerrojosDeConsola
  <2>2. planificacion' = "detenida"
    BY <1>1 DEF CerrojosDeConsola
  <2> QED  BY <2>1, <2>2
<1>6. /\ ~Activo(x) => ~(Activo(x)')
      /\ estado[x] # "SIN_CREAR" => estado'[x] # "SIN_CREAR"
  BY <1>5, DetenidaSinEntradas
<1>7. CASE pc'["consola"] = pc["consola"]
  <2>1. UNCHANGED <<cNEW, cREADY, cBloqueados>>
    BY <1>1, <1>5, <1>7, PasoCongelado DEF SinPlus, Congelado
  <2> QED  BY <1>1, <1>4, <1>6, <1>7, <2>1 DEF VictimaQuieta, EnRango
<1>8. CASE BuscaVictima
  <2>1. UNCHANGED <<cNEW, cREADY, cBloqueados>> /\ pc'["consola"] = "quita" /\ Listado(x)
    BY <1>1, <1>4, <1>8 DEF BuscaVictima, colas, recursosVars, Ir, Hilos, ITipo, TypeOK,
       PlanificacionTypeOK, LocalesTypeOK
  <2>2. \/ EnRango(x, cNEW) \/ EnRango(x, cREADY) \/ x \in lBlocked
        \/ \E r \in Recursos : EnRango(x, cBloqueados[r])
    BY <1>1, <2>1 DEF Listado, SinPlus, EnRango
  <2>3. x \in lBlocked => ~(Activo(x)')
    BY <1>1, <1>6 DEF PendientesAparte, Pendiente
  <2> QED  BY <1>4, <2>1, <2>2, <2>3 DEF VictimaQuieta, EnRango
<1>9. CASE PasoConsola /\ QuitaVictimaReady
  <2>1. /\ pc["consola"] = "quita" /\ Quitar(x) /\ UNCHANGED <<pcIO, mano, desbl, estado>>
        /\ pc'["consola"] = "token" /\ estado[x] # "SIN_CREAR"
        /\ \A h \in Hilos \ {"consola"} : pc'[h] = pc[h]
    BY <1>1, <1>4, <1>9 DEF PasoConsola, QuitaVictimaReady, Ir, Hilos, procesos, ioVars, ITipo,
       TypeOK, PlanificacionTypeOK, LocalesTypeOK
  <2>2. Siguen({x}, {})
    BY <1>1, <1>4, <2>1, EfectoQuitar
  <2>3. ~(Activo(x)')
    BY <2>2 DEF Siguen, Activo
  <2> QED  BY <1>4, <2>1, <2>3 DEF VictimaQuieta
<1> QED  BY <1>2, <1>7, <1>8, <1>9

-----------------------------------------------------------------------------
(***************************************************************************)
(* Theorem                                                                 *)
(***************************************************************************)
LEMMA MuertosInit == Init => IMuertos
<1> SUFFICES ASSUME Init PROVE IMuertos
  OBVIOUS
<1>1. /\ cNEW = <<>> /\ cREADY = <<>> /\ cREADY_PLUS = <<>> /\ cEXIT = <<>> /\ lBlocked = {}
      /\ cBloqueados = [r \in Recursos |-> <<>>] /\ estado = [p \in Pids |-> "SIN_CREAR"]
      /\ pc = [h \in Hilos |-> IF h = "consola" THEN "lee" ELSE "espera"]
      /\ pcIO = [p \in Pids |-> "nada"] /\ mano = [h \in Hilos |-> Nadie]
  BY DEF Init, PlanificacionInit, AtencionIOInit
<1>2. ASSUME NEW s \in Sitios PROVE EnJuego[s] = <<>>
  BY <1>1 DEF EnJuego, EnJuegoEn, En, Si, Sitios, Atiende, Hilos
<1>3. ActivosVivos
  BY <1>2 DEF ActivosVivos, SinRepetir, Activo, Presente, EnJuego
<1>4. PendientesAparte
  BY <1>1 DEF PendientesAparte, Pendiente
<1>5. PorCrear /\ FinDeCamino /\ VictimaQuieta /\ SinPlus
  BY <1>1 DEF PorCrear, FinDeCamino, VictimaQuieta, SinPlus, Hilos
<1> QED  BY <1>3, <1>4, <1>5 DEF IMuertos

LEMMA PasoMuertos ==
  ASSUME Algoritmo # "VRR", IInv, IInv', IMuertos, [Next]_vars
  PROVE  IMuertos' /\ NadieRevive
<1>1. HayEfecto
  BY PasoEfecto
<1>2. ITipo /\ ITipo' /\ ActivosVivos /\ PendientesAparte /\ PorCrear /\ FinDeCamino /\ SinPlus
  BY DEF IInv, IMuertos
<1>3. ActivosVivos' /\ PendientesAparte' /\ PorCrear' /\ NadieRevive
  BY <1>1, <1>2, Mantiene
<1>4. FinDeCamino'
  BY <1>2, <1>3, PasoFin
<1>5. SinPlus'
  BY <1>2, PasoSinPlus
<1>6. VictimaQuieta'
  BY <1>1, PasoVictima
<1> QED  BY <1>3, <1>4, <1>5, <1>6 DEF IMuertos

\* Under FIFO and RR, whoever is killed, by whichever of the console, the I/O threads,
\* the long-term scheduler and its own program, and however their steps and the list
\* operations that race interleave, never gets another state: no thread that had the
\* process in hand, in a queue or in an I/O request makes it READY, RUNNING or BLOCKED
\* again (kernel.c:281-345, 850-1006).  Under VRR it is false, because the console does
\* not lock mREADY_PLUS.
THEOREM LosMuertosNoReviven ==
  ASSUME Algoritmo # "VRR"
  PROVE  Spec => MuertoNoRevive
<1>1. Init => IMuertos
  BY MuertosInit
<1>2. IInv /\ IInv' /\ IMuertos /\ [Next]_vars => IMuertos'
  BY PasoMuertos
<1>3. IInv /\ IInv' /\ IMuertos /\ [Next]_vars =>
        [ \A p \in Pids : Muerto(p) => Muerto(p)' ]_vars
  BY PasoMuertos DEF NadieRevive, Muerto
<1> QED  BY <1>1, <1>2, <1>3, Invariante, PTL DEF Spec, MuertoNoRevive
=============================================================================
