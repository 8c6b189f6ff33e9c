---------------------------- MODULE BloqueoProofs ----------------------------
(***************************************************************************)
(* Theorems about Bloqueo for any number of accounts and of overlapping     *)
(* requests, any limit and any lock time.                                   *)
(***************************************************************************)
EXTENDS Bloqueo, TLAPS

-----------------------------------------------------------------------------
\* The inductive invariant behind the types and the bound of the counter, for
\* any set of program counters that has those of Bloqueo.

\* what a request in progress holds
Bien(p) ==
  /\ EnCurso(p) => peticiones[p].u \in Usuarios
  /\ peticiones[p].pc \in {"bloquear", "correoBloqueo"} =>
       peticiones[p].codigo \in Aleatorios

\* what its copy of the counter may be
CopiaAcotada(p) ==
  /\ En(p, "leido") => peticiones[p].intentos <= WRONG_LOGIN_LIMIT
  /\ En(p, "comparar") =>
       \/ peticiones[p].intentos < WRONG_LOGIN_LIMIT
       \/ Vencida(peticiones[p].fecha)
  /\ peticiones[p].pc \in {"restaurarBloqueo", "contar"} =>
       peticiones[p].intentos <= WRONG_LOGIN_LIMIT

InvIntentos(pcs) ==
  /\ Tipos(pcs)
  /\ \A p \in Peticiones : Bien(p) /\ CopiaAcotada(p)
  /\ IntentosAcotados

-----------------------------------------------------------------------------
\* The record of an unused slot is a request.
LEMMA LibreTipado ==
  ASSUME NEW Pcs, "libre" \in Pcs
  PROVE  Libre \in Peticion(Pcs)
BY DEF Libre, Peticion, Fecha, Codigo

\* A row as the registrations leave it is a row.
LEMMA FilaNuevaTipada ==
  ASSUME NEW e \in Estados, NEW k \in Contrasenas \cup {Nulo}
  PROVE  FilaNueva(e, k) \in Fila
BY DEF FilaNueva, Fila, Fecha, Codigo

\* The three UPDATEs keep the rows typed.
LEMMA EscribirBloqueoTipado ==
  ASSUME usuarios \in [Usuarios -> Fila], NEW u \in Usuarios,
         NEW c \in Codigo, NEW f \in Fecha, EscribirBloqueo(u, c, f)
  PROVE  usuarios' \in [Usuarios -> Fila]
BY DEF EscribirBloqueo, Fila

LEMMA EscribirContadorTipado ==
  ASSUME usuarios \in [Usuarios -> Fila], NEW u \in Usuarios, NEW n \in Nat,
         EscribirContador(u, n)
  PROVE  usuarios' \in [Usuarios -> Fila]
BY DEF EscribirContador, Fila

LEMMA EscribirDesbloqueoTipado ==
  ASSUME usuarios \in [Usuarios -> Fila], NEW u \in Usuarios, EscribirDesbloqueo(u)
  PROVE  usuarios' \in [Usuarios -> Fila]
BY DEF EscribirDesbloqueo, Fila, Fecha, Codigo

\* A step of one request that gives it a good record keeps all requests good,
\* as long as the clock does not go back.
LEMMA SigueBien ==
  ASSUME NEW Pcs, Tipos(Pcs), NEW p \in Peticiones, NEW r \in Peticion(Pcs),
         Sigue(p, r), reloj' = reloj,
         \A q \in Peticiones : Bien(q) /\ CopiaAcotada(q),
         r.pc # "libre" => r.u \in Usuarios,
         r.pc \in {"bloquear", "correoBloqueo"} => r.codigo \in Aleatorios,
         r.pc = "leido" => r.intentos <= WRONG_LOGIN_LIMIT,
         r.pc = "comparar" => r.intentos < WRONG_LOGIN_LIMIT \/ Vencida(r.fecha),
         r.pc \in {"restaurarBloqueo", "contar"} => r.intentos <= WRONG_LOGIN_LIMIT
  PROVE  /\ peticiones' \in [Peticiones -> Peticion(Pcs)]
         /\ \A q \in Peticiones : Bien(q)' /\ CopiaAcotada(q)'
<1>1. peticiones' = [peticiones EXCEPT ![p] = r] /\ peticiones \in [Peticiones -> Peticion(Pcs)]
  BY DEF Sigue, Tipos
<1>2. peticiones' \in [Peticiones -> Peticion(Pcs)]
  BY <1>1
<1>3. ASSUME NEW q \in Peticiones PROVE Bien(q)' /\ CopiaAcotada(q)'
  <2>1. CASE q = p
    <3>1. peticiones'[q] = r
      BY <1>1, <2>1
    <3>2. QED
      BY <3>1 DEF Bien, CopiaAcotada, EnCurso, En, Vencida
  <2>2. CASE q # p
    <3>1. peticiones'[q] = peticiones[q]
      BY <1>1, <2>2
    <3>2. QED
      BY <3>1 DEF Bien, CopiaAcotada, EnCurso, En, Vencida
  <2>3. QED
    BY <2>1, <2>2
<1>4. QED
  BY <1>2, <1>3

-----------------------------------------------------------------------------
\* Every step of a login or an unlocking request keeps the invariant: it leads
\* the request to a good record and writes a good row.
LEMMA PasoBloqueo ==
  ASSUME NEW Pcs, PcBloqueo \subseteq Pcs, InvIntentos(Pcs),
         NEW p \in Peticiones, ContinuarBloqueo(p)
  PROVE  InvIntentos(Pcs)'
<1> DEFINE h == peticiones[p]
<1>t. /\ h \in Peticion(Pcs) /\ Libre \in Peticion(Pcs)
      /\ Tipos(Pcs) /\ IntentosAcotados
      /\ \A q \in Peticiones : Bien(q) /\ CopiaAcotada(q)
  BY LibreTipado DEF InvIntentos, Tipos, PcBloqueo
<1>l. Libre.pc = "libre"
  BY DEF Libre
<1>1. CASE VerificarPermitido(p)
  <2> DEFINE r == [h EXCEPT !.pc = "comparar"]
  <2>1. r \in Peticion(Pcs)
    BY <1>t DEF Peticion, PcBloqueo
  <2>2. /\ r.pc = "comparar" /\ r.u = h.u
        /\ r.intentos = h.intentos /\ r.fecha = h.fecha
    BY <1>t DEF Peticion
  <2>3. h.u \in Usuarios
    BY <1>1, <1>t DEF VerificarPermitido, En, Bien, EnCurso
  <2>4. r.intentos < WRONG_LOGIN_LIMIT \/ Vencida(r.fecha)
    BY <1>1, <2>2 DEF VerificarPermitido, BajoLimite
  <2>5. Sigue(p, r) /\ UNCHANGED <<usuarios, reloj, entregados, erroneos>>
    BY <1>1 DEF VerificarPermitido
  <2>6. /\ peticiones' \in [Peticiones -> Peticion(Pcs)]
        /\ \A q \in Peticiones : Bien(q)' /\ CopiaAcotada(q)'
    BY <1>t, <2>1, <2>2, <2>3, <2>4, <2>5, SigueBien
  <2>7. QED
    BY <1>t, <2>5, <2>6 DEF InvIntentos, Tipos, IntentosAcotados
<1>2. CASE VerificarBloqueada(p)
  <2>1. Sigue(p, Libre) /\ UNCHANGED <<usuarios, reloj, entregados, erroneos>>
    BY <1>2 DEF VerificarBloqueada, Termina
  <2>2. /\ peticiones' \in [Peticiones -> Peticion(Pcs)]
        /\ \A q \in Peticiones : Bien(q)' /\ CopiaAcotada(q)'
    BY <1>t, <1>l, <2>1, SigueBien
  <2>3. QED
    BY <1>t, <2>1, <2>2 DEF InvIntentos, Tipos, IntentosAcotados
<1>3. ASSUME NEW c \in Aleatorios, VerificarGenerar(p, c)
      PROVE  InvIntentos(Pcs)'
  <2> DEFINE r == [h EXCEPT !.pc = "bloquear", !.codigo = c,
                            !.fecha = reloj + MINUTES_LOGIN_LOCK]
  <2>f. reloj + MINUTES_LOGIN_LOCK \in Fecha /\ c \in Codigo /\ "bloquear" \in Pcs
    BY <1>t, MinutosSupuesto DEF Tipos, Fecha, Codigo, PcBloqueo
  <2>1. r \in Peticion(Pcs)
    BY <1>t, <2>f DEF Peticion
  <2>2. r.pc = "bloquear" /\ r.u = h.u /\ r.codigo = c
    BY <1>t DEF Peticion
  <2>3. h.u \in Usuarios
    BY <1>3, <1>t DEF VerificarGenerar, En, Bien, EnCurso
  <2>4. /\ Sigue(p, r) /\ UNCHANGED <<usuarios, reloj, erroneos>>
        /\ entregados' \subseteq entregados
    BY <1>3 DEF VerificarGenerar, Generar, Nuevo
  <2>5. /\ peticiones' \in [Peticiones -> Peticion(Pcs)]
        /\ \A q \in Peticiones : Bien(q)' /\ CopiaAcotada(q)'
    BY <1>t, <2>1, <2>2, <2>3, <2>4, SigueBien
  <2>6. QED
    BY <1>t, <2>4, <2>5 DEF InvIntentos, Tipos, IntentosAcotados
<1>4. CASE ActualizarDatosBloqueo(p)
  <2> DEFINE r == [h EXCEPT !.pc = "correoBloqueo"]
  <2>1. r \in Peticion(Pcs) /\ h.codigo \in Codigo /\ h.fecha \in Fecha
    BY <1>t DEF Peticion, PcBloqueo
  <2>2. r.pc = "correoBloqueo" /\ r.u = h.u /\ r.codigo = h.codigo
    BY <1>t DEF Peticion
  <2>3. h.u \in Usuarios /\ h.codigo \in Aleatorios
    BY <1>4, <1>t DEF ActualizarDatosBloqueo, En, Bien, EnCurso
  <2>4. /\ Sigue(p, r) /\ UNCHANGED <<reloj, entregados, erroneos>>
        /\ EscribirBloqueo(h.u, h.codigo, h.fecha)
    BY <1>4 DEF ActualizarDatosBloqueo
  <2>5. /\ peticiones' \in [Peticiones -> Peticion(Pcs)]
        /\ \A q \in Peticiones : Bien(q)' /\ CopiaAcotada(q)'
    BY <1>t, <2>1, <2>2, <2>3, <2>4, SigueBien
  <2>6. usuarios' \in [Usuarios -> Fila]
    BY <1>t, <2>1, <2>3, <2>4, EscribirBloqueoTipado DEF Tipos
  <2>7. IntentosAcotados'
    BY <1>t, <2>4 DEF EscribirBloqueo, IntentosAcotados, Tipos, Fila
  <2>8. QED
    BY <1>t, <2>4, <2>5, <2>6, <2>7 DEF InvIntentos, Tipos
<1>5. CASE EnviarCorreoBloqueo(p)
  <2>1. /\ Sigue(p, Libre) /\ UNCHANGED <<usuarios, reloj, erroneos>>
        /\ entregados' = entregados \cup {h.codigo} /\ h.codigo \in Aleatorios
    BY <1>5, <1>t DEF EnviarCorreoBloqueo, Termina, Enviar, En, Bien
  <2>2. /\ peticiones' \in [Peticiones -> Peticion(Pcs)]
        /\ \A q \in Peticiones : Bien(q)' /\ CopiaAcotada(q)'
    BY <1>t, <1>l, <2>1, SigueBien
  <2>3. QED
    BY <1>t, <2>1, <2>2 DEF InvIntentos, Tipos, IntentosAcotados
<1>6. CASE CompararErronea(p)
  <2> DEFINE r == TrasError(p)
  <2>1. h.pc = "comparar" /\ h.u \in Usuarios /\ h.intentos \in Nat
        /\ (h.intentos < WRONG_LOGIN_LIMIT \/ Vencida(h.fecha))
    BY <1>6, <1>t DEF CompararErronea, En, Bien, EnCurso, CopiaAcotada, Peticion
  <2>2. /\ r.pc = IF Vencida(h.fecha) THEN "restaurarBloqueo" ELSE "contar"
        /\ r.u = h.u
        /\ r.intentos = IF Vencida(h.fecha) THEN 1 ELSE h.intentos + 1
    BY DEF TrasError, Libre
  <2>n. /\ (IF Vencida(h.fecha) THEN 1 ELSE h.intentos + 1) \in Nat
        /\ (IF Vencida(h.fecha) THEN "restaurarBloqueo" ELSE "contar") \in Pcs
    BY <2>1 DEF PcBloqueo
  <2>3. r \in Peticion(Pcs)
    BY <1>t, <2>1, <2>n DEF TrasError, Peticion
  <2>4. r.intentos <= WRONG_LOGIN_LIMIT
    BY <2>1, <2>2, LimiteSupuesto
  <2>5. Sigue(p, r) /\ UNCHANGED <<usuarios, reloj, entregados>>
    BY <1>6 DEF CompararErronea
  <2>6. /\ peticiones' \in [Peticiones -> Peticion(Pcs)]
        /\ \A q \in Peticiones : Bien(q)' /\ CopiaAcotada(q)'
    BY <1>t, <2>1, <2>2, <2>3, <2>4, <2>5, SigueBien
  <2>7. erroneos' \in [Usuarios -> Nat]
    BY <1>6, <1>t, <2>1 DEF CompararErronea, Tipos, Sumar
  <2>8. QED
    BY <1>t, <2>5, <2>6, <2>7 DEF InvIntentos, Tipos, IntentosAcotados
<1>7. CASE CompararCorrecta(p)
  <2> DEFINE r == IF h.intentos > 0
                  THEN [Libre EXCEPT !.pc = "contar", !.u = h.u] ELSE Libre
  <2>1. h.u \in Usuarios
    BY <1>7, <1>t DEF CompararCorrecta, En, Bien, EnCurso
  <2>2. /\ r.pc \in {"contar", "libre"}
        /\ r.pc = "contar" => r.u = h.u
        /\ r.intentos = 0
    BY DEF Libre
  <2>3. r \in Peticion(Pcs)
    BY <1>t, <2>1 DEF Peticion, PcBloqueo
  <2>4. r.intentos <= WRONG_LOGIN_LIMIT
    BY <2>2, LimiteSupuesto
  <2>5. Sigue(p, r) /\ UNCHANGED <<usuarios, reloj, entregados>>
    BY <1>7 DEF CompararCorrecta, Termina
  <2>6. /\ peticiones' \in [Peticiones -> Peticion(Pcs)]
        /\ \A q \in Peticiones : Bien(q)' /\ CopiaAcotada(q)'
    BY <1>t, <2>1, <2>2, <2>3, <2>4, <2>5, SigueBien
  <2>7. erroneos' \in [Usuarios -> Nat]
    BY <1>7, <1>t DEF CompararCorrecta, Tipos
  <2>8. QED
    BY <1>t, <2>5, <2>6, <2>7 DEF InvIntentos, Tipos, IntentosAcotados
<1>8. CASE RestaurarDatosBloqueo(p)
  <2> DEFINE r == [h EXCEPT !.pc = "contar"]
  <2>1. r \in Peticion(Pcs) /\ Nulo \in Codigo /\ Nulo \in Fecha
    BY <1>t DEF Peticion, PcBloqueo, Codigo, Fecha
  <2>2. r.pc = "contar" /\ r.u = h.u /\ r.intentos = h.intentos
    BY <1>t DEF Peticion
  <2>3. h.u \in Usuarios /\ h.intentos <= WRONG_LOGIN_LIMIT
    BY <1>8, <1>t DEF RestaurarDatosBloqueo, En, Bien, EnCurso, CopiaAcotada
  <2>4. /\ Sigue(p, r) /\ UNCHANGED <<reloj, entregados, erroneos>>
        /\ EscribirBloqueo(h.u, Nulo, Nulo)
    BY <1>8 DEF RestaurarDatosBloqueo
  <2>5. /\ peticiones' \in [Peticiones -> Peticion(Pcs)]
        /\ \A q \in Peticiones : Bien(q)' /\ CopiaAcotada(q)'
    BY <1>t, <2>1, <2>2, <2>3, <2>4, SigueBien
  <2>6. usuarios' \in [Usuarios -> Fila]
    BY <1>t, <2>1, <2>3, <2>4, EscribirBloqueoTipado DEF Tipos
  <2>7. IntentosAcotados'
    BY <1>t, <2>4 DEF EscribirBloqueo, IntentosAcotados, Tipos, Fila
  <2>8. QED
    BY <1>t, <2>4, <2>5, <2>6, <2>7 DEF InvIntentos, Tipos
<1>9. CASE ActualizarContadorBloqueos(p)
  <2>1. h.u \in Usuarios /\ h.intentos <= WRONG_LOGIN_LIMIT /\ h.intentos \in Nat
    BY <1>9, <1>t DEF ActualizarContadorBloqueos, En, Bien, EnCurso, CopiaAcotada, Peticion
  <2>2. /\ Sigue(p, Libre) /\ UNCHANGED <<reloj, entregados>>
        /\ EscribirContador(h.u, h.intentos)
    BY <1>9 DEF ActualizarContadorBloqueos, Termina
  <2>3. /\ peticiones' \in [Peticiones -> Peticion(Pcs)]
        /\ \A q \in Peticiones : Bien(q)' /\ CopiaAcotada(q)'
    BY <1>t, <1>l, <2>2, SigueBien
  <2>4. usuarios' \in [Usuarios -> Fila]
    BY <1>t, <2>1, <2>2, EscribirContadorTipado DEF Tipos
  <2>5. IntentosAcotados'
    BY <1>t, <2>1, <2>2 DEF EscribirContador, IntentosAcotados, Tipos, Fila
  <2>6. erroneos' \in [Usuarios -> Nat]
    BY <1>9, <1>t DEF ActualizarContadorBloqueos, Tipos
  <2>7. QED
    BY <1>t, <2>2, <2>3, <2>4, <2>5, <2>6 DEF InvIntentos, Tipos
<1>10. CASE Desbloquear(p)
  <2>1. h.u \in Usuarios
    BY <1>10, <1>t DEF Desbloquear, En, Bien, EnCurso
  <2>2. /\ Sigue(p, Libre) /\ UNCHANGED <<reloj, entregados>>
        /\ EscribirDesbloqueo(h.u)
    BY <1>10 DEF Desbloquear, Termina
  <2>3. /\ peticiones' \in [Peticiones -> Peticion(Pcs)]
        /\ \A q \in Peticiones : Bien(q)' /\ CopiaAcotada(q)'
    BY <1>t, <1>l, <2>2, SigueBien
  <2>4. usuarios' \in [Usuarios -> Fila]
    BY <1>t, <2>1, <2>2, EscribirDesbloqueoTipado DEF Tipos
  <2>5. IntentosAcotados'
    BY <1>t, <2>1, <2>2, LimiteSupuesto DEF EscribirDesbloqueo, IntentosAcotados, Tipos, Fila
  <2>6. erroneos' \in [Usuarios -> Nat]
    BY <1>10, <1>t DEF Desbloquear, Tipos
  <2>7. QED
    BY <1>t, <2>2, <2>3, <2>4, <2>5, <2>6 DEF InvIntentos, Tipos
<1>11. QED
  BY <1>1, <1>2, <1>3, <1>4, <1>5, <1>6, <1>7, <1>8, <1>9, <1>10 DEF ContinuarBloqueo

\* So does a request that starts.
LEMMA PedirInv ==
  ASSUME NEW Pcs, PcBloqueo \subseteq Pcs, InvIntentos(Pcs), NEW p \in Peticiones,
         NEW K \in SUBSET Contrasenas, PedirBloqueo(p, K)
  PROVE  InvIntentos(Pcs)'
<1>t. /\ Libre \in Peticion(Pcs) /\ Tipos(Pcs) /\ IntentosAcotados
      /\ \A q \in Peticiones : Bien(q) /\ CopiaAcotada(q)
  BY LibreTipado DEF InvIntentos, PcBloqueo
<1>1. ASSUME NEW u \in Usuarios, NEW k \in K, BuscarUsuario(p, u, k)
      PROVE  InvIntentos(Pcs)'
  <2> DEFINE r == [Libre EXCEPT !.pc = "leido", !.u = u, !.clave = k,
                                !.hash = usuarios[u].contrasena,
                                !.intentos = usuarios[u].intentos,
                                !.fecha = usuarios[u].fechaBloqueo]
  <2>1. usuarios[u] \in Fila
    BY <1>t DEF Tipos
  <2>2. r \in Peticion(Pcs)
    BY <1>t, <2>1 DEF Peticion, PcBloqueo, Fila
  <2>3. r.pc = "leido" /\ r.u = u /\ r.intentos = usuarios[u].intentos
    BY DEF Libre
  <2>4. Sigue(p, r) /\ UNCHANGED <<usuarios, reloj, entregados, erroneos>>
    BY <1>1 DEF BuscarUsuario, LeerUsuario
  <2>5. usuarios[u].intentos <= WRONG_LOGIN_LIMIT
    BY <1>t DEF IntentosAcotados
  <2>6. /\ peticiones' \in [Peticiones -> Peticion(Pcs)]
        /\ \A q \in Peticiones : Bien(q)' /\ CopiaAcotada(q)'
    BY <1>t, <2>2, <2>3, <2>4, <2>5, SigueBien
  <2>7. QED
    BY <1>t, <2>4, <2>6 DEF InvIntentos, Tipos, IntentosAcotados
<1>2. ASSUME NEW u \in Usuarios, RechazarUsuario(p, u)
      PROVE  InvIntentos(Pcs)'
  BY <1>2, <1>t DEF RechazarUsuario, vars, InvIntentos, Tipos, IntentosAcotados,
     Bien, CopiaAcotada, En, EnCurso, Vencida
<1>3. ASSUME NEW c \in Aleatorios, BuscarPorCodigoDesbloqueo(p, c)
      PROVE  InvIntentos(Pcs)'
  <2>1. PICK u \in Usuarios : Sigue(p, [Libre EXCEPT !.pc = "desbloquear", !.u = u])
    BY <1>3 DEF BuscarPorCodigoDesbloqueo
  <2> DEFINE r == [Libre EXCEPT !.pc = "desbloquear", !.u = u]
  <2>2. r \in Peticion(Pcs)
    BY <1>t DEF Peticion, PcBloqueo
  <2>3. r.pc = "desbloquear" /\ r.u = u
    BY DEF Libre
  <2>4. UNCHANGED <<usuarios, reloj, entregados, erroneos>>
    BY <1>3 DEF BuscarPorCodigoDesbloqueo
  <2>5. /\ peticiones' \in [Peticiones -> Peticion(Pcs)]
        /\ \A q \in Peticiones : Bien(q)' /\ CopiaAcotada(q)'
    BY <1>t, <2>1, <2>2, <2>3, <2>4, SigueBien
  <2>6. QED
    BY <1>t, <2>4, <2>5 DEF InvIntentos, Tipos, IntentosAcotados
<1>4. QED
  BY <1>1, <1>2, <1>3 DEF PedirBloqueo

\* And the clock, a failure and a stuttering step.
LEMMA RestoInv ==
  ASSUME NEW Pcs, PcBloqueo \subseteq Pcs, InvIntentos(Pcs),
         Tick \/ (\E p \in Peticiones : Abortar(p)) \/ UNCHANGED vars
  PROVE  InvIntentos(Pcs)'
<1>t. /\ Libre \in Peticion(Pcs) /\ Libre.pc = "libre" /\ Tipos(Pcs) /\ IntentosAcotados
      /\ \A q \in Peticiones : Bien(q) /\ CopiaAcotada(q)
  BY LibreTipado DEF InvIntentos, PcBloqueo, Libre
<1>1. CASE Tick
  <2>1. reloj' = reloj + 1 /\ UNCHANGED <<usuarios, peticiones, entregados, erroneos>>
    BY <1>1 DEF Tick
  <2>2. reloj \in Nat /\ \A f \in Fecha : Vencida(f) => reloj' > f
    BY <1>t, <2>1 DEF Tipos, Vencida, Fecha
  <2>3. \A q \in Peticiones : peticiones[q].fecha \in Fecha
    BY <1>t DEF Tipos, Peticion
  <2>4. \A q \in Peticiones : Bien(q)' /\ CopiaAcotada(q)'
    BY <1>t, <2>1, <2>2, <2>3 DEF Bien, CopiaAcotada, En, EnCurso, Vencida
  <2>5. QED
    BY <1>t, <2>1, <2>2, <2>4 DEF InvIntentos, Tipos, IntentosAcotados
<1>2. ASSUME NEW p \in Peticiones, Abortar(p) PROVE InvIntentos(Pcs)'
  <2>1. Sigue(p, Libre) /\ UNCHANGED <<usuarios, reloj, entregados, erroneos>>
    BY <1>2 DEF Abortar, Termina
  <2>2. /\ peticiones' \in [Peticiones -> Peticion(Pcs)]
        /\ \A q \in Peticiones : Bien(q)' /\ CopiaAcotada(q)'
    BY <1>t, <2>1, SigueBien
  <2>3. QED
    BY <1>t, <2>1, <2>2 DEF InvIntentos, Tipos, IntentosAcotados
<1>3. CASE UNCHANGED vars
  BY <1>3, <1>t DEF vars, InvIntentos, Tipos, IntentosAcotados,
     Bien, CopiaAcotada, En, EnCurso, Vencida
<1>4. QED
  BY <1>1, <1>2, <1>3

LEMMA InvInicial == Init => InvIntentos(PcBloqueo)
<1> SUFFICES ASSUME Init PROVE InvIntentos(PcBloqueo)
  OBVIOUS
<1>1. \A e \in Estados, k \in Claves \cup {Nulo} :
        FilaNueva(e, k) \in Fila /\ FilaNueva(e, k).intentos = 0
  BY FilaNuevaTipada DEF Contrasenas, FilaNueva
<1>2. usuarios \in [Usuarios -> Fila] /\ \A u \in Usuarios : usuarios[u].intentos = 0
  BY <1>1 DEF Init, Estados
<1>3. Libre \in Peticion(PcBloqueo) /\ Libre.pc = "libre"
  BY LibreTipado DEF PcBloqueo, Libre
<1>4. Tipos(PcBloqueo)
  BY <1>2, <1>3 DEF Init, Tipos
<1>5. IntentosAcotados
  <2>1. 0 <= WRONG_LOGIN_LIMIT
    BY LimiteSupuesto
  <2>2. QED
    BY <1>2, <2>1, Zenon DEF IntentosAcotados
<1>6. \A p \in Peticiones : Bien(p) /\ CopiaAcotada(p)
  BY <1>3 DEF Init, Bien, CopiaAcotada, En, EnCurso
<1>7. QED
  BY <1>4, <1>5, <1>6 DEF InvIntentos

LEMMA InvPaso == InvIntentos(PcBloqueo) /\ [Next]_vars => InvIntentos(PcBloqueo)'
<1> SUFFICES ASSUME InvIntentos(PcBloqueo), [Next]_vars PROVE InvIntentos(PcBloqueo)'
  OBVIOUS
<1>1. CASE Tick \/ UNCHANGED vars
  BY <1>1, RestoInv
<1>2. ASSUME NEW p \in Peticiones, PedirBloqueo(p, Claves) PROVE InvIntentos(PcBloqueo)'
  BY <1>2, PedirInv DEF Contrasenas
<1>3. ASSUME NEW p \in Peticiones, ContinuarBloqueo(p) PROVE InvIntentos(PcBloqueo)'
  BY <1>3, PasoBloqueo
<1>4. ASSUME NEW p \in Peticiones, Abortar(p) PROVE InvIntentos(PcBloqueo)'
  BY <1>4, RestoInv
<1>5. QED
  BY <1>1, <1>2, <1>3, <1>4 DEF Next

LEMMA InvSiempre == Spec => []InvIntentos(PcBloqueo)
BY InvInicial, InvPaso, PTL DEF Spec

\* However the logins and the unlocking requests interleave and wherever they
\* fail, rows and requests keep their types.
THEOREM TipoCorrecto == Spec => []TypeOK
<1>1. InvIntentos(PcBloqueo) => TypeOK
  BY DEF InvIntentos, TypeOK
<1>2. QED
  BY <1>1, InvSiempre, PTL

\* And the stored counter never passes WRONG_LOGIN_LIMIT: generarIntentoBloqueo writes a
\* copy plus one only when the copy was below the limit or the lock had run out,
\* and a lock that had run out has still run out when the password is compared.
THEOREM ContadorAcotado == Spec => []IntentosAcotados
<1>1. InvIntentos(PcBloqueo) => IntentosAcotados
  BY DEF InvIntentos
<1>2. QED
  BY <1>1, InvSiempre, PTL

-----------------------------------------------------------------------------
\* One request at a time per account: what the handler read is still what the
\* row holds when it acts on it.

Vista(p) ==
  LET h == peticiones[p]  fila == usuarios[peticiones[p].u] IN
    /\ h.pc \in {"leido", "comparar"} =>
         h.intentos = fila.intentos /\ h.fecha = fila.fechaBloqueo
    /\ h.pc = "bloquear" =>
         fila.intentos >= WRONG_LOGIN_LIMIT /\ fila.fechaBloqueo = Nulo
    /\ h.pc \in {"restaurarBloqueo", "contar"} => ~ Vigente(fila.fechaBloqueo)

InvSerie(pcs) ==
  /\ InvIntentos(pcs)
  /\ Serie
  /\ \A p \in Peticiones : Vista(p)
  /\ BloqueoEfectivo

\* a wrong password that the row does not count yet
PorContar(p) ==
  peticiones[p].pc \in {"restaurarBloqueo", "contar"} /\ peticiones[p].intentos # 0

CuentaExacta ==
  /\ \A p \in Peticiones :
       PorContar(p) => erroneos[peticiones[p].u] = peticiones[p].intentos
  /\ \A u \in Usuarios :
       (\A p \in Peticiones : PorContar(p) => peticiones[p].u # u)
         => erroneos[u] = usuarios[u].intentos

\* A step of request p writes at most the row of its account.  The requests
\* served meanwhile are on other accounts, so what they read is still true, and
\* it is enough to look at p and at its row.
LEMMA SerieSigue ==
  ASSUME NEW pcs, InvSerie(pcs), InvIntentos(pcs)', Serie',
         NEW p \in Peticiones, NEW r, Sigue(p, r), reloj' = reloj,
         \A u \in Usuarios : usuarios'[u] # usuarios[u] =>
            /\ EnCurso(p) /\ u = peticiones[p].u
            /\ Vigente(usuarios'[u].fechaBloqueo)
                 => usuarios'[u].intentos >= WRONG_LOGIN_LIMIT,
         r.pc \in {"leido", "comparar"} =>
            /\ r.intentos = usuarios'[r.u].intentos
            /\ r.fecha = usuarios'[r.u].fechaBloqueo,
         r.pc = "bloquear" =>
            /\ usuarios'[r.u].intentos >= WRONG_LOGIN_LIMIT
            /\ usuarios'[r.u].fechaBloqueo = Nulo,
         r.pc \in {"restaurarBloqueo", "contar"} =>
            ~ Vigente(usuarios'[r.u].fechaBloqueo)
  PROVE  InvSerie(pcs)'
<1>1. peticiones' = [peticiones EXCEPT ![p] = r]
      /\ peticiones \in [Peticiones -> Peticion(pcs)]
  BY DEF InvSerie, InvIntentos, Tipos, Sigue
<1>2. Vista(p)'
  <2>1. peticiones'[p] = r
    BY <1>1
  <2>2. QED
    BY <2>1 DEF Vista, Vigente, Vencida
<1>3. ASSUME NEW q \in Peticiones, q # p PROVE Vista(q)'
  <2>1. peticiones'[q] = peticiones[q] /\ Vista(q)
    BY <1>1, <1>3 DEF InvSerie
  <2>2. CASE ~ EnCurso(q)
    BY <2>1, <2>2 DEF Vista, EnCurso
  <2>3. CASE EnCurso(q)
    <3>1. peticiones[q].u \in Usuarios
      BY <2>3 DEF InvSerie, InvIntentos, Bien
    <3>2. usuarios'[peticiones[q].u] = usuarios[peticiones[q].u]
      BY <1>3, <2>3, <3>1 DEF InvSerie, Serie
    <3>3. QED
      BY <2>1, <3>2 DEF Vista, Vigente, Vencida
  <2>4. QED
    BY <2>2, <2>3
<1>4. BloqueoEfectivo'
  <2> SUFFICES ASSUME NEW u \in Usuarios, Vigente(usuarios[u].fechaBloqueo)'
               PROVE  (usuarios[u].intentos >= WRONG_LOGIN_LIMIT)'
    BY DEF BloqueoEfectivo
  <2>1. Vigente(usuarios'[u].fechaBloqueo)
    BY DEF Vigente, Vencida
  <2>2. QED
    BY <2>1 DEF InvSerie, BloqueoEfectivo
<1>5. QED
  BY <1>2, <1>3, <1>4 DEF InvSerie

LEMMA SeriePaso ==
  ASSUME NEW pcs, InvSerie(pcs), InvIntentos(pcs)', Serie',
         NEW p \in Peticiones, ContinuarBloqueo(p)
  PROVE  InvSerie(pcs)'
<1> DEFINE h == peticiones[p]
<1>t. /\ h \in Peticion(pcs) /\ h.u \in Usuarios /\ usuarios \in [Usuarios -> Fila]
      /\ EnCurso(p) /\ h.u \in Usuarios /\ Vista(p) /\ BloqueoEfectivo
      /\ WRONG_LOGIN_LIMIT \in Nat
  <2>1. EnCurso(p)
    BY DEF ContinuarBloqueo, VerificarPermitido, VerificarBloqueada, VerificarGenerar,
       ActualizarDatosBloqueo, EnviarCorreoBloqueo, CompararErronea, CompararCorrecta,
       RestaurarDatosBloqueo, ActualizarContadorBloqueos, Desbloquear, En, EnCurso
  <2>2. QED
    BY <2>1, LimiteSupuesto DEF InvSerie, InvIntentos, Tipos, Bien
<1>f. usuarios[h.u] \in Fila
  BY <1>t
<1>l. Libre.pc = "libre"
  BY DEF Libre
<1>1. CASE VerificarPermitido(p)
  <2> DEFINE r == [h EXCEPT !.pc = "comparar"]
  <2>1. /\ r.pc = "comparar" /\ r.u = h.u
        /\ r.intentos = h.intentos /\ r.fecha = h.fecha
    BY <1>t DEF Peticion
  <2>2. h.pc = "leido" /\ Sigue(p, r) /\ reloj' = reloj /\ usuarios' = usuarios
    BY <1>1 DEF VerificarPermitido, En
  <2>3. QED
    BY <1>t, <2>1, <2>2, SerieSigue DEF Vista
<1>2. CASE VerificarBloqueada(p) \/ EnviarCorreoBloqueo(p)
  <2>1. Sigue(p, Libre) /\ reloj' = reloj /\ usuarios' = usuarios
    BY <1>2 DEF VerificarBloqueada, EnviarCorreoBloqueo, Termina
  <2>2. QED
    BY <1>t, <1>l, <2>1, SerieSigue
<1>3. ASSUME NEW c \in Aleatorios, VerificarGenerar(p, c)
      PROVE  InvSerie(pcs)'
  <2> DEFINE r == [h EXCEPT !.pc = "bloquear", !.codigo = c,
                            !.fecha = reloj + MINUTES_LOGIN_LOCK]
  <2>1. r.pc = "bloquear" /\ r.u = h.u
    BY <1>t DEF Peticion
  <2>2. h.pc = "leido" /\ Sigue(p, r) /\ reloj' = reloj /\ usuarios' = usuarios
        /\ ~ BajoLimite(h.intentos) /\ h.fecha = Nulo
    BY <1>3 DEF VerificarGenerar, Generar, En
  <2>3. usuarios[h.u].intentos >= WRONG_LOGIN_LIMIT /\ usuarios[h.u].fechaBloqueo = Nulo
    BY <1>t, <1>f, <2>2 DEF Vista, BajoLimite, Fila
  <2>4. QED
    BY <1>t, <2>1, <2>2, <2>3, SerieSigue
<1>4. CASE ActualizarDatosBloqueo(p)
  <2> DEFINE r == [h EXCEPT !.pc = "correoBloqueo"]
  <2>1. r.pc = "correoBloqueo"
    BY <1>t DEF Peticion
  <2>2. h.pc = "bloquear" /\ Sigue(p, r) /\ reloj' = reloj
        /\ EscribirBloqueo(h.u, h.codigo, h.fecha)
    BY <1>4 DEF ActualizarDatosBloqueo, En
  <2>3. /\ \A u \in Usuarios : u # h.u => usuarios'[u] = usuarios[u]
        /\ usuarios'[h.u].intentos = usuarios[h.u].intentos
    BY <1>t, <1>f, <2>2 DEF EscribirBloqueo, Fila
  <2>4. usuarios[h.u].intentos >= WRONG_LOGIN_LIMIT
    BY <1>t, <2>2 DEF Vista
  <2>5. QED
    BY <1>t, <2>1, <2>2, <2>3, <2>4, SerieSigue
<1>5. CASE CompararErronea(p)
  <2> DEFINE r == TrasError(p)
  <2>1. r.pc \in {"restaurarBloqueo", "contar"} /\ r.u = h.u
        /\ Sigue(p, r) /\ reloj' = reloj /\ usuarios' = usuarios /\ h.pc = "comparar"
    BY <1>5 DEF CompararErronea, TrasError, Libre, En
  <2>2. ~ Vigente(usuarios[h.u].fechaBloqueo)
    <3>1. h.intentos < WRONG_LOGIN_LIMIT \/ Vencida(h.fecha)
      BY <2>1 DEF InvSerie, InvIntentos, CopiaAcotada, En
    <3>2. h.intentos = usuarios[h.u].intentos /\ h.fecha = usuarios[h.u].fechaBloqueo
      BY <1>t, <2>1 DEF Vista
    <3>3. usuarios[h.u].intentos \in Nat
      BY <1>f DEF Fila
    <3>4. QED
      BY <1>t, <3>1, <3>2, <3>3 DEF BloqueoEfectivo, Vigente
  <2>3. QED
    BY <1>t, <2>1, <2>2, SerieSigue
<1>6. CASE CompararCorrecta(p)
  <2> DEFINE r == IF h.intentos > 0
                  THEN [Libre EXCEPT !.pc = "contar", !.u = h.u] ELSE Libre
  <2>1. /\ r.pc \in {"contar", "libre"}
        /\ r.pc = "contar" => r.u = h.u
    BY DEF Libre
  <2>2. Sigue(p, r) /\ reloj' = reloj /\ usuarios' = usuarios /\ h.pc = "comparar"
    BY <1>6 DEF CompararCorrecta, Termina, En
  <2>3. ~ Vigente(usuarios[h.u].fechaBloqueo)
    <3>1. h.intentos < WRONG_LOGIN_LIMIT \/ Vencida(h.fecha)
      BY <2>2 DEF InvSerie, InvIntentos, CopiaAcotada, En
    <3>2. h.intentos = usuarios[h.u].intentos /\ h.fecha = usuarios[h.u].fechaBloqueo
      BY <1>t, <2>2 DEF Vista
    <3>3. usuarios[h.u].intentos \in Nat
      BY <1>f DEF Fila
    <3>4. QED
      BY <1>t, <3>1, <3>2, <3>3 DEF BloqueoEfectivo, Vigente
  <2>4. QED
    BY <1>t, <2>1, <2>2, <2>3, SerieSigue
<1>7. CASE RestaurarDatosBloqueo(p)
  <2> DEFINE r == [h EXCEPT !.pc = "contar"]
  <2>1. r.pc = "contar" /\ r.u = h.u
    BY <1>t DEF Peticion
  <2>2. Sigue(p, r) /\ reloj' = reloj /\ EscribirBloqueo(h.u, Nulo, Nulo)
    BY <1>7 DEF RestaurarDatosBloqueo
  <2>3. /\ \A u \in Usuarios : u # h.u => usuarios'[u] = usuarios[u]
        /\ usuarios'[h.u].fechaBloqueo = Nulo
    BY <1>t, <1>f, <2>2 DEF EscribirBloqueo, Fila
  <2>4. ~ Vigente(usuarios'[h.u].fechaBloqueo)
    BY <2>3 DEF Vigente
  <2>5. QED
    BY <1>t, <2>1, <2>2, <2>3, <2>4, SerieSigue
<1>8. CASE ActualizarContadorBloqueos(p)
  <2>1. Sigue(p, Libre) /\ reloj' = reloj /\ EscribirContador(h.u, h.intentos)
        /\ h.pc = "contar"
    BY <1>8 DEF ActualizarContadorBloqueos, Termina, En
  <2>2. /\ \A u \in Usuarios : u # h.u => usuarios'[u] = usuarios[u]
        /\ usuarios'[h.u].fechaBloqueo = usuarios[h.u].fechaBloqueo
    BY <1>t, <1>f, <2>1 DEF EscribirContador, Fila
  <2>3. ~ Vigente(usuarios'[h.u].fechaBloqueo)
    BY <1>t, <2>1, <2>2 DEF Vista
  <2>4. QED
    BY <1>t, <1>l, <2>1, <2>2, <2>3, SerieSigue
<1>9. CASE Desbloquear(p)
  <2>1. Sigue(p, Libre) /\ reloj' = reloj /\ EscribirDesbloqueo(h.u)
    BY <1>9 DEF Desbloquear, Termina
  <2>2. /\ \A u \in Usuarios : u # h.u => usuarios'[u] = usuarios[u]
        /\ usuarios'[h.u].fechaBloqueo = Nulo
    BY <1>t, <1>f, <2>1 DEF EscribirDesbloqueo, Fila
  <2>3. ~ Vigente(usuarios'[h.u].fechaBloqueo)
    BY <2>2 DEF Vigente
  <2>4. QED
    BY <1>t, <1>l, <2>1, <2>2, <2>3, SerieSigue
<1>10. QED
  BY <1>1, <1>2, <1>3, <1>4, <1>5, <1>6, <1>7, <1>8, <1>9 DEF ContinuarBloqueo

LEMMA SeriePedir ==
  ASSUME NEW pcs, InvSerie(pcs), InvIntentos(pcs)', Serie',
         NEW p \in Peticiones, NEW K, PedirBloqueo(p, K)
  PROVE  InvSerie(pcs)'
<1>t. Libre.pc = "libre"
  BY DEF Libre
<1>1. ASSUME NEW u \in Usuarios, NEW k \in K, BuscarUsuario(p, u, k)
      PROVE  InvSerie(pcs)'
  <2> DEFINE r == [Libre EXCEPT !.pc = "leido", !.u = u, !.clave = k,
                                !.hash = usuarios[u].contrasena,
                                !.intentos = usuarios[u].intentos,
                                !.fecha = usuarios[u].fechaBloqueo]
  <2>1. /\ r.pc = "leido" /\ r.u = u /\ r.intentos = usuarios[u].intentos
        /\ r.fecha = usuarios[u].fechaBloqueo
    BY DEF Libre
  <2>2. Sigue(p, r) /\ reloj' = reloj /\ usuarios' = usuarios
    BY <1>1 DEF BuscarUsuario, LeerUsuario
  <2>3. QED
    BY <2>1, <2>2, SerieSigue
<1>2. ASSUME NEW u \in Usuarios, RechazarUsuario(p, u)
      PROVE  InvSerie(pcs)'
  BY <1>2 DEF RechazarUsuario, vars, InvSerie, Vista, BloqueoEfectivo, Vigente, Vencida
<1>3. ASSUME NEW c \in Aleatorios, BuscarPorCodigoDesbloqueo(p, c)
      PROVE  InvSerie(pcs)'
  <2>1. PICK u \in Usuarios : Sigue(p, [Libre EXCEPT !.pc = "desbloquear", !.u = u])
    BY <1>3 DEF BuscarPorCodigoDesbloqueo
  <2> DEFINE r == [Libre EXCEPT !.pc = "desbloquear", !.u = u]
  <2>2. r.pc = "desbloquear"
    BY DEF Libre
  <2>3. reloj' = reloj /\ usuarios' = usuarios
    BY <1>3 DEF BuscarPorCodigoDesbloqueo
  <2>4. QED
    BY <2>1, <2>2, <2>3, SerieSigue
<1>4. QED
  BY <1>1, <1>2, <1>3 DEF PedirBloqueo

\* Time only ends locks.
LEMMA SerieTick ==
  ASSUME NEW pcs, InvSerie(pcs), InvIntentos(pcs)', Serie', Tick
  PROVE  InvSerie(pcs)'
<1>1. reloj \in Nat /\ reloj' = reloj + 1 /\ UNCHANGED <<usuarios, peticiones>>
  BY DEF Tick, InvSerie, InvIntentos, Tipos
<1>2. ASSUME NEW u \in Usuarios
      PROVE  Vigente(usuarios[u].fechaBloqueo)' => Vigente(usuarios[u].fechaBloqueo)
  <2>1. usuarios[u].fechaBloqueo \in Fecha
    BY DEF InvSerie, InvIntentos, Tipos, Fila
  <2>2. QED
    BY <1>1, <2>1 DEF Vigente, Vencida, Fecha
<1>3. ASSUME NEW q \in Peticiones PROVE Vista(q)'
  <2>1. Vista(q) /\ (EnCurso(q) => peticiones[q].u \in Usuarios)
    BY DEF InvSerie, InvIntentos, Bien
  <2>2. QED
    BY <1>1, <1>2, <2>1 DEF Vista, EnCurso
<1>4. BloqueoEfectivo'
  BY <1>1, <1>2 DEF InvSerie, BloqueoEfectivo
<1>5. QED
  BY <1>3, <1>4 DEF InvSerie

LEMMA SerieInicial == Init => InvSerie(PcBloqueo)
<1> SUFFICES ASSUME Init PROVE InvSerie(PcBloqueo)
  OBVIOUS
<1>0. \A e \in Estados, k \in Claves \cup {Nulo} : FilaNueva(e, k).fechaBloqueo = Nulo
  BY DEF FilaNueva
<1>1. ASSUME NEW u \in Usuarios PROVE usuarios[u].fechaBloqueo = Nulo
  <2>1. usuarios[u] \in {FilaNueva("AUSENTE", Nulo)} \cup
          {FilaNueva(e, k) : e \in Estados \ {"AUSENTE"}, k \in Claves}
    BY DEF Init
  <2>2. QED
    BY <1>0, <2>1 DEF Estados
<1>2. \A p \in Peticiones : peticiones[p].pc = "libre"
  BY DEF Init, Libre
<1>3. QED
  BY <1>1, <1>2, InvInicial DEF InvSerie, Serie, EnCurso, Vista, BloqueoEfectivo, Vigente

LEMMA SerieSiguiente == InvSerie(PcBloqueo) /\ [Next /\ Serie']_vars => InvSerie(PcBloqueo)'
<1> SUFFICES ASSUME InvSerie(PcBloqueo), [Next /\ Serie']_vars PROVE InvSerie(PcBloqueo)'
  OBVIOUS
<1>1. InvIntentos(PcBloqueo)'
  BY InvPaso DEF InvSerie
<1>2. CASE UNCHANGED vars
  BY <1>1, <1>2 DEF vars, InvSerie, Serie, EnCurso, Vista, BloqueoEfectivo, Vigente, Vencida
<1>3. CASE Next /\ Serie'
  <2>1. CASE Tick
    BY <1>1, <1>3, <2>1, SerieTick
  <2>2. ASSUME NEW p \in Peticiones, PedirBloqueo(p, Claves) PROVE InvSerie(PcBloqueo)'
    BY <1>1, <1>3, <2>2, SeriePedir
  <2>3. ASSUME NEW p \in Peticiones, ContinuarBloqueo(p) PROVE InvSerie(PcBloqueo)'
    BY <1>1, <1>3, <2>3, SeriePaso
  <2>4. ASSUME NEW p \in Peticiones, Abortar(p) PROVE InvSerie(PcBloqueo)'
    <3>1. Sigue(p, Libre) /\ reloj' = reloj /\ usuarios' = usuarios /\ Libre.pc = "libre"
      BY <2>4 DEF Abortar, Termina, Libre
    <3>2. QED
      BY <1>1, <1>3, <3>1, SerieSigue
  <2>5. QED
    BY <1>3, <2>1, <2>2, <2>3, <2>4 DEF Next
<1>4. QED
  BY <1>2, <1>3

LEMMA SerieSiempre == SpecSerie => []InvSerie(PcBloqueo)
BY SerieInicial, SerieSiguiente, PTL DEF SpecSerie

\* While the requests of an account do not overlap, its lock works whatever
\* fails in between: as long as it has time left the counter that makes
\* verificarBloqueo look at it is at the limit.
THEOREM BloqueoEfectivoEnSerie == SpecSerie => []BloqueoEfectivo
<1>1. InvSerie(PcBloqueo) => BloqueoEfectivo
  BY DEF InvSerie
<1>2. QED
  BY <1>1, SerieSiempre, PTL

-----------------------------------------------------------------------------
\* And when nothing fails the column and the history agree: what the row does
\* not count yet is in the request that is about to write it.

\* A step that changes neither a counter nor who has a wrong password to write.
LEMMA CuentaQuieta ==
  ASSUME NEW pcs, CuentaExacta, InvIntentos(pcs), erroneos' = erroneos,
         NEW p \in Peticiones, NEW r, Sigue(p, r), ~ PorContar(p),
         r.pc \in {"restaurarBloqueo", "contar"} => r.intentos = 0,
         \A u \in Usuarios : usuarios'[u].intentos = usuarios[u].intentos
  PROVE  CuentaExacta'
<1>1. peticiones' = [peticiones EXCEPT ![p] = r]
      /\ peticiones \in [Peticiones -> Peticion(pcs)]
  BY DEF InvIntentos, Tipos, Sigue
<1>2. peticiones'[p] = r /\ ~ PorContar(p)'
  BY <1>1 DEF PorContar
<1>3. \A q \in Peticiones : q # p => peticiones'[q] = peticiones[q]
  BY <1>1
<1>4. \A q \in Peticiones :
        /\ PorContar(q)' <=> PorContar(q)
        /\ PorContar(q) => peticiones'[q] = peticiones[q]
  BY <1>2, <1>3 DEF PorContar
<1>5. QED
  BY <1>4 DEF CuentaExacta

\* A step that settles the account of p: afterwards its row is exact, or p has
\* the one wrong password that the row lacks.
LEMMA CuentaSaldada ==
  ASSUME NEW pcs, CuentaExacta, InvIntentos(pcs), Serie,
         NEW p \in Peticiones, NEW r, Sigue(p, r), EnCurso(p),
         r.pc = "libre" \/ r.u = peticiones[p].u,
         IF r.pc \in {"restaurarBloqueo", "contar"} /\ r.intentos # 0
         THEN erroneos'[peticiones[p].u] = r.intentos
         ELSE erroneos'[peticiones[p].u] = usuarios'[peticiones[p].u].intentos,
         \A u \in Usuarios : u # peticiones[p].u =>
            erroneos'[u] = erroneos[u] /\ usuarios'[u] = usuarios[u]
  PROVE  CuentaExacta'
<1> DEFINE a == peticiones[p].u
<1>1. peticiones' = [peticiones EXCEPT ![p] = r]
      /\ peticiones \in [Peticiones -> Peticion(pcs)]
  BY DEF InvIntentos, Tipos, Sigue
<1>2. peticiones'[p] = r
      /\ \A q \in Peticiones : q # p => peticiones'[q] = peticiones[q]
  BY <1>1
<1>3. \A q \in Peticiones : q # p =>
        /\ PorContar(q)' <=> PorContar(q)
        /\ PorContar(q) => peticiones[q].u # a /\ peticiones[q].u \in Usuarios
  BY <1>2 DEF PorContar, Serie, EnCurso, InvIntentos, Bien
<1>4. ASSUME NEW q \in Peticiones, PorContar(q)'
      PROVE  erroneos'[peticiones'[q].u] = peticiones'[q].intentos
  <2>1. CASE q = p
    BY <1>2, <1>4, <2>1 DEF PorContar
  <2>2. CASE q # p
    BY <1>2, <1>3, <1>4, <2>2 DEF CuentaExacta
  <2>3. QED
    BY <2>1, <2>2
<1>5. ASSUME NEW u \in Usuarios,
             \A q \in Peticiones : PorContar(q)' => peticiones'[q].u # u
      PROVE  erroneos'[u] = usuarios'[u].intentos
  <2>1. CASE u = a
    BY <1>2, <1>5, <2>1 DEF PorContar
  <2>2. CASE u # a
    <3>1. \A q \in Peticiones : PorContar(q) => peticiones[q].u # u
      BY <1>2, <1>3, <1>5, <2>2
    <3>2. QED
      BY <2>2, <3>1 DEF CuentaExacta
  <2>3. QED
    BY <2>1, <2>2
<1>6. QED
  BY <1>4, <1>5 DEF CuentaExacta

LEMMA CuentaPaso ==
  ASSUME NEW pcs, InvSerie(pcs), CuentaExacta, ~ Fallos, Serie',
         NEW p \in Peticiones, ContinuarBloqueo(p)
  PROVE  CuentaExacta'
<1> DEFINE h == peticiones[p]
<1>t. /\ h \in Peticion(pcs) /\ usuarios \in [Usuarios -> Fila]
      /\ erroneos \in [Usuarios -> Nat] /\ EnCurso(p) /\ h.u \in Usuarios
      /\ Vista(p) /\ IntentosAcotados /\ WRONG_LOGIN_LIMIT \in Nat
      /\ InvIntentos(pcs) /\ Serie /\ CopiaAcotada(p)
  <2>1. EnCurso(p)
    BY DEF ContinuarBloqueo, VerificarPermitido, VerificarBloqueada, VerificarGenerar,
       ActualizarDatosBloqueo, EnviarCorreoBloqueo, CompararErronea, CompararCorrecta,
       RestaurarDatosBloqueo, ActualizarContadorBloqueos, Desbloquear, En, EnCurso
  <2>2. QED
    BY <2>1, LimiteSupuesto DEF InvSerie, InvIntentos, Tipos, Bien
<1>f. usuarios[h.u] \in Fila /\ usuarios[h.u].intentos \in Nat /\ erroneos[h.u] \in Nat
  BY <1>t DEF Fila
<1>l. Libre.pc = "libre" /\ Libre.intentos = 0
  BY DEF Libre
<1>1. CASE VerificarPermitido(p)
  <2> DEFINE r == [h EXCEPT !.pc = "comparar"]
  <2>1. r.pc = "comparar"
    BY <1>t DEF Peticion
  <2>2. h.pc = "leido" /\ Sigue(p, r) /\ erroneos' = erroneos /\ usuarios' = usuarios
    BY <1>1 DEF VerificarPermitido, En
  <2>3. QED
    BY <1>t, <2>1, <2>2, CuentaQuieta DEF PorContar
<1>2. CASE VerificarBloqueada(p) \/ EnviarCorreoBloqueo(p)
  <2>1. Sigue(p, Libre) /\ erroneos' = erroneos /\ usuarios' = usuarios
        /\ h.pc \in {"leido", "correoBloqueo"}
    BY <1>2 DEF VerificarBloqueada, EnviarCorreoBloqueo, Termina, En
  <2>2. QED
    BY <1>t, <1>l, <2>1, CuentaQuieta DEF PorContar
<1>3. ASSUME NEW c \in Aleatorios, VerificarGenerar(p, c)
      PROVE  CuentaExacta'
  <2> DEFINE r == [h EXCEPT !.pc = "bloquear", !.codigo = c,
                            !.fecha = reloj + MINUTES_LOGIN_LOCK]
  <2>1. r.pc = "bloquear"
    BY <1>t DEF Peticion
  <2>2. h.pc = "leido" /\ Sigue(p, r) /\ erroneos' = erroneos /\ usuarios' = usuarios
    BY <1>3 DEF VerificarGenerar, Generar, En
  <2>3. QED
    BY <1>t, <2>1, <2>2, CuentaQuieta DEF PorContar
<1>4. CASE ActualizarDatosBloqueo(p)
  <2> DEFINE r == [h EXCEPT !.pc = "correoBloqueo"]
  <2>1. r.pc = "correoBloqueo"
    BY <1>t DEF Peticion
  <2>2. h.pc = "bloquear" /\ Sigue(p, r) /\ erroneos' = erroneos
        /\ EscribirBloqueo(h.u, h.codigo, h.fecha)
    BY <1>4 DEF ActualizarDatosBloqueo, En
  <2>3. \A u \in Usuarios : usuarios'[u].intentos = usuarios[u].intentos
    BY <1>t, <2>2 DEF EscribirBloqueo, Fila
  <2>4. QED
    BY <1>t, <2>1, <2>2, <2>3, CuentaQuieta DEF PorContar
<1>5. CASE CompararErronea(p)
  <2> DEFINE r == TrasError(p)
  <2>1. /\ r.pc = IF Vencida(h.fecha) THEN "restaurarBloqueo" ELSE "contar"
        /\ r.u = h.u
        /\ r.intentos = IF Vencida(h.fecha) THEN 1 ELSE h.intentos + 1
    BY DEF TrasError, Libre
  <2>2. h.pc = "comparar" /\ Sigue(p, r) /\ usuarios' = usuarios
        /\ erroneos' = [erroneos EXCEPT ![h.u] =
                          IF Vencida(h.fecha) THEN 1 ELSE Sumar(@)]
    BY <1>5 DEF CompararErronea, En
  <2>3. h.intentos = usuarios[h.u].intentos /\ erroneos[h.u] = usuarios[h.u].intentos
        /\ usuarios[h.u].intentos <= WRONG_LOGIN_LIMIT
    <3>1. \A q \in Peticiones : PorContar(q) => peticiones[q].u # h.u
      BY <1>t, <2>2 DEF PorContar, Serie, EnCurso
    <3>2. QED
      BY <1>t, <2>2, <3>1 DEF Vista, CuentaExacta, IntentosAcotados
  <2>4. erroneos'[h.u] = r.intentos /\ r.intentos # 0
    BY <1>t, <1>f, <2>1, <2>2, <2>3 DEF Sumar
  <2>5. QED
    BY <1>t, <2>1, <2>2, <2>4, CuentaSaldada
<1>6. CASE CompararCorrecta(p)
  <2>1. h.pc = "comparar" /\ usuarios' = usuarios
    BY <1>6 DEF CompararCorrecta, En
  <2>2. h.intentos = usuarios[h.u].intentos /\ erroneos[h.u] = usuarios[h.u].intentos
    <3>1. \A q \in Peticiones : PorContar(q) => peticiones[q].u # h.u
      BY <1>t, <2>1 DEF PorContar, Serie, EnCurso
    <3>2. QED
      BY <1>t, <2>1, <3>1 DEF Vista, CuentaExacta
  <2>3. CASE h.intentos > 0
    <3> DEFINE r == [Libre EXCEPT !.pc = "contar", !.u = h.u]
    <3>1. r.pc = "contar" /\ r.intentos = 0
      BY DEF Libre
    <3>2. Sigue(p, r) /\ erroneos' = erroneos
      BY <1>6, <2>3 DEF CompararCorrecta
    <3>3. QED
      BY <1>t, <2>1, <3>1, <3>2, CuentaQuieta DEF PorContar
  <2>4. CASE ~ (h.intentos > 0)
    <3>1. Sigue(p, Libre) /\ erroneos' = [erroneos EXCEPT ![h.u] = 0]
      BY <1>6, <2>4 DEF CompararCorrecta, Termina
    <3>2. usuarios[h.u].intentos = 0
      BY <1>f, <2>2, <2>4
    <3>3. QED
      BY <1>t, <1>l, <2>1, <3>1, <3>2, CuentaSaldada
  <2>5. QED
    BY <2>3, <2>4
<1>7. CASE RestaurarDatosBloqueo(p)
  <2> DEFINE r == [h EXCEPT !.pc = "contar"]
  <2>1. r.pc = "contar" /\ r.u = h.u /\ r.intentos = h.intentos
    BY <1>t DEF Peticion
  <2>2. h.pc = "restaurarBloqueo" /\ Sigue(p, r) /\ erroneos' = erroneos
        /\ EscribirBloqueo(h.u, Nulo, Nulo)
    BY <1>7 DEF RestaurarDatosBloqueo, En
  <2>3. /\ \A u \in Usuarios : u # h.u => usuarios'[u] = usuarios[u]
        /\ usuarios'[h.u].intentos = usuarios[h.u].intentos
    BY <1>t, <1>f, <2>2 DEF EscribirBloqueo, Fila
  <2>4. IF h.intentos # 0 THEN erroneos[h.u] = h.intentos
                          ELSE erroneos[h.u] = usuarios[h.u].intentos
    <3>1. CASE h.intentos # 0
      BY <2>2, <3>1 DEF CuentaExacta, PorContar
    <3>2. CASE h.intentos = 0
      <4>1. \A q \in Peticiones : PorContar(q) => peticiones[q].u # h.u
        BY <1>t, <2>2, <3>2 DEF PorContar, Serie, EnCurso
      <4>2. QED
        BY <1>t, <3>2, <4>1 DEF CuentaExacta
    <3>3. QED
      BY <3>1, <3>2
  <2>5. QED
    BY <1>t, <2>1, <2>2, <2>3, <2>4, CuentaSaldada
<1>8. CASE ActualizarContadorBloqueos(p)
  <2>1. h.pc = "contar" /\ Sigue(p, Libre) /\ EscribirContador(h.u, h.intentos)
        /\ erroneos' = [erroneos EXCEPT ![h.u] = IF h.intentos = 0 THEN 0 ELSE @]
    BY <1>8 DEF ActualizarContadorBloqueos, Termina, En
  <2>2. /\ \A u \in Usuarios : u # h.u => usuarios'[u] = usuarios[u]
        /\ usuarios'[h.u].intentos = h.intentos
    BY <1>t, <1>f, <2>1 DEF EscribirContador, Fila
  <2>3. h.intentos # 0 => erroneos[h.u] = h.intentos
    BY <2>1 DEF CuentaExacta, PorContar
  <2>4. /\ \A u \in Usuarios : u # h.u => erroneos'[u] = erroneos[u]
        /\ erroneos'[h.u] = h.intentos
    BY <1>t, <2>1, <2>3
  <2>5. QED
    BY <1>t, <1>l, <2>1, <2>2, <2>4, CuentaSaldada
<1>9. CASE Desbloquear(p)
  <2>1. Sigue(p, Libre) /\ EscribirDesbloqueo(h.u)
        /\ erroneos' = [erroneos EXCEPT ![h.u] = 0]
    BY <1>9 DEF Desbloquear, Termina
  <2>2. /\ \A u \in Usuarios : u # h.u => usuarios'[u] = usuarios[u]
        /\ usuarios'[h.u].intentos = 0
    BY <1>t, <1>f, <2>1 DEF EscribirDesbloqueo, Fila
  <2>3. QED
    BY <1>t, <1>l, <2>1, <2>2, CuentaSaldada
<1>10. QED
  BY <1>1, <1>2, <1>3, <1>4, <1>5, <1>6, <1>7, <1>8, <1>9 DEF ContinuarBloqueo

LEMMA CuentaInicial == Init => CuentaExacta
<1> SUFFICES ASSUME Init PROVE CuentaExacta
  OBVIOUS
<1>1. \A e \in Estados, k \in Claves \cup {Nulo} : FilaNueva(e, k).intentos = 0
  BY DEF FilaNueva
<1>2. ASSUME NEW u \in Usuarios PROVE usuarios[u].intentos = 0
  <2>1. usuarios[u] \in {FilaNueva("AUSENTE", Nulo)} \cup
          {FilaNueva(e, k) : e \in Estados \ {"AUSENTE"}, k \in Claves}
    BY DEF Init
  <2>2. QED
    BY <1>1, <2>1 DEF Estados
<1>3. \A p \in Peticiones : peticiones[p].pc = "libre"
  BY DEF Init, Libre
<1>4. \A u \in Usuarios : erroneos[u] = 0
  BY DEF Init
<1>5. QED
  BY <1>2, <1>3, <1>4 DEF CuentaExacta, PorContar

LEMMA CuentaPedir ==
  ASSUME NEW pcs, CuentaExacta, InvIntentos(pcs), NEW p \in Peticiones, NEW K,
         PedirBloqueo(p, K)
  PROVE  CuentaExacta'
<1>t. Libre.pc = "libre"
  BY DEF Libre
<1>1. ASSUME NEW u \in Usuarios, NEW k \in K, BuscarUsuario(p, u, k)
      PROVE  CuentaExacta'
  <2> DEFINE r == [Libre EXCEPT !.pc = "leido", !.u = u, !.clave = k,
                                !.hash = usuarios[u].contrasena,
                                !.intentos = usuarios[u].intentos,
                                !.fecha = usuarios[u].fechaBloqueo]
  <2>1. r.pc = "leido"
    BY DEF Libre
  <2>2. Sigue(p, r) /\ erroneos' = erroneos /\ usuarios' = usuarios /\ ~ PorContar(p)
    BY <1>1, <1>t DEF BuscarUsuario, LeerUsuario, PorContar
  <2>3. QED
    BY <2>1, <2>2, CuentaQuieta
<1>2. ASSUME NEW u \in Usuarios, RechazarUsuario(p, u)
      PROVE  CuentaExacta'
  BY <1>2 DEF RechazarUsuario, vars, CuentaExacta, PorContar
<1>3. ASSUME NEW c \in Aleatorios, BuscarPorCodigoDesbloqueo(p, c)
      PROVE  CuentaExacta'
  <2>1. PICK u \in Usuarios : Sigue(p, [Libre EXCEPT !.pc = "desbloquear", !.u = u])
    BY <1>3 DEF BuscarPorCodigoDesbloqueo
  <2> DEFINE r == [Libre EXCEPT !.pc = "desbloquear", !.u = u]
  <2>2. r.pc = "desbloquear"
    BY DEF Libre
  <2>3. erroneos' = erroneos /\ usuarios' = usuarios /\ ~ PorContar(p)
    BY <1>3, <1>t DEF BuscarPorCodigoDesbloqueo, PorContar
  <2>4. QED
    BY <2>1, <2>2, <2>3, CuentaQuieta
<1>4. QED
  BY <1>1, <1>2, <1>3 DEF PedirBloqueo

LEMMA CuentaSiguiente ==
  ASSUME ~ Fallos, InvSerie(PcBloqueo), CuentaExacta, [Next /\ Serie']_vars
  PROVE  CuentaExacta'
<1>t. InvIntentos(PcBloqueo)
  BY DEF InvSerie
<1>1. CASE UNCHANGED vars
  BY <1>1 DEF vars, CuentaExacta, PorContar
<1>2. CASE Tick
  BY <1>2 DEF Tick, CuentaExacta, PorContar
<1>3. ASSUME NEW p \in Peticiones, PedirBloqueo(p, Claves) PROVE CuentaExacta'
  BY <1>3, <1>t, CuentaPedir
<1>4. ASSUME NEW p \in Peticiones, ContinuarBloqueo(p), Serie' PROVE CuentaExacta'
  BY <1>4, CuentaPaso
<1>5. \A p \in Peticiones : ~ Abortar(p)
  BY DEF Abortar
<1>6. QED
  BY <1>1, <1>2, <1>3, <1>4, <1>5 DEF Next

LEMMA CuentaSiempre == ASSUME ~ Fallos PROVE SpecSerie => [](InvSerie(PcBloqueo) /\ CuentaExacta)
<1>1. Init => InvSerie(PcBloqueo) /\ CuentaExacta
  BY SerieInicial, CuentaInicial
<1>2. InvSerie(PcBloqueo) /\ CuentaExacta /\ [Next /\ Serie']_vars => (InvSerie(PcBloqueo) /\ CuentaExacta)'
  BY SerieSiguiente, CuentaSiguiente
<1>3. QED
  BY <1>1, <1>2, PTL DEF SpecSerie

\* An exact account of the wrong passwords is never beyond the limit, and is at the limit
\* while there is a lock.
LEMMA CuentaLimita ==
  ASSUME NEW pcs, InvSerie(pcs), CuentaExacta
  PROVE  LimiteErroneos /\ BloqueoMerecido
<1>1. ASSUME NEW u \in Usuarios PROVE erroneos[u] <= WRONG_LOGIN_LIMIT
  <2>1. CASE \E p \in Peticiones : PorContar(p) /\ peticiones[p].u = u
    BY <2>1 DEF PorContar, CuentaExacta, InvSerie, InvIntentos, CopiaAcotada
  <2>2. CASE ~ \E p \in Peticiones : PorContar(p) /\ peticiones[p].u = u
    BY <2>2 DEF CuentaExacta, InvSerie, InvIntentos, IntentosAcotados
  <2>3. QED
    BY <2>1, <2>2
<1>2. ASSUME NEW u \in Usuarios, Vigente(usuarios[u].fechaBloqueo)
      PROVE  erroneos[u] >= WRONG_LOGIN_LIMIT
  <2>1. \A p \in Peticiones : PorContar(p) => peticiones[p].u # u
    BY <1>2 DEF InvSerie, Vista, PorContar
  <2>2. QED
    BY <1>2, <2>1 DEF CuentaExacta, InvSerie, BloqueoEfectivo
<1>3. QED
  BY <1>1, <1>2 DEF LimiteErroneos, BloqueoMerecido

\* With no failures either, no more than WRONG_LOGIN_LIMIT wrong passwords are
\* compared before a fresh start: the column misses none of them.
THEOREM LimiteEnSerie == ASSUME ~ Fallos PROVE SpecSerie => []LimiteErroneos
<1>1. InvSerie(PcBloqueo) /\ CuentaExacta => LimiteErroneos
  BY CuentaLimita
<1>2. QED
  BY <1>1, CuentaSiempre, PTL

\* And a lock is always the outcome of WRONG_LOGIN_LIMIT wrong passwords since
\* the last fresh start.
THEOREM BloqueoMerecidoEnSerie == ASSUME ~ Fallos PROVE SpecSerie => []BloqueoMerecido
<1>1. InvSerie(PcBloqueo) /\ CuentaExacta => BloqueoMerecido
  BY CuentaLimita
<1>2. QED
  BY <1>1, CuentaSiempre, PTL

\* No await of a login or an unlocking moves the end of a lock in force: the one that
\* writes an end found no lock, and still finds none.
LEMMA PasoNoExtiende ==
  ASSUME NEW pcs, InvSerie(pcs), NEW p \in Peticiones, ContinuarBloqueo(p),
         NEW u \in Usuarios, Vigente(usuarios[u].fechaBloqueo)
  PROVE  usuarios'[u].fechaBloqueo \in {usuarios[u].fechaBloqueo, Nulo}
<1> DEFINE h == peticiones[p]
<1>1. \/ UNCHANGED usuarios
      \/ /\ h.pc = "bloquear" /\ EnCurso(p)
         /\ EscribirBloqueo(h.u, h.codigo, h.fecha)
      \/ EscribirBloqueo(h.u, Nulo, Nulo)
      \/ EscribirContador(h.u, h.intentos)
      \/ EscribirDesbloqueo(h.u)
  BY DEF ContinuarBloqueo, VerificarPermitido, VerificarBloqueada, VerificarGenerar,
     ActualizarDatosBloqueo, EnviarCorreoBloqueo, CompararErronea, CompararCorrecta,
     RestaurarDatosBloqueo, ActualizarContadorBloqueos, Desbloquear, En, EnCurso
<1>2. usuarios \in [Usuarios -> Fila] /\ usuarios[u] \in Fila
  BY DEF InvSerie, InvIntentos, Tipos
<1>3. h.pc = "bloquear" => u # h.u
  BY DEF InvSerie, Vista, Vigente
<1>4. CASE u # h.u
  BY <1>1, <1>2, <1>4 DEF EscribirBloqueo, EscribirContador, EscribirDesbloqueo
<1>5. CASE u = h.u
  BY <1>1, <1>2, <1>3, <1>5 DEF EscribirBloqueo, EscribirContador, EscribirDesbloqueo, Fila
<1>6. QED
  BY <1>4, <1>5

\* Served one at a time, whatever fails in between, no request prolongs a lock that has
\* started.
THEOREM BloqueoNoSeExtiendeEnSerie == SpecSerie => BloqueoNoSeExtiende
<1>1. InvSerie(PcBloqueo) /\ [Next /\ Serie']_vars =>
        [\A u \in Usuarios :
           Vigente(usuarios[u].fechaBloqueo)
             => usuarios'[u].fechaBloqueo \in {usuarios[u].fechaBloqueo, Nulo}]_vars
  <2> SUFFICES ASSUME InvSerie(PcBloqueo), Next, NEW u \in Usuarios,
                      Vigente(usuarios[u].fechaBloqueo), usuarios' # usuarios
               PROVE  usuarios'[u].fechaBloqueo \in {usuarios[u].fechaBloqueo, Nulo}
    BY DEF vars
  <2>1. PICK p \in Peticiones : ContinuarBloqueo(p)
    BY DEF Next, Tick, PedirBloqueo, BuscarUsuario, RechazarUsuario,
       BuscarPorCodigoDesbloqueo, Abortar, vars
  <2>2. QED
    BY <2>1, PasoNoExtiende
<1>2. QED
  BY <1>1, SerieSiempre, PTL DEF SpecSerie, BloqueoNoSeExtiende

-----------------------------------------------------------------------------
\* The refinement of BloqueoAbs.  The promise about an account is a matter of its row, its
\* history and the one request on it; the lemmas say it for any table t, requests s and
\* history e, so that they hold before and after a step.

HastaEn(t, s, e, u) ==
  IF \E p \in Peticiones : s[p].pc = "bloquear" /\ s[p].u = u
  THEN s[CHOOSE p \in Peticiones : s[p].pc = "bloquear" /\ s[p].u = u].fecha
  ELSE IF e[u] < WRONG_LOGIN_LIMIT
          \/ \E p \in Peticiones : s[p].pc = "restaurarBloqueo" /\ s[p].u = u
  THEN Nulo
  ELSE t[u].fechaBloqueo

\* The same of an account whose only request, if any, is h
HastaDe(fecha, n, h) ==
  IF h.pc = "bloquear" THEN h.fecha
  ELSE IF n < WRONG_LOGIN_LIMIT \/ h.pc = "restaurarBloqueo" THEN Nulo ELSE fecha

Prometido == [u \in Usuarios |-> Hasta(u)]

LEMMA HastaAntes == \A u : Hasta(u) = HastaEn(usuarios, peticiones, erroneos, u)
BY DEF Hasta, HastaEn, EnPaso, En

LEMMA HastaDespues == \A u : Hasta(u)' = HastaEn(usuarios', peticiones', erroneos', u)
BY DEF Hasta, HastaEn, EnPaso, En

\* The only request on u is that of p.
Unica(s, u, p) ==
  s[p].u = u /\ \A q \in Peticiones : q # p /\ s[q].u = u => s[q].pc = "libre"

LEMMA HastaPropia ==
  ASSUME NEW t, NEW s, NEW e, NEW u, NEW p \in Peticiones, Unica(s, u, p)
  PROVE  HastaEn(t, s, e, u) = HastaDe(t[u].fechaBloqueo, e[u], s[p])
<1>1. CASE s[p].pc = "bloquear"
  <2> DEFINE P(q) == s[q].pc = "bloquear" /\ s[q].u = u
  <2>1. P(p) /\ \A q \in Peticiones : P(q) => q = p
    BY <1>1 DEF Unica
  <2> HIDE DEF P
  <2>2. (CHOOSE q \in Peticiones : P(q)) = p
    BY <2>1
  <2>3. QED
    BY <1>1, <2>1, <2>2 DEF HastaEn, HastaDe, P
<1>2. CASE s[p].pc # "bloquear"
  <2>1. ~ \E q \in Peticiones : s[q].pc = "bloquear" /\ s[q].u = u
    BY <1>2 DEF Unica
  <2>2. (\E q \in Peticiones : s[q].pc = "restaurarBloqueo" /\ s[q].u = u)
          <=> s[p].pc = "restaurarBloqueo"
    BY DEF Unica
  <2>3. QED
    BY <1>2, <2>1, <2>2 DEF HastaEn, HastaDe
<1>3. QED
  BY <1>1, <1>2

LEMMA HastaSola ==
  ASSUME NEW t, NEW s, NEW e, NEW u, NEW h, h.pc = "libre",
         \A q \in Peticiones : s[q].u = u => s[q].pc = "libre"
  PROVE  HastaEn(t, s, e, u) = HastaDe(t[u].fechaBloqueo, e[u], h)
<1>1. \A q \in Peticiones : s[q].u = u => s[q].pc \notin {"bloquear", "restaurarBloqueo"}
  OBVIOUS
<1>2. QED
  BY <1>1 DEF HastaEn, HastaDe

\* Two states with the same row, history and request of u promise the same of it.
LEMMA HastaAjena ==
  ASSUME NEW t, NEW s, NEW e, NEW t2, NEW s2, NEW e2, NEW u,
         t2[u] = t[u], e2[u] = e[u], NEW p \in Peticiones,
         \A q \in Peticiones : q # p => s2[q] = s[q],
         s[p].pc = "libre" \/ s[p].u # u, s2[p].pc = "libre" \/ s2[p].u # u,
         \A q, o \in Peticiones :
           q # o /\ s[q].pc # "libre" /\ s[o].pc # "libre" => s[q].u # s[o].u
  PROVE  HastaEn(t2, s2, e2, u) = HastaEn(t, s, e, u)
<1>1. CASE \E q \in Peticiones : s[q].pc # "libre" /\ s[q].u = u
  <2>1. PICK q \in Peticiones : s[q].pc # "libre" /\ s[q].u = u
    BY <1>1
  <2>2. q # p /\ s2[q] = s[q]
    BY <2>1
  <2>3. Unica(s, u, q)
    BY <2>1 DEF Unica
  <2>4. Unica(s2, u, q)
    BY <2>1, <2>2, <2>3 DEF Unica
  <2>5. HastaEn(t, s, e, u) = HastaDe(t[u].fechaBloqueo, e[u], s[q])
    BY <2>3, HastaPropia
  <2>6. HastaEn(t2, s2, e2, u) = HastaDe(t2[u].fechaBloqueo, e2[u], s2[q])
    BY <2>4, HastaPropia
  <2>7. QED
    BY <2>2, <2>5, <2>6
<1>2. CASE ~ \E q \in Peticiones : s[q].pc # "libre" /\ s[q].u = u
  <2>1. \A q \in Peticiones : s[q].u = u => s[q].pc = "libre"
    BY <1>2
  <2>2. \A q \in Peticiones : s2[q].u = u => s2[q].pc = "libre"
    BY <2>1
  <2>3. Libre.pc = "libre"
    BY DEF Libre
  <2>4. HastaEn(t, s, e, u) = HastaDe(t[u].fechaBloqueo, e[u], Libre)
    BY <2>1, <2>3, HastaSola
  <2>5. HastaEn(t2, s2, e2, u) = HastaDe(t2[u].fechaBloqueo, e2[u], Libre)
    BY <2>2, <2>3, HastaSola
  <2>6. QED
    BY <2>4, <2>5
<1>3. QED
  BY <1>1, <1>2

\* A step of p, which is on the account a before, after or both: the promise changes only
\* there, as the row, the history and the request of p say.
LEMMA Cambio ==
  ASSUME InvSerie(PcBloqueo), Serie', NEW p \in Peticiones, NEW r, Sigue(p, r), NEW a \in Usuarios,
         EnCurso(p) => peticiones[p].u = a, r.pc # "libre" => r.u = a,
         EnCurso(p) \/ r.pc # "libre",
         \A u \in Usuarios \ {a} : usuarios'[u] = usuarios[u] /\ erroneos'[u] = erroneos[u]
  PROVE  /\ Prometido' = [Prometido EXCEPT ![a] = Prometido'[a]]
         /\ Prometido[a] = HastaDe(usuarios[a].fechaBloqueo, erroneos[a], peticiones[p])
         /\ Prometido'[a] = HastaDe(usuarios'[a].fechaBloqueo, erroneos'[a], r)
<1>1. peticiones'[p] = r /\ \A q \in Peticiones : q # p => peticiones'[q] = peticiones[q]
  BY DEF Sigue, InvSerie, InvIntentos, Tipos
<1>2. \A q \in Peticiones : q # p /\ peticiones[q].u = a => peticiones[q].pc = "libre"
  BY <1>1 DEF InvSerie, Serie, EnCurso
<1>3. \A q \in Peticiones : q # p /\ peticiones'[q].u = a => peticiones'[q].pc = "libre"
  BY <1>1, <1>2
<1>4. Prometido[a] = HastaEn(usuarios, peticiones, erroneos, a)
      /\ Prometido'[a] = HastaEn(usuarios', peticiones', erroneos', a)
  BY HastaAntes, HastaDespues DEF Prometido
<1>5. Prometido[a] = HastaDe(usuarios[a].fechaBloqueo, erroneos[a], peticiones[p])
  <2>1. CASE EnCurso(p)
    <3>1. Unica(peticiones, a, p)
      BY <1>2, <2>1 DEF Unica
    <3>2. QED
      BY <1>4, <3>1, HastaPropia
  <2>2. CASE ~ EnCurso(p)
    <3>1. peticiones[p].pc = "libre"
      BY <2>2 DEF EnCurso
    <3>2. \A q \in Peticiones : peticiones[q].u = a => peticiones[q].pc = "libre"
      BY <1>2, <3>1
    <3>3. QED
      BY <1>4, <3>1, <3>2, HastaSola
  <2>3. QED
    BY <2>1, <2>2
<1>6. Prometido'[a] = HastaDe(usuarios'[a].fechaBloqueo, erroneos'[a], r)
  <2>1. CASE r.pc # "libre"
    <3>1. Unica(peticiones', a, p)
      BY <1>1, <1>3, <2>1 DEF Unica
    <3>2. QED
      BY <1>1, <1>4, <3>1, HastaPropia
  <2>2. CASE r.pc = "libre"
    <3>1. \A q \in Peticiones : peticiones'[q].u = a => peticiones'[q].pc = "libre"
      BY <1>1, <1>3, <2>2
    <3>2. QED
      BY <1>4, <2>2, <3>1, HastaSola
  <2>3. QED
    BY <2>1, <2>2
<1>7. ASSUME NEW u \in Usuarios, u # a PROVE Prometido'[u] = Prometido[u]
  <2>1. \A q, o \in Peticiones :
          q # o /\ peticiones[q].pc # "libre" /\ peticiones[o].pc # "libre"
            => peticiones[q].u # peticiones[o].u
    BY DEF InvSerie, Serie, EnCurso
  <2>2. /\ peticiones[p].pc = "libre" \/ peticiones[p].u # u
        /\ peticiones'[p].pc = "libre" \/ peticiones'[p].u # u
    BY <1>1, <1>7 DEF EnCurso
  <2>3. usuarios'[u] = usuarios[u] /\ erroneos'[u] = erroneos[u]
    BY <1>7
  <2>4. HastaEn(usuarios', peticiones', erroneos', u) = HastaEn(usuarios, peticiones, erroneos, u)
    BY <1>1, <2>1, <2>2, <2>3, HastaAjena
  <2>5. QED
    BY <2>4, HastaAntes, HastaDespues DEF Prometido
<1>8. Prometido' = [Prometido EXCEPT ![a] = Prometido'[a]]
  BY <1>7 DEF Prometido
<1>9. QED
  BY <1>5, <1>6, <1>8

-----------------------------------------------------------------------------
\* What the refinement needs besides: a lock left in the row is either one that the count
\* accounts for or what remains of one that ended in a right password; and what a request
\* decided to write is still due when it writes it.

FechaSaldada ==
  \A u \in Usuarios :
    usuarios[u].fechaBloqueo # Nulo =>
      \/ erroneos[u] = 0 \/ erroneos[u] >= WRONG_LOGIN_LIMIT
      \/ \E p \in Peticiones : En(p, "restaurarBloqueo") /\ peticiones[p].u = u

Promesa(p) ==
  LET u == peticiones[p].u IN
  /\ En(p, "contar") /\ peticiones[p].intentos = 0 =>
       erroneos[u] < WRONG_LOGIN_LIMIT \/ Vencida(usuarios[u].fechaBloqueo)
  /\ En(p, "desbloquear") => usuarios[u].fechaBloqueo # Nulo
  /\ En(p, "restaurarBloqueo") => peticiones[p].intentos # 0

InvPromesa == FechaSaldada /\ \A p \in Peticiones : Promesa(p)

InvCumple == InvSerie(PcBloqueo) /\ CuentaExacta /\ InvPromesa

\* A step of the lockout that is promised, on the wrong passwords and the end of the lock
\* of one account
Salto(n, f, n2, f2) ==
  LET permitida == n < WRONG_LOGIN_LIMIT \/ (f # Nulo /\ reloj > f) IN
  \/ n2 = n /\ f2 = f
  \/ permitida /\ n2 = (IF n < WRONG_LOGIN_LIMIT THEN n + 1 ELSE 1) /\ f2 = Nulo
  \/ permitida /\ n2 = 0 /\ f2 = Nulo
  \/ n = WRONG_LOGIN_LIMIT /\ f = Nulo /\ n2 = n /\ f2 = reloj + MINUTES_LOGIN_LOCK
  \/ f # Nulo /\ n2 = 0 /\ f2 = Nulo

LEMMA SaltoAbs ==
  ASSUME NEW a \in Usuarios, NEW n, NEW f, reloj' = reloj,
         erroneos \in [Usuarios -> Nat],
         erroneos' = [erroneos EXCEPT ![a] = n], Prometido' = [Prometido EXCEPT ![a] = f],
         Salto(erroneos[a], Prometido[a], n, f)
  PROVE  Abs!Next \/ UNCHANGED Abs!vars
<1>1. CASE n = erroneos[a] /\ f = Prometido[a]
  <2>1. erroneos' = erroneos /\ Prometido' = Prometido
    BY <1>1 DEF Prometido
  <2>2. QED
    BY <2>1 DEF Abs!vars, Prometido
<1>2. CASE Abs!Permitida(a) /\ f = Nulo
           /\ n = IF erroneos[a] < WRONG_LOGIN_LIMIT THEN erroneos[a] + 1 ELSE 1
  <2>1. Abs!Fallar(a)
    BY <1>2 DEF Abs!Fallar, Prometido
  <2>2. QED
    BY <2>1 DEF Abs!Next
<1>3. CASE Abs!Permitida(a) /\ n = 0 /\ f = Nulo
  <2>1. Abs!Acertar(a)
    BY <1>3 DEF Abs!Acertar, Prometido
  <2>2. QED
    BY <2>1 DEF Abs!Next
<1>4. CASE /\ erroneos[a] = WRONG_LOGIN_LIMIT /\ Prometido[a] = Nulo
           /\ n = erroneos[a] /\ f = reloj + MINUTES_LOGIN_LOCK
  <2>1. erroneos' = erroneos
    BY <1>4
  <2>2. Abs!Bloquear(a)
    BY <1>4, <2>1 DEF Abs!Bloquear, Prometido
  <2>3. QED
    BY <2>2 DEF Abs!Next
<1>5. CASE Prometido[a] # Nulo /\ n = 0 /\ f = Nulo
  <2>1. Abs!Desbloquear(a)
    BY <1>5 DEF Abs!Desbloquear, Prometido
  <2>2. QED
    BY <2>1 DEF Abs!Next
<1>6. Abs!Permitida(a) <=> \/ erroneos[a] < WRONG_LOGIN_LIMIT
                           \/ Prometido[a] # Nulo /\ reloj > Prometido[a]
  BY DEF Abs!Permitida, Prometido
<1>7. QED
  BY <1>1, <1>2, <1>3, <1>4, <1>5, <1>6 DEF Salto

\* A step of p on a keeps the promise if it does on a.
LEMMA PasoCumple ==
  ASSUME InvCumple, Serie', reloj' = reloj,
         NEW p \in Peticiones, NEW r, Sigue(p, r), NEW a \in Usuarios,
         EnCurso(p) => peticiones[p].u = a, r.pc # "libre" => r.u = a,
         EnCurso(p) \/ r.pc # "libre",
         NEW n, erroneos' = [erroneos EXCEPT ![a] = n],
         NEW fila, usuarios' = [usuarios EXCEPT ![a] = fila],
         fila.fechaBloqueo # Nulo =>
           n = 0 \/ n >= WRONG_LOGIN_LIMIT \/ r.pc = "restaurarBloqueo",
         r.pc = "contar" /\ r.intentos = 0 =>
           n < WRONG_LOGIN_LIMIT \/ Vencida(fila.fechaBloqueo),
         r.pc = "desbloquear" => fila.fechaBloqueo # Nulo,
         r.pc = "restaurarBloqueo" => r.intentos # 0,
         Salto(erroneos[a], HastaDe(usuarios[a].fechaBloqueo, erroneos[a], peticiones[p]),
               n, HastaDe(fila.fechaBloqueo, n, r))
  PROVE  InvPromesa' /\ (Abs!Next \/ UNCHANGED Abs!vars)
<1>t. /\ usuarios \in [Usuarios -> Fila] /\ erroneos \in [Usuarios -> Nat]
      /\ \A q \in Peticiones : EnCurso(q) => peticiones[q].u \in Usuarios
  BY DEF InvCumple, InvSerie, InvIntentos, Tipos, Bien
<1>1. peticiones'[p] = r /\ \A q \in Peticiones : q # p => peticiones'[q] = peticiones[q]
  BY DEF Sigue, InvCumple, InvSerie, InvIntentos, Tipos
<1>2. /\ usuarios'[a] = fila /\ erroneos'[a] = n
      /\ \A u \in Usuarios \ {a} : usuarios'[u] = usuarios[u] /\ erroneos'[u] = erroneos[u]
  BY <1>t
<1>3. ASSUME NEW q \in Peticiones, q # p, EnCurso(q)
      PROVE  peticiones[q].u \in Usuarios \ {a}
  BY <1>t, <1>1, <1>3 DEF InvCumple, InvSerie, Serie, EnCurso
<1>4. FechaSaldada'
  <2> SUFFICES ASSUME NEW u \in Usuarios, usuarios'[u].fechaBloqueo # Nulo
               PROVE  \/ erroneos'[u] = 0 \/ erroneos'[u] >= WRONG_LOGIN_LIMIT
                      \/ \E q \in Peticiones :
                           peticiones'[q].pc = "restaurarBloqueo" /\ peticiones'[q].u = u
    BY DEF FechaSaldada, En
  <2>1. CASE u = a
    BY <1>1, <1>2, <2>1
  <2>2. CASE u # a
    <3>1. \/ erroneos[u] = 0 \/ erroneos[u] >= WRONG_LOGIN_LIMIT
          \/ \E q \in Peticiones : peticiones[q].pc = "restaurarBloqueo" /\ peticiones[q].u = u
      BY <1>2, <2>2 DEF InvCumple, InvPromesa, FechaSaldada, En
    <3>2. \A q \in Peticiones :
            peticiones[q].pc = "restaurarBloqueo" /\ peticiones[q].u = u => q # p
      BY <2>2 DEF EnCurso
    <3>3. QED
      BY <1>1, <1>2, <2>2, <3>1, <3>2
  <2>3. QED
    BY <2>1, <2>2
<1>5. ASSUME NEW q \in Peticiones PROVE Promesa(q)'
  <2>1. CASE q = p
    BY <1>1, <1>2, <2>1 DEF Promesa, En, Vencida
  <2>2. CASE q # p /\ EnCurso(q)
    <3>1. peticiones[q].u \in Usuarios \ {a} /\ peticiones'[q] = peticiones[q]
      BY <1>1, <1>3, <2>2
    <3>2. Promesa(q)
      BY DEF InvCumple, InvPromesa
    <3>3. QED
      BY <1>2, <3>1, <3>2 DEF Promesa, En, Vencida
  <2>3. CASE q # p /\ ~ EnCurso(q)
    BY <1>1, <2>3 DEF Promesa, En, EnCurso
  <2>4. QED
    BY <2>1, <2>2, <2>3
<1>6. /\ Prometido' = [Prometido EXCEPT ![a] = Prometido'[a]]
      /\ Prometido[a] = HastaDe(usuarios[a].fechaBloqueo, erroneos[a], peticiones[p])
      /\ Prometido'[a] = HastaDe(fila.fechaBloqueo, n, r)
  BY <1>2, Cambio DEF InvCumple
<1>7. Abs!Next \/ UNCHANGED Abs!vars
  BY <1>t, <1>6, SaltoAbs
<1>8. QED
  BY <1>4, <1>5, <1>7 DEF InvPromesa

\* A step that changes nothing keeps the promise.
LEMMA VacioCumple ==
  ASSUME InvCumple, UNCHANGED vars
  PROVE  InvPromesa' /\ (Abs!Next \/ UNCHANGED Abs!vars)
<1>1. InvPromesa'
  BY DEF vars, InvCumple, InvPromesa, FechaSaldada, Promesa, En, Vencida
<1>2. Prometido' = Prometido
  BY HastaAntes, HastaDespues DEF vars, Prometido, HastaEn
<1>3. UNCHANGED Abs!vars
  BY <1>2 DEF vars, Abs!vars, Prometido
<1>4. QED
  BY <1>1, <1>3

\* What the invariants say of the account of a request in progress.
LEMMA Hechos ==
  ASSUME InvCumple, NEW p \in Peticiones, EnCurso(p)
  PROVE  LET h == peticiones[p]  a == peticiones[p].u  fila == usuarios[peticiones[p].u] IN
         /\ a \in Usuarios /\ fila \in Fila /\ h \in Peticion(PcBloqueo)
         /\ erroneos[a] \in Nat
         /\ ~ PorContar(p) => erroneos[a] = fila.intentos
         /\ PorContar(p) => erroneos[a] = h.intentos
         /\ h.pc # "restaurarBloqueo" /\ fila.fechaBloqueo # Nulo =>
              erroneos[a] = 0 \/ erroneos[a] >= WRONG_LOGIN_LIMIT
         /\ Vigente(fila.fechaBloqueo) => fila.intentos >= WRONG_LOGIN_LIMIT
         /\ Vista(p) /\ CopiaAcotada(p) /\ Promesa(p)
<1> DEFINE a == peticiones[p].u
<1>1. a \in Usuarios /\ usuarios[a] \in Fila /\ peticiones[p] \in Peticion(PcBloqueo)
      /\ erroneos[a] \in Nat
  BY DEF InvCumple, InvSerie, InvIntentos, Tipos, Bien
<1>2. \A q \in Peticiones : q # p /\ EnCurso(q) => peticiones[q].u # a
  BY DEF InvCumple, InvSerie, Serie
<1>3. ~ PorContar(p) => erroneos[a] = usuarios[a].intentos
  <2>1. \A q \in Peticiones : PorContar(q) => EnCurso(q)
    BY DEF PorContar, EnCurso
  <2>2. QED
    BY <1>1, <1>2, <2>1 DEF InvCumple, CuentaExacta
<1>4. PorContar(p) => erroneos[a] = peticiones[p].intentos
  BY DEF InvCumple, CuentaExacta
<1>5. peticiones[p].pc # "restaurarBloqueo" /\ usuarios[a].fechaBloqueo # Nulo =>
        erroneos[a] = 0 \/ erroneos[a] >= WRONG_LOGIN_LIMIT
  BY <1>1, <1>2 DEF InvCumple, InvPromesa, FechaSaldada, En, EnCurso
<1>6. Vigente(usuarios[a].fechaBloqueo) => usuarios[a].intentos >= WRONG_LOGIN_LIMIT
  BY <1>1 DEF InvCumple, InvSerie, BloqueoEfectivo
<1>7. Vista(p) /\ CopiaAcotada(p) /\ Promesa(p)
  BY DEF InvCumple, InvSerie, InvIntentos, InvPromesa
<1>8. QED
  BY <1>1, <1>3, <1>4, <1>5, <1>6, <1>7

\* A step that only reads keeps the promise.
LEMMA QuietoCumple ==
  ASSUME InvCumple, Serie', reloj' = reloj,
         NEW p \in Peticiones, NEW r, Sigue(p, r), NEW a \in Usuarios,
         usuarios' = [usuarios EXCEPT ![a] = usuarios[a]],
         erroneos' = [erroneos EXCEPT ![a] = erroneos[a]],
         EnCurso(p) => peticiones[p].u = a, r.pc # "libre" => r.u = a,
         EnCurso(p) \/ r.pc # "libre",
         peticiones[p].pc \notin {"bloquear", "restaurarBloqueo"},
         r.pc \notin {"bloquear", "restaurarBloqueo"},
         r.pc = "contar" /\ r.intentos = 0 =>
           erroneos[a] < WRONG_LOGIN_LIMIT \/ Vencida(usuarios[a].fechaBloqueo),
         r.pc = "desbloquear" => usuarios[a].fechaBloqueo # Nulo
  PROVE  InvPromesa' /\ (Abs!Next \/ UNCHANGED Abs!vars)
<1>t. /\ usuarios \in [Usuarios -> Fila] /\ erroneos \in [Usuarios -> Nat]
      /\ peticiones'[p] = r
      /\ \A q \in Peticiones : q # p => peticiones'[q] = peticiones[q]
  BY DEF InvCumple, InvSerie, InvIntentos, Tipos, Sigue
<1>2. \A q \in Peticiones : En(q, "restaurarBloqueo") => peticiones[q].u # a
  BY <1>t DEF InvCumple, InvSerie, Serie, En, EnCurso
<1>3. usuarios[a].fechaBloqueo # Nulo =>
        erroneos[a] = 0 \/ erroneos[a] >= WRONG_LOGIN_LIMIT
  BY <1>2 DEF InvCumple, InvPromesa, FechaSaldada
<1>4. Salto(erroneos[a], HastaDe(usuarios[a].fechaBloqueo, erroneos[a], peticiones[p]),
            erroneos[a], HastaDe(usuarios[a].fechaBloqueo, erroneos[a], r))
  BY DEF Salto, HastaDe
<1>5. QED
  BY <1>3, <1>4, PasoCumple

LEMMA ContinuarCumple ==
  ASSUME InvCumple, Serie', NEW p \in Peticiones, ContinuarBloqueo(p)
  PROVE  InvPromesa' /\ (Abs!Next \/ UNCHANGED Abs!vars)
<1> DEFINE h == peticiones[p]
           a == peticiones[p].u
<1>e. EnCurso(p)
  BY DEF ContinuarBloqueo, VerificarPermitido, VerificarBloqueada, VerificarGenerar,
     ActualizarDatosBloqueo, EnviarCorreoBloqueo, CompararErronea, CompararCorrecta,
     RestaurarDatosBloqueo, ActualizarContadorBloqueos, Desbloquear, En, EnCurso
<1>t. /\ a \in Usuarios /\ usuarios[a] \in Fila /\ h \in Peticion(PcBloqueo)
      /\ erroneos[a] \in Nat
      /\ usuarios \in [Usuarios -> Fila] /\ erroneos \in [Usuarios -> Nat] /\ reloj \in Nat
  BY <1>e, Hechos DEF InvCumple, InvSerie, InvIntentos, Tipos
<1>h. /\ ~ PorContar(p) => erroneos[a] = usuarios[a].intentos
      /\ PorContar(p) => erroneos[a] = h.intentos
      /\ h.pc # "restaurarBloqueo" /\ usuarios[a].fechaBloqueo # Nulo =>
           erroneos[a] = 0 \/ erroneos[a] >= WRONG_LOGIN_LIMIT
      /\ Vigente(usuarios[a].fechaBloqueo) => usuarios[a].intentos >= WRONG_LOGIN_LIMIT
      /\ Vista(p) /\ CopiaAcotada(p) /\ Promesa(p)
  BY <1>e, Hechos
<1>l. Libre.pc = "libre" /\ Libre.intentos = 0
  BY DEF Libre
<1>f. usuarios[a].intentos \in Nat /\ usuarios[a].fechaBloqueo \in Fecha /\ h.intentos \in Nat
  BY <1>t DEF Fila, Peticion
<1>1. CASE VerificarPermitido(p)
  <2> DEFINE r == [h EXCEPT !.pc = "comparar"]
  <2>1. r.pc = "comparar" /\ r.u = a
    BY <1>t DEF Peticion
  <2>2. /\ Sigue(p, r) /\ reloj' = reloj
        /\ usuarios' = [usuarios EXCEPT ![a] = usuarios[a]]
        /\ erroneos' = [erroneos EXCEPT ![a] = erroneos[a]]
        /\ h.pc = "leido"
    BY <1>1, <1>t DEF VerificarPermitido, En
  <2>3. QED
    BY <1>e, <1>t, <2>1, <2>2, QuietoCumple
<1>2. CASE VerificarBloqueada(p)
  <2>1. /\ Sigue(p, Libre) /\ reloj' = reloj
        /\ usuarios' = [usuarios EXCEPT ![a] = usuarios[a]]
        /\ erroneos' = [erroneos EXCEPT ![a] = erroneos[a]]
        /\ h.pc = "leido"
    BY <1>2, <1>t DEF VerificarBloqueada, En, Termina
  <2>2. QED
    BY <1>e, <1>t, <1>l, <2>1, QuietoCumple
<1>3. ASSUME NEW c \in Aleatorios, VerificarGenerar(p, c)
      PROVE  InvPromesa' /\ (Abs!Next \/ UNCHANGED Abs!vars)
  <2> DEFINE r == [h EXCEPT !.pc = "bloquear", !.codigo = c,
                            !.fecha = reloj + MINUTES_LOGIN_LOCK]
  <2>1. r.pc = "bloquear" /\ r.u = a /\ r.fecha = reloj + MINUTES_LOGIN_LOCK
    BY <1>t DEF Peticion
  <2>2. /\ Sigue(p, r) /\ reloj' = reloj
        /\ usuarios' = [usuarios EXCEPT ![a] = usuarios[a]]
        /\ erroneos' = [erroneos EXCEPT ![a] = erroneos[a]]
        /\ h.pc = "leido" /\ h.fecha = Nulo /\ ~ h.intentos < WRONG_LOGIN_LIMIT
    BY <1>3, <1>t DEF VerificarGenerar, Generar, BajoLimite, En
  <2>3. /\ usuarios[a].fechaBloqueo = Nulo /\ h.intentos = usuarios[a].intentos
        /\ h.intentos <= WRONG_LOGIN_LIMIT /\ ~ PorContar(p)
    BY <1>h, <2>2 DEF Vista, CopiaAcotada, En, PorContar
  <2>4. erroneos[a] = WRONG_LOGIN_LIMIT
    BY <1>f, <1>h, <2>2, <2>3, LimiteSupuesto
  <2>5. Salto(erroneos[a], HastaDe(usuarios[a].fechaBloqueo, erroneos[a], h),
              erroneos[a], HastaDe(usuarios[a].fechaBloqueo, erroneos[a], r))
    BY <2>1, <2>2, <2>3, <2>4 DEF Salto, HastaDe
  <2> HIDE DEF r
  <2>6. QED
    BY <1>e, <1>t, <2>1, <2>2, <2>3, <2>5, PasoCumple
<1>4. CASE ActualizarDatosBloqueo(p)
  <2> DEFINE r == [h EXCEPT !.pc = "correoBloqueo"]
             fila == [usuarios[a] EXCEPT !.codigoDesbloqueo = h.codigo,
                                         !.fechaBloqueo = h.fecha]
  <2>1. r.pc = "correoBloqueo" /\ r.u = a /\ fila.fechaBloqueo = h.fecha
    BY <1>t DEF Peticion, Fila
  <2>2. /\ Sigue(p, r) /\ reloj' = reloj /\ erroneos' = [erroneos EXCEPT ![a] = erroneos[a]]
        /\ usuarios' = [usuarios EXCEPT ![a] = fila] /\ h.pc = "bloquear"
    BY <1>4, <1>t DEF ActualizarDatosBloqueo, EscribirBloqueo, En
  <2>3. erroneos[a] >= WRONG_LOGIN_LIMIT
    BY <1>h, <2>2 DEF Vista, PorContar
  <2>4. Salto(erroneos[a], HastaDe(usuarios[a].fechaBloqueo, erroneos[a], h),
              erroneos[a], HastaDe(fila.fechaBloqueo, erroneos[a], r))
    BY <1>t, <2>1, <2>2, <2>3, LimiteSupuesto DEF Salto, HastaDe
  <2> HIDE DEF r, fila
  <2>5. QED
    BY <1>e, <1>t, <2>1, <2>2, <2>3, <2>4, PasoCumple
<1>5. CASE EnviarCorreoBloqueo(p)
  <2>1. /\ Sigue(p, Libre) /\ reloj' = reloj
        /\ usuarios' = [usuarios EXCEPT ![a] = usuarios[a]]
        /\ erroneos' = [erroneos EXCEPT ![a] = erroneos[a]]
        /\ h.pc = "correoBloqueo"
    BY <1>5, <1>t DEF EnviarCorreoBloqueo, En, Termina
  <2>2. QED
    BY <1>e, <1>t, <1>l, <2>1, QuietoCumple
<1>6. CASE CompararErronea(p)
  <2> DEFINE r == TrasError(p)
             n == IF Vencida(h.fecha) THEN 1 ELSE Sumar(erroneos[a])
  <2>1. /\ r.pc = IF Vencida(h.fecha) THEN "restaurarBloqueo" ELSE "contar"
        /\ r.u = a
        /\ r.intentos = IF Vencida(h.fecha) THEN 1 ELSE h.intentos + 1
    BY DEF TrasError, Libre
  <2>2. /\ Sigue(p, r) /\ reloj' = reloj /\ erroneos' = [erroneos EXCEPT ![a] = n]
        /\ usuarios' = [usuarios EXCEPT ![a] = usuarios[a]] /\ h.pc = "comparar"
    BY <1>6, <1>t DEF CompararErronea, En
  <2>3. /\ h.fecha = usuarios[a].fechaBloqueo /\ h.intentos = usuarios[a].intentos
        /\ h.intentos < WRONG_LOGIN_LIMIT \/ Vencida(h.fecha)
        /\ erroneos[a] = h.intentos
    BY <1>h, <2>2 DEF Vista, CopiaAcotada, En, PorContar
  <2>4. CASE Vencida(h.fecha)
    <3>1. r.pc = "restaurarBloqueo" /\ r.intentos # 0
      BY <2>1, <2>4
    <3>2. erroneos[a] = 0 \/ erroneos[a] >= WRONG_LOGIN_LIMIT
      BY <1>h, <2>2, <2>3, <2>4 DEF Vencida
    <3>3. Salto(erroneos[a], HastaDe(usuarios[a].fechaBloqueo, erroneos[a], h),
                n, HastaDe(usuarios[a].fechaBloqueo, n, r))
      BY <1>t, <2>2, <2>3, <2>4, <3>1, <3>2, LimiteSupuesto DEF Salto, HastaDe, Vencida
    <3>r. r.u = a /\ Sigue(p, r)
      BY <2>1, <2>2
    <3> HIDE DEF n, r
    <3>4. QED
      BY <1>e, <1>t, <2>2, <3>r, <3>1, <3>3, PasoCumple
  <2>5. CASE ~ Vencida(h.fecha)
    <3>1. r.pc = "contar" /\ r.intentos # 0
      BY <1>f, <2>1, <2>5
    <3>n. erroneos[a] < WRONG_LOGIN_LIMIT /\ n = erroneos[a] + 1
      BY <1>t, <1>f, <2>3, <2>5, LimiteSupuesto DEF Sumar
    <3>2. usuarios[a].fechaBloqueo = Nulo
      BY <1>t, <1>f, <1>h, <2>3, <2>5, <3>n, LimiteSupuesto DEF Vigente
    <3>3. Salto(erroneos[a], HastaDe(usuarios[a].fechaBloqueo, erroneos[a], h),
                n, HastaDe(usuarios[a].fechaBloqueo, n, r))
      BY <2>2, <3>1, <3>n, <3>2 DEF Salto, HastaDe
    <3>r. r.u = a /\ Sigue(p, r)
      BY <2>1, <2>2
    <3> HIDE DEF n, r
    <3>4. QED
      BY <1>e, <1>t, <2>2, <3>r, <3>1, <3>2, <3>3, PasoCumple
  <2>6. QED
    BY <2>4, <2>5
<1>7. CASE CompararCorrecta(p)
  <2>1. /\ reloj' = reloj /\ h.pc = "comparar"
        /\ usuarios' = [usuarios EXCEPT ![a] = usuarios[a]]
    BY <1>7, <1>t DEF CompararCorrecta, En
  <2>2. /\ h.fecha = usuarios[a].fechaBloqueo /\ erroneos[a] = h.intentos
        /\ h.intentos < WRONG_LOGIN_LIMIT \/ Vencida(h.fecha)
    BY <1>h, <2>1 DEF Vista, CopiaAcotada, En, PorContar
  <2>3. CASE h.intentos > 0
    <3> DEFINE r == [Libre EXCEPT !.pc = "contar", !.u = a]
    <3>1. r.pc = "contar" /\ r.u = a
      BY DEF Libre
    <3>2. /\ Sigue(p, r) /\ erroneos' = [erroneos EXCEPT ![a] = erroneos[a]]
          /\ erroneos[a] < WRONG_LOGIN_LIMIT \/ Vencida(usuarios[a].fechaBloqueo)
      BY <1>7, <1>t, <2>2, <2>3 DEF CompararCorrecta
    <3> HIDE DEF r
    <3>3. QED
      BY <1>e, <1>t, <2>1, <3>1, <3>2, QuietoCumple
  <2>4. CASE ~ h.intentos > 0
    <3>1. Sigue(p, Libre) /\ erroneos' = [erroneos EXCEPT ![a] = erroneos[a]]
      BY <1>7, <1>t, <1>f, <2>2, <2>4 DEF CompararCorrecta, Termina
    <3>2. QED
      BY <1>e, <1>t, <1>l, <2>1, <3>1, QuietoCumple
  <2>5. QED
    BY <2>3, <2>4
<1>8. CASE RestaurarDatosBloqueo(p)
  <2> DEFINE r == [h EXCEPT !.pc = "contar"]
             fila == [usuarios[a] EXCEPT !.codigoDesbloqueo = Nulo, !.fechaBloqueo = Nulo]
  <2>1. r.pc = "contar" /\ r.u = a /\ r.intentos = h.intentos /\ fila.fechaBloqueo = Nulo
    BY <1>t DEF Peticion, Fila
  <2>2. /\ Sigue(p, r) /\ reloj' = reloj /\ erroneos' = [erroneos EXCEPT ![a] = erroneos[a]]
        /\ usuarios' = [usuarios EXCEPT ![a] = fila] /\ h.pc = "restaurarBloqueo"
    BY <1>8, <1>t DEF RestaurarDatosBloqueo, EscribirBloqueo, En
  <2>3. h.intentos # 0
    BY <1>h, <2>2 DEF Promesa, En
  <2>4. Salto(erroneos[a], HastaDe(usuarios[a].fechaBloqueo, erroneos[a], h),
              erroneos[a], HastaDe(fila.fechaBloqueo, erroneos[a], r))
    BY <2>1, <2>2 DEF Salto, HastaDe
  <2> HIDE DEF r, fila
  <2>5. QED
    BY <1>e, <1>t, <2>1, <2>2, <2>3, <2>4, PasoCumple
<1>9. CASE ActualizarContadorBloqueos(p)
  <2> DEFINE fila == [usuarios[a] EXCEPT !.intentos = h.intentos]
             n == IF h.intentos = 0 THEN 0 ELSE erroneos[a]
  <2>1. fila.fechaBloqueo = usuarios[a].fechaBloqueo
    BY <1>t DEF Fila
  <2>2. /\ Sigue(p, Libre) /\ reloj' = reloj /\ erroneos' = [erroneos EXCEPT ![a] = n]
        /\ usuarios' = [usuarios EXCEPT ![a] = fila] /\ h.pc = "contar"
    BY <1>9, <1>t DEF ActualizarContadorBloqueos, EscribirContador, Termina, En
  <2>3. n = 0 \/ n = erroneos[a]
    OBVIOUS
  <2>4. Salto(erroneos[a], HastaDe(usuarios[a].fechaBloqueo, erroneos[a], h),
              n, HastaDe(fila.fechaBloqueo, n, Libre))
    <3>1. CASE h.intentos = 0
      <4>1. erroneos[a] < WRONG_LOGIN_LIMIT \/ Vencida(usuarios[a].fechaBloqueo)
        BY <1>h, <2>2, <3>1 DEF Promesa, En
      <4>2. QED
        BY <1>t, <1>l, <2>1, <2>2, <3>1, <4>1, LimiteSupuesto DEF Salto, HastaDe, Vencida
    <3>2. CASE h.intentos # 0
      BY <1>l, <2>1, <2>2, <3>2 DEF Salto, HastaDe
    <3>3. QED
      BY <3>1, <3>2
  <2>5. fila.fechaBloqueo # Nulo => n = 0 \/ n >= WRONG_LOGIN_LIMIT
    BY <1>h, <2>1, <2>2, <2>3
  <2> HIDE DEF n, fila
  <2>6. QED
    BY <1>e, <1>t, <1>l, <2>2, <2>4, <2>5, PasoCumple
<1>10. CASE Desbloquear(p)
  <2> DEFINE fila == [usuarios[a] EXCEPT !.fechaBloqueo = Nulo, !.intentos = 0,
                                         !.codigoDesbloqueo = Nulo]
  <2>1. fila.fechaBloqueo = Nulo
    BY <1>t DEF Fila
  <2>2. /\ Sigue(p, Libre) /\ reloj' = reloj /\ erroneos' = [erroneos EXCEPT ![a] = 0]
        /\ usuarios' = [usuarios EXCEPT ![a] = fila] /\ h.pc = "desbloquear"
    BY <1>10, <1>t DEF Desbloquear, EscribirDesbloqueo, Termina, En
  <2>3. usuarios[a].fechaBloqueo # Nulo
    BY <1>h, <2>2 DEF Promesa, En
  <2>4. Salto(erroneos[a], HastaDe(usuarios[a].fechaBloqueo, erroneos[a], h),
              0, HastaDe(fila.fechaBloqueo, 0, Libre))
    BY <1>t, <1>l, <2>1, <2>2, <2>3, LimiteSupuesto DEF Salto, HastaDe
  <2> HIDE DEF fila
  <2>5. QED
    BY <1>e, <1>t, <1>l, <2>1, <2>2, <2>4, PasoCumple
<1>11. QED
  BY <1>1, <1>2, <1>3, <1>4, <1>5, <1>6, <1>7, <1>8, <1>9, <1>10 DEF ContinuarBloqueo

LEMMA PedirCumple ==
  ASSUME InvCumple, Serie', NEW p \in Peticiones, PedirBloqueo(p, Claves)
  PROVE  InvPromesa' /\ (Abs!Next \/ UNCHANGED Abs!vars)
<1>l. /\ Libre.pc = "libre"
      /\ usuarios \in [Usuarios -> Fila] /\ erroneos \in [Usuarios -> Nat]
  BY DEF Libre, InvCumple, InvSerie, InvIntentos, Tipos
<1>1. ASSUME NEW u \in Usuarios, NEW k \in Claves, BuscarUsuario(p, u, k)
      PROVE  InvPromesa' /\ (Abs!Next \/ UNCHANGED Abs!vars)
  <2> DEFINE r == [Libre EXCEPT !.pc = "leido", !.u = u, !.clave = k,
                                !.hash = usuarios[u].contrasena,
                                !.intentos = usuarios[u].intentos,
                                !.fecha = usuarios[u].fechaBloqueo]
  <2>1. r.pc = "leido" /\ r.u = u
    BY DEF Libre
  <2>2. /\ Sigue(p, r) /\ reloj' = reloj
        /\ usuarios' = [usuarios EXCEPT ![u] = usuarios[u]]
        /\ erroneos' = [erroneos EXCEPT ![u] = erroneos[u]]
        /\ peticiones[p].pc = "libre"
    BY <1>1, <1>l DEF BuscarUsuario, LeerUsuario
  <2>3. ~ EnCurso(p)
    BY <2>2 DEF EnCurso
  <2> HIDE DEF r
  <2>4. QED
    BY <2>1, <2>2, <2>3, QuietoCumple
<1>2. ASSUME NEW u \in Usuarios, RechazarUsuario(p, u)
      PROVE  InvPromesa' /\ (Abs!Next \/ UNCHANGED Abs!vars)
  BY <1>2, VacioCumple DEF RechazarUsuario
<1>3. ASSUME NEW c \in Aleatorios, BuscarPorCodigoDesbloqueo(p, c)
      PROVE  InvPromesa' /\ (Abs!Next \/ UNCHANGED Abs!vars)
  <2>1. PICK u \in Usuarios : /\ usuarios[u].fechaBloqueo # Nulo
                              /\ Sigue(p, [Libre EXCEPT !.pc = "desbloquear", !.u = u])
    BY <1>3 DEF BuscarPorCodigoDesbloqueo
  <2> DEFINE r == [Libre EXCEPT !.pc = "desbloquear", !.u = u]
  <2>2. r.pc = "desbloquear" /\ r.u = u
    BY DEF Libre
  <2>3. /\ reloj' = reloj
        /\ usuarios' = [usuarios EXCEPT ![u] = usuarios[u]]
        /\ erroneos' = [erroneos EXCEPT ![u] = erroneos[u]]
        /\ peticiones[p].pc = "libre"
    BY <1>3, <1>l DEF BuscarPorCodigoDesbloqueo
  <2>4. ~ EnCurso(p)
    BY <2>3 DEF EnCurso
  <2> HIDE DEF r
  <2>5. Sigue(p, r)
    BY <2>1 DEF r
  <2>6. QED
    BY <2>1, <2>2, <2>3, <2>4, <2>5, QuietoCumple
<1>4. QED
  BY <1>1, <1>2, <1>3 DEF PedirBloqueo

LEMMA CumpleInicial == Init => InvCumple /\ Abs!Init
<1> SUFFICES ASSUME Init PROVE InvPromesa /\ Abs!Init
  BY SerieInicial, CuentaInicial DEF InvCumple
<1>1. /\ \A p \in Peticiones : peticiones[p].pc = "libre"
      /\ erroneos = [u \in Usuarios |-> 0] /\ reloj = 0
  BY DEF Init, Libre
<1>2. \A u \in Usuarios : erroneos[u] = 0 /\ erroneos[u] < WRONG_LOGIN_LIMIT
  <2>1. \A u \in Usuarios : erroneos[u] = 0
    BY <1>1
  <2>2. 0 < WRONG_LOGIN_LIMIT
    BY LimiteSupuesto
  <2>3. QED
    BY <2>1, <2>2
<1>3. InvPromesa
  BY <1>1, <1>2 DEF InvPromesa, FechaSaldada, Promesa, En
<1>4. \A u \in Usuarios : Hasta(u) = Nulo
  <2>1. \A p \in Peticiones : peticiones[p].pc # "bloquear"
    BY <1>1
  <2>2. QED
    BY <1>2, <2>1, HastaAntes DEF HastaEn
<1>5. [u \in Usuarios |-> Hasta(u)] = [u \in Usuarios |-> Nulo]
  BY <1>4
<1>6. QED
  BY <1>1, <1>3, <1>5 DEF Abs!Init

LEMMA CumpleSiguiente ==
  ASSUME ~ Fallos, InvCumple, [Next /\ Serie']_vars
  PROVE  InvCumple' /\ [Abs!Next]_(Abs!vars)
<1>1. InvSerie(PcBloqueo)' /\ CuentaExacta'
  BY SerieSiguiente, CuentaSiguiente DEF InvCumple
<1>2. CASE UNCHANGED vars
  BY <1>1, <1>2, VacioCumple DEF InvCumple
<1>3. CASE Tick
  <2>1. /\ UNCHANGED <<usuarios, peticiones, erroneos>> /\ reloj' = reloj + 1 /\ reloj \in Nat
    BY <1>3 DEF Tick, InvCumple, InvSerie, InvIntentos, Tipos
  <2>2. InvPromesa'
    <3>1. \A u \in Usuarios :
            Vencida(usuarios[u].fechaBloqueo) => Vencida(usuarios[u].fechaBloqueo)'
      BY <2>1 DEF Vencida, InvCumple, InvSerie, InvIntentos, Tipos, Fila, Fecha
    <3>2. QED
      BY <2>1, <3>1 DEF InvCumple, InvPromesa, FechaSaldada, Promesa, En, Vencida, InvSerie,
         InvIntentos, Bien, EnCurso, Tipos, Fila, Fecha
  <2>3. Prometido' = Prometido
    BY <2>1, HastaAntes, HastaDespues DEF Prometido, HastaEn
  <2>4. Abs!Pasar
    BY <2>1, <2>3 DEF Abs!Pasar, Prometido
  <2>5. QED
    BY <1>1, <2>2, <2>4 DEF InvCumple, Abs!Next
<1>4. ASSUME NEW p \in Peticiones, Serie', PedirBloqueo(p, Claves) \/ ContinuarBloqueo(p)
      PROVE  InvCumple' /\ [Abs!Next]_(Abs!vars)
  BY <1>1, <1>4, PedirCumple, ContinuarCumple DEF InvCumple
<1>5. \A p \in Peticiones : ~ Abortar(p)
  BY DEF Abortar
<1>6. QED
  BY <1>2, <1>3, <1>4, <1>5 DEF Next

\* Served one at a time and without failures, validarUsuario and desbloquearCuenta implement
\* the lockout of BloqueoAbs: each of their awaits is one step of it, or none.
THEOREM BloqueoImplementa == ASSUME ~ Fallos PROVE SpecSerie => ImplementaBloqueo
<1>1. Init => InvCumple /\ Abs!Init
  BY CumpleInicial
<1>2. InvCumple /\ [Next /\ Serie']_vars => InvCumple' /\ [Abs!Next]_(Abs!vars)
  BY CumpleSiguiente
<1>3. QED
  BY <1>1, <1>2, PTL DEF SpecSerie, ImplementaBloqueo, Abs!Spec
=============================================================================
