--------------------------- MODULE RegistroProofs ----------------------------
(***************************************************************************)
(* Theorems about Registro: any number of registrations and logins with     *)
(* Ciudadania Digital overlapping, any of which may fail half-way.          *)
(***************************************************************************)
EXTENDS Registro, FiniteSetTheorems, TLAPS

-----------------------------------------------------------------------------
\* The types are inductive once it is known which requests bring a document
\* and which an e-mail.

PcCuenta == {"cuentaNombre", "cuentaCorreo", "cuentaRol", "insertarCuenta"}

Llena(r) ==
  /\ r.pc \in PcCuenta => r.c \in Correos
  /\ r.pc \notin PcCuenta \cup {"libre"} => r.d \in Documentos

InvTipos == TypeOKRegistro /\ \A p \in Peticiones : Llena(peticiones[p])

\* A step of a request that leaves it typed and full, and the tables typed.
LEMMA PasoTipado ==
  ASSUME InvTipos, NEW p \in Peticiones, NEW r \in Peticion, Sigue(p, r), Llena(r),
         personas' \in [Nombres -> 0..MaxPersonas], datos' \in [Nombres -> Comparaciones],
         usuarios' \in [Nombres -> Fila], UNCHANGED rolUsuario
  PROVE  InvTipos'
BY DEF InvTipos, TypeOKRegistro, Sigue, Llena

LEMMA PasoLectura ==
  ASSUME InvTipos, NEW p \in Peticiones, NEW r \in Peticion, Sigue(p, r), Llena(r), SoloLee
  PROVE  InvTipos'
BY PasoTipado DEF InvTipos, TypeOKRegistro, SoloLee

LEMMA LibreTipado == Libre \in Peticion /\ Llena(Libre)
BY DEF Libre, Peticion, Pcs, Llena, PcCuenta

\* The request goes on at another place with the same locals, or ends.
LEMMA PasaTipado ==
  ASSUME InvTipos, NEW p \in Peticiones, NEW pc \in Pcs, NEW b \in BOOLEAN,
         PasaSi(p, b, pc), SoloLee,
         pc \in PcCuenta => peticiones[p].c \in Correos,
         pc \notin PcCuenta \cup {"libre"} => peticiones[p].d \in Documentos
  PROVE  InvTipos'
<1> DEFINE r == [peticiones[p] EXCEPT !.pc = pc]
<1>1. r \in Peticion /\ Llena(r)
  BY DEF InvTipos, TypeOKRegistro, Peticion, Llena
<1>2. Sigue(p, r) \/ Sigue(p, Libre)
  BY DEF PasaSi, Pasa, Termina
<1> HIDE DEF r
<1>3. QED
  BY <1>1, <1>2, LibreTipado, PasoLectura

\* A transaction that inserts a typed row with a document keeps the types.
LEMMA TransaccionTipada ==
  ASSUME InvTipos, NEW p \in Peticiones, NEW n \in Nombres, NEW fila \in Fila,
         fila.doc \in Nombres, NEW x \in Comparaciones, NEW s \in Peticion, Llena(s),
         Transaccion(p, n, fila, x, s)
  PROVE  InvTipos'
<1>1. CASE usuarios[n].alta
  BY <1>1, LibreTipado, PasoLectura DEF Transaccion, Termina
<1>2. CASE ~ usuarios[n].alta
  <2>1. /\ personas[fila.doc] < MaxPersonas
        /\ personas' = [personas EXCEPT ![fila.doc] = @ + 1]
        /\ datos' = [datos EXCEPT ![fila.doc] = x]
        /\ usuarios' = [usuarios EXCEPT ![n] = fila]
        /\ Sigue(p, s) /\ UNCHANGED rolUsuario
    BY <1>2 DEF Transaccion
  <2>2. /\ personas' \in [Nombres -> 0..MaxPersonas]
        /\ datos' \in [Nombres -> Comparaciones]
        /\ usuarios' \in [Nombres -> Fila]
    BY <2>1, PersonasSupuestas DEF InvTipos, TypeOKRegistro
  <2>3. QED
    BY <2>1, <2>2, PasoTipado
<1>3. QED
  BY <1>1, <1>2

-----------------------------------------------------------------------------
\* Every request starts typed.
LEMMA PedirTipado ==
  ASSUME InvTipos, NEW p \in Peticiones, Pedir(p)
  PROVE  InvTipos'
<1>1. ASSUME NEW c \in Correos, PedirCuenta(p, c)
      PROVE  InvTipos'
  <2> DEFINE r == [Libre EXCEPT !.pc = "cuentaNombre", !.c = c]
  <2>1. r \in Peticion /\ Llena(r)
    BY DEF Libre, Peticion, Pcs, Llena, PcCuenta
  <2>2. QED
    BY <1>1, <2>1, PasoLectura DEF PedirCuenta
<1>2. ASSUME NEW d \in Documentos, PedirCiudadania(p, d)
      PROVE  InvTipos'
  <2> DEFINE r == [Libre EXCEPT !.pc = "ciudadaniaCI", !.d = d]
  <2>1. r \in Peticion /\ Llena(r)
    BY DEF Libre, Peticion, Pcs, Llena, PcCuenta
  <2>2. QED
    BY <1>2, <2>1, PasoLectura DEF PedirCiudadania
<1>3. ASSUME NEW d \in Documentos, NEW c \in Correos, PedirOidc(p, d, c)
      PROVE  InvTipos'
  <2> DEFINE r == [Libre EXCEPT !.pc = "oidcCI", !.d = d, !.c = c,
                                !.falto = (rolUsuario = Nulo)]
  <2>1. r \in Peticion /\ Llena(r)
    BY DEF Libre, Peticion, Pcs, Llena, PcCuenta
  <2>2. QED
    BY <1>3, <2>1, PasoLectura DEF PedirOidc
<1>4. ASSUME NEW d \in Documentos, NEW c \in Correos, NEW n \in Nombres \cup {Nulo},
             NEW roles \in SUBSET Roles, PedirCrear(p, d, c, n, roles)
      PROVE  InvTipos'
  <2> DEFINE r == [Libre EXCEPT !.pc = "crearCI", !.d = d, !.c = c, !.n = n, !.roles = roles]
  <2>1. r \in Peticion /\ Llena(r)
    BY DEF Libre, Peticion, Pcs, Llena, PcCuenta
  <2>2. QED
    BY <1>4, <2>1, PasoLectura DEF PedirCrear
<1>5. QED
  BY <1>1, <1>2, <1>3, <1>4 DEF Pedir

\* The steps that look for something and go on, or end.
LEMMA MirarTipado ==
  ASSUME InvTipos, NEW p \in Peticiones,
         \/ CrearPorCI(p) \/ CrearPorCorreo(p) \/ CuentaPorNombre(p) \/ CuentaPorCorreo(p)
         \/ CrearConCiudadania(p) \/ OidcSinUsuario(p) \/ BuscarPersonaPorCI(p)
         \/ VerificarExiste(p) \/ VerCorreo(p) \/ BuscarCorreo(p)
  PROVE  InvTipos'
<1>1. Llena(peticiones[p]) /\ SoloLee
  BY DEF InvTipos, CrearPorCI, CrearPorCorreo, CuentaPorNombre, CuentaPorCorreo,
         CrearConCiudadania, OidcSinUsuario, BuscarPersonaPorCI, VerificarExiste,
         VerCorreo, BuscarCorreo
<1>2. \E pc \in Pcs, b \in BOOLEAN :
        /\ PasaSi(p, b, pc)
        /\ pc \in PcCuenta => En(p, "cuentaNombre") \/ En(p, "cuentaCorreo")
        /\ pc \notin PcCuenta \cup {"libre"} =>
             peticiones[p].pc \notin PcCuenta \cup {"libre"}
  BY DEF CrearPorCI, CrearPorCorreo, CuentaPorNombre, CuentaPorCorreo,
         CrearConCiudadania, OidcSinUsuario, BuscarPersonaPorCI, VerificarExiste,
         VerCorreo, BuscarCorreo, PasaSi, En, Pcs, PcCuenta
<1>3. QED
  BY <1>1, <1>2, PasaTipado DEF Llena, En, PcCuenta

\* The searches of the role, with which a request goes on.
LEMMA BuscarRolTipado ==
  ASSUME InvTipos, NEW p \in Peticiones, CuentaPorRol(p) \/ NuevaPorRol(p)
  PROVE  InvTipos'
<1> DEFINE Con(pc) == [peticiones[p] EXCEPT !.pc = pc, !.roles = RolHallado]
<1>1. peticiones[p] \in Peticion /\ Llena(peticiones[p]) /\ RolHallado \in SUBSET Roles
  BY DEF InvTipos, TypeOKRegistro, RolHallado
<1>2. CASE CuentaPorRol(p)
  <2>1. peticiones[p].c \in Correos
    BY <1>1, <1>2 DEF CuentaPorRol, En, Llena, PcCuenta
  <2>2. Con("insertarCuenta") \in Peticion /\ Llena(Con("insertarCuenta"))
    BY <1>1, <2>1 DEF Peticion, Pcs, Llena, PcCuenta
  <2>3. SoloLee /\ (Sigue(p, Libre) \/ Sigue(p, Con("insertarCuenta")))
    BY <1>2 DEF CuentaPorRol, BuscarRol, Termina
  <2> HIDE DEF Con
  <2>4. QED
    BY <2>2, <2>3, LibreTipado, PasoLectura
<1>3. CASE NuevaPorRol(p)
  <2>1. peticiones[p].d \in Documentos
    BY <1>1, <1>3 DEF NuevaPorRol, En, Llena, PcCuenta
  <2>2. Con("insertarNueva") \in Peticion /\ Llena(Con("insertarNueva"))
    BY <1>1, <2>1 DEF Peticion, Pcs, Llena, PcCuenta
  <2>3. SoloLee /\ Sigue(p, Con("insertarNueva"))
    BY <1>3 DEF NuevaPorRol, BuscarRol
  <2> HIDE DEF Con
  <2>4. QED
    BY <2>2, <2>3, PasoLectura
<1>4. QED
  BY <1>2, <1>3

\* The three handlers that insert persona and usuario together.
LEMMA InsertarTipado ==
  ASSUME InvTipos, NEW p \in Peticiones,
         InsertarCreada(p) \/ InsertarCuenta(p) \/ InsertarNueva(p)
  PROVE  InvTipos'
<1> DEFINE r == peticiones[p]
<1>1. r \in Peticion /\ Llena(r)
  BY DEF InvTipos, TypeOKRegistro
<1>2. CASE InsertarCreada(p)
  <2>1. PICK x \in Comparaciones :
          Transaccion(p, IF r.n = Nulo THEN r.d ELSE r.n, FilaCreada(r), x, Libre)
    BY <1>2 DEF InsertarCreada
  <2>2. r.d \in Documentos
    BY <1>1, <1>2 DEF InsertarCreada, En, Llena, PcCuenta
  <2>3. FilaCreada(r) \in Fila /\ FilaCreada(r).doc \in Nombres
    BY <1>1, <2>2 DEF FilaCreada, Fila, Peticion, Nombres
  <2>4. (IF r.n = Nulo THEN r.d ELSE r.n) \in Nombres
    BY <1>1, <2>2 DEF Peticion, Nombres
  <2>5. QED
    BY <2>1, <2>3, <2>4, LibreTipado, TransaccionTipada
<1>3. CASE InsertarCuenta(p)
  <2>1. Transaccion(p, r.c, FilaCuenta(r), "distintos", Libre)
    BY <1>3 DEF InsertarCuenta
  <2>2. r.c \in Correos
    BY <1>1, <1>3 DEF InsertarCuenta, En, Llena, PcCuenta
  <2>3. FilaCuenta(r) \in Fila /\ FilaCuenta(r).doc \in Nombres /\ r.c \in Nombres
    BY <1>1, <2>2 DEF FilaCuenta, Fila, Peticion, Nombres
  <2>4. "distintos" \in Comparaciones
    BY DEF Comparaciones
  <2>5. QED
    BY <2>1, <2>3, <2>4, LibreTipado, TransaccionTipada
<1>4. CASE InsertarNueva(p)
  <2>1. Transaccion(p, r.d, FilaCiudadania(r), "cercanos", RegistradaPor(r))
    BY <1>4 DEF InsertarNueva
  <2>2. r.d \in Documentos
    BY <1>1, <1>4 DEF InsertarNueva, En, Llena, PcCuenta
  <2>3. FilaCiudadania(r) \in Fila /\ FilaCiudadania(r).doc \in Nombres /\ r.d \in Nombres
    BY <1>1, <2>2 DEF FilaCiudadania, Fila, Peticion, Nombres
  <2>4. RegistradaPor(r) \in Peticion /\ Llena(RegistradaPor(r))
    BY <1>1, <2>2 DEF RegistradaPor, Libre, Peticion, Llena, Pcs, PcCuenta
  <2>5. "cercanos" \in Comparaciones
    BY DEF Comparaciones
  <2>6. QED
    BY <2>1, <2>3, <2>4, <2>5, TransaccionTipada
<1>5. QED
  BY <1>2, <1>3, <1>4

\* The other steps of a login with Ciudadania Digital.
LEMMA OidcTipado ==
  ASSUME InvTipos, NEW p \in Peticiones,
         \/ OidcConUsuario(p) \/ ActualizarDatosPersona(p) \/ InsertarExistente(p)
         \/ Releer(p) \/ EscribirCorreo(p)
  PROVE  InvTipos'
<1> DEFINE r == peticiones[p]
<1>1. r \in Peticion /\ Llena(r) /\ TypeOKRegistro
  BY DEF InvTipos, TypeOKRegistro
<1>2. r.d \in Documentos
  BY <1>1 DEF Llena, PcCuenta, En, OidcConUsuario, ActualizarDatosPersona,
              InsertarExistente, Releer, EscribirCorreo
<1>3. CASE OidcConUsuario(p)
  <2>1. PICK n \in Nombres :
          /\ \/ Termina(p)
             \/ Sigue(p, [r EXCEPT
                  !.pc = IF CambiarDatos(r.d) THEN "usuarioDatos" ELSE "verCorreo",
                  !.c = IF usuarios[n].correo = r.c THEN Nulo ELSE r.c,
                  !.n = n, !.roles = usuarios[n].roles])
          /\ SoloLee
    BY <1>3 DEF OidcConUsuario, PorCI
  <2> DEFINE s == [r EXCEPT
                  !.pc = IF CambiarDatos(r.d) THEN "usuarioDatos" ELSE "verCorreo",
                  !.c = IF usuarios[n].correo = r.c THEN Nulo ELSE r.c,
                  !.n = n, !.roles = usuarios[n].roles]
  <2>2. s \in Peticion /\ Llena(s)
    BY <1>1, <1>2 DEF Peticion, Llena, Pcs, PcCuenta, TypeOKRegistro, Fila
  <2>3. QED
    BY <2>1, <2>2, LibreTipado, PasoLectura DEF Termina
<1>4. CASE ActualizarDatosPersona(p)
  <2> DEFINE s == [r EXCEPT !.pc = IF En(p, "usuarioDatos") THEN "verCorreo" ELSE "existenteCI"]
  <2>1. s \in Peticion /\ Llena(s)
    BY <1>1, <1>2 DEF Peticion, Llena, Pcs, PcCuenta
  <2>2. datos' \in [Nombres -> Comparaciones]
    BY <1>1, <1>4 DEF ActualizarDatosPersona, TypeOKRegistro, Comparaciones
  <2>3. Sigue(p, s) /\ UNCHANGED <<personas, usuarios, rolUsuario>>
    BY <1>4 DEF ActualizarDatosPersona, Pasa
  <2> HIDE DEF s
  <2>4. QED
    BY <1>1, <2>1, <2>2, <2>3, PasoTipado DEF TypeOKRegistro
<1>5. CASE InsertarExistente(p)
  <2>1. CASE usuarios[r.d].alta
    BY <1>5, <2>1, LibreTipado, PasoLectura DEF InsertarExistente, Termina
  <2>2. CASE ~ usuarios[r.d].alta
    <3>1. FilaExistente(r) \in Fila
      BY <1>1, <1>2 DEF FilaExistente, Fila, Peticion, Nombres
    <3>2. usuarios' \in [Nombres -> Fila]
      BY <1>1, <1>5, <2>2, <3>1 DEF InsertarExistente, TypeOKRegistro
    <3>3. RegistradaPor(r) \in Peticion /\ Llena(RegistradaPor(r))
      BY <1>1, <1>2 DEF RegistradaPor, Libre, Peticion, Llena, Pcs, PcCuenta
    <3>4. Sigue(p, RegistradaPor(r)) /\ UNCHANGED <<personas, datos, rolUsuario>>
      BY <1>5, <2>2 DEF InsertarExistente
    <3>5. QED
      BY <1>1, <3>2, <3>3, <3>4, PasoTipado DEF TypeOKRegistro
  <2>3. QED
    BY <2>1, <2>2
<1>6. CASE Releer(p)
  <2>1. PICK n \in Nombres :
          /\ Sigue(p, [r EXCEPT !.pc = "entrar", !.n = n, !.roles = usuarios[n].roles])
          /\ SoloLee
    BY <1>6 DEF Releer, PorCI
  <2>2. [r EXCEPT !.pc = "entrar", !.n = n, !.roles = usuarios[n].roles] \in Peticion
    BY <1>1 DEF Peticion, Pcs, TypeOKRegistro, Fila
  <2>3. Llena([r EXCEPT !.pc = "entrar", !.n = n, !.roles = usuarios[n].roles])
    BY <1>1, <1>2 DEF Llena, PcCuenta, Peticion
  <2>4. QED
    BY <2>1, <2>2, <2>3, PasoLectura
<1>7. CASE EscribirCorreo(p)
  <2> DEFINE s == [r EXCEPT !.pc = "entrar"]
  <2>1. s \in Peticion /\ Llena(s)
    BY <1>1, <1>2 DEF Peticion, Llena, Pcs, PcCuenta
  <2>2. Sigue(p, s) /\ UNCHANGED <<personas, datos, rolUsuario>>
        /\ usuarios' = [usuarios EXCEPT ![r.n] = [@ EXCEPT !.correo = r.c]]
    BY <1>7 DEF EscribirCorreo, Pasa
  <2>3. r.n \in Nombres => [usuarios[r.n] EXCEPT !.correo = r.c] \in Fila
    BY <1>1 DEF TypeOKRegistro, Fila, Peticion
  <2>4. usuarios' \in [Nombres -> Fila]
    BY <1>1, <2>2, <2>3 DEF TypeOKRegistro
  <2> HIDE DEF s
  <2>5. QED
    BY <1>1, <2>1, <2>2, <2>4, PasoTipado DEF TypeOKRegistro
<1>8. QED
  BY <1>3, <1>4, <1>5, <1>6, <1>7

LEMMA InitTipado == InitRegistro => InvTipos
<1> SUFFICES ASSUME InitRegistro PROVE InvTipos
  OBVIOUS
<1>1. SinFila \in Fila
  BY DEF SinFila, Fila
<1>2. /\ personas \in [Nombres -> 0..MaxPersonas]
      /\ usuarios \in [Nombres -> Fila]
      /\ datos \in [Nombres -> Comparaciones]
  BY <1>1, PersonasSupuestas DEF InitRegistro, Comparaciones
<1>3. QED
  BY <1>2, LibreTipado, RolSupuesto DEF InvTipos, TypeOKRegistro, InitRegistro

\* A rename of the role changes nothing of a request but the history.
LEMMA Renombradas ==
  ASSUME InvTipos, NEW x \in Roles \cup {Nulo}, RenombrarRol(x)
  PROVE  /\ rolUsuario' = x /\ UNCHANGED <<personas, datos, usuarios>>
         /\ peticiones' \in [Peticiones -> Peticion]
         /\ \A p \in Peticiones :
              LET r == peticiones[p]
                  s == peticiones'[p] IN
              /\ s.pc = r.pc /\ s.d = r.d /\ s.c = r.c /\ s.roles = r.roles /\ s.n = r.n
              /\ s.alta = r.alta
              /\ s.falto = (r.falto \/ (x = Nulo /\ r.pc \in PcBusca))
<1> DEFINE F(p) == [peticiones[p] EXCEPT
                      !.falto = @ \/ (x = Nulo /\ peticiones[p].pc \in PcBusca)]
<1>1. \A p \in Peticiones : peticiones[p] \in Peticion
  BY DEF InvTipos, TypeOKRegistro
<1>2. ASSUME NEW p \in Peticiones
      PROVE  LET r == peticiones[p]
                 s == F(p) IN
             /\ s \in Peticion
             /\ s.pc = r.pc /\ s.d = r.d /\ s.c = r.c /\ s.roles = r.roles /\ s.n = r.n
             /\ s.alta = r.alta
             /\ s.falto = (r.falto \/ (x = Nulo /\ r.pc \in PcBusca))
  BY <1>1, <1>2 DEF Peticion
<1>3. /\ rolUsuario' = x /\ UNCHANGED <<personas, datos, usuarios>>
      /\ peticiones' = [p \in Peticiones |-> F(p)]
  BY DEF RenombrarRol
<1> HIDE DEF F
<1>4. QED
  BY <1>2, <1>3

LEMMA NextTipado == InvTipos /\ [NextRegistro]_varsRegistro => InvTipos'
<1> SUFFICES ASSUME InvTipos, [NextRegistro]_varsRegistro PROVE InvTipos'
  OBVIOUS
<1>1. ASSUME NEW n \in Nombres, NEW e \in {"ACTIVO", "INACTIVO"}, CambiarEstado(n, e)
      PROVE  InvTipos'
  <2>1. usuarios' = [usuarios EXCEPT ![n] = [@ EXCEPT !.estado = e]]
        /\ UNCHANGED <<personas, datos, rolUsuario, peticiones>>
    BY <1>1 DEF CambiarEstado
  <2>2. usuarios' \in [Nombres -> Fila]
    BY <2>1 DEF InvTipos, TypeOKRegistro, Fila
  <2>3. QED
    BY <2>1, <2>2 DEF InvTipos, TypeOKRegistro
<1>2. ASSUME NEW p \in Peticiones, Responder(p) \/ Abortar(p)
      PROVE  InvTipos'
  BY <1>2, LibreTipado, PasoLectura DEF Responder, Abortar, Termina
<1>3. ASSUME NEW p \in Peticiones, Continuar(p)
      PROVE  InvTipos'
  BY <1>2, <1>3, MirarTipado, BuscarRolTipado, InsertarTipado, OidcTipado, Zenon
     DEF Continuar
<1>4. ASSUME NEW x \in Roles \cup {Nulo}, RenombrarRol(x)
      PROVE  InvTipos'
  BY <1>4, Renombradas DEF InvTipos, TypeOKRegistro, Llena
<1>5. CASE UNCHANGED varsRegistro
  BY <1>5 DEF varsRegistro, InvTipos, TypeOKRegistro
<1>6. QED
  BY <1>1, <1>2, <1>3, <1>4, <1>5, PedirTipado DEF NextRegistro

\* Every request and every row of Registro keeps its type, however the
\* registrations overlap and fail, and whatever user names the bodies bring.
THEOREM TipoCorrectoRegistro == SpecRegistro => []TypeOKRegistro
<1>1. InvTipos => TypeOKRegistro
  BY DEF InvTipos
<1>2. QED
  BY <1>1, InitTipado, NextTipado, PTL DEF SpecRegistro

-----------------------------------------------------------------------------
\* Who is registered, once and whole: a row is of the person of its own name,
\* and the person that nobody knew has a row of personas exactly when there is
\* an account.  Ordenada says what a handler may rely on after what it read: the
\* search of it that found nothing may be stale, the one that found is not.

PcCrear == {"crearCI", "crearCorreo", "insertarCreada"}
PcExistente == {"personaDatos", "existenteCI", "insertarExistente"}
PcHallada == {"usuarioDatos", "verCorreo", "buscarCorreo", "escribirCorreo", "entrar"}

Ordenada(r) ==
  /\ r.pc \in PcCrear => r.n = Nulo
  /\ r.pc \in PcExistente => personas[r.d] > 0
  /\ r.pc \in {"existenteCI", "insertarExistente"} =>
       usuarios[r.d].alta \/ datos[r.d] # "distintos"
  /\ r.pc \in PcHallada => r.n = r.d /\ usuarios[r.d].alta
  /\ r.pc = "releer" => usuarios[r.d].alta
  /\ r.pc \in (PcHallada \ {"usuarioDatos"}) \cup {"releer"} => datos[r.d] # "distintos"
  /\ r.alta => r.pc \in {"releer", "entrar"}

Registrada(d) == personas[d] = IF usuarios[d].alta THEN 1 ELSE 0

InvRegistro ==
  /\ InvTipos
  /\ \A n \in Nombres : usuarios[n].alta => usuarios[n].doc = n
  /\ \A d \in Nombres \ Previas : Registrada(d)
  /\ \A p \in Peticiones : Ordenada(peticiones[p])

\* Of a registered person nothing of this is undone, and the names that another
\* handler may bring out of date are those of somebody it has just registered.
Avanza ==
  /\ \A n \in Nombres : usuarios[n].alta =>
       usuarios'[n].alta /\ usuarios'[n].doc = usuarios[n].doc
         /\ usuarios'[n].roles = usuarios[n].roles
  /\ \A d \in Nombres : personas'[d] >= personas[d]
  /\ \A d \in Nombres :
       \/ datos'[d] # "distintos" \/ datos'[d] = datos[d]
       \/ ~ usuarios[d].alta /\ usuarios'[d].alta

\* The requests that do not move keep what they rely on.
LEMMA OtraOrdenada ==
  ASSUME InvRegistro, InvTipos', Avanza, NEW q \in Peticiones,
         peticiones'[q] = peticiones[q]
  PROVE  Ordenada(peticiones[q])'
<1> DEFINE r == peticiones[q]
<1>1. Ordenada(r) /\ r.pc \in Pcs /\ Llena(r)
  BY DEF InvRegistro, InvTipos, TypeOKRegistro, Peticion
<1>2. r.pc \in PcExistente \cup PcHallada \cup {"releer"} => r.d \in Nombres
  BY <1>1 DEF Llena, PcExistente, PcHallada, PcCuenta, Nombres
<1>3. \A d \in Nombres : personas[d] \in Nat /\ personas'[d] \in Nat
  BY PersonasSupuestas DEF InvRegistro, InvTipos, TypeOKRegistro
<1>4. r.d \in Nombres =>
        /\ personas[r.d] > 0 => personas'[r.d] > 0
        /\ usuarios[r.d].alta => usuarios'[r.d].alta /\ usuarios'[r.d].roles = usuarios[r.d].roles
        /\ usuarios[r.d].alta /\ datos[r.d] # "distintos" => datos'[r.d] # "distintos"
        /\ datos[r.d] # "distintos" => usuarios'[r.d].alta \/ datos'[r.d] # "distintos"
  BY <1>3 DEF Avanza
<1>5. peticiones'[q] = r
  OBVIOUS
<1> HIDE DEF r
<1>6. QED
  BY <1>1, <1>2, <1>4, <1>5 DEF Ordenada, PcExistente, PcHallada

LEMMA PasoOrdenado ==
  ASSUME InvRegistro, InvTipos', NEW p \in Peticiones,
         \A q \in Peticiones \ {p} : peticiones'[q] = peticiones[q],
         Avanza, Ordenada(peticiones[p])',
         \A n \in Nombres : usuarios'[n].alta => usuarios'[n].doc = n,
         \A d \in Nombres \ Previas : Registrada(d)'
  PROVE  InvRegistro'
<1>1. \A q \in Peticiones : Ordenada(peticiones[q])'
  BY OtraOrdenada
<1>2. QED
  BY <1>1 DEF InvRegistro

\* What one step of a request says of the other requests.
LEMMA SigueSoloUna ==
  ASSUME InvTipos, NEW p \in Peticiones, NEW r, Sigue(p, r)
  PROVE  peticiones'[p] = r /\ \A q \in Peticiones \ {p} : peticiones'[q] = peticiones[q]
BY DEF InvTipos, TypeOKRegistro, Sigue

LEMMA LecturaOrdenada ==
  ASSUME InvRegistro, InvTipos', NEW p \in Peticiones,
         \A q \in Peticiones \ {p} : peticiones'[q] = peticiones[q],
         SoloLee, Ordenada(peticiones[p])'
  PROVE  InvRegistro'
<1>1. Avanza
  BY PersonasSupuestas DEF Avanza, SoloLee, InvRegistro, InvTipos, TypeOKRegistro
<1>2. \A n \in Nombres : usuarios'[n].alta => usuarios'[n].doc = n
  BY DEF InvRegistro, SoloLee
<1>3. \A d \in Nombres \ Previas : Registrada(d)'
  BY DEF InvRegistro, SoloLee, Registrada
<1>4. QED
  BY <1>1, <1>2, <1>3, PasoOrdenado

LEMMA TerminaOrdenada ==
  ASSUME InvRegistro, InvTipos', NEW p \in Peticiones, Termina(p), SoloLee
  PROVE  InvRegistro'
<1>1. Sigue(p, Libre)
  BY DEF Termina
<1>2. peticiones'[p] = Libre /\ \A q \in Peticiones \ {p} : peticiones'[q] = peticiones[q]
  BY <1>1, SigueSoloUna DEF InvRegistro
<1>3. Ordenada(peticiones[p])'
  BY <1>2 DEF Ordenada, Libre, PcCrear, PcExistente, PcHallada
<1>4. QED
  BY <1>2, <1>3, LecturaOrdenada

\* Whoever inserts a person under the name that is the document either finds it
\* taken or registers somebody who was not: the crux of PersonaUnica.
LEMMA TransaccionOrdenada ==
  ASSUME InvRegistro, InvTipos', NEW p \in Peticiones, NEW d \in Nombres,
         NEW fila \in Fila, fila.alta, fila.doc = d,
         NEW x \in Comparaciones, NEW s, Transaccion(p, d, fila, x, s),
         \/ s = Libre
         \/ s.pc = "releer" /\ s.d = d /\ x # "distintos"
  PROVE  InvRegistro'
<1>1. CASE usuarios[d].alta
  BY <1>1, TerminaOrdenada DEF Transaccion
<1>2. CASE ~ usuarios[d].alta
  <2>1. /\ personas' = [personas EXCEPT ![d] = @ + 1]
        /\ datos' = [datos EXCEPT ![d] = x]
        /\ usuarios' = [usuarios EXCEPT ![d] = fila]
        /\ Sigue(p, s)
    BY <1>2 DEF Transaccion
  <2>2. /\ personas \in [Nombres -> Nat] /\ datos \in [Nombres -> Comparaciones]
        /\ usuarios \in [Nombres -> Fila]
    BY PersonasSupuestas DEF InvRegistro, InvTipos, TypeOKRegistro
  <2>3. peticiones'[p] = s /\ \A q \in Peticiones \ {p} : peticiones'[q] = peticiones[q]
    BY <2>1, SigueSoloUna DEF InvRegistro
  <2>4. Avanza
    BY <1>2, <2>1, <2>2 DEF Avanza
  <2>5. \A n \in Nombres : usuarios'[n].alta => usuarios'[n].doc = n
    BY <2>1, <2>2 DEF InvRegistro
  <2>6. \A e \in Nombres \ Previas : Registrada(e)'
    BY <1>2, <2>1, <2>2 DEF InvRegistro, Registrada
  <2>7. usuarios'[d] = fila /\ datos'[d] = x
    BY <2>1, <2>2
  <2>8. Ordenada(peticiones[p])'
    <3>1. CASE s = Libre
      BY <2>3, <3>1 DEF Ordenada, Libre, PcCrear, PcExistente, PcHallada
    <3>2. CASE s.pc = "releer" /\ s.d = d /\ x # "distintos"
      BY <2>3, <2>7, <3>2 DEF Ordenada, PcCrear, PcExistente, PcHallada
    <3>3. QED
      BY <3>1, <3>2
  <2>9. QED
    BY <2>3, <2>4, <2>5, <2>6, <2>8, PasoOrdenado
<1>3. QED
  BY <1>1, <1>2

LEMMA InsertarOrdenada ==
  ASSUME InvRegistro, InvTipos', NEW p \in Peticiones,
         InsertarCreada(p) \/ InsertarCuenta(p) \/ InsertarNueva(p)
  PROVE  InvRegistro'
<1> DEFINE r == peticiones[p]
<1>1. r \in Peticion /\ Llena(r) /\ Ordenada(r)
  BY DEF InvRegistro, InvTipos, TypeOKRegistro
<1>2. CASE InsertarCreada(p)
  <2>1. r.n = Nulo /\ r.d \in Documentos
    BY <1>1, <1>2 DEF InsertarCreada, En, Ordenada, PcCrear, Llena, PcCuenta
  <2>2. PICK x \in Comparaciones : Transaccion(p, r.d, FilaCreada(r), x, Libre)
    BY <1>2, <2>1 DEF InsertarCreada
  <2>3. /\ FilaCreada(r) \in Fila /\ FilaCreada(r).alta /\ FilaCreada(r).doc = r.d
        /\ r.d \in Nombres
    BY <1>1, <2>1 DEF FilaCreada, Fila, Peticion, Nombres
  <2>4. QED
    BY <2>2, <2>3, TransaccionOrdenada
<1>3. CASE InsertarCuenta(p)
  <2>1. Transaccion(p, r.c, FilaCuenta(r), "distintos", Libre) /\ r.c \in Correos
    BY <1>1, <1>3 DEF InsertarCuenta, En, Llena, PcCuenta
  <2>2. /\ FilaCuenta(r) \in Fila /\ FilaCuenta(r).alta /\ FilaCuenta(r).doc = r.c
        /\ r.c \in Nombres /\ "distintos" \in Comparaciones
    BY <1>1, <2>1 DEF FilaCuenta, Fila, Nombres, Comparaciones, Peticion
  <2>3. QED
    BY <2>1, <2>2, TransaccionOrdenada
<1>4. CASE InsertarNueva(p)
  <2>1. /\ Transaccion(p, r.d, FilaCiudadania(r), "cercanos", RegistradaPor(r))
        /\ r.d \in Documentos
    BY <1>1, <1>4 DEF InsertarNueva, En, Llena, PcCuenta
  <2>2. /\ FilaCiudadania(r) \in Fila /\ FilaCiudadania(r).alta
        /\ FilaCiudadania(r).doc = r.d
        /\ r.d \in Nombres /\ "cercanos" \in Comparaciones
    BY <1>1, <2>1 DEF FilaCiudadania, Fila, Nombres, Comparaciones, Peticion
  <2>3. RegistradaPor(r).pc = "releer" /\ RegistradaPor(r).d = r.d
    BY DEF RegistradaPor, Libre
  <2>4. QED
    BY <2>1, <2>2, <2>3, TransaccionOrdenada
<1>5. QED
  BY <1>2, <1>3, <1>4

\* A request that looks and goes on keeps its locals; what it found holds.
LEMMA MirarOrdenada ==
  ASSUME InvRegistro, InvTipos', NEW p \in Peticiones,
         \/ CrearPorCI(p) \/ CrearPorCorreo(p) \/ CuentaPorNombre(p) \/ CuentaPorCorreo(p)
         \/ CrearConCiudadania(p) \/ OidcSinUsuario(p) \/ BuscarPersonaPorCI(p)
         \/ VerificarExiste(p) \/ VerCorreo(p) \/ BuscarCorreo(p)
  PROVE  InvRegistro'
<1> DEFINE r == peticiones[p]
<1>1. r \in Peticion /\ Llena(r) /\ Ordenada(r)
  BY DEF InvRegistro, InvTipos, TypeOKRegistro
<1>2. SoloLee
  BY DEF CrearPorCI, CrearPorCorreo, CuentaPorNombre, CuentaPorCorreo,
         CrearConCiudadania, OidcSinUsuario, BuscarPersonaPorCI, VerificarExiste,
         VerCorreo, BuscarCorreo
<1>3. \/ Termina(p)
      \/ \E pc \in Pcs :
           /\ Pasa(p, pc)
           /\ \/ r.pc = "crearCI" /\ pc = "crearCorreo"
              \/ r.pc = "crearCorreo" /\ pc = "insertarCreada"
              \/ pc \in {"cuentaCorreo", "cuentaRol", "error", "oidcPersona",
                         "nuevaCI", "nuevaRol"}
              \/ pc = "personaDatos" /\ personas[r.d] # 0
              \/ r.pc = "existenteCI" /\ pc = "insertarExistente"
              \/ r.pc \in {"verCorreo", "buscarCorreo"}
                   /\ pc \in {"buscarCorreo", "escribirCorreo", "entrar"}
           /\ r.pc \notin {"releer", "entrar"}
  BY DEF CrearPorCI, CrearPorCorreo, CuentaPorNombre, CuentaPorCorreo,
         CrearConCiudadania, OidcSinUsuario, BuscarPersonaPorCI, VerificarExiste,
         VerCorreo, BuscarCorreo, PasaSi, En, Pcs
<1>4. ASSUME NEW pc \in Pcs, Pasa(p, pc), r.pc \notin {"releer", "entrar"},
             \/ r.pc = "crearCI" /\ pc = "crearCorreo"
             \/ r.pc = "crearCorreo" /\ pc = "insertarCreada"
             \/ pc \in {"cuentaCorreo", "cuentaRol", "error", "oidcPersona",
                        "nuevaCI", "nuevaRol"}
             \/ pc = "personaDatos" /\ personas[r.d] # 0
             \/ r.pc = "existenteCI" /\ pc = "insertarExistente"
             \/ r.pc \in {"verCorreo", "buscarCorreo"}
                  /\ pc \in {"buscarCorreo", "escribirCorreo", "entrar"}
      PROVE  InvRegistro'
  <2>1. \E s : /\ Sigue(p, s) /\ s.pc = pc /\ s.d = r.d /\ s.n = r.n /\ s.alta = r.alta
               /\ s.roles = r.roles
    BY <1>1, <1>4 DEF Pasa, Peticion
  <2>2. PICK s : /\ peticiones'[p] = s
                 /\ \A q \in Peticiones \ {p} : peticiones'[q] = peticiones[q]
                 /\ s.pc = pc /\ s.d = r.d /\ s.n = r.n /\ s.alta = r.alta /\ s.roles = r.roles
    BY <2>1, SigueSoloUna DEF InvRegistro
  <2>3. ~ r.alta
    BY <1>1, <1>4 DEF Ordenada
  <2>4. pc = "personaDatos" => personas[r.d] > 0
    <3>1. r.pc \in Pcs /\ (pc = "personaDatos" => r.d \in Nombres)
      BY <1>1, <2>2 DEF Peticion, InvTipos, TypeOKRegistro, Llena, Nombres, PcCuenta
    <3>2. QED
      BY <1>4, <3>1, PersonasSupuestas DEF InvRegistro, InvTipos, TypeOKRegistro
  <2>5. Ordenada(s)
    BY <1>1, <1>4, <2>2, <2>3, <2>4
       DEF Ordenada, PcCrear, PcExistente, PcHallada
  <2>6. Ordenada(peticiones[p])'
    BY <1>2, <2>2, <2>5 DEF Ordenada, SoloLee
  <2>7. QED
    BY <1>2, <2>2, <2>6, LecturaOrdenada
<1>5. QED
  BY <1>2, <1>3, <1>4, TerminaOrdenada

\* Nor does the search of the role bring a request to where it relies on anything.
LEMMA BuscarRolOrdenada ==
  ASSUME InvRegistro, InvTipos', NEW p \in Peticiones, CuentaPorRol(p) \/ NuevaPorRol(p)
  PROVE  InvRegistro'
<1> DEFINE r == peticiones[p]
           Con(pc) == [r EXCEPT !.pc = pc, !.roles = RolHallado]
<1>1. r \in Peticion /\ Ordenada(r)
  BY DEF InvRegistro, InvTipos, TypeOKRegistro
<1>2. /\ SoloLee /\ r.pc \in {"cuentaRol", "nuevaRol"}
      /\ Termina(p) \/ \E pc \in {"insertarCuenta", "insertarNueva"} : Sigue(p, Con(pc))
  BY DEF CuentaPorRol, NuevaPorRol, BuscarRol, En
<1>3. ASSUME NEW pc \in {"insertarCuenta", "insertarNueva"}, Sigue(p, Con(pc))
      PROVE  InvRegistro'
  <2>1. Con(pc).pc = pc /\ Con(pc).alta = r.alta
    BY <1>1 DEF Peticion
  <2> HIDE DEF Con
  <2>2. /\ peticiones'[p] = Con(pc)
        /\ \A q \in Peticiones \ {p} : peticiones'[q] = peticiones[q]
    BY <1>3, SigueSoloUna DEF InvRegistro
  <2>3. ~ r.alta
    BY <1>1, <1>2 DEF Ordenada
  <2>4. Ordenada(peticiones[p])'
    BY <2>1, <2>2, <2>3 DEF Ordenada, PcCrear, PcExistente, PcHallada
  <2>5. QED
    BY <1>2, <2>2, <2>4, LecturaOrdenada
<1>4. QED
  BY <1>2, <1>3, TerminaOrdenada

LEMMA OidcOrdenada ==
  ASSUME InvRegistro, InvTipos', NEW p \in Peticiones,
         \/ OidcConUsuario(p) \/ ActualizarDatosPersona(p) \/ InsertarExistente(p)
         \/ Releer(p) \/ EscribirCorreo(p)
  PROVE  InvRegistro'
<1> DEFINE r == peticiones[p]
<1>1. /\ r \in Peticion /\ Llena(r) /\ Ordenada(r) /\ TypeOKRegistro /\ InvTipos
      /\ \A n \in Nombres : usuarios[n].alta => usuarios[n].doc = n
      /\ \A d \in Nombres \ Previas : Registrada(d)
      /\ personas \in [Nombres -> Nat]
  BY PersonasSupuestas DEF InvRegistro, InvTipos, TypeOKRegistro
<1>2. r.d \in Nombres
  BY <1>1 DEF Llena, PcCuenta, En, OidcConUsuario, ActualizarDatosPersona,
              InsertarExistente, Releer, EscribirCorreo, Nombres
<1>3. CASE OidcConUsuario(p)
  <2>1. PICK n \in PorCI(r.d) :
          /\ \/ Termina(p)
             \/ Sigue(p, [r EXCEPT
                  !.pc = IF CambiarDatos(r.d) THEN "usuarioDatos" ELSE "verCorreo",
                  !.c = IF usuarios[n].correo = r.c THEN Nulo ELSE r.c,
                  !.n = n, !.roles = usuarios[n].roles])
          /\ SoloLee
    BY <1>3 DEF OidcConUsuario
  <2>2. n = r.d /\ usuarios[r.d].alta
    BY <1>1, <2>1 DEF PorCI
  <2>3. CASE Termina(p)
    BY <2>1, <2>3, TerminaOrdenada
  <2>4. CASE ~ Termina(p)
    <3> DEFINE t == [r EXCEPT
                  !.pc = IF CambiarDatos(r.d) THEN "usuarioDatos" ELSE "verCorreo",
                  !.c = IF usuarios[n].correo = r.c THEN Nulo ELSE r.c,
                  !.n = n, !.roles = usuarios[n].roles]
    <3>a. /\ t.n = n /\ t.d = r.d /\ t.alta = r.alta
          /\ t.pc = IF CambiarDatos(r.d) THEN "usuarioDatos" ELSE "verCorreo"
      BY <1>1 DEF Peticion
    <3>b. Sigue(p, t)
      BY <2>1, <2>4
    <3> HIDE DEF t
    <3>1. \E s : /\ Sigue(p, s) /\ s.n = n /\ s.d = r.d /\ s.alta = r.alta
                 /\ s.pc = IF CambiarDatos(r.d) THEN "usuarioDatos" ELSE "verCorreo"
      BY <3>a, <3>b
    <3>2. PICK s : /\ peticiones'[p] = s
                   /\ \A q \in Peticiones \ {p} : peticiones'[q] = peticiones[q]
                   /\ s.n = n /\ s.d = r.d /\ s.alta = r.alta
                   /\ s.pc = IF CambiarDatos(r.d) THEN "usuarioDatos" ELSE "verCorreo"
      BY <1>1, <3>1, SigueSoloUna
    <3>3. ~ r.alta
      BY <1>1, <1>3 DEF Ordenada, OidcConUsuario, En
    <3>4. Ordenada(peticiones[p])'
      BY <2>1, <2>2, <3>2, <3>3
         DEF Ordenada, SoloLee, CambiarDatos, PcCrear, PcExistente, PcHallada
    <3>5. QED
      BY <2>1, <3>2, <3>4, LecturaOrdenada
  <2>5. QED
    BY <2>3, <2>4
<1>4. CASE ActualizarDatosPersona(p)
  <2>1. /\ datos' = [datos EXCEPT ![r.d] = "cercanos"]
        /\ UNCHANGED <<personas, usuarios>>
        /\ r.pc \in {"usuarioDatos", "personaDatos"}
    BY <1>4 DEF ActualizarDatosPersona, En
  <2>2. \E s : /\ Sigue(p, s) /\ s.n = r.n /\ s.d = r.d /\ s.alta = r.alta
               /\ s.pc = IF r.pc = "usuarioDatos" THEN "verCorreo" ELSE "existenteCI"
    BY <1>1, <1>4 DEF ActualizarDatosPersona, Pasa, En, Peticion
  <2>3. PICK s : /\ peticiones'[p] = s
                 /\ \A q \in Peticiones \ {p} : peticiones'[q] = peticiones[q]
                 /\ s.n = r.n /\ s.d = r.d /\ s.alta = r.alta
                 /\ s.pc = IF r.pc = "usuarioDatos" THEN "verCorreo" ELSE "existenteCI"
    BY <1>1, <2>2, SigueSoloUna
  <2>4. datos'[r.d] = "cercanos"
    BY <1>1, <1>2, <2>1 DEF TypeOKRegistro
  <2>5. Avanza
    BY <1>1, <1>2, <2>1 DEF Avanza, TypeOKRegistro
  <2>6. ~ r.alta
    BY <1>1, <2>1 DEF Ordenada
  <2>7. Ordenada(peticiones[p])'
    BY <1>1, <2>1, <2>3, <2>4, <2>6 DEF Ordenada, PcCrear, PcExistente, PcHallada
  <2>8. \A d \in Nombres \ Previas : Registrada(d)'
    BY <1>1, <2>1 DEF Registrada
  <2>9. QED
    BY <1>1, <2>1, <2>3, <2>5, <2>7, <2>8, PasoOrdenado
<1>5. CASE InsertarExistente(p)
  <2>1. CASE usuarios[r.d].alta
    BY <1>5, <2>1, TerminaOrdenada DEF InsertarExistente
  <2>2. CASE ~ usuarios[r.d].alta
    <3>1. /\ usuarios' = [usuarios EXCEPT ![r.d] = FilaExistente(r)]
          /\ Sigue(p, RegistradaPor(r)) /\ UNCHANGED <<personas, datos>>
          /\ r.pc = "insertarExistente"
      BY <1>5, <2>2 DEF InsertarExistente, En
    <3>2. datos[r.d] # "distintos" /\ personas[r.d] > 0
      BY <1>1, <2>2, <3>1 DEF Ordenada, PcExistente
    <3>3. r.d \in Previas
      BY <1>1, <1>2, <2>2, <3>2 DEF Registrada
    <3>4. /\ peticiones'[p] = RegistradaPor(r)
          /\ \A q \in Peticiones \ {p} : peticiones'[q] = peticiones[q]
      BY <1>1, <3>1, SigueSoloUna
    <3>5. usuarios'[r.d] = FilaExistente(r)
      BY <1>1, <1>2, <3>1 DEF TypeOKRegistro
    <3>6. Avanza
      BY <1>1, <1>2, <2>2, <3>1 DEF Avanza, TypeOKRegistro
    <3>7. FilaExistente(r).alta /\ FilaExistente(r).doc = r.d
      BY DEF FilaExistente
    <3>8. Ordenada(peticiones[p])'
      BY <3>1, <3>2, <3>3, <3>4, <3>5, <3>7
         DEF Ordenada, RegistradaPor, Libre, PcCrear, PcExistente, PcHallada
    <3>9. \A d \in Nombres \ Previas : Registrada(d)'
      BY <1>1, <3>1, <3>3 DEF Registrada, TypeOKRegistro
    <3>10. \A n \in Nombres : usuarios'[n].alta => usuarios'[n].doc = n
      BY <1>1, <3>1, <3>7 DEF TypeOKRegistro
    <3>11. QED
      BY <3>4, <3>6, <3>8, <3>9, <3>10, PasoOrdenado
  <2>3. QED
    BY <2>1, <2>2
<1>6. CASE Releer(p)
  <2>1. PICK n \in PorCI(r.d) :
          /\ Sigue(p, [r EXCEPT !.pc = "entrar", !.n = n, !.roles = usuarios[n].roles])
          /\ SoloLee /\ r.pc = "releer"
    BY <1>6 DEF Releer, En
  <2>2. n = r.d /\ usuarios[r.d].alta
    BY <1>1, <2>1 DEF PorCI
  <2> DEFINE t == [r EXCEPT !.pc = "entrar", !.n = n, !.roles = usuarios[n].roles]
  <2>a. /\ t.n = n /\ t.d = r.d /\ t.alta = r.alta
        /\ t.pc = "entrar" /\ t.roles = usuarios[n].roles
    BY <1>1 DEF Peticion
  <2>b. Sigue(p, t)
    BY <2>1
  <2> HIDE DEF t
  <2>3. \E s : /\ Sigue(p, s) /\ s.n = n /\ s.d = r.d /\ s.alta = r.alta
               /\ s.pc = "entrar" /\ s.roles = usuarios[n].roles
    BY <2>a, <2>b
  <2>4. PICK s : /\ peticiones'[p] = s
                 /\ \A q \in Peticiones \ {p} : peticiones'[q] = peticiones[q]
                 /\ s.n = n /\ s.d = r.d /\ s.alta = r.alta
                 /\ s.pc = "entrar" /\ s.roles = usuarios[n].roles
    BY <1>1, <2>3, SigueSoloUna
  <2>5. Ordenada(peticiones[p])'
    BY <1>1, <2>1, <2>2, <2>4 DEF Ordenada, SoloLee, PcCrear, PcExistente, PcHallada
  <2>6. QED
    BY <2>1, <2>4, <2>5, LecturaOrdenada
<1>7. CASE EscribirCorreo(p)
  <2>1. /\ usuarios' = [usuarios EXCEPT ![r.n] = [@ EXCEPT !.correo = r.c]]
        /\ UNCHANGED <<personas, datos>> /\ r.pc = "escribirCorreo"
    BY <1>7 DEF EscribirCorreo, En
  <2>2. r.n = r.d /\ usuarios[r.d].alta /\ datos[r.d] # "distintos" /\ ~ r.alta
    BY <1>1, <2>1 DEF Ordenada, PcHallada
  <2>3. \A n \in Nombres : /\ usuarios'[n].alta = usuarios[n].alta
                            /\ usuarios'[n].doc = usuarios[n].doc
                            /\ usuarios'[n].roles = usuarios[n].roles
    BY <1>1, <2>1 DEF TypeOKRegistro, Fila
  <2>4. \E s : Sigue(p, s) /\ s.n = r.n /\ s.d = r.d /\ s.alta = r.alta /\ s.pc = "entrar"
    BY <1>1, <1>7 DEF EscribirCorreo, Pasa, Peticion
  <2>5. PICK s : /\ peticiones'[p] = s
                 /\ \A q \in Peticiones \ {p} : peticiones'[q] = peticiones[q]
                 /\ s.n = r.n /\ s.d = r.d /\ s.alta = r.alta /\ s.pc = "entrar"
    BY <1>1, <2>4, SigueSoloUna
  <2>6. Avanza
    BY <1>1, <2>1, <2>3 DEF Avanza
  <2>7. Ordenada(peticiones[p])'
    BY <1>2, <2>1, <2>2, <2>3, <2>5 DEF Ordenada, PcCrear, PcExistente, PcHallada
  <2>8. \A d \in Nombres \ Previas : Registrada(d)'
    BY <1>1, <2>1, <2>3 DEF Registrada
  <2>9. QED
    BY <1>1, <2>3, <2>5, <2>6, <2>7, <2>8, PasoOrdenado
<1>8. QED
  BY <1>3, <1>4, <1>5, <1>6, <1>7

\* A request that starts has found nothing yet, and brings no user name.
LEMMA PedirOrdenada ==
  ASSUME InvRegistro, InvTipos', ~ ConNombre, NEW p \in Peticiones, Pedir(p)
  PROVE  InvRegistro'
<1> DEFINE Empezada(s) ==
             /\ Sigue(p, s) /\ SoloLee /\ ~ s.alta
             /\ s.pc \in {"crearCI", "cuentaNombre", "ciudadaniaCI", "oidcCI"}
             /\ s.pc = "crearCI" => s.n = Nulo
<1>1. \E s : Empezada(s)
  <2>1. ASSUME NEW c \in Correos, PedirCuenta(p, c)
        PROVE  \E s : Empezada(s)
    <3> DEFINE t == [Libre EXCEPT !.pc = "cuentaNombre", !.c = c]
    <3>1. t.pc = "cuentaNombre" /\ ~ t.alta
      BY DEF Libre
    <3>2. Sigue(p, t) /\ SoloLee
      BY <2>1 DEF PedirCuenta
    <3> HIDE DEF t
    <3>3. QED
      BY <3>1, <3>2
  <2>2. ASSUME NEW d \in Documentos, PedirCiudadania(p, d)
        PROVE  \E s : Empezada(s)
    <3> DEFINE t == [Libre EXCEPT !.pc = "ciudadaniaCI", !.d = d]
    <3>1. t.pc = "ciudadaniaCI" /\ ~ t.alta
      BY DEF Libre
    <3>2. Sigue(p, t) /\ SoloLee
      BY <2>2 DEF PedirCiudadania
    <3> HIDE DEF t
    <3>3. QED
      BY <3>1, <3>2
  <2>3. ASSUME NEW d \in Documentos, NEW c \in Correos, PedirOidc(p, d, c)
        PROVE  \E s : Empezada(s)
    <3> DEFINE t == [Libre EXCEPT !.pc = "oidcCI", !.d = d, !.c = c,
                                  !.falto = (rolUsuario = Nulo)]
    <3>1. t.pc = "oidcCI" /\ ~ t.alta
      BY DEF Libre
    <3>2. Sigue(p, t) /\ SoloLee
      BY <2>3 DEF PedirOidc
    <3> HIDE DEF t
    <3>3. QED
      BY <3>1, <3>2
  <2>4. ASSUME NEW d \in Documentos, NEW c \in Correos, NEW roles \in SUBSET Roles,
               PedirCrear(p, d, c, Nulo, roles)
        PROVE  \E s : Empezada(s)
    <3> DEFINE t == [Libre EXCEPT !.pc = "crearCI", !.d = d, !.c = c, !.n = Nulo,
                                  !.roles = roles]
    <3>1. t.pc = "crearCI" /\ ~ t.alta /\ t.n = Nulo
      BY DEF Libre
    <3>2. Sigue(p, t) /\ SoloLee
      BY <2>4 DEF PedirCrear
    <3> HIDE DEF t
    <3>3. QED
      BY <3>1, <3>2
  <2>5. QED
    BY <2>1, <2>2, <2>3, <2>4 DEF Pedir
<1>2. PICK s : /\ peticiones'[p] = s
               /\ \A q \in Peticiones \ {p} : peticiones'[q] = peticiones[q]
               /\ SoloLee /\ ~ s.alta
               /\ s.pc \in {"crearCI", "cuentaNombre", "ciudadaniaCI", "oidcCI"}
               /\ s.pc = "crearCI" => s.n = Nulo
  BY <1>1, SigueSoloUna DEF InvRegistro
<1>3. Ordenada(peticiones[p])'
  BY <1>2 DEF Ordenada, PcCrear, PcExistente, PcHallada
<1>4. QED
  BY <1>2, <1>3, LecturaOrdenada

LEMMA InitOrdenado == InitRegistro => InvRegistro
<1> SUFFICES ASSUME InitRegistro PROVE InvRegistro
  OBVIOUS
<1>1. \A n \in Nombres : ~ usuarios[n].alta
  BY DEF InitRegistro, SinFila
<1>2. \A d \in Nombres \ Previas : personas[d] = 0
  BY DEF InitRegistro
<1>3. \A p \in Peticiones : Ordenada(peticiones[p])
  BY DEF InitRegistro, Ordenada, Libre, PcCrear, PcExistente, PcHallada
<1>4. QED
  BY <1>1, <1>2, <1>3, InitTipado DEF InvRegistro, Registrada

LEMMA NextOrdenado ==
  ~ ConNombre => (InvRegistro /\ [NextRegistro]_varsRegistro => InvRegistro')
<1> SUFFICES ASSUME ~ ConNombre, InvRegistro, [NextRegistro]_varsRegistro
             PROVE  InvRegistro'
  OBVIOUS
<1>1. InvTipos'
  BY NextTipado DEF InvRegistro
<1>2. ASSUME NEW n \in Nombres, NEW e \in {"ACTIVO", "INACTIVO"}, CambiarEstado(n, e)
      PROVE  InvRegistro'
  <2>1. usuarios' = [usuarios EXCEPT ![n] = [@ EXCEPT !.estado = e]]
        /\ UNCHANGED <<personas, datos, peticiones>>
    BY <1>2 DEF CambiarEstado
  <2>2. \A m \in Nombres : /\ usuarios'[m].alta = usuarios[m].alta
                            /\ usuarios'[m].doc = usuarios[m].doc
                            /\ usuarios'[m].roles = usuarios[m].roles
    BY <2>1 DEF InvRegistro, InvTipos, TypeOKRegistro, Fila
  <2>3. Avanza
    BY <2>1, <2>2, PersonasSupuestas DEF Avanza, InvRegistro, InvTipos, TypeOKRegistro
  <2>4. \A q \in Peticiones : Ordenada(peticiones[q])'
    BY <1>1, <2>1, <2>3, OtraOrdenada
  <2>5. \A d \in Nombres \ Previas : Registrada(d)'
    BY <2>1, <2>2 DEF InvRegistro, Registrada
  <2>6. QED
    BY <1>1, <2>2, <2>4, <2>5 DEF InvRegistro
<1>3. ASSUME NEW p \in Peticiones, Responder(p) \/ Abortar(p)
      PROVE  InvRegistro'
  BY <1>1, <1>3, TerminaOrdenada DEF Responder, Abortar
<1>4. ASSUME NEW p \in Peticiones, Continuar(p)
      PROVE  InvRegistro'
  BY <1>1, <1>3, <1>4, MirarOrdenada, BuscarRolOrdenada, InsertarOrdenada, OidcOrdenada,
     Zenon DEF Continuar
<1>5. ASSUME NEW x \in Roles \cup {Nulo}, RenombrarRol(x)
      PROVE  InvRegistro'
  <2>1. UNCHANGED <<personas, datos, usuarios>>
    BY <1>5 DEF RenombrarRol
  <2>2. ASSUME NEW q \in Peticiones PROVE Ordenada(peticiones[q])'
    <3>1. /\ peticiones'[q].pc = peticiones[q].pc /\ peticiones'[q].d = peticiones[q].d
          /\ peticiones'[q].n = peticiones[q].n /\ peticiones'[q].alta = peticiones[q].alta
      BY <1>5, Renombradas DEF InvRegistro
    <3>2. QED
      BY <2>1, <3>1 DEF InvRegistro, Ordenada
  <2>3. QED
    BY <1>1, <2>1, <2>2 DEF InvRegistro, Registrada
<1>6. CASE UNCHANGED varsRegistro
  BY <1>1, <1>6 DEF varsRegistro, InvRegistro, Ordenada, Registrada
<1>7. QED
  BY <1>1, <1>2, <1>3, <1>4, <1>5, <1>6, PedirOrdenada DEF NextRegistro

\* With one row for the name and one persona for the row, counting is easy.
LEMMA UnaPersona == InvRegistro => PersonaUnica
<1> SUFFICES ASSUME InvRegistro, NEW d \in Nombres \ Previas
             PROVE  personas[d] <= 1 /\ Cardinality(PorCI(d)) = personas[d]
  BY DEF PersonaUnica
<1>1. \A n \in Nombres : usuarios[n].alta => usuarios[n].doc = n
  BY DEF InvRegistro
<1>2. CASE usuarios[d].alta
  <2>1. PorCI(d) = {d} /\ personas[d] = 1
    BY <1>1, <1>2 DEF PorCI, InvRegistro, Registrada
  <2>2. QED
    BY <2>1, FS_Singleton
<1>3. CASE ~ usuarios[d].alta
  <2>1. PorCI(d) = {} /\ personas[d] = 0
    BY <1>1, <1>3 DEF PorCI, InvRegistro, Registrada
  <2>2. QED
    BY <2>1, FS_EmptySet
<1>4. QED
  BY <1>2, <1>3

LEMMA EntradaDePropia == InvRegistro => EntradaPropia
<1> SUFFICES ASSUME InvRegistro, NEW p \in Peticiones, En(p, "entrar")
             PROVE  /\ usuarios[peticiones[p].n].doc = peticiones[p].d
                    /\ datos[peticiones[p].d] # "distintos"
  BY DEF EntradaPropia
<1>1. Ordenada(peticiones[p]) /\ Llena(peticiones[p])
  BY DEF InvRegistro, InvTipos
<1>2. peticiones[p].d \in Nombres
  BY <1>1 DEF Llena, En, PcCuenta, Nombres
<1>3. QED
  BY <1>1, <1>2 DEF InvRegistro, Ordenada, En, PcHallada

\* Registrations of every kind that overlap and fail never leave a new document
\* with two personas or two accounts, or with one and not the other, as long as
\* bodies choose no user name: the UNIQUE column and the transaction suffice.
THEOREM UnaSolaPersona == ~ ConNombre => (SpecRegistro => []PersonaUnica)
<1> SUFFICES ASSUME ~ ConNombre PROVE SpecRegistro => []PersonaUnica
  OBVIOUS
<1>1. InvRegistro /\ [NextRegistro]_varsRegistro => InvRegistro'
  BY NextOrdenado
<1>2. QED
  BY <1>1, InitOrdenado, UnaPersona, PTL DEF SpecRegistro

\* A login with Ciudadania Digital ends in the account of the person's own
\* document, with names that are not all out of date.
THEOREM EntradaSiemprePropia == ~ ConNombre => (SpecRegistro => []EntradaPropia)
<1> SUFFICES ASSUME ~ ConNombre PROVE SpecRegistro => []EntradaPropia
  OBVIOUS
<1>1. InvRegistro /\ [NextRegistro]_varsRegistro => InvRegistro'
  BY NextOrdenado
<1>2. QED
  BY <1>1, InitOrdenado, EntradaDePropia, PTL DEF SpecRegistro

-----------------------------------------------------------------------------
\* Why an account has no roles: what each request knows of the role 'USUARIO', from before
\* it looks for it to the account that it inserted without one.

ConRazon(r) ==
  /\ r.pc \in PcBusca /\ rolUsuario = Nulo => r.falto
  /\ r.pc = "insertarNueva" /\ r.roles = {} => r.falto
  /\ r.pc = "insertarCuenta" => r.roles # {}
  /\ r.alta /\ r.d \notin Previas =>
       (r.pc = "releer" /\ usuarios[r.d].roles = {} => r.falto)
         /\ (r.pc = "entrar" /\ r.roles = {} => r.falto)

InvRoles ==
  /\ InvRegistro
  /\ \A c \in Correos : usuarios[c].alta => usuarios[c].roles # {}
  /\ \A p \in Peticiones : ConRazon(peticiones[p])

RolesQuedan ==
  \A n \in Nombres : usuarios[n].alta => usuarios'[n].roles = usuarios[n].roles

\* A step of one request that takes no roles away from anybody
LEMMA PasoRazon ==
  ASSUME InvRoles, InvRegistro', NEW p \in Peticiones, NEW s, Sigue(p, s),
         UNCHANGED rolUsuario, RolesQuedan, ConRazon(peticiones[p])',
         \A c \in Correos : usuarios'[c].alta => usuarios'[c].roles # {}
  PROVE  InvRoles'
<1>1. peticiones'[p] = s /\ \A q \in Peticiones \ {p} : peticiones'[q] = peticiones[q]
  BY SigueSoloUna DEF InvRoles, InvRegistro
<1>2. ASSUME NEW q \in Peticiones \ {p} PROVE ConRazon(peticiones[q])'
  <2> DEFINE r == peticiones[q]
  <2>1. ConRazon(r) /\ Ordenada(r) /\ Llena(r)
    BY DEF InvRoles, InvRegistro, InvTipos
  <2>2. r.pc = "releer" => usuarios'[r.d].roles = usuarios[r.d].roles
    BY <2>1 DEF Llena, PcCuenta, Ordenada, RolesQuedan, Nombres
  <2>3. peticiones'[q] = r
    BY <1>1
  <2> HIDE DEF r
  <2>4. QED
    BY <2>1, <2>2, <2>3 DEF ConRazon
<1>3. QED
  BY <1>2 DEF InvRoles

LEMMA LecturaRazon ==
  ASSUME InvRoles, InvRegistro', NEW p \in Peticiones, NEW s, Sigue(p, s), SoloLee, ConRazon(s)
  PROVE  InvRoles'
<1>1. peticiones'[p] = s
  BY SigueSoloUna DEF InvRoles, InvRegistro
<1>2. UNCHANGED rolUsuario /\ RolesQuedan /\ ConRazon(peticiones[p])'
  BY <1>1 DEF SoloLee, RolesQuedan, ConRazon
<1>3. \A c \in Correos : usuarios'[c].alta => usuarios'[c].roles # {}
  BY DEF SoloLee, InvRoles
<1>4. QED
  BY <1>2, <1>3, PasoRazon

\* Where a request neither looks for the role nor uses it, there is nothing to explain.
LEMMA SinNadaQueExplicar ==
  ASSUME NEW s, ~ s.alta, s.pc \notin PcBusca \cup {"insertarNueva", "insertarCuenta"}
  PROVE  ConRazon(s)
  BY DEF ConRazon

LEMMA LibreSinRazon == ConRazon(Libre)
  BY DEF ConRazon, Libre, PcBusca

LEMMA TerminaRazon ==
  ASSUME InvRoles, InvRegistro', NEW p \in Peticiones, Termina(p), SoloLee
  PROVE  InvRoles'
  BY LibreSinRazon, LecturaRazon DEF Termina

LEMMA PedirRazon ==
  ASSUME InvRoles, InvRegistro', NEW p \in Peticiones, Pedir(p)
  PROVE  InvRoles'
<1>1. ASSUME NEW c \in Correos, PedirCuenta(p, c) PROVE InvRoles'
  <2> DEFINE t == [Libre EXCEPT !.pc = "cuentaNombre", !.c = c]
  <2>1. t.pc = "cuentaNombre" /\ ~ t.alta
    BY DEF Libre
  <2>2. Sigue(p, t) /\ SoloLee
    BY <1>1 DEF PedirCuenta
  <2> HIDE DEF t
  <2>3. ConRazon(t)
    BY <2>1, SinNadaQueExplicar DEF PcBusca
  <2>4. QED
    BY <2>2, <2>3, LecturaRazon
<1>2. ASSUME NEW d \in Documentos, PedirCiudadania(p, d) PROVE InvRoles'
  <2> DEFINE t == [Libre EXCEPT !.pc = "ciudadaniaCI", !.d = d]
  <2>1. t.pc = "ciudadaniaCI" /\ ~ t.alta
    BY DEF Libre
  <2>2. Sigue(p, t) /\ SoloLee
    BY <1>2 DEF PedirCiudadania
  <2> HIDE DEF t
  <2>3. ConRazon(t)
    BY <2>1, SinNadaQueExplicar DEF PcBusca
  <2>4. QED
    BY <2>2, <2>3, LecturaRazon
<1>3. ASSUME NEW d \in Documentos, NEW c \in Correos, PedirOidc(p, d, c) PROVE InvRoles'
  <2> DEFINE t == [Libre EXCEPT !.pc = "oidcCI", !.d = d, !.c = c,
                                !.falto = (rolUsuario = Nulo)]
  <2>1. t.pc = "oidcCI" /\ ~ t.alta /\ t.falto = (rolUsuario = Nulo)
    BY DEF Libre
  <2>2. Sigue(p, t) /\ SoloLee
    BY <1>3 DEF PedirOidc
  <2> HIDE DEF t
  <2>3. ConRazon(t)
    BY <2>1 DEF ConRazon
  <2>4. QED
    BY <2>2, <2>3, LecturaRazon
<1>4. ASSUME NEW d \in Documentos, NEW c \in Correos, NEW n, NEW roles,
             PedirCrear(p, d, c, n, roles)
      PROVE  InvRoles'
  <2> DEFINE t == [Libre EXCEPT !.pc = "crearCI", !.d = d, !.c = c, !.n = n, !.roles = roles]
  <2>1. t.pc = "crearCI" /\ ~ t.alta
    BY DEF Libre
  <2>2. Sigue(p, t) /\ SoloLee
    BY <1>4 DEF PedirCrear
  <2> HIDE DEF t
  <2>3. ConRazon(t)
    BY <2>1, SinNadaQueExplicar DEF PcBusca
  <2>4. QED
    BY <2>2, <2>3, LecturaRazon
<1>5. QED
  BY <1>1, <1>2, <1>3, <1>4 DEF Pedir

\* The searches: on the way to that of the role the history is kept.
LEMMA MirarRazon ==
  ASSUME InvRoles, InvRegistro', NEW p \in Peticiones,
         \/ CrearPorCI(p) \/ CrearPorCorreo(p) \/ CuentaPorNombre(p) \/ CuentaPorCorreo(p)
         \/ CrearConCiudadania(p) \/ OidcSinUsuario(p) \/ BuscarPersonaPorCI(p)
         \/ VerificarExiste(p) \/ VerCorreo(p) \/ BuscarCorreo(p)
  PROVE  InvRoles'
<1> DEFINE r == peticiones[p]
           s(pc) == [r EXCEPT !.pc = pc]
<1>1. r \in Peticion /\ ConRazon(r) /\ Ordenada(r)
  BY DEF InvRoles, InvRegistro, InvTipos, TypeOKRegistro
<1>2. /\ SoloLee /\ r.pc \notin {"releer", "entrar"}
      /\ \/ Termina(p)
         \/ \E pc \in Pcs : /\ Sigue(p, s(pc)) /\ pc \notin {"insertarNueva", "insertarCuenta"}
                            /\ pc \in PcBusca => r.pc \in PcBusca
  BY DEF CrearPorCI, CrearPorCorreo, CuentaPorNombre, CuentaPorCorreo,
         CrearConCiudadania, OidcSinUsuario, BuscarPersonaPorCI, VerificarExiste,
         VerCorreo, BuscarCorreo, PasaSi, Pasa, En, Pcs, PcBusca
<1>3. ASSUME NEW pc \in Pcs, Sigue(p, s(pc)), pc \notin {"insertarNueva", "insertarCuenta"},
             pc \in PcBusca => r.pc \in PcBusca
      PROVE  InvRoles'
  <2>1. s(pc).pc = pc /\ s(pc).alta = r.alta /\ s(pc).falto = r.falto
    BY <1>1 DEF Peticion
  <2> HIDE DEF s
  <2>2. ~ r.alta
    BY <1>1, <1>2 DEF Ordenada
  <2>3. ConRazon(s(pc))
    BY <1>1, <1>3, <2>1, <2>2 DEF ConRazon
  <2>4. QED
    BY <1>2, <1>3, <2>3, LecturaRazon
<1>4. QED
  BY <1>2, <1>3, TerminaRazon

LEMMA BuscarRolRazon ==
  ASSUME InvRoles, InvRegistro', NEW p \in Peticiones, CuentaPorRol(p) \/ NuevaPorRol(p)
  PROVE  InvRoles'
<1> DEFINE r == peticiones[p]
           Con(pc) == [r EXCEPT !.pc = pc, !.roles = RolHallado]
<1>1. r \in Peticion /\ ConRazon(r) /\ Ordenada(r)
  BY DEF InvRoles, InvRegistro, InvTipos, TypeOKRegistro
<1>2. \A pc : /\ Con(pc).pc = pc /\ Con(pc).alta = r.alta /\ Con(pc).falto = r.falto
              /\ Con(pc).roles = RolHallado
  BY <1>1 DEF Peticion
<1>3. SoloLee /\ r.pc \in {"cuentaRol", "nuevaRol"}
  BY DEF CuentaPorRol, NuevaPorRol, En
<1>4. \/ Termina(p)
      \/ Sigue(p, Con("insertarCuenta")) /\ RolHallado # {}
      \/ Sigue(p, Con("insertarNueva")) /\ r.pc = "nuevaRol"
  BY DEF CuentaPorRol, NuevaPorRol, BuscarRol, En
<1> HIDE DEF Con
<1>5. ~ r.alta
  BY <1>1, <1>3 DEF Ordenada
<1>6. CASE Sigue(p, Con("insertarCuenta")) /\ RolHallado # {}
  <2>1. ConRazon(Con("insertarCuenta"))
    BY <1>2, <1>5, <1>6 DEF ConRazon, PcBusca
  <2>2. QED
    BY <1>3, <1>6, <2>1, LecturaRazon
<1>7. CASE Sigue(p, Con("insertarNueva")) /\ r.pc = "nuevaRol"
  <2>1. RolHallado = {} => r.falto
    BY <1>1, <1>7 DEF ConRazon, PcBusca, RolHallado
  <2>2. ConRazon(Con("insertarNueva"))
    BY <1>2, <1>5, <2>1 DEF ConRazon, PcBusca
  <2>3. QED
    BY <1>3, <1>7, <2>2, LecturaRazon
<1>8. QED
  BY <1>3, <1>4, <1>6, <1>7, TerminaRazon

LEMMA TransaccionRazon ==
  ASSUME InvRoles, InvRegistro', NEW p \in Peticiones, NEW d \in Nombres,
         NEW fila \in Fila, NEW x, NEW s, Transaccion(p, d, fila, x, s),
         d \in Correos => fila.roles # {},
         \/ s = Libre
         \/ s.pc = "releer" /\ s.d = d /\ (fila.roles = {} => s.falto)
  PROVE  InvRoles'
<1>1. CASE usuarios[d].alta
  BY <1>1, TerminaRazon DEF Transaccion
<1>2. CASE ~ usuarios[d].alta
  <2>1. /\ usuarios' = [usuarios EXCEPT ![d] = fila]
        /\ Sigue(p, s) /\ UNCHANGED rolUsuario
    BY <1>2 DEF Transaccion
  <2>2. usuarios \in [Nombres -> Fila]
    BY DEF InvRoles, InvRegistro, InvTipos, TypeOKRegistro
  <2>3. RolesQuedan
    BY <1>2, <2>1, <2>2 DEF RolesQuedan
  <2>4. \A c \in Correos : usuarios'[c].alta => usuarios'[c].roles # {}
    BY <2>1, <2>2 DEF InvRoles, Nombres
  <2>5. usuarios'[d] = fila /\ peticiones'[p] = s
    BY <2>1, <2>2, SigueSoloUna DEF InvRoles, InvRegistro
  <2>6. ConRazon(peticiones[p])'
    BY <2>5 DEF ConRazon, PcBusca, Libre
  <2>7. QED
    BY <2>1, <2>3, <2>4, <2>6, PasoRazon
<1>3. QED
  BY <1>1, <1>2

LEMMA InsertarRazon ==
  ASSUME InvRoles, InvRegistro', NEW p \in Peticiones,
         InsertarCreada(p) \/ InsertarCuenta(p) \/ InsertarNueva(p)
  PROVE  InvRoles'
<1> DEFINE r == peticiones[p]
<1>1. r \in Peticion /\ Llena(r) /\ Ordenada(r) /\ ConRazon(r)
  BY DEF InvRoles, InvRegistro, InvTipos, TypeOKRegistro
<1>2. CASE InsertarCreada(p)
  <2>1. r.n = Nulo /\ r.d \in Documentos
    BY <1>1, <1>2 DEF InsertarCreada, En, Ordenada, PcCrear, Llena, PcCuenta
  <2>2. PICK x \in Comparaciones : Transaccion(p, r.d, FilaCreada(r), x, Libre)
    BY <1>2, <2>1 DEF InsertarCreada
  <2>3. FilaCreada(r) \in Fila /\ r.d \in Nombres /\ r.d \notin Correos
    BY <1>1, <2>1, NombresSupuestos DEF FilaCreada, Fila, Peticion, Nombres
  <2>4. QED
    BY <2>2, <2>3, TransaccionRazon
<1>3. CASE InsertarCuenta(p)
  <2>1. /\ Transaccion(p, r.c, FilaCuenta(r), "distintos", Libre)
        /\ r.c \in Correos /\ r.roles # {}
    BY <1>1, <1>3 DEF InsertarCuenta, En, Llena, PcCuenta, ConRazon
  <2>2. FilaCuenta(r) \in Fila /\ FilaCuenta(r).roles = r.roles /\ r.c \in Nombres
    BY <1>1, <2>1 DEF FilaCuenta, Fila, Nombres, Peticion
  <2>3. QED
    BY <2>1, <2>2, TransaccionRazon
<1>4. CASE InsertarNueva(p)
  <2>1. /\ Transaccion(p, r.d, FilaCiudadania(r), "cercanos", RegistradaPor(r))
        /\ r.d \in Documentos /\ (r.roles = {} => r.falto)
    BY <1>1, <1>4 DEF InsertarNueva, En, Llena, PcCuenta, ConRazon
  <2>2. /\ FilaCiudadania(r) \in Fila /\ FilaCiudadania(r).roles = r.roles
        /\ r.d \in Nombres /\ r.d \notin Correos
    BY <1>1, <2>1, NombresSupuestos DEF FilaCiudadania, Fila, Nombres, Peticion
  <2>3. /\ RegistradaPor(r).pc = "releer" /\ RegistradaPor(r).d = r.d
        /\ RegistradaPor(r).falto = r.falto
    BY DEF RegistradaPor, Libre
  <2>4. QED
    BY <2>1, <2>2, <2>3, TransaccionRazon
<1>5. QED
  BY <1>2, <1>3, <1>4

LEMMA OidcRazon ==
  ASSUME InvRoles, InvRegistro', NEW p \in Peticiones,
         \/ OidcConUsuario(p) \/ ActualizarDatosPersona(p) \/ InsertarExistente(p)
         \/ Releer(p) \/ EscribirCorreo(p)
  PROVE  InvRoles'
<1> DEFINE r == peticiones[p]
<1>1. /\ r \in Peticion /\ Llena(r) /\ Ordenada(r) /\ ConRazon(r)
      /\ usuarios \in [Nombres -> Fila] /\ personas \in [Nombres -> Nat]
      /\ \A n \in Nombres : usuarios[n].alta => usuarios[n].doc = n
      /\ \A d \in Nombres \ Previas : Registrada(d)
  BY PersonasSupuestas DEF InvRoles, InvRegistro, InvTipos, TypeOKRegistro
<1>2. r.d \in Documentos /\ r.d \in Nombres /\ r.d \notin Correos
  BY <1>1, NombresSupuestos DEF Llena, PcCuenta, En, OidcConUsuario, ActualizarDatosPersona,
              InsertarExistente, Releer, EscribirCorreo, Nombres
<1>3. CASE OidcConUsuario(p)
  <2> DEFINE t(n) == [r EXCEPT
                  !.pc = IF CambiarDatos(r.d) THEN "usuarioDatos" ELSE "verCorreo",
                  !.c = IF usuarios[n].correo = r.c THEN Nulo ELSE r.c,
                  !.n = n, !.roles = usuarios[n].roles]
  <2>1. PICK n \in PorCI(r.d) : (Termina(p) \/ Sigue(p, t(n))) /\ SoloLee /\ r.pc = "oidcCI"
    BY <1>3 DEF OidcConUsuario, En
  <2>2. t(n).pc \in {"usuarioDatos", "verCorreo"} /\ t(n).alta = r.alta
    BY <1>1 DEF Peticion
  <2> HIDE DEF t
  <2>3. ~ r.alta
    BY <1>1, <2>1 DEF Ordenada
  <2>4. ConRazon(t(n))
    BY <2>2, <2>3, SinNadaQueExplicar DEF PcBusca
  <2>5. QED
    BY <2>1, <2>4, LecturaRazon, TerminaRazon
<1>4. CASE ActualizarDatosPersona(p)
  <2> DEFINE t == [r EXCEPT !.pc = IF En(p, "usuarioDatos") THEN "verCorreo" ELSE "existenteCI"]
  <2>1. /\ Sigue(p, t) /\ UNCHANGED <<personas, usuarios, rolUsuario>>
        /\ r.pc \in {"usuarioDatos", "personaDatos"}
    BY <1>4 DEF ActualizarDatosPersona, Pasa, En
  <2>2. t.pc \in {"verCorreo", "existenteCI"} /\ t.alta = r.alta
    BY <1>1 DEF Peticion
  <2> HIDE DEF t
  <2>3. ~ t.alta
    BY <1>1, <2>1, <2>2 DEF Ordenada
  <2>4. ConRazon(peticiones[p])'
    <3>1. peticiones'[p] = t
      BY <2>1, SigueSoloUna DEF InvRoles, InvRegistro
    <3>2. QED
      BY <2>2, <2>3, <3>1 DEF ConRazon, PcBusca
  <2>5. RolesQuedan /\ \A c \in Correos : usuarios'[c].alta => usuarios'[c].roles # {}
    BY <2>1 DEF RolesQuedan, InvRoles
  <2>6. QED
    BY <2>1, <2>4, <2>5, PasoRazon
<1>5. CASE InsertarExistente(p)
  <2>1. CASE usuarios[r.d].alta
    BY <1>5, <2>1, TerminaRazon DEF InsertarExistente
  <2>2. CASE ~ usuarios[r.d].alta
    <3>1. /\ usuarios' = [usuarios EXCEPT ![r.d] = FilaExistente(r)]
          /\ Sigue(p, RegistradaPor(r)) /\ UNCHANGED rolUsuario
          /\ r.pc = "insertarExistente"
      BY <1>5, <2>2 DEF InsertarExistente, En
    <3>2. r.d \in Previas
      BY <1>1, <1>2, <2>2, <3>1 DEF Ordenada, PcExistente, Registrada
    <3>3. RegistradaPor(r).pc = "releer" /\ RegistradaPor(r).d = r.d
      BY DEF RegistradaPor, Libre
    <3>4. ConRazon(peticiones[p])'
      <4>1. peticiones'[p] = RegistradaPor(r)
        BY <3>1, SigueSoloUna DEF InvRoles, InvRegistro
      <4>2. QED
        BY <3>2, <3>3, <4>1 DEF ConRazon, PcBusca
    <3>5. RolesQuedan /\ \A c \in Correos : usuarios'[c].alta => usuarios'[c].roles # {}
      BY <1>1, <1>2, <2>2, <3>1 DEF RolesQuedan, InvRoles, Nombres
    <3>6. QED
      BY <3>1, <3>4, <3>5, PasoRazon
  <2>3. QED
    BY <2>1, <2>2
<1>6. CASE Releer(p)
  <2> DEFINE t(n) == [r EXCEPT !.pc = "entrar", !.n = n, !.roles = usuarios[n].roles]
  <2>1. PICK n \in PorCI(r.d) : Sigue(p, t(n)) /\ SoloLee /\ r.pc = "releer"
    BY <1>6 DEF Releer, En
  <2>2. n = r.d
    BY <1>1, <2>1 DEF PorCI
  <2>3. /\ t(n).pc = "entrar" /\ t(n).roles = usuarios[n].roles /\ t(n).d = r.d
        /\ t(n).alta = r.alta /\ t(n).falto = r.falto
    BY <1>1 DEF Peticion
  <2> HIDE DEF t
  <2>4. ConRazon(t(n))
    BY <1>1, <2>1, <2>2, <2>3 DEF ConRazon, PcBusca
  <2>5. QED
    BY <2>1, <2>4, LecturaRazon
<1>7. CASE EscribirCorreo(p)
  <2> DEFINE t == [r EXCEPT !.pc = "entrar"]
  <2>1. /\ usuarios' = [usuarios EXCEPT ![r.n] = [@ EXCEPT !.correo = r.c]]
        /\ Sigue(p, t) /\ UNCHANGED rolUsuario /\ r.pc = "escribirCorreo"
    BY <1>7 DEF EscribirCorreo, Pasa, En
  <2>2. t.pc = "entrar" /\ t.alta = r.alta
    BY <1>1 DEF Peticion
  <2> HIDE DEF t
  <2>3. ~ t.alta
    BY <1>1, <2>1, <2>2 DEF Ordenada
  <2>4. ConRazon(peticiones[p])'
    <3>1. peticiones'[p] = t
      BY <2>1, SigueSoloUna DEF InvRoles, InvRegistro
    <3>2. QED
      BY <2>2, <2>3, <3>1 DEF ConRazon, PcBusca
  <2>5. \A n \in Nombres : /\ usuarios'[n].alta = usuarios[n].alta
                            /\ usuarios'[n].roles = usuarios[n].roles
    BY <1>1, <2>1 DEF Fila
  <2>6. RolesQuedan /\ \A c \in Correos : usuarios'[c].alta => usuarios'[c].roles # {}
    BY <2>5 DEF RolesQuedan, InvRoles, Nombres
  <2>7. QED
    BY <2>1, <2>4, <2>6, PasoRazon
<1>8. QED
  BY <1>3, <1>4, <1>5, <1>6, <1>7

LEMMA NextRazon ==
  ~ ConNombre => (InvRoles /\ [NextRegistro]_varsRegistro => InvRoles')
<1> SUFFICES ASSUME ~ ConNombre, InvRoles, [NextRegistro]_varsRegistro
             PROVE  InvRoles'
  OBVIOUS
<1>1. InvRegistro'
  BY NextOrdenado DEF InvRoles
<1>2. ASSUME NEW n \in Nombres, NEW e \in {"ACTIVO", "INACTIVO"}, CambiarEstado(n, e)
      PROVE  InvRoles'
  <2>1. usuarios' = [usuarios EXCEPT ![n] = [@ EXCEPT !.estado = e]]
        /\ UNCHANGED <<rolUsuario, peticiones>>
    BY <1>2 DEF CambiarEstado
  <2>2. \A m \in Nombres : /\ usuarios'[m].alta = usuarios[m].alta
                            /\ usuarios'[m].roles = usuarios[m].roles
    BY <2>1 DEF InvRoles, InvRegistro, InvTipos, TypeOKRegistro, Fila
  <2>3. ASSUME NEW q \in Peticiones PROVE ConRazon(peticiones[q])'
    <3>1. Llena(peticiones[q]) /\ ConRazon(peticiones[q])
      BY DEF InvRoles, InvRegistro, InvTipos
    <3>2. QED
      BY <2>1, <2>2, <3>1 DEF ConRazon, Llena, PcCuenta, Nombres
  <2>4. QED
    BY <1>1, <2>2, <2>3 DEF InvRoles, Nombres
<1>3. ASSUME NEW p \in Peticiones, Responder(p) \/ Abortar(p)
      PROVE  InvRoles'
  BY <1>1, <1>3, TerminaRazon DEF Responder, Abortar
<1>4. ASSUME NEW p \in Peticiones, Continuar(p)
      PROVE  InvRoles'
  BY <1>1, <1>3, <1>4, MirarRazon, BuscarRolRazon, InsertarRazon, OidcRazon, Zenon
     DEF Continuar
<1>5. ASSUME NEW x \in Roles \cup {Nulo}, RenombrarRol(x)
      PROVE  InvRoles'
  <2>1. UNCHANGED usuarios /\ rolUsuario' = x
    BY <1>5 DEF RenombrarRol
  <2>2. ASSUME NEW q \in Peticiones PROVE ConRazon(peticiones[q])'
    <3>1. LET r == peticiones[q]
              s == peticiones'[q] IN
          /\ s.pc = r.pc /\ s.d = r.d /\ s.roles = r.roles /\ s.alta = r.alta
          /\ s.falto = (r.falto \/ (x = Nulo /\ r.pc \in PcBusca))
      BY <1>5, Renombradas DEF InvRoles, InvRegistro
    <3>2. ConRazon(peticiones[q])
      BY DEF InvRoles
    <3>3. QED
      BY <2>1, <3>1, <3>2 DEF ConRazon
  <2>3. QED
    BY <1>1, <2>1, <2>2 DEF InvRoles
<1>6. CASE UNCHANGED varsRegistro
  BY <1>1, <1>6 DEF varsRegistro, InvRoles, ConRazon
<1>7. QED
  BY <1>1, <1>2, <1>3, <1>4, <1>5, <1>6, PedirRazon DEF NextRegistro

LEMMA InitRazon == InitRegistro => InvRoles
<1> SUFFICES ASSUME InitRegistro PROVE InvRoles
  OBVIOUS
<1>1. /\ \A c \in Correos : ~ usuarios[c].alta
      /\ \A p \in Peticiones : peticiones[p] = Libre
  BY DEF InitRegistro, SinFila, Nombres
<1>2. QED
  BY <1>1, InitOrdenado, LibreSinRazon DEF InvRoles

\* However an administrator renames the role 'USUARIO' while people register, nobody who
\* registers with an e-mail gets an account without roles, and a login with Ciudadania
\* Digital leaves a new person without them only if the role was missing meanwhile.
THEOREM SinRolesSiempreConRazon == ~ ConNombre => (SpecRegistro => []SinRolesConRazon)
<1> SUFFICES ASSUME ~ ConNombre PROVE SpecRegistro => []SinRolesConRazon
  OBVIOUS
<1>1. InvRoles /\ [NextRegistro]_varsRegistro => InvRoles'
  BY NextRazon
<1>2. InvRoles => SinRolesConRazon
  BY DEF InvRoles, ConRazon, SinRolesConRazon, En
<1>3. QED
  BY <1>1, <1>2, InitRazon, PTL DEF SpecRegistro
=============================================================================
