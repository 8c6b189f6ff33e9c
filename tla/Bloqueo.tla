------------------------------- MODULE Bloqueo -------------------------------
(***************************************************************************)
(* Local login and its lockout: AuthenticationService.validarUsuario with   *)
(* verificarBloqueo and generarIntentoBloqueo, and the unlocking link of    *)
(* UsuarioService.desbloquearCuenta.                                        *)
(*                                                                         *)
(* validarUsuario decides everything from the row it read first (the fields *)
(* hash, intentos and fecha of the request), and writes it back with up to  *)
(* two separate UPDATE statements.                                          *)
(***************************************************************************)
EXTENDS TablaUsuarios

PcBloqueo == {"libre", "leido", "bloquear", "correoBloqueo", "comparar",
              "restaurarBloqueo", "contar", "desbloquear"}

\* The history counter stops growing past the limit: the properties only tell
\* whether it was exceeded.
Sumar(n) == IF n > WRONG_LOGIN_LIMIT THEN n ELSE n + 1

-----------------------------------------------------------------------------
\* Faulty variants of definitions below, each the slip that one property of
\* the runs is there to catch.  No action uses them.

EscribirBloqueoCruzado(u, c, fecha) ==   \* the two columns swapped
  usuarios' = [usuarios EXCEPT ![u] =
                 [@ EXCEPT !.codigoDesbloqueo = fecha, !.fechaBloqueo = c]]

EscribirBloqueoSinCodigo(u, c, fecha) == \* the lock without its code
  usuarios' = [usuarios EXCEPT ![u].fechaBloqueo = fecha]

DesbloquearSinContador(u) ==             \* the attempts are not reset
  usuarios' = [usuarios EXCEPT ![u] =
                 [@ EXCEPT !.fechaBloqueo = Nulo, !.codigoDesbloqueo = Nulo]]

DesbloquearSinFecha(u) ==                \* the lock date is not reset
  usuarios' = [usuarios EXCEPT ![u] =
                 [@ EXCEPT !.intentos = 0, !.codigoDesbloqueo = Nulo]]

BajoLimiteInclusive(n) == n <= WRONG_LOGIN_LIMIT

GenerarSinPlazo(p, c) ==                 \* the lock ends as it starts
  /\ peticiones[p].intentos >= WRONG_LOGIN_LIMIT
  /\ peticiones[p].fecha = Nulo
  /\ Nuevo(c)
  /\ Sigue(p, [peticiones[p] EXCEPT !.pc = "bloquear", !.codigo = c, !.fecha = reloj])

GenerarOtraVez(p, c) ==                  \* without looking for a lock first
  /\ peticiones[p].intentos >= WRONG_LOGIN_LIMIT
  /\ Nuevo(c)
  /\ Sigue(p, [peticiones[p] EXCEPT !.pc = "bloquear", !.codigo = c,
                                    !.fecha = reloj + MINUTES_LOGIN_LOCK])

TrasErrorSinReinicio(p) ==               \* an expired lock does not restart the count
  [Libre EXCEPT !.pc = "contar", !.u = peticiones[p].u,
                !.intentos = peticiones[p].intentos + 1]

-----------------------------------------------------------------------------
\* UPDATE usuarios SET codigo_desbloqueo, fecha_bloqueo WHERE id = u
EscribirBloqueo(u, c, fecha) ==
  usuarios' = [usuarios EXCEPT ![u] =
                 [@ EXCEPT !.codigoDesbloqueo = c, !.fechaBloqueo = fecha]]

\* UPDATE usuarios SET intentos WHERE id = u
EscribirContador(u, n) == usuarios' = [usuarios EXCEPT ![u].intentos = n]

\* the UPDATE of desbloquearCuenta
EscribirDesbloqueo(u) ==
  usuarios' = [usuarios EXCEPT ![u] =
                 [@ EXCEPT !.fechaBloqueo = Nulo, !.intentos = 0,
                           !.codigoDesbloqueo = Nulo]]

-----------------------------------------------------------------------------
\* The snapshot buscarUsuario leaves in the handler.
LeerUsuario(p, u, k) ==
  Sigue(p, [Libre EXCEPT !.pc = "leido", !.u = u, !.clave = k,
                         !.hash = usuarios[u].contrasena,
                         !.intentos = usuarios[u].intentos,
                         !.fecha = usuarios[u].fechaBloqueo])

\* validarUsuario admits a row that exists, has roles and is not PENDIENTE nor
\* INACTIVO.
Admitido(u) ==
  /\ u \in ConRol
  /\ usuarios[u].estado \notin {"AUSENTE", "PENDIENTE", "INACTIVO"}

\* The request reaches the database and reads a row it may go on with.
BuscarUsuario(p, u, k) ==
  /\ peticiones[p] = Libre
  /\ Admitido(u)
  /\ LeerUsuario(p, u, k)
  /\ UNCHANGED <<usuarios, reloj, entregados, erroneos>>

\* null, NO_PERMISSION_USER, PENDING_USER or INACTIVE_USER: nothing is written.
RechazarUsuario(p, u) ==
  /\ peticiones[p] = Libre
  /\ ~ Admitido(u)
  /\ UNCHANGED vars

BajoLimite(n) == n < WRONG_LOGIN_LIMIT

\* verificarBloqueo: the failed attempts read are below the limit, or the lock
\* read has run out.
VerificarPermitido(p) ==
  /\ En(p, "leido")
  /\ \/ BajoLimite(peticiones[p].intentos)
     \/ Vencida(peticiones[p].fecha)
  /\ Sigue(p, [peticiones[p] EXCEPT !.pc = "comparar"])
  /\ UNCHANGED <<usuarios, reloj, entregados, erroneos>>

Vigente(fecha) == fecha # Nulo /\ ~ Vencida(fecha)

\* verificarBloqueo: locked, USER_BLOCKED.
VerificarBloqueada(p) ==
  /\ En(p, "leido")
  /\ ~ BajoLimite(peticiones[p].intentos)
  /\ Vigente(peticiones[p].fecha)
  /\ Termina(p)
  /\ UNCHANGED <<usuarios, reloj, entregados, erroneos>>

\* the guard and the locals of the branch that starts a lock
Generar(p, c) ==
  /\ ~ BajoLimite(peticiones[p].intentos)
  /\ peticiones[p].fecha = Nulo
  /\ Nuevo(c)
  /\ Sigue(p, [peticiones[p] EXCEPT !.pc = "bloquear", !.codigo = c,
                                    !.fecha = reloj + MINUTES_LOGIN_LOCK])

\* verificarBloqueo: the limit is reached and no lock is set yet.
VerificarGenerar(p, c) ==
  /\ En(p, "leido")
  /\ Generar(p, c)
  /\ UNCHANGED <<usuarios, reloj, erroneos>>

ActualizarDatosBloqueo(p) ==
  /\ En(p, "bloquear")
  /\ SinCandado(p)
  /\ EscribirBloqueo(peticiones[p].u, peticiones[p].codigo, peticiones[p].fecha)
  /\ Sigue(p, [peticiones[p] EXCEPT !.pc = "correoBloqueo"])
  /\ UNCHANGED <<reloj, entregados, erroneos>>

\* This sendEmail is not caught: when it rejects, the request ends as in Abortar.
EnviarCorreoBloqueo(p) ==
  /\ En(p, "correoBloqueo")
  /\ Enviar(p)
  /\ Termina(p)
  /\ UNCHANGED <<usuarios, reloj, erroneos>>

-----------------------------------------------------------------------------
\* generarIntentoBloqueo: where a wrong password goes on.
TrasError(p) ==
  [Libre EXCEPT !.pc = IF Vencida(peticiones[p].fecha)
                       THEN "restaurarBloqueo" ELSE "contar",
                !.u = peticiones[p].u,
                !.intentos = IF Vencida(peticiones[p].fecha)
                             THEN 1 ELSE peticiones[p].intentos + 1]

CompararErronea(p) ==
  /\ En(p, "comparar")
  /\ peticiones[p].clave # peticiones[p].hash
  /\ Sigue(p, TrasError(p))
  /\ erroneos' = [erroneos EXCEPT ![peticiones[p].u] =
                    IF Vencida(peticiones[p].fecha) THEN 1 ELSE Sumar(@)]
  /\ UNCHANGED <<usuarios, reloj, entregados>>

\* The password is right: the counter goes back to 0 if the one read was not.
\* codigoDesbloqueo and fechaBloqueo stay as they are.
CompararCorrecta(p) ==
  /\ En(p, "comparar")
  /\ peticiones[p].clave = peticiones[p].hash
  /\ IF peticiones[p].intentos > 0
     THEN /\ Sigue(p, [Libre EXCEPT !.pc = "contar", !.u = peticiones[p].u])
          /\ UNCHANGED erroneos
     ELSE /\ Termina(p)
          /\ erroneos' = [erroneos EXCEPT ![peticiones[p].u] = 0]
  /\ UNCHANGED <<usuarios, reloj, entregados>>

RestaurarDatosBloqueo(p) ==
  /\ En(p, "restaurarBloqueo")
  /\ SinCandado(p)
  /\ EscribirBloqueo(peticiones[p].u, Nulo, Nulo)
  /\ Sigue(p, [peticiones[p] EXCEPT !.pc = "contar"])
  /\ UNCHANGED <<reloj, entregados, erroneos>>

ActualizarContadorBloqueos(p) ==
  /\ En(p, "contar")
  /\ SinCandado(p)
  /\ EscribirContador(peticiones[p].u, peticiones[p].intentos)
  /\ erroneos' = [erroneos EXCEPT ![peticiones[p].u] =
                    IF peticiones[p].intentos = 0 THEN 0 ELSE @]
  /\ Termina(p)
  /\ UNCHANGED <<reloj, entregados>>

-----------------------------------------------------------------------------
\* desbloquearCuenta with a code that came by mail.  A code of no row, or of a
\* row with no lock, changes nothing.
BuscarPorCodigoDesbloqueo(p, c) ==
  /\ peticiones[p] = Libre
  /\ c \in entregados
  /\ \E u \in Usuarios :
       /\ usuarios[u].codigoDesbloqueo = c
       /\ usuarios[u].fechaBloqueo # Nulo
       /\ Sigue(p, [Libre EXCEPT !.pc = "desbloquear", !.u = u])
  /\ UNCHANGED <<usuarios, reloj, entregados, erroneos>>

Desbloquear(p) ==
  /\ En(p, "desbloquear")
  /\ SinCandado(p)
  /\ EscribirDesbloqueo(peticiones[p].u)
  /\ erroneos' = [erroneos EXCEPT ![peticiones[p].u] = 0]
  /\ Termina(p)
  /\ UNCHANGED <<reloj, entregados>>

-----------------------------------------------------------------------------
\* what a request in progress does next without anybody's help
ContinuarBloqueo(p) ==
  \/ VerificarPermitido(p)
  \/ VerificarBloqueada(p)
  \/ \E c \in Aleatorios : VerificarGenerar(p, c)
  \/ ActualizarDatosBloqueo(p)
  \/ EnviarCorreoBloqueo(p)
  \/ CompararErronea(p)
  \/ CompararCorrecta(p)
  \/ RestaurarDatosBloqueo(p)
  \/ ActualizarContadorBloqueos(p)
  \/ Desbloquear(p)

\* what people start
PedirBloqueo(p, claves) ==
  \/ \E u \in Usuarios, k \in claves : BuscarUsuario(p, u, k)
  \/ \E u \in Usuarios : RechazarUsuario(p, u)
  \/ \E c \in Aleatorios : BuscarPorCodigoDesbloqueo(p, c)

Next ==
  \/ Tick
  \/ \E p \in Peticiones :
       PedirBloqueo(p, Claves) \/ ContinuarBloqueo(p) \/ Abortar(p)

\* Rows as the seeds and the registrations leave them: the counter at its
\* default and no lock.
Init ==
  /\ usuarios \in [Usuarios -> {FilaNueva("AUSENTE", Nulo)} \cup
                     {FilaNueva(e, k) : e \in Estados \ {"AUSENTE"}, k \in Claves}]
  /\ peticiones = [p \in Peticiones |-> Libre]
  /\ reloj = 0
  /\ entregados = {}
  /\ erroneos = [u \in Usuarios |-> 0]

Spec == Init /\ [][Next]_vars

\* Node resumes every handler whose await settled: each request in progress
\* goes on.  Nothing obliges people to send requests.
SpecJusta == Spec /\ \A p \in Peticiones : WF_vars(ContinuarBloqueo(p))

\* One request at a time per account.
SpecSerie == Init /\ [][Next /\ Serie']_vars

-----------------------------------------------------------------------------
TypeOK == Tipos(PcBloqueo)

\* No interleaving of logins makes the stored counter pass the limit: the
\* read that lets a handler compare and the UPDATE that adds one are steps of
\* different times, and an expired lock restarts the count at 1.
IntentosAcotados ==
  \A u \in Usuarios : usuarios[u].intentos <= WRONG_LOGIN_LIMIT

\* When no await fails, an account with a lock always has a way out: its row
\* holds an unlocking code that came by mail, or that a handler is about to send,
\* even when two requests locked the account at the same time and the second
\* one overwrote the code of the first.
BloqueoConSalida ==
  \A u \in Usuarios :
     usuarios[u].fechaBloqueo # Nulo =>
       LET c == usuarios[u].codigoDesbloqueo IN
         \/ c \in entregados
         \/ \E p \in Peticiones : En(p, "correoBloqueo") /\ peticiones[p].codigo = c

\* Every unlocking code stored reaches its owner, unless it is replaced or
\* erased first.
CodigoLlega ==
  \A u \in Usuarios, c \in Aleatorios :
     usuarios[u].codigoDesbloqueo = c
       ~> (c \in entregados \/ usuarios[u].codigoDesbloqueo # c)

\* WRONG_LOGIN_LIMIT wrong passwords, and no more, are compared before a fresh
\* start (a right one, the unlocking link, the end of a lock).
LimiteErroneos == \A u \in Usuarios : erroneos[u] <= WRONG_LOGIN_LIMIT

\* While the lock of an account has time left, the counter that makes
\* verificarBloqueo look at it is at the limit: nobody logs in.
BloqueoEfectivo ==
  \A u \in Usuarios :
     Vigente(usuarios[u].fechaBloqueo) => usuarios[u].intentos >= WRONG_LOGIN_LIMIT

\* An account is locked only because of WRONG_LOGIN_LIMIT wrong passwords since
\* its last fresh start: neither a lock that ran out nor the unlocking link
\* leaves anything behind that locks it again sooner.
BloqueoMerecido ==
  \A u \in Usuarios :
     Vigente(usuarios[u].fechaBloqueo) => erroneos[u] >= WRONG_LOGIN_LIMIT

\* A lock that has started is not prolonged: only the unlocking link or its own
\* end makes room for another one.
BloqueoNoSeExtiende ==
  [][\A u \in Usuarios :
       Vigente(usuarios[u].fechaBloqueo)
         => usuarios'[u].fechaBloqueo \in {usuarios[u].fechaBloqueo, Nulo}]_vars
-----------------------------------------------------------------------------
\* The lockout as one promises it (BloqueoAbs): the lock is in force from the
\* moment verificarBloqueo computes it until it is lifted, and the attempts are
\* the wrong passwords, not the column.
EnPaso(u, pc) == \E p \in Peticiones : En(p, pc) /\ peticiones[p].u = u

Hasta(u) ==
  IF EnPaso(u, "bloquear")
  THEN peticiones[CHOOSE p \in Peticiones : En(p, "bloquear") /\ peticiones[p].u = u].fecha
  ELSE IF erroneos[u] < WRONG_LOGIN_LIMIT \/ EnPaso(u, "restaurarBloqueo")
  THEN Nulo
  ELSE usuarios[u].fechaBloqueo

Abs == INSTANCE BloqueoAbs WITH
         fallos <- erroneos,
         hasta  <- [u \in Usuarios |-> Hasta(u)]

\* Served one at a time and without failures, the handlers implement that
\* lockout: no wrong password is missed, none is compared while locked.
ImplementaBloqueo == Abs!Spec
=============================================================================
