------------------------------- MODULE Cuenta --------------------------------
(***************************************************************************)
(* The life of an account in UsuarioService: self-registration and its      *)
(* activation link, activation and inactivation by an administrator,        *)
(* recovery of a forgotten password, change and reset of the password.      *)
(*                                                                         *)
(* crearCuenta, restaurarContrasena and reenviarCorreoActivacion write, send *)
(* the mail and only then commit; the others write first and mail later.    *)
(***************************************************************************)
EXTENDS TablaUsuarios

PcCuenta == {"libre", "insertar", "correoCuenta", "confirmarCuenta",
             "activarCuenta", "recuperar", "correoRecuperar", "validar",
             "releerTransaccion", "nuevaContrasena", "activar", "correoActivar",
             "inactivar", "cambiar", "restaurar", "correoRestaurar",
             "confirmarRestaurar", "reenviar", "correoReenviar",
             "confirmarReenviar"}

Quieto == UNCHANGED <<reloj, erroneos>>

\* A request starts: it has read row u and goes to await pc with these locals.
Empieza(p, pc, u, clave, codigo) ==
  /\ peticiones[p] = Libre
  /\ Sigue(p, [Libre EXCEPT !.pc = pc, !.u = u, !.clave = clave, !.codigo = codigo])

\* and goes on from one await to the next
Pasa(p, de, a) == En(p, de) /\ Sigue(p, [peticiones[p] EXCEPT !.pc = a])

Acaba(p, de) == En(p, de) /\ Termina(p)

-----------------------------------------------------------------------------
\* Faulty variants of definitions below, each the slip that one property of
\* the runs is there to catch.  No action uses them.

EscribirRecuperadaSinTransaccion(u, clave) ==  \* the second code survives
  usuarios' = [usuarios EXCEPT ![u] =
                 [@ EXCEPT !.fechaBloqueo = Nulo, !.intentos = 0,
                           !.codigoDesbloqueo = Nulo,
                           !.codigoRecuperacion = Nulo,
                           !.contrasena = clave, !.estado = "ACTIVO"]]

EscribirRecuperadaSinFecha(u, clave) ==        \* the lock survives the counter
  usuarios' = [usuarios EXCEPT ![u] =
                 [@ EXCEPT !.intentos = 0,
                           !.codigoDesbloqueo = Nulo,
                           !.codigoTransaccion = Nulo,
                           !.codigoRecuperacion = Nulo,
                           !.contrasena = clave, !.estado = "ACTIVO"]]

FilaPendienteSinCodigo(clave, codigo) == FilaNueva("PENDIENTE", clave)

FilaPendienteCruzada(clave, codigo) ==         \* the two columns swapped
  [FilaNueva("PENDIENTE", codigo) EXCEPT !.codigoActivacion = clave]

CorreoActivarOlvidado(p) ==                    \* activar ends without the mail
  /\ Acaba(p, "correoActivar")
  /\ UNCHANGED <<usuarios, entregados>> /\ Quieto

-----------------------------------------------------------------------------
\* The UPDATEs.

EscribirRecuperada(u, clave) ==
  usuarios' = [usuarios EXCEPT ![u] =
                 [@ EXCEPT !.fechaBloqueo = Nulo, !.intentos = 0,
                           !.codigoDesbloqueo = Nulo,
                           !.codigoTransaccion = Nulo,
                           !.codigoRecuperacion = Nulo,
                           !.contrasena = clave, !.estado = "ACTIVO"]]

EscribirActiva(u, clave) ==
  usuarios' = [usuarios EXCEPT ![u] = [@ EXCEPT !.contrasena = clave, !.estado = "ACTIVO"]]

EscribirActivada(u) ==
  usuarios' = [usuarios EXCEPT ![u] =
                 [@ EXCEPT !.estado = "ACTIVO", !.codigoActivacion = Nulo]]

FilaPendiente(clave, codigo) ==
  [FilaNueva("PENDIENTE", clave) EXCEPT !.codigoActivacion = codigo]

-----------------------------------------------------------------------------
\* crearCuenta: nobody has that usuario or correo yet.
CrearCuenta(p, u, k) ==
  /\ usuarios[u].estado = "AUSENTE"
  /\ Empieza(p, "insertar", u, k, Nulo)
  /\ UNCHANGED <<usuarios, entregados>> /\ Quieto

\* The transaction inserts the row and its activation code.  "usuario" is
\* UNIQUE: an INSERT waits for another one of the same value in progress.
InsertarCuenta(p, c) ==
  /\ En(p, "insertar")
  /\ SinCandado(p)
  /\ usuarios[peticiones[p].u].estado = "AUSENTE"
  /\ Nuevo(c)
  /\ Sigue(p, [peticiones[p] EXCEPT !.pc = "correoCuenta", !.codigo = c])
  /\ UNCHANGED usuarios /\ Quieto

\* and fails if that one was committed.
InsertarRepetida(p) ==
  /\ Acaba(p, "insertar")
  /\ SinCandado(p)
  /\ usuarios[peticiones[p].u].estado # "AUSENTE"
  /\ UNCHANGED <<usuarios, entregados>> /\ Quieto

EnviarCorreoCuenta(p) ==
  /\ Pasa(p, "correoCuenta", "confirmarCuenta")
  /\ EnviarOSeguir(p)
  /\ UNCHANGED usuarios /\ Quieto

ConfirmarCuenta(p) ==
  /\ Acaba(p, "confirmarCuenta")
  /\ usuarios' = [usuarios EXCEPT ![peticiones[p].u] =
                    FilaPendiente(peticiones[p].clave, peticiones[p].codigo)]
  /\ UNCHANGED entregados /\ Quieto

-----------------------------------------------------------------------------
\* activarCuenta: whoever follows the link of an activation mail.
BuscarPorCodigoActivacion(p, c) ==
  /\ c \in entregados
  /\ \E u \in Usuarios : usuarios[u].codigoActivacion = c
                         /\ Empieza(p, "activarCuenta", u, Nulo, Nulo)
  /\ UNCHANGED <<usuarios, entregados>> /\ Quieto

ActivarCuenta(p) ==
  /\ Acaba(p, "activarCuenta")
  /\ SinCandado(p)
  /\ EscribirActivada(peticiones[p].u)
  /\ UNCHANGED entregados /\ Quieto

-----------------------------------------------------------------------------
\* recuperarCuenta: in any estado.
RecuperarCuenta(p, u, c) ==
  /\ usuarios[u].estado # "AUSENTE"
  /\ Empieza(p, "recuperar", u, Nulo, c)
  /\ Nuevo(c)
  /\ UNCHANGED usuarios /\ Quieto

ActualizarDatosRecuperacion(p) ==
  /\ Pasa(p, "recuperar", "correoRecuperar")
  /\ SinCandado(p)
  /\ usuarios' = [usuarios EXCEPT ![peticiones[p].u].codigoRecuperacion =
                    peticiones[p].codigo]
  /\ UNCHANGED entregados /\ Quieto

EnviarCorreoRecuperacion(p) ==
  /\ Acaba(p, "correoRecuperar")
  /\ EnviarOSeguir(p)
  /\ UNCHANGED usuarios /\ Quieto

\* validarRecuperar: the code of the recovery mail is exchanged for a second
\* one.  The recovery code itself is left in the row.
BuscarPorCodigoRecuperacion(p, c, t) ==
  /\ c \in entregados
  /\ \E u \in Usuarios : usuarios[u].codigoRecuperacion = c
                         /\ Empieza(p, "validar", u, Nulo, t)
  /\ Nuevo(t)
  /\ UNCHANGED usuarios /\ Quieto

ActualizarDatosTransaccion(p) ==
  /\ Pasa(p, "validar", "releerTransaccion")
  /\ SinCandado(p)
  /\ usuarios' = [usuarios EXCEPT ![peticiones[p].u].codigoTransaccion =
                    peticiones[p].codigo]
  /\ UNCHANGED entregados /\ Quieto

\* The answer carries what the row holds by then.
ResponderTransaccion(p) ==
  /\ Acaba(p, "releerTransaccion")
  /\ entregados' = entregados \cup ({usuarios[peticiones[p].u].codigoTransaccion} \ {Nulo})
  /\ UNCHANGED usuarios /\ Quieto

\* nuevaContrasenaTransaccion, with a new password of enough level (the others
\* are refused before anything is written).
BuscarPorCodigoTransaccion(p, t, k) ==
  /\ t \in entregados
  /\ \E u \in Usuarios : usuarios[u].codigoTransaccion = t
                         /\ Empieza(p, "nuevaContrasena", u, k, Nulo)
  /\ UNCHANGED <<usuarios, entregados>> /\ Quieto

NuevaContrasenaTransaccion(p) ==
  /\ Acaba(p, "nuevaContrasena")
  /\ SinCandado(p)
  /\ EscribirRecuperada(peticiones[p].u, peticiones[p].clave)
  /\ erroneos' = [erroneos EXCEPT ![peticiones[p].u] = 0]
  /\ UNCHANGED <<entregados, reloj>>

-----------------------------------------------------------------------------
\* activar: an administrator, with a new random password.
Activar(p, u, c) ==
  /\ usuarios[u].estado \in {"CREADO", "INACTIVO", "PENDIENTE"}
  /\ Empieza(p, "activar", u, Nulo, c)
  /\ Nuevo(c)
  /\ UNCHANGED usuarios /\ Quieto

ActualizarActiva(p) ==
  /\ Pasa(p, "activar", "correoActivar")
  /\ SinCandado(p)
  /\ EscribirActiva(peticiones[p].u, peticiones[p].codigo)
  /\ UNCHANGED entregados /\ Quieto

EnviarCorreoActivar(p) ==
  /\ Acaba(p, "correoActivar")
  /\ EnviarOSeguir(p)
  /\ UNCHANGED usuarios /\ Quieto

\* inactivar: an administrator, whatever the estado.
Inactivar(p, u) ==
  /\ usuarios[u].estado # "AUSENTE"
  /\ Empieza(p, "inactivar", u, Nulo, Nulo)
  /\ UNCHANGED <<usuarios, entregados>> /\ Quieto

ActualizarInactiva(p) ==
  /\ Acaba(p, "inactivar")
  /\ SinCandado(p)
  /\ usuarios' = [usuarios EXCEPT ![peticiones[p].u].estado = "INACTIVO"]
  /\ UNCHANGED entregados /\ Quieto

-----------------------------------------------------------------------------
\* actualizarContrasena: the owner, with an access token from an earlier login
\* (a PENDIENTE account never had one) and the current password.
ActualizarContrasena(p, u, actual, nueva) ==
  /\ usuarios[u].estado \notin {"AUSENTE", "PENDIENTE"}
  /\ actual = usuarios[u].contrasena
  /\ Empieza(p, "cambiar", u, nueva, Nulo)
  /\ UNCHANGED <<usuarios, entregados>> /\ Quieto

CambiarContrasena(p) ==
  /\ Acaba(p, "cambiar")
  /\ SinCandado(p)
  /\ EscribirActiva(peticiones[p].u, peticiones[p].clave)
  /\ UNCHANGED entregados /\ Quieto

-----------------------------------------------------------------------------
\* restaurarContrasena: an administrator; UPDATE, mail and commit in one
\* transaction.
RestaurarContrasena(p, u, c) ==
  /\ usuarios[u].estado \in {"ACTIVO", "PENDIENTE"}
  /\ Empieza(p, "restaurar", u, Nulo, c)
  /\ Nuevo(c)
  /\ UNCHANGED usuarios /\ Quieto

ActualizarRestaurada(p) ==
  /\ Pasa(p, "restaurar", "correoRestaurar")
  /\ SinCandado(p)
  /\ UNCHANGED <<usuarios, entregados>> /\ Quieto

EnviarCorreoRestaurar(p) ==
  /\ Pasa(p, "correoRestaurar", "confirmarRestaurar")
  /\ EnviarOSeguir(p)
  /\ UNCHANGED usuarios /\ Quieto

ConfirmarRestaurar(p) ==
  /\ Acaba(p, "confirmarRestaurar")
  /\ usuarios' = [usuarios EXCEPT ![peticiones[p].u].contrasena = peticiones[p].codigo]
  /\ UNCHANGED entregados /\ Quieto

\* reenviarCorreoActivacion: a new activation code, the same way.
ReenviarCorreoActivacion(p, u, c) ==
  /\ usuarios[u].estado = "PENDIENTE"
  /\ Empieza(p, "reenviar", u, Nulo, c)
  /\ Nuevo(c)
  /\ UNCHANGED usuarios /\ Quieto

ActualizarDatosActivacion(p) ==
  /\ Pasa(p, "reenviar", "correoReenviar")
  /\ SinCandado(p)
  /\ UNCHANGED <<usuarios, entregados>> /\ Quieto

EnviarCorreoReenviar(p) ==
  /\ Pasa(p, "correoReenviar", "confirmarReenviar")
  /\ EnviarOSeguir(p)
  /\ UNCHANGED usuarios /\ Quieto

ConfirmarReenviar(p) ==
  /\ Acaba(p, "confirmarReenviar")
  /\ usuarios' = [usuarios EXCEPT ![peticiones[p].u].codigoActivacion = peticiones[p].codigo]
  /\ UNCHANGED entregados /\ Quieto

-----------------------------------------------------------------------------
ContinuarCuenta(p) ==
  \/ \E c \in Aleatorios : InsertarCuenta(p, c)
  \/ InsertarRepetida(p) \/ EnviarCorreoCuenta(p) \/ ConfirmarCuenta(p)
  \/ ActivarCuenta(p)
  \/ ActualizarDatosRecuperacion(p) \/ EnviarCorreoRecuperacion(p)
  \/ ActualizarDatosTransaccion(p) \/ ResponderTransaccion(p)
  \/ NuevaContrasenaTransaccion(p)
  \/ ActualizarActiva(p) \/ EnviarCorreoActivar(p)
  \/ ActualizarInactiva(p) \/ CambiarContrasena(p)
  \/ ActualizarRestaurada(p) \/ EnviarCorreoRestaurar(p) \/ ConfirmarRestaurar(p)
  \/ ActualizarDatosActivacion(p) \/ EnviarCorreoReenviar(p) \/ ConfirmarReenviar(p)

PedirCuenta(p) ==
  \/ \E u \in Usuarios, k \in Claves : CrearCuenta(p, u, k)
  \/ \E c \in Aleatorios : BuscarPorCodigoActivacion(p, c)
  \/ \E u \in Usuarios, c \in Aleatorios : RecuperarCuenta(p, u, c)
  \/ \E c, t \in Aleatorios : BuscarPorCodigoRecuperacion(p, c, t)
  \/ \E t \in Aleatorios, k \in Claves : BuscarPorCodigoTransaccion(p, t, k)
  \/ \E u \in Usuarios, c \in Aleatorios : Activar(p, u, c)
  \/ \E u \in Usuarios : Inactivar(p, u)
  \/ \E u \in Usuarios, actual \in Claves \cup entregados, nueva \in Claves :
       ActualizarContrasena(p, u, actual, nueva)
  \/ \E u \in Usuarios, c \in Aleatorios : RestaurarContrasena(p, u, c)
  \/ \E u \in Usuarios, c \in Aleatorios : ReenviarCorreoActivacion(p, u, c)
=============================================================================
