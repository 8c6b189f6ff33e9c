------------------------------- MODULE Sesion --------------------------------
(***************************************************************************)
(* The session of a browser: the refresh tokens of RefreshTokensService     *)
(* (create, createAccessToken with its rotation, removeByid and the cron    *)
(* job eliminarCaducos), the cookie "jid" that the controllers set and      *)
(* clear, and the estado of the account.                                    *)
(*                                                                         *)
(* The tabs of a browser share its cookie and their requests overlap; an    *)
(* answer sets the cookie when it arrives, not when it was computed.        *)
(***************************************************************************)
EXTENDS Naturals

CONSTANTS
  Usuarios,
  Navegadores,
  Ids,         \* values of generateNanoId
  Peticiones,  \* slots for requests served at the same time
  Nulo,
  REFRESH_TOKEN_EXPIRES_IN,
  REFRESH_TOKEN_ROTATE_IN,
  MaxReloj,    \* bound: the clock stops here
  Fallos       \* whether an await may fail

ASSUME DuracionSupuesta == REFRESH_TOKEN_EXPIRES_IN \in Nat /\ REFRESH_TOKEN_ROTATE_IN \in Nat
ASSUME RelojSesionSupuesto == MaxReloj \in Nat
ASSUME FallosSesionSupuesto == Fallos \in BOOLEAN
ASSUME NuloSesionSupuesto == Nulo \notin Usuarios \cup Navegadores \cup Ids

VARIABLES
  refreshTokens,  \* the table, with the rows already deleted
  estado,         \* usuarios.estado
  jid,            \* the cookie of each browser
  peticiones,
  reloj,
  salidas         \* history: the tokens that somebody asked to delete

varsSesion == <<refreshTokens, estado, jid, peticiones, reloj, salidas>>

-----------------------------------------------------------------------------
\* A row; "viva" is FALSE before it is inserted and after it is deleted.
Fila == [grantId : Usuarios \cup {Nulo}, expiresAt : Nat, viva : BOOLEAN]

SinFila == [grantId |-> Nulo, expiresAt |-> 0, viva |-> FALSE]

Pcs == {"libre", "crear", "responder", "findById", "buscarUsuarioId",
        "buscarSalida", "eliminar", "salida"}

Libre == [pc |-> "libre", b |-> Nulo, u |-> Nulo, id |-> Nulo, leido |-> 0,
          nuevo |-> Nulo, firmado |-> 0]

EnCurso(p) == peticiones[p].pc # "libre"
En(p, pc) == peticiones[p].pc = pc
Sigue(p, peticion) == peticiones' = [peticiones EXCEPT ![p] = peticion]
Termina(p) == Sigue(p, Libre)

\* An id of no row, no cookie and no request stands for a fresh one.
EnUso == {id \in Ids : refreshTokens[id].viva}
         \cup {jid[b] : b \in Navegadores}
         \cup (UNION {{peticiones[p].id, peticiones[p].nuevo} : p \in Peticiones})

-----------------------------------------------------------------------------
\* Faulty variants of definitions below, each the slip that one property of
\* the runs is there to catch.  No action uses them.

RotarAlReves(leido) == leido >= reloj + REFRESH_TOKEN_ROTATE_IN

CaducosInvertidos(fila) == fila.viva /\ fila.expiresAt > reloj  \* the fresh ones

FilaConIat(u) ==                                   \* the date where the owner goes
  [grantId |-> reloj, expiresAt |-> reloj + REFRESH_TOKEN_EXPIRES_IN, viva |-> TRUE]

-----------------------------------------------------------------------------
FilaNueva(u) ==
  [grantId |-> u, expiresAt |-> reloj + REFRESH_TOKEN_EXPIRES_IN, viva |-> TRUE]

Vigente(fila) == fila.viva /\ reloj < fila.expiresAt

\* expiresAt - now < REFRESH_TOKEN_ROTATE_IN (sigueVigente, in the code)
Rotar(leido) == leido < reloj + REFRESH_TOKEN_ROTATE_IN

Caduco(fila) == fila.viva /\ fila.expiresAt < reloj

-----------------------------------------------------------------------------
\* A login that validarUsuario or validarOCrearUsuarioOidc let through.
Autenticar(p, b, u) ==
  /\ peticiones[p] = Libre
  /\ estado[u] # "INACTIVO"
  /\ Sigue(p, [Libre EXCEPT !.pc = "crear", !.b = b, !.u = u, !.firmado = reloj])
  /\ UNCHANGED <<refreshTokens, estado, jid, reloj, salidas>>

Create(p, id) ==
  /\ En(p, "crear")
  /\ id \notin EnUso
  /\ refreshTokens' = [refreshTokens EXCEPT
                         ![id] = FilaNueva(peticiones[p].u)]
  /\ Sigue(p, [peticiones[p] EXCEPT !.pc = "responder", !.nuevo = id])
  /\ salidas' = salidas \ {id}
  /\ UNCHANGED <<estado, jid, reloj>>

\* The answer arrives; it sets the cookie if it brings a new token.
Responder(p) ==
  LET r == peticiones[p] IN
    /\ En(p, "responder")
    /\ jid' = IF r.nuevo = Nulo THEN jid ELSE [jid EXCEPT ![r.b] = r.nuevo]
    /\ Termina(p)
    /\ UNCHANGED <<refreshTokens, estado, reloj, salidas>>

-----------------------------------------------------------------------------
\* POST /token
PedirToken(p, b) ==
  /\ peticiones[p] = Libre
  /\ jid[b] # Nulo
  /\ Sigue(p, [Libre EXCEPT !.pc = "findById", !.b = b, !.id = jid[b]])
  /\ UNCHANGED <<refreshTokens, estado, jid, reloj, salidas>>

\* Not found: "Sesion finalizada". Expired: "Sesion expirada por inactividad".
FindById(p) ==
  LET fila == refreshTokens[peticiones[p].id] IN
    /\ En(p, "findById")
    /\ IF Vigente(fila)
       THEN Sigue(p, [peticiones[p] EXCEPT !.pc = "buscarUsuarioId",
                                           !.u = fila.grantId,
                                           !.leido = fila.expiresAt])
       ELSE Termina(p)
    /\ UNCHANGED <<refreshTokens, estado, jid, reloj, salidas>>

\* The access token is signed, and whether to rotate is decided, once the user
\* was read; the estado read is not looked at.
BuscarUsuarioId(p) ==
  /\ En(p, "buscarUsuarioId")
  /\ Sigue(p, [peticiones[p] EXCEPT
                 !.pc = IF Rotar(peticiones[p].leido) THEN "crear" ELSE "responder",
                 !.firmado = reloj])
  /\ UNCHANGED <<refreshTokens, estado, jid, reloj, salidas>>

-----------------------------------------------------------------------------
\* GET /logout and DELETE /:id: removeByid, two statements.
PedirSalida(p, b) ==
  /\ peticiones[p] = Libre
  /\ jid[b] # Nulo
  /\ Sigue(p, [Libre EXCEPT !.pc = "buscarSalida", !.b = b, !.id = jid[b]])
  /\ UNCHANGED <<refreshTokens, estado, jid, reloj, salidas>>

\* Whoever names a token has it from a cookie; the answer has none to clear.
PedirEliminar(p, b) ==
  /\ peticiones[p] = Libre
  /\ jid[b] # Nulo
  /\ Sigue(p, [Libre EXCEPT !.pc = "buscarSalida", !.id = jid[b]])
  /\ UNCHANGED <<refreshTokens, estado, jid, reloj, salidas>>

BuscarSalida(p) ==
  /\ En(p, "buscarSalida")
  /\ Sigue(p, [peticiones[p] EXCEPT
        !.pc = IF refreshTokens[peticiones[p].id].viva THEN "eliminar" ELSE "salida"])
  /\ UNCHANGED <<refreshTokens, estado, jid, reloj, salidas>>

Eliminar(p) ==
  /\ En(p, "eliminar")
  /\ refreshTokens' = [refreshTokens EXCEPT ![peticiones[p].id].viva = FALSE]
  /\ Sigue(p, [peticiones[p] EXCEPT !.pc = "salida"])
  /\ salidas' = salidas \cup {peticiones[p].id}
  /\ UNCHANGED <<estado, jid, reloj>>

\* The answer of a logout clears the cookie, whichever it is by then.
ResponderSalida(p) ==
  /\ En(p, "salida")
  /\ jid' = [b \in Navegadores |-> IF b = peticiones[p].b THEN Nulo ELSE jid[b]]
  /\ Termina(p)
  /\ UNCHANGED <<refreshTokens, estado, reloj, salidas>>

-----------------------------------------------------------------------------
\* The cron job
EliminarCaducos ==
  /\ \E id \in Ids : Caduco(refreshTokens[id])
  /\ refreshTokens' = [id \in Ids |->
       IF Caduco(refreshTokens[id])
       THEN [refreshTokens[id] EXCEPT !.viva = FALSE] ELSE refreshTokens[id]]
  /\ UNCHANGED <<estado, jid, peticiones, reloj, salidas>>

\* UsuarioService.inactivar and activar, on the estado alone.
CambiarEstado(u) ==
  /\ estado' = [estado EXCEPT ![u] = IF @ = "ACTIVO" THEN "INACTIVO" ELSE "ACTIVO"]
  /\ UNCHANGED <<refreshTokens, jid, peticiones, reloj, salidas>>

Tick ==
  /\ reloj < MaxReloj
  /\ reloj' = reloj + 1
  /\ UNCHANGED <<refreshTokens, estado, jid, peticiones, salidas>>

Abortar(p) ==
  /\ Fallos
  /\ EnCurso(p)
  /\ Termina(p)
  /\ UNCHANGED <<refreshTokens, estado, jid, reloj, salidas>>

-----------------------------------------------------------------------------
Pedir(p) ==
  \E b \in Navegadores :
    \/ \E u \in Usuarios : Autenticar(p, b, u)
    \/ PedirToken(p, b)
    \/ PedirSalida(p, b)
    \/ PedirEliminar(p, b)

Continuar(p) ==
  \/ \E id \in Ids : Create(p, id)
  \/ Responder(p) \/ FindById(p) \/ BuscarUsuarioId(p)
  \/ BuscarSalida(p) \/ Eliminar(p) \/ ResponderSalida(p)

NextSesion ==
  \/ Tick
  \/ EliminarCaducos
  \/ \E u \in Usuarios : CambiarEstado(u)
  \/ \E p \in Peticiones : Pedir(p) \/ Continuar(p) \/ Abortar(p)

InitSesion ==
  /\ refreshTokens = [id \in Ids |-> SinFila]
  /\ estado = [u \in Usuarios |-> "ACTIVO"]
  /\ jid = [b \in Navegadores |-> Nulo]
  /\ peticiones = [p \in Peticiones |-> Libre]
  /\ reloj = 0
  /\ salidas = {}

SpecSesion == InitSesion /\ [][NextSesion]_varsSesion

-----------------------------------------------------------------------------
TypeOKSesion ==
  /\ refreshTokens \in [Ids -> Fila]
  /\ estado \in [Usuarios -> {"ACTIVO", "INACTIVO"}]
  /\ jid \in [Navegadores -> Ids \cup {Nulo}]
  /\ peticiones \in [Peticiones ->
       [pc : Pcs, b : Navegadores \cup {Nulo}, u : Usuarios \cup {Nulo},
        id : Ids \cup {Nulo}, leido : Nat, nuevo : Ids \cup {Nulo}, firmado : Nat]]
  /\ reloj \in 0..MaxReloj
  /\ salidas \subseteq Ids

Minimo(a, b) == IF a <= b THEN a ELSE b

\* Whoever is answered by POST /token holds a token that lasts, from the moment
\* the answer was computed, at least the rotation window (or a whole life, if
\* that is shorter): asking again within that time, the session never ends by
\* itself.  The cron job running in between does not matter.
SesionConservada ==
  \A p \in Peticiones :
    LET r == peticiones[p]
        alcance == r.firmado + Minimo(REFRESH_TOKEN_ROTATE_IN, REFRESH_TOKEN_EXPIRES_IN) IN
      En(p, "responder") =>
        IF r.nuevo = Nulo THEN r.leido >= alcance
        ELSE /\ refreshTokens[r.nuevo].expiresAt >= alcance
             /\ refreshTokens[r.nuevo].viva \/ refreshTokens[r.nuevo].expiresAt < reloj

\* The cookie of a browser names a token that exists, unless it expired or
\* somebody asked to delete that very token: neither the cron job, nor a rotation asked
\* for by another tab, nor a request that died half-way leaves a browser with a
\* dead cookie while it could have gone on.
CookieViva ==
  \A b \in Navegadores :
    jid[b] # Nulo =>
      \/ refreshTokens[jid[b]].viva
      \/ refreshTokens[jid[b]].expiresAt < reloj
      \/ jid[b] \in salidas
=============================================================================
