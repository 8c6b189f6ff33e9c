---------------------------- MODULE TablaUsuarios ----------------------------
(***************************************************************************)
(* The state the handlers of AuthenticationService and UsuarioService       *)
(* share: the rows of the table "usuarios", the clock, the mails that       *)
(* arrived, and one record per HTTP request being served.                   *)
(*                                                                         *)
(* A handler is an async function: it gives way at every await, so each     *)
(* SQL statement, each mail and each stretch of JavaScript between two      *)
(* awaits is a step of its own and the requests interleave between them.    *)
(* The identifiers are those of the source, in its own Spanish.             *)
(***************************************************************************)
EXTENDS Naturals

CONSTANTS
  Usuarios,            \* ids of the rows of the table
  ConRol,              \* those with at least one row in usuarios_roles
  Peticiones,          \* slots for requests served at the same time
  Claves,              \* passwords that people type
  Aleatorios,          \* values of generateUuid and generateShortRandomText
  Nulo,                \* SQL NULL
  WRONG_LOGIN_LIMIT,   \* Configurations.WRONG_LOGIN_LIMIT
  MINUTES_LOGIN_LOCK,  \* Configurations.MINUTES_LOGIN_LOCK, in clock ticks
  MaxReloj,            \* bound: the clock stops here
  Fallos               \* whether an await may fail (database, mail or process)

ASSUME ConRolSupuesto == ConRol \subseteq Usuarios
ASSUME LimiteSupuesto == WRONG_LOGIN_LIMIT \in Nat \ {0}
ASSUME MinutosSupuesto == MINUTES_LOGIN_LOCK \in Nat
ASSUME RelojSupuesto == MaxReloj \in Nat
ASSUME FallosSupuesto == Fallos \in BOOLEAN
ASSUME NuloSupuesto ==
  /\ Nulo \notin Nat
  /\ Nulo \notin Usuarios
  /\ Nulo \notin Claves
  /\ Nulo \notin Aleatorios
ASSUME ClavesSupuesto == Claves \cap Aleatorios = {}

VARIABLES
  usuarios,    \* the table: one row per id
  peticiones,  \* the request each slot serves
  reloj,       \* dayjs()
  entregados,  \* random values that reached their owner by mail
  erroneos     \* history: wrong passwords compared since the last fresh start

vars == <<usuarios, peticiones, reloj, entregados, erroneos>>

-----------------------------------------------------------------------------
\* The rows.  A row in estado "AUSENTE" has not been inserted yet.

Estados == {"AUSENTE", "CREADO", "ACTIVO", "INACTIVO", "PENDIENTE"}

Contrasenas == Claves \cup Aleatorios
Codigo == Aleatorios \cup {Nulo}
Fecha == Nat \cup {Nulo}

Fila == [estado             : Estados,
         contrasena         : Contrasenas \cup {Nulo},
         intentos           : Nat,
         fechaBloqueo       : Fecha,
         codigoDesbloqueo   : Codigo,
         codigoRecuperacion : Codigo,
         codigoTransaccion  : Codigo,
         codigoActivacion   : Codigo]

FilaNueva(estado, contrasena) ==
  [estado             |-> estado,
   contrasena         |-> contrasena,
   intentos           |-> 0,
   fechaBloqueo       |-> Nulo,
   codigoDesbloqueo   |-> Nulo,
   codigoRecuperacion |-> Nulo,
   codigoTransaccion  |-> Nulo,
   codigoActivacion   |-> Nulo]

\* dayjs().isAfter(fecha): false for a NULL, which dayjs takes for an invalid date
Vencida(fecha) == fecha # Nulo /\ reloj > fecha

-----------------------------------------------------------------------------
\* The requests.  "pc" is the await a handler is at; the other fields are the
\* local variables it still needs.

Peticion(pcs) == [pc       : pcs,
                  u        : Usuarios \cup {Nulo},
                  clave    : Contrasenas \cup {Nulo},  \* from the request
                  hash     : Contrasenas \cup {Nulo},  \* the row as it was read
                  intentos : Nat,
                  fecha    : Fecha,
                  codigo   : Codigo]                   \* generated by the handler

Libre == [pc |-> "libre", u |-> Nulo, clave |-> Nulo, hash |-> Nulo,
          intentos |-> 0, fecha |-> Nulo, codigo |-> Nulo]

EnCurso(p) == peticiones[p].pc # "libre"

En(p, pc) == peticiones[p].pc = pc


\* the next await of request p, or its end
Sigue(p, peticion) == peticiones' = [peticiones EXCEPT ![p] = peticion]

Termina(p) == Sigue(p, Libre)

\* A transaction that has written a row keeps it locked until it commits: the
\* UPDATEs of the other requests on that row wait.
ConCandado == {"correoCuenta", "confirmarCuenta",
               "correoRestaurar", "confirmarRestaurar",
               "correoReenviar", "confirmarReenviar"}

SinCandado(p) ==
  \A q \in Peticiones \ {p} :
     peticiones[q].u = peticiones[p].u => peticiones[q].pc \notin ConCandado

\* A random value nobody holds any more matches no row, so it is forgotten and
\* may stand for a fresh one: the pool only has to be as large as the values
\* alive at one time.
EnUso ==
  (UNION {{usuarios[u].contrasena, usuarios[u].codigoDesbloqueo,
           usuarios[u].codigoRecuperacion, usuarios[u].codigoTransaccion,
           usuarios[u].codigoActivacion} : u \in Usuarios})
  \cup (UNION {{peticiones[p].codigo, peticiones[p].clave, peticiones[p].hash} :
                 p \in Peticiones})

Nuevo(c) == c \notin EnUso /\ entregados' = entregados \ {c}

\* A faulty variant of the next one: the mail goes without the value.
EnviarNada(p) == UNCHANGED entregados

\* sendEmail with the value the handler generated
Enviar(p) == entregados' = entregados \cup {peticiones[p].codigo}

\* sendEmail(...).catch(err => this.logger.error(err)): the handler goes on
\* whether the mail left or not
EnviarOSeguir(p) == Enviar(p) \/ (Fallos /\ UNCHANGED entregados)

-----------------------------------------------------------------------------
Tick ==
  /\ reloj < MaxReloj
  /\ reloj' = reloj + 1
  /\ UNCHANGED <<usuarios, peticiones, entregados, erroneos>>

\* Any await may reject: the database, the mail service or the whole process
\* is gone.  The statements already executed stay, an open transaction is
\* rolled back, and nobody resumes the handler.
Abortar(p) ==
  /\ Fallos
  /\ EnCurso(p)
  /\ Termina(p)
  /\ UNCHANGED <<usuarios, reloj, entregados, erroneos>>

\* Requests on the same account do not overlap.
Serie ==
  \A p, q \in Peticiones :
     p # q /\ EnCurso(p) /\ EnCurso(q) => peticiones[p].u # peticiones[q].u

Tipos(pcs) ==
  /\ usuarios \in [Usuarios -> Fila]
  /\ peticiones \in [Peticiones -> Peticion(pcs)]
  /\ reloj \in Nat
  /\ entregados \subseteq Aleatorios
  /\ erroneos \in [Usuarios -> Nat]
=============================================================================
