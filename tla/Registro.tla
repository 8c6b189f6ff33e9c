------------------------------ MODULE Registro -------------------------------
(***************************************************************************)
(* How people get an account: crear (an administrator), crearCuenta (the    *)
(* person, with an e-mail), crearConCiudadania, and the login with          *)
(* Ciudadania Digital (validarOCrearUsuarioOidc), which registers whoever   *)
(* has no account yet.  All of them look for the person and the e-mail      *)
(* first and insert afterwards; of what they insert, only the column        *)
(* "usuario" is UNIQUE.  Two of them give the role named 'USUARIO', which   *)
(* an administrator may rename meanwhile (RolService).                      *)
(***************************************************************************)
EXTENDS Naturals, FiniteSets

CONSTANTS
  Documentos,  \* nro_documento of people
  Correos,     \* e-mail addresses, and the uuid that textToUuid makes of each
  Roles,
  RolUsuario,  \* the id of the role 'USUARIO', at the start
  Peticiones,  \* slots for requests served at the same time
  Nulo,
  Previas,     \* documents with a row in personas and no account, at the start
  Inactivas,   \* those of them whose persona is INACTIVO
  MaxPersonas, \* bound: rows of personas with the same document
  ConNombre,   \* whether the body of crear may choose the user name: the
               \* documented one does not, but nothing refuses it
  Fallos       \* whether an await may fail

ASSUME RolSupuesto == RolUsuario \in Roles
ASSUME PreviasSupuestas == Previas \subseteq Documentos /\ Inactivas \subseteq Previas
ASSUME PersonasSupuestas == MaxPersonas \in Nat /\ MaxPersonas > 1
ASSUME NombresSupuestos == Documentos \cap Correos = {} /\ Nulo \notin Documentos \cup Correos
ASSUME OpcionesSupuestas == Fallos \in BOOLEAN /\ ConNombre \in BOOLEAN

\* The values of usuarios.usuario, which are also those of nro_documento: the
\* document of somebody who registered with an e-mail is the uuid of the e-mail.
Nombres == Documentos \cup Correos

VARIABLES
  personas,   \* rows of personas with each document
  datos,      \* how their names compare with those of Ciudadania Digital
  usuarios,   \* the account with each user name
  rolUsuario, \* the role named 'USUARIO' (roles.rol is UNIQUE), or none
  peticiones

varsRegistro == <<personas, datos, usuarios, rolUsuario, peticiones>>

-----------------------------------------------------------------------------
Comparaciones == {"cercanos", "distintos"}  \* "distintos": all of them differ

Fila == [alta : BOOLEAN, doc : Nombres \cup {Nulo}, correo : Correos \cup {Nulo},
         estado : {"ACTIVO", "PENDIENTE", "INACTIVO"}, roles : SUBSET Roles]

SinFila == [alta |-> FALSE, doc |-> Nulo, correo |-> Nulo, estado |-> "ACTIVO",
            roles |-> {}]

\* d, c and roles are what the request brought (or the roles it read); n is the
\* user name it brought, or the account it found; alta is whether it inserted it.
\* falto is history: the role 'USUARIO' was missing at some moment since a login
\* with Ciudadania Digital arrived, before it looked for it.
Libre == [pc |-> "libre", d |-> Nulo, c |-> Nulo, roles |-> {}, n |-> Nulo,
          alta |-> FALSE, falto |-> FALSE]

Pcs == {"libre", "crearCI", "crearCorreo", "cuentaNombre", "cuentaCorreo",
        "cuentaRol", "ciudadaniaCI", "oidcCI", "oidcPersona", "nuevaCI", "nuevaRol",
        "personaDatos", "existenteCI", "insertarCreada", "insertarCuenta", "insertarNueva",
        "insertarExistente", "usuarioDatos", "verCorreo", "buscarCorreo",
        "escribirCorreo", "releer", "entrar", "error"}

Peticion == [pc : Pcs, d : Documentos \cup {Nulo}, c : Correos \cup {Nulo},
             roles : SUBSET Roles, n : Nombres \cup {Nulo}, alta : BOOLEAN,
             falto : BOOLEAN]

EnCurso(p) == peticiones[p].pc # "libre"
En(p, pc) == peticiones[p].pc = pc
Sigue(p, r) == peticiones' = [peticiones EXCEPT ![p] = r]
Pasa(p, pc) == Sigue(p, [peticiones[p] EXCEPT !.pc = pc])
Termina(p) == Sigue(p, Libre)  \* the answer, or the error
\* A check that lets the request go on, or ends it with an error of the user's.
PasaSi(p, condicion, pc) == IF condicion THEN Pasa(p, pc) ELSE Termina(p)
SoloLee == UNCHANGED <<personas, datos, usuarios, rolUsuario>>

\* Accounts that a search by document, or by e-mail, finds.
PorCI(d) == {n \in Nombres : usuarios[n].alta /\ usuarios[n].doc = d}
PorCorreo(c) == {n \in Nombres : usuarios[n].alta /\ usuarios[n].correo = c}

-----------------------------------------------------------------------------
\* Faulty variants of definitions below, each the slip that one property of
\* the runs is there to catch.  No action uses them.

FilaSinRol(r) ==        \* [rol?.id], without asking whether there is one
  [alta |-> TRUE, doc |-> r.d, correo |-> r.c, estado |-> "ACTIVO",
   roles |-> IF r.roles = {} THEN {Nulo} ELSE r.roles]

CuentaSinMirar(p) ==    \* no "if (!rol)", as in crearConCiudadaniaV2
  /\ En(p, "cuentaRol")
  /\ Sigue(p, [peticiones[p] EXCEPT !.pc = "insertarCuenta", !.roles = {rolUsuario} \ {Nulo}])
  /\ SoloLee

PersonaSuelta(p, n, fila, comparacion, despues) ==  \* saved out of the transaction
  /\ personas[fila.doc] < MaxPersonas
  /\ personas' = [personas EXCEPT ![fila.doc] = @ + 1]
  /\ datos' = [datos EXCEPT ![fila.doc] = comparacion]
  /\ UNCHANGED rolUsuario
  /\ IF usuarios[n].alta
     THEN Termina(p) /\ UNCHANGED usuarios
     ELSE usuarios' = [usuarios EXCEPT ![n] = fila] /\ Sigue(p, despues)

CambiarDatosAlReves(d) == datos[d] # "distintos"  \* === for !==

-----------------------------------------------------------------------------
\* The account that a handler is about to insert.
FilaCreada(r) ==      \* crear
  [alta |-> TRUE, doc |-> r.d, correo |-> r.c, estado |-> "ACTIVO", roles |-> r.roles]

FilaCuenta(r) ==      \* crearCuenta
  [alta |-> TRUE, doc |-> r.c, correo |-> r.c, estado |-> "PENDIENTE", roles |-> r.roles]

FilaCiudadania(r) ==  \* crearConCiudadaniaV2
  [alta |-> TRUE, doc |-> r.d, correo |-> r.c, estado |-> "ACTIVO", roles |-> r.roles]

\* usuario.usuarioRol is a relation without cascade, so the rows of
\* usuarios_roles that it holds are not saved with the account, whatever role
\* was found.
FilaExistente(r) ==   \* crearConPersonaExistente
  [alta |-> TRUE, doc |-> r.d, correo |-> r.c, estado |-> "ACTIVO", roles |-> {}]

\* UsuarioRepository.crear within a transaction: persona, usuario and roles
\* appear together, or nothing does, because another account has the name.
Transaccion(p, n, fila, comparacion, despues) ==
  IF usuarios[n].alta
  THEN Termina(p) /\ SoloLee
  ELSE /\ personas[fila.doc] < MaxPersonas
       /\ personas' = [personas EXCEPT ![fila.doc] = @ + 1]
       /\ datos' = [datos EXCEPT ![fila.doc] = comparacion]
       /\ usuarios' = [usuarios EXCEPT ![n] = fila]
       /\ Sigue(p, despues)
       /\ UNCHANGED rolUsuario

\* buscarPorNombreRol('USUARIO'), and "rol?.id ? [rol?.id] : []"
RolHallado == {rolUsuario} \ {Nulo}

BuscarRol(p, pc) ==
  Sigue(p, [peticiones[p] EXCEPT !.pc = pc, !.roles = RolHallado])

-----------------------------------------------------------------------------
\* POST /usuarios
PedirCrear(p, d, c, n, roles) ==
  /\ peticiones[p] = Libre
  /\ Sigue(p, [Libre EXCEPT !.pc = "crearCI", !.d = d, !.c = c, !.n = n, !.roles = roles])
  /\ SoloLee

CrearPorCI(p) ==
  /\ En(p, "crearCI")
  /\ PasaSi(p, PorCI(peticiones[p].d) = {}, "crearCorreo")
  /\ SoloLee

CrearPorCorreo(p) ==
  /\ En(p, "crearCorreo")
  /\ PasaSi(p, PorCorreo(peticiones[p].c) = {}, "insertarCreada")
  /\ SoloLee

\* The administrator types the names: they may be those of Ciudadania or not.
\* The user name is the document, unless the body brought another one.
InsertarCreada(p) ==
  LET r == peticiones[p] IN
    /\ En(p, "insertarCreada")
    /\ \E x \in Comparaciones :
         Transaccion(p, IF r.n = Nulo THEN r.d ELSE r.n, FilaCreada(r), x, Libre)

-----------------------------------------------------------------------------
\* POST /usuarios/crear-cuenta
PedirCuenta(p, c) ==
  /\ peticiones[p] = Libre
  /\ Sigue(p, [Libre EXCEPT !.pc = "cuentaNombre", !.c = c])
  /\ SoloLee

CuentaPorNombre(p) ==
  /\ En(p, "cuentaNombre")
  /\ PasaSi(p, ~ usuarios[peticiones[p].c].alta, "cuentaCorreo")
  /\ SoloLee

CuentaPorCorreo(p) ==
  /\ En(p, "cuentaCorreo")
  /\ PasaSi(p, PorCorreo(peticiones[p].c) = {}, "cuentaRol")
  /\ SoloLee

\* It ends when there is no role, and also when the password is weak.
CuentaPorRol(p) ==
  /\ En(p, "cuentaRol")
  /\ Termina(p) \/ (RolHallado # {} /\ BuscarRol(p, "insertarCuenta"))
  /\ SoloLee

InsertarCuenta(p) ==
  LET r == peticiones[p] IN
    /\ En(p, "insertarCuenta")
    /\ Transaccion(p, r.c, FilaCuenta(r), "distintos", Libre)

-----------------------------------------------------------------------------
\* POST /usuarios/cuenta/ciudadania.  The body brings the document and the
\* roles and no persona: UsuarioRepository.crear throws when it reads
\* usuarioDto.persona.tipoDocumento, before any statement.
PedirCiudadania(p, d) ==
  /\ peticiones[p] = Libre
  /\ Sigue(p, [Libre EXCEPT !.pc = "ciudadaniaCI", !.d = d])
  /\ SoloLee

CrearConCiudadania(p) ==
  /\ En(p, "ciudadaniaCI")
  /\ PasaSi(p, PorCI(peticiones[p].d) = {}, "error")
  /\ SoloLee

-----------------------------------------------------------------------------
\* The callback of Ciudadania Digital: validarOCrearUsuarioOidc.
PedirOidc(p, d, c) ==
  /\ peticiones[p] = Libre
  /\ Sigue(p, [Libre EXCEPT !.pc = "oidcCI", !.d = d, !.c = c,
                           !.falto = (rolUsuario = Nulo)])
  /\ SoloLee

OidcSinUsuario(p) ==
  /\ En(p, "oidcCI")
  /\ PorCI(peticiones[p].d) = {}
  /\ Pasa(p, "oidcPersona")
  /\ SoloLee

\* The names are updated when all of them differ (&&, in the code).
CambiarDatos(d) == datos[d] = "distintos"

\* The roles answered are those read here; the e-mail is kept if it is another.
OidcConUsuario(p) ==
  LET r == peticiones[p] IN
    \E n \in PorCI(r.d) :
      /\ En(p, "oidcCI")
      /\ IF usuarios[n].estado = "INACTIVO"
         THEN Termina(p)
         ELSE Sigue(p, [r EXCEPT
                !.pc = IF CambiarDatos(r.d) THEN "usuarioDatos" ELSE "verCorreo",
                !.c = IF usuarios[n].correo = r.c THEN Nulo ELSE r.c,
                !.n = n, !.roles = usuarios[n].roles])
      /\ SoloLee

BuscarPersonaPorCI(p) ==
  LET d == peticiones[p].d IN
    /\ En(p, "oidcPersona")
    /\ PasaSi(p, personas[d] = 0 \/ d \notin Inactivas,
              IF personas[d] = 0 THEN "nuevaCI" ELSE "personaDatos")
    /\ SoloLee

\* fechaNacimiento is a Date here and a text in the row, so the two always
\* differ and the names are always written when the account is missing (||).
ActualizarDatosPersona(p) ==
  /\ En(p, "usuarioDatos") \/ En(p, "personaDatos")
  /\ datos' = [datos EXCEPT ![peticiones[p].d] = "cercanos"]
  /\ Pasa(p, IF En(p, "usuarioDatos") THEN "verCorreo" ELSE "existenteCI")
  /\ UNCHANGED <<personas, usuarios, rolUsuario>>

\* verificarExisteUsuarioPorCI, for a new person and for one in the table
VerificarExiste(p) ==
  /\ En(p, "nuevaCI") \/ En(p, "existenteCI")
  /\ PasaSi(p, PorCI(peticiones[p].d) = {},
            IF En(p, "nuevaCI") THEN "nuevaRol" ELSE "insertarExistente")
  /\ SoloLee

\* crearConCiudadaniaV2 goes on without a role too.
NuevaPorRol(p) ==
  /\ En(p, "nuevaRol")
  /\ BuscarRol(p, "insertarNueva")
  /\ SoloLee

\* What the login still needs once it inserted the account.
RegistradaPor(r) ==
  [Libre EXCEPT !.pc = "releer", !.d = r.d, !.alta = TRUE, !.falto = r.falto]

InsertarNueva(p) ==
  LET r == peticiones[p] IN
    /\ En(p, "insertarNueva")
    /\ Transaccion(p, r.d, FilaCiudadania(r), "cercanos", RegistradaPor(r))

InsertarExistente(p) ==
  LET r == peticiones[p] IN
    /\ En(p, "insertarExistente")
    /\ IF usuarios[r.d].alta
       THEN Termina(p) /\ SoloLee
       ELSE /\ usuarios' = [usuarios EXCEPT ![r.d] = FilaExistente(r)]
            /\ Sigue(p, RegistradaPor(r))
            /\ UNCHANGED <<personas, datos, rolUsuario>>

\* The account is read again for the answer.
Releer(p) ==
  \E n \in PorCI(peticiones[p].d) :
    /\ En(p, "releer")
    /\ Sigue(p, [peticiones[p] EXCEPT !.pc = "entrar", !.n = n,
                                      !.roles = usuarios[n].roles])
    /\ SoloLee

\* actualizarDatos, when the e-mail of Ciudadania is another one: the row is
\* read, the e-mail is looked for, and then written.  What it does to the roles
\* is in UsuarioRoles.
VerCorreo(p) ==
  LET r == peticiones[p] IN
    /\ En(p, "verCorreo")
    /\ Pasa(p, IF r.c \in {Nulo, usuarios[r.n].correo} THEN "entrar" ELSE "buscarCorreo")
    /\ SoloLee

BuscarCorreo(p) ==
  /\ En(p, "buscarCorreo")
  /\ PasaSi(p, PorCorreo(peticiones[p].c) = {}, "escribirCorreo")
  /\ SoloLee

EscribirCorreo(p) ==
  /\ En(p, "escribirCorreo")
  /\ usuarios' = [usuarios EXCEPT ![peticiones[p].n].correo = peticiones[p].c]
  /\ Pasa(p, "entrar")
  /\ UNCHANGED <<personas, datos, rolUsuario>>

-----------------------------------------------------------------------------
\* A session if there are roles and 401 if not, or the internal error.
Responder(p) ==
  /\ En(p, "entrar") \/ En(p, "error")
  /\ Termina(p)
  /\ SoloLee

\* UsuarioService.inactivar and activar, on the estado alone.
CambiarEstado(n, estado) ==
  /\ usuarios[n].alta
  /\ usuarios' = [usuarios EXCEPT ![n].estado = estado]
  /\ UNCHANGED <<personas, datos, rolUsuario, peticiones>>

\* RolService.crear and actualizar: the name 'USUARIO' is given to a role that has
\* another, or taken from the one that has it.
PcBusca == {"oidcCI", "oidcPersona", "nuevaCI", "nuevaRol"}

RenombrarRol(x) ==
  /\ rolUsuario = Nulo <=> x # Nulo
  /\ rolUsuario' = x
  /\ peticiones' = [p \in Peticiones |-> [peticiones[p] EXCEPT
       !.falto = @ \/ (x = Nulo /\ peticiones[p].pc \in PcBusca)]]
  /\ UNCHANGED <<personas, datos, usuarios>>

\* An awaited promise rejects, or the process ends.
Abortar(p) ==
  /\ Fallos
  /\ EnCurso(p)
  /\ Termina(p)
  /\ SoloLee

-----------------------------------------------------------------------------
Pedir(p) ==
  \/ \E c \in Correos : PedirCuenta(p, c)
  \/ \E d \in Documentos : PedirCiudadania(p, d)
  \/ \E d \in Documentos, c \in Correos :
       \/ PedirOidc(p, d, c)
       \/ \E n \in IF ConNombre THEN Nombres ELSE {Nulo}, roles \in SUBSET Roles :
            PedirCrear(p, d, c, n, roles)

Continuar(p) ==
  \/ CrearPorCI(p) \/ CrearPorCorreo(p) \/ InsertarCreada(p)
  \/ CuentaPorNombre(p) \/ CuentaPorCorreo(p) \/ CuentaPorRol(p) \/ InsertarCuenta(p)
  \/ CrearConCiudadania(p)
  \/ OidcSinUsuario(p) \/ OidcConUsuario(p) \/ BuscarPersonaPorCI(p)
  \/ ActualizarDatosPersona(p) \/ VerificarExiste(p) \/ NuevaPorRol(p)
  \/ InsertarNueva(p) \/ InsertarExistente(p) \/ Releer(p)
  \/ VerCorreo(p) \/ BuscarCorreo(p) \/ EscribirCorreo(p)
  \/ Responder(p)

NextRegistro ==
  \/ \E n \in Nombres, estado \in {"ACTIVO", "INACTIVO"} : CambiarEstado(n, estado)
  \/ \E x \in Roles \cup {Nulo} : RenombrarRol(x)
  \/ \E p \in Peticiones : Pedir(p) \/ Continuar(p) \/ Abortar(p)

InitRegistro ==
  /\ personas = [d \in Nombres |-> IF d \in Previas THEN 1 ELSE 0]
  /\ \E x \in [Previas -> Comparaciones] :
       datos = [d \in Nombres |-> IF d \in Previas THEN x[d] ELSE "distintos"]
  /\ usuarios = [n \in Nombres |-> SinFila]
  /\ rolUsuario = RolUsuario
  /\ peticiones = [p \in Peticiones |-> Libre]

SpecRegistro == InitRegistro /\ [][NextRegistro]_varsRegistro

-----------------------------------------------------------------------------
TypeOKRegistro ==
  /\ personas \in [Nombres -> 0..MaxPersonas]
  /\ datos \in [Nombres -> Comparaciones]
  /\ usuarios \in [Nombres -> Fila]
  /\ rolUsuario \in Roles \cup {Nulo}
  /\ peticiones \in [Peticiones -> Peticion]

\* However registrations of all kinds overlap and fail, a document is that of
\* one persona and one account, or of none: nobody is registered twice, nor
\* half-way.  Nothing in the tables says so (nro_documento is not UNIQUE); it
\* holds because the user name, which is, is the document, and because persona
\* and usuario are inserted in one transaction.
PersonaUnica ==
  \A d \in Nombres \ Previas :
    /\ personas[d] <= 1
    /\ Cardinality(PorCI(d)) = personas[d]

\* An account without roles, which nobody can enter and every later login only
\* finds again, has a reason.  Who registers with an e-mail never gets one, even
\* if the role 'USUARIO' is renamed while the request is served (crearCuenta ends
\* without it); a login with Ciudadania Digital that registers a person nobody
\* knew leaves one only if the role was missing while it was on its way
\* (crearConCiudadaniaV2 goes on).
SinRolesConRazon ==
  /\ \A c \in Correos : usuarios[c].alta => usuarios[c].roles # {}
  /\ \A p \in Peticiones :
       LET r == peticiones[p] IN
       En(p, "entrar") /\ r.alta /\ r.d \notin Previas /\ r.roles = {} => r.falto

\* Whoever enters with Ciudadania Digital enters the account of the own
\* document, and the names in the table are not all out of date, even when an
\* administrator was registering the same person at the same time.
EntradaPropia ==
  \A p \in Peticiones :
    En(p, "entrar") =>
      /\ usuarios[peticiones[p].n].doc = peticiones[p].d
      /\ datos[peticiones[p].d] # "distintos"
=============================================================================
