---------------------------- MODULE UsuarioRoles -----------------------------
(***************************************************************************)
(* The e-mail and the roles of an account: UsuarioService.actualizarDatos   *)
(* with actualizarRoles and verificarUsuarioRoles, called by an             *)
(* administrator (PATCH /usuarios/:id) and by the login with Ciudadania     *)
(* Digital (validarOCrearUsuarioOidc).                                      *)
(*                                                                         *)
(* The update is a chain of statements with no transaction: the e-mail, the *)
(* roles to activate, the roles to inactivate, the roles to insert.         *)
(***************************************************************************)
EXTENDS Naturals

CONSTANTS
  Usuarios,    \* accounts
  Roles,       \* rows of the table "roles"
  Correos,     \* e-mail addresses
  Pedidos,     \* arrays of roles that administrators send: how often each role is there
  Peticiones,  \* slots for requests served at the same time
  Nulo,        \* undefined
  MaxFilas,    \* bound: rows of usuarios_roles per account and role
  Fallos       \* whether an await may fail

ASSUME PedidosSupuesto == Pedidos \subseteq [Roles -> Nat]
ASSUME FilasSupuesto == MaxFilas \in Nat \ {0}
ASSUME FallosRolesSupuesto == Fallos \in BOOLEAN
ASSUME NuloRolesSupuesto == Nulo \notin Usuarios \cup Correos \cup Pedidos

VARIABLES
  correos,      \* usuarios.correo_electronico
  usuarioRol,   \* usuarios_roles: the rows of each account and role, per estado
  peticiones,   \* the request each slot serves
  reactivados   \* history: roles made ACTIVE again without an administrator

varsRoles == <<correos, usuarioRol, peticiones, reactivados>>

-----------------------------------------------------------------------------
\* How many rows an account has for a role: no constraint of the table keeps
\* them from being several.
Filas == [activas : 0..MaxFilas, inactivas : 0..MaxFilas]

RolesActivos(filas) == {r \in Roles : filas[r].activas > 0}
RolesInactivos(filas) == {r \in Roles : filas[r].inactivas > 0}
RolesConFila(filas) == RolesActivos(filas) \cup RolesInactivos(filas)

\* An array of roles
Elementos(pedido) == {r \in Roles : pedido[r] > 0}
Vacio == [r \in Roles |-> 0]

SinPlan == [inactivos |-> {}, activos |-> {}, nuevos |-> Vacio]

Pcs == {"libre", "buscarPorId", "buscarCorreo", "escribirCorreo", "roles",
        "activar", "inactivar", "crear", "hecho", "error"}

Libre == [pc |-> "libre", u |-> Nulo, admin |-> FALSE, correo |-> Nulo,
          pedido |-> Nulo, plan |-> SinPlan,
          antes |-> {}]         \* history: the ACTIVE roles it found

En(p, pc) == peticiones[p].pc = pc
EnCurso(p) == ~ En(p, "libre")

Sigue(p, peticion) == peticiones' = [peticiones EXCEPT ![p] = peticion]
Pasa(p, a) == Sigue(p, [peticiones[p] EXCEPT !.pc = a])

-----------------------------------------------------------------------------
\* Faulty variants of definitions below, each the slip that one property of
\* the runs is there to catch.  No action uses them.

ActivosTodos(filas, pedido) == RolesActivos(filas)      \* also those it keeps

InactivosConActivos(filas, pedido) ==                   \* the wrong Status compared
  Elementos(pedido) \cap RolesActivos(filas)

CorreoSinBuscar(u, correo) == TRUE                      \* nobody looks for the address

InactivarAgregando(u, roles) ==                         \* rows added, none updated
  usuarioRol' = [usuarioRol EXCEPT ![u] = [r \in Roles |->
                   IF r \in roles
                   THEN [@[r] EXCEPT !.inactivas = @ + usuarioRol[u][r].activas]
                   ELSE @[r]]]

-----------------------------------------------------------------------------
\* verificarUsuarioRoles: what to activate, to inactivate and to insert.

Inactivos(filas, pedido) == Elementos(pedido) \cap RolesInactivos(filas)

Activos(filas, pedido) == RolesActivos(filas) \ Elementos(pedido)

\* As many times as they were asked for.
Nuevos(filas, pedido) ==
  [r \in Roles |-> IF r \in RolesConFila(filas) THEN 0 ELSE pedido[r]]

\* UPDATE usuarios_roles SET estado WHERE id_usuario = u AND id_rol IN roles
ActivarRoles(u, roles) ==
  usuarioRol' = [usuarioRol EXCEPT ![u] = [r \in Roles |->
                   IF r \in roles
                   THEN [activas |-> @[r].activas + @[r].inactivas, inactivas |-> 0]
                   ELSE @[r]]]

InactivarRoles(u, roles) ==
  usuarioRol' = [usuarioRol EXCEPT ![u] = [r \in Roles |->
                   IF r \in roles
                   THEN [activas |-> 0, inactivas |-> @[r].activas + @[r].inactivas]
                   ELSE @[r]]]

CrearRoles(u, pedido) ==
  usuarioRol' = [usuarioRol EXCEPT ![u] = [r \in Roles |->
                   [activas |-> @[r].activas + pedido[r], inactivas |-> @[r].inactivas]]]

CorreoLibre(u, correo) == \A v \in Usuarios : correos[v] # correo

-----------------------------------------------------------------------------
Empezar(p, u, admin, correo, pedido) ==
  /\ peticiones[p] = Libre
  /\ Sigue(p, [Libre EXCEPT !.pc = "buscarPorId", !.u = u, !.admin = admin,
                            !.correo = correo, !.pedido = pedido])
  /\ UNCHANGED <<correos, usuarioRol, reactivados>>

\* PATCH /usuarios/:id.  The DTO lets one of the two fields out.
PedirActualizarDatos(p, u, correo, pedido) ==
  /\ correo # Nulo \/ pedido # Nulo
  /\ Empezar(p, u, TRUE, correo, pedido)

\* Login with Ciudadania Digital, when its e-mail is not the stored one: the
\* ids of all the roles read go along.
PedirOidc(p, u, correo) ==
  /\ correo # correos[u]
  /\ Empezar(p, u, FALSE, correo,
             [r \in Roles |-> usuarioRol[u][r].activas + usuarioRol[u][r].inactivas])

-----------------------------------------------------------------------------
\* actualizarDatos
BuscarPorId(p) ==
  /\ En(p, "buscarPorId")
  /\ Pasa(p, IF peticiones[p].correo \notin {Nulo, correos[peticiones[p].u]}
             THEN "buscarCorreo" ELSE "roles")
  /\ UNCHANGED <<correos, usuarioRol, reactivados>>

BuscarUsuarioPorCorreo(p) ==
  /\ En(p, "buscarCorreo")
  /\ IF CorreoLibre(peticiones[p].u, peticiones[p].correo)
     THEN Pasa(p, "escribirCorreo")
     ELSE Pasa(p, "error")    \* EXISTING_EMAIL
  /\ UNCHANGED <<correos, usuarioRol, reactivados>>

ActualizarCorreo(p) ==
  /\ En(p, "escribirCorreo")
  /\ correos' = [correos EXCEPT ![peticiones[p].u] = peticiones[p].correo]
  /\ Pasa(p, "roles")
  /\ UNCHANGED <<usuarioRol, reactivados>>

\* roles.length of an array that did not come throws.
RolesAusentes(p) ==
  /\ En(p, "roles")
  /\ peticiones[p].pedido = Nulo
  /\ Pasa(p, "error")
  /\ UNCHANGED <<correos, usuarioRol, reactivados>>

RolesVacios(p) ==
  /\ En(p, "roles")
  /\ peticiones[p].pedido = Vacio
  /\ Pasa(p, "hecho")
  /\ UNCHANGED <<correos, usuarioRol, reactivados>>

ObtenerRolesPorUsuario(p) ==
  /\ En(p, "roles")
  /\ peticiones[p].pedido \notin {Nulo, Vacio}
  /\ LET filas == usuarioRol[peticiones[p].u]
         pedido == peticiones[p].pedido IN
       Sigue(p, [peticiones[p] EXCEPT
                   !.pc = "activar", !.antes = RolesActivos(filas),
                   !.plan = [inactivos |-> Inactivos(filas, pedido),
                             activos   |-> Activos(filas, pedido),
                             nuevos    |-> Nuevos(filas, pedido)]])
  /\ UNCHANGED <<correos, usuarioRol, reactivados>>

Activar(p) ==
  /\ En(p, "activar")
  /\ ActivarRoles(peticiones[p].u, peticiones[p].plan.inactivos)
  /\ Pasa(p, "inactivar")
  /\ reactivados' = IF peticiones[p].admin THEN reactivados
                    ELSE reactivados \cup peticiones[p].plan.inactivos
  /\ UNCHANGED correos

Inactivar(p) ==
  /\ En(p, "inactivar")
  /\ InactivarRoles(peticiones[p].u, peticiones[p].plan.activos)
  /\ Pasa(p, "crear")
  /\ UNCHANGED <<correos, reactivados>>

Cabe(u, pedido) == \A r \in Roles : usuarioRol[u][r].activas + usuarioRol[u][r].inactivas
                                      + pedido[r] <= MaxFilas

Crear(p) ==
  /\ En(p, "crear")
  /\ Cabe(peticiones[p].u, peticiones[p].plan.nuevos)
  /\ CrearRoles(peticiones[p].u, peticiones[p].plan.nuevos)
  /\ Pasa(p, "hecho")
  /\ UNCHANGED <<correos, reactivados>>

\* The answer, 200 or an exception.
Responder(p) ==
  /\ peticiones[p].pc \in {"hecho", "error"}
  /\ Sigue(p, Libre)
  /\ UNCHANGED <<correos, usuarioRol, reactivados>>

Abortar(p) ==
  /\ Fallos
  /\ peticiones[p].pc \notin {"libre", "hecho", "error"}
  /\ Sigue(p, Libre)
  /\ UNCHANGED <<correos, usuarioRol, reactivados>>

-----------------------------------------------------------------------------
Continuar(p) ==
  \/ BuscarPorId(p) \/ BuscarUsuarioPorCorreo(p) \/ ActualizarCorreo(p)
  \/ RolesAusentes(p) \/ RolesVacios(p) \/ ObtenerRolesPorUsuario(p)
  \/ Activar(p) \/ Inactivar(p) \/ Crear(p) \/ Responder(p)

Pedir(p) ==
  \/ \E u \in Usuarios, correo \in Correos \cup {Nulo}, pedido \in Pedidos \cup {Nulo} :
       PedirActualizarDatos(p, u, correo, pedido)
  \/ \E u \in Usuarios, correo \in Correos : PedirOidc(p, u, correo)

NextRoles ==
  \E p \in Peticiones : Pedir(p) \/ Continuar(p) \/ Abortar(p)

\* Registered accounts: an address each, at most one row per role.
InitRoles ==
  /\ correos \in [Usuarios -> Correos]
  /\ \A u, v \in Usuarios : correos[u] = correos[v] => u = v
  /\ usuarioRol \in [Usuarios -> [Roles -> {f \in Filas : f.activas + f.inactivas <= 1}]]
  /\ peticiones = [p \in Peticiones |-> Libre]
  /\ reactivados = {}

SpecRoles == InitRoles /\ [][NextRoles]_varsRoles

\* Nothing in the code keeps two updates apart.  These are the two ways in which
\* requests served at once must not meet: over one account,
UnaPorUsuario ==
  \A p, q \in Peticiones :
    p # q /\ EnCurso(p) /\ EnCurso(q) => peticiones[p].u # peticiones[q].u

\* and over one address.
UnaPorCorreo ==
  \A p, q \in Peticiones :
    p # q /\ EnCurso(p) /\ EnCurso(q) /\ peticiones[p].correo # Nulo =>
      peticiones[p].correo # peticiones[q].correo

SpecRolesSerie == InitRoles /\ [][NextRoles /\ UnaPorUsuario']_varsRoles
SpecCorreosSerie == InitRoles /\ [][NextRoles /\ UnaPorCorreo']_varsRoles

-----------------------------------------------------------------------------
TypeOKRoles ==
  /\ correos \in [Usuarios -> Correos]
  /\ usuarioRol \in [Usuarios -> [Roles -> Filas]]
  /\ \A p \in Peticiones :
       /\ peticiones[p].pc \in Pcs
       /\ peticiones[p].u \in Usuarios \cup {Nulo}
       /\ peticiones[p].correo \in Correos \cup {Nulo}
       /\ peticiones[p].plan.inactivos \cup peticiones[p].plan.activos \subseteq Roles
  /\ reactivados \subseteq Roles

\* A request that ends well leaves exactly the roles asked for, whatever an
\* earlier one that died between two statements had left.
RolesPedidos ==
  \A p \in Peticiones :
    En(p, "hecho") /\ peticiones[p].pedido # Vacio =>
      RolesActivos(usuarioRol[peticiones[p].u]) = Elementos(peticiones[p].pedido)

\* Between the statements of an update the account keeps every role that it
\* had and still will have, and shows none that neither list names: nobody is
\* locked out half-way by the order of the statements.
SinCortes ==
  \A p \in Peticiones :
    peticiones[p].pc \in {"activar", "inactivar", "crear"} =>
      LET pedidos == Elementos(peticiones[p].pedido)
          activos == RolesActivos(usuarioRol[peticiones[p].u]) IN
        /\ peticiones[p].antes \cap pedidos \subseteq activos
        /\ activos \subseteq peticiones[p].antes \cup pedidos

\* The rows of one account and role always agree on the estado: no request
\* leaves a role that is ACTIVE and INACTIVE at once, though nothing in the
\* table forbids several rows.
FilasDeAcuerdo ==
  \A u \in Usuarios : RolesActivos(usuarioRol[u]) \cap RolesInactivos(usuarioRol[u]) = {}

\* No two accounts have the same e-mail.
CorreoUnico == \A u, v \in Usuarios : correos[u] = correos[v] => u = v

\* A role that an administrator took away comes back only through an
\* administrator.
RolInactivadoFirme == reactivados = {}
=============================================================================
