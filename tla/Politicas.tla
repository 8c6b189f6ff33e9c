------------------------------ MODULE Politicas ------------------------------
(***************************************************************************)
(* The policies that say which role may do what: the copy the casbin         *)
(* enforcer keeps in memory, its table casbin_rule, the guard that asks it  *)
(* (CasbinGuard), the handlers of an administrator that change both         *)
(* (AuthorizationService), and the menus made of policies and modules       *)
(* (obtenerPermisosPorRol).                                                 *)
(*                                                                         *)
(* A policy is in two places, written by different steps; every request     *)
(* decides from memory, every start of the server reads the table.          *)
(***************************************************************************)
EXTENDS Naturals

CONSTANTS
  Roles,           \* names of roles, as tokens carry them
  Todos,           \* the subject "*"
  Objetos,         \* objects of policies: routes of the API, URLs of modules
  Recursos,        \* what requests ask for: a path and a method
  Coincide,        \* pairs <<object, resource>> that keyMatch2 and regexMatch accept
  Administracion,  \* the resource of the routes that change policies
  Perfil,          \* the resource of GET /usuarios/cuenta/perfil
  Politicas,       \* every policy there may be
  Enviadas,        \* the ones that administrators send
  Semilla,         \* policies of the seeds
  Modulos,         \* rows of the table "modulos"
  Seccion,         \* the module each one is under, or Nulo
  Url,             \* the url of each module
  Peticiones,      \* slots for requests served at the same time
  Nulo,            \* undefined
  MaxFilas,        \* bound: rows of casbin_rule per policy
  Fallos           \* whether an await may fail and the server may stop

Apps == {"frontend", "backend"}

ASSUME PoliticasSupuesto ==
  Politicas \subseteq [sujeto : Roles \cup {Todos}, objeto : Objetos, app : Apps]
ASSUME SemillaSupuesto == Semilla \cup Enviadas \subseteq Politicas
ASSUME RecursosSupuesto == Administracion \in Recursos /\ Perfil \in Recursos
ASSUME ModulosSupuesto ==
  /\ Seccion \in [Modulos -> Modulos \cup {Nulo}]
  /\ Url \in [Modulos -> Objetos]
ASSUME FilasPoliticasSupuesto == MaxFilas \in Nat \ {0}
ASSUME FallosPoliticasSupuesto == Fallos \in BOOLEAN
ASSUME NuloPoliticasSupuesto == Nulo \notin Politicas \cup Modulos \cup Roles

VARIABLES
  memoria,      \* the policies of the enforcer
  tabla,        \* casbin_rule: the rows of each policy (no constraint keeps it to one)
  modulos,      \* modulos.estado, "ausente" if there is no such row
  peticiones,   \* the request each slot serves
  limpias       \* history: policies that since the start had at most one writer at a
                \* time, and whose statements were all answered

varsPoliticas == <<memoria, tabla, modulos, peticiones, limpias>>

-----------------------------------------------------------------------------
\* Requests

Tipos == {"crear", "eliminar", "actualizar"}

\* Removing: quitar, borrar (the DELETE), olvidar.  Adding: agregar, insertar (the
\* INSERT), anotar.
PcQuitar == {"quitar", "borrar", "olvidar"}
PcAgregar == {"agregar", "insertar", "anotar"}
Pcs == {"libre", "guardia", "politicas", "menu"} \cup PcQuitar \cup PcAgregar

Libre == [pc |-> "libre", tipo |-> Nulo, faltan |-> {}, recurso |-> Nulo,
          vieja |-> Nulo, nueva |-> Nulo, rol |-> Nulo, leidas |-> {},
          antes |-> {},   \* history: the policies in its favour, in memory all along
          visto |-> {}]   \* history: the menu entries of rol in memory at some moment

En(g, pc) == peticiones[g].pc = pc
Escribe(g) == peticiones[g].pc \in PcQuitar \cup PcAgregar
Tocadas(peticion) == {peticion.vieja, peticion.nueva} \ {Nulo}
EscritaPor(g, p) == Escribe(g) /\ p \in Tocadas(peticiones[g])

Sigue(g, peticion) == peticiones' = [peticiones EXCEPT ![g] = peticion]
Pasa(g, a) == Sigue(g, [peticiones[g] EXCEPT !.pc = a])

Concede(p, rol, recurso) ==
  p.sujeto \in {rol, Todos} /\ <<p.objeto, recurso>> \in Coincide

\* The menu entries of a role: getFilteredPolicy(3, 'frontend'), filtered with the role
Asignadas(ps, rol) == {p \in ps : p.app = "frontend" /\ p.sujeto = rol}

\* Request g goes on as given while the enforcer's policies become ps; the others see it.
Observada(peticion, ps) ==
  [peticion EXCEPT !.antes = @ \cap ps,
                   !.visto = IF peticion.pc \in {"politicas", "menu"}
                             THEN @ \cup Asignadas(ps, peticion.rol) ELSE @]

SigueCambiando(g, peticion, ps) ==
  /\ memoria' = ps
  /\ peticiones' = [h \in Peticiones |->
                      IF h = g THEN peticion ELSE Observada(peticiones[h], ps)]

-----------------------------------------------------------------------------
\* Faulty variants of definitions below, each the slip that one property of the runs
\* is there to catch.  No action uses them.

EtapaAlReves(tipo, hecha) ==                         \* adds first, then removes
  IF <<tipo, hecha>> \in {<<"crear", "guardia">>, <<"actualizar", "guardia">>} THEN "agregar"
  ELSE IF <<tipo, hecha>> \in {<<"eliminar", "guardia">>, <<"actualizar", "agregar">>}
       THEN "quitar" ELSE "libre"

BorrarUna(p) == tabla' = [tabla EXCEPT ![p] = @ - 1]  \* as if rows were unique

RestanNinguno(faltan, rol) == {}                     \* only the first role is asked about

VisiblesSinSeccion(leidas) ==                        \* the estado of the section forgotten
  {m \in Modulos : /\ modulos[m] = "ACTIVO"
                   /\ Seccion[m] # Nulo /\ Seccion[Seccion[m]] = Nulo
                   /\ \E p \in leidas : p.objeto = Url[m]}

CargadasSemilla == Semilla                           \* the table is not read at the start

-----------------------------------------------------------------------------
\* The enforcer

\* enforce(rol, resource, action) over the policies ps
Permite(ps, rol, recurso) == \E p \in ps : Concede(p, rol, recurso)

\* loadPolicy
Cargadas == {p \in Politicas : tabla[p] > 0}

\* The statements of its adapter
InsertarFila(p) == tabla[p] < MaxFilas /\ tabla' = [tabla EXCEPT ![p] = @ + 1]
BorrarFilas(p) == tabla' = [tabla EXCEPT ![p] = 0]

-----------------------------------------------------------------------------
\* AuthorizationService: what a writer does after the stage it has finished.

Etapa(tipo, hecha) ==
  IF <<tipo, hecha>> \in {<<"crear", "guardia">>, <<"actualizar", "quitar">>} THEN "agregar"
  ELSE IF <<tipo, hecha>> \in {<<"eliminar", "guardia">>, <<"actualizar", "guardia">>}
       THEN "quitar" ELSE "libre"

\* The request once the stage is finished
Tras(peticion, hecha) ==
  IF Etapa(peticion.tipo, hecha) = "libre" THEN Libre
  ELSE [peticion EXCEPT !.pc = Etapa(peticion.tipo, hecha)]

-----------------------------------------------------------------------------
\* CasbinGuard.canActivate: one role of the token after another, until one is permitted.

\* A request arrives.  An empty array of roles is refused at once.
Pedir(g) ==
  /\ En(g, "libre")
  /\ \E recurso \in Recursos, roles \in SUBSET Roles \ {{}} :
       Sigue(g, [Libre EXCEPT
                  !.pc = "guardia", !.recurso = recurso, !.faltan = roles,
                  !.antes = {p \in memoria : \E rol \in roles : Concede(p, rol, recurso)}])
  /\ UNCHANGED <<memoria, tabla, modulos, limpias>>

Restan(faltan, rol) == faltan \ {rol}

Preguntar(g, rol) == En(g, "guardia") /\ rol \in peticiones[g].faltan

Permitida(g, recurso) ==
  /\ peticiones[g].recurso = recurso
  /\ \E rol \in Roles : Preguntar(g, rol) /\ Permite(memoria, rol, recurso)

\* Any handler but those below
AutorizarOtra(g) ==
  /\ \E recurso \in Recursos : Permitida(g, recurso)
  /\ Sigue(g, Libre)
  /\ UNCHANGED <<memoria, tabla, modulos, limpias>>

AutorizarPerfil(g) ==
  /\ Permitida(g, Perfil)
  /\ \E rol \in Roles :
       Sigue(g, [Libre EXCEPT !.pc = "politicas", !.rol = rol,
                              !.antes = Asignadas(memoria, rol),
                              !.visto = Asignadas(memoria, rol)])
  /\ UNCHANGED <<memoria, tabla, modulos, limpias>>

\* The handlers of AuthorizationController that write, with what the body and the query say
Empezar(g, tipo, vieja, nueva) ==
  /\ Permitida(g, Administracion)
  /\ Sigue(g, [Libre EXCEPT !.pc = Etapa(tipo, "guardia"), !.tipo = tipo,
                            !.vieja = vieja, !.nueva = nueva])
  /\ limpias' = {p \in limpias : p \in {vieja, nueva} =>
                                  \A h \in Peticiones \ {g} : ~ EscritaPor(h, p)}
  /\ UNCHANGED <<memoria, tabla, modulos>>

CrearPolitica(g) == \E p \in Enviadas : Empezar(g, "crear", Nulo, p)
EliminarPolitica(g) == \E p \in Enviadas : Empezar(g, "eliminar", p, Nulo)
ActualizarPolitica(g) == \E p, q \in Enviadas : Empezar(g, "actualizar", p, q)

SiguienteRol(g) ==
  /\ \E rol \in Roles :
       /\ Preguntar(g, rol) /\ ~ Permite(memoria, rol, peticiones[g].recurso)
       /\ Restan(peticiones[g].faltan, rol) # {}
       /\ Sigue(g, [peticiones[g] EXCEPT !.faltan = Restan(@, rol)])
  /\ UNCHANGED <<memoria, tabla, modulos, limpias>>

\* ForbiddenException
Denegar(g) ==
  /\ \E rol \in Roles :
       /\ Preguntar(g, rol) /\ ~ Permite(memoria, rol, peticiones[g].recurso)
       /\ Restan(peticiones[g].faltan, rol) = {}
  /\ Sigue(g, Libre)
  /\ UNCHANGED <<memoria, tabla, modulos, limpias>>

-----------------------------------------------------------------------------
\* removePolicy: look in memory, DELETE, forget.

QuitarAusente(g) ==
  /\ En(g, "quitar") /\ peticiones[g].vieja \notin memoria
  /\ Sigue(g, Tras(peticiones[g], "quitar"))
  /\ UNCHANGED <<memoria, tabla, modulos, limpias>>

Quitar(g) ==
  /\ En(g, "quitar") /\ peticiones[g].vieja \in memoria
  /\ Pasa(g, "borrar")
  /\ UNCHANGED <<memoria, tabla, modulos, limpias>>

Borrar(g) ==
  /\ En(g, "borrar")
  /\ BorrarFilas(peticiones[g].vieja)
  /\ Pasa(g, "olvidar")
  /\ UNCHANGED <<memoria, modulos, limpias>>

Olvidar(g) ==
  /\ En(g, "olvidar")
  /\ SigueCambiando(g, Tras(peticiones[g], "quitar"), memoria \ {peticiones[g].vieja})
  /\ UNCHANGED <<tabla, modulos, limpias>>

\* addPolicy: look in memory, INSERT, keep.

AgregarPresente(g) ==
  /\ En(g, "agregar") /\ peticiones[g].nueva \in memoria
  /\ Sigue(g, Tras(peticiones[g], "agregar"))
  /\ UNCHANGED <<memoria, tabla, modulos, limpias>>

Agregar(g) ==
  /\ En(g, "agregar") /\ peticiones[g].nueva \notin memoria
  /\ Pasa(g, "insertar")
  /\ UNCHANGED <<memoria, tabla, modulos, limpias>>

Insertar(g) ==
  /\ En(g, "insertar")
  /\ InsertarFila(peticiones[g].nueva)
  /\ Pasa(g, "anotar")
  /\ UNCHANGED <<memoria, modulos, limpias>>

Anotar(g) ==
  /\ En(g, "anotar")
  /\ SigueCambiando(g, Tras(peticiones[g], "agregar"), memoria \cup {peticiones[g].nueva})
  /\ UNCHANGED <<tabla, modulos, limpias>>

-----------------------------------------------------------------------------
\* obtenerPermisosPorRol: the policies are read before the SELECT of the modules.

LeerPoliticas(g) ==
  /\ En(g, "politicas")
  /\ Sigue(g, [peticiones[g] EXCEPT
                 !.pc = "menu", !.leidas = Asignadas(memoria, peticiones[g].rol)])
  /\ UNCHANGED <<memoria, tabla, modulos, limpias>>

\* The submodules in the answer: obtenerModulosSubmodulos, filtered with the policies.
Visibles(leidas) ==
  {m \in Modulos : /\ modulos[m] = "ACTIVO"
                   /\ Seccion[m] # Nulo
                   /\ Seccion[Seccion[m]] = Nulo /\ modulos[Seccion[m]] = "ACTIVO"
                   /\ \E p \in leidas : p.objeto = Url[m]}

ResponderMenu(g) ==
  /\ En(g, "menu")
  /\ Sigue(g, Libre)
  /\ UNCHANGED <<memoria, tabla, modulos, limpias>>

-----------------------------------------------------------------------------
\* ModuloService: the row found before the UPDATE is still there, nothing deletes one
\* (the route DELETE has no :id, and TypeORM refuses to delete without a criterion).

CambiarModulo(m, estado) ==
  /\ modulos' = [modulos EXCEPT ![m] = estado]
  /\ UNCHANGED <<memoria, tabla, peticiones, limpias>>

CrearModulo(m) ==
  /\ modulos[m] = "ausente"
  /\ Seccion[m] # Nulo => modulos[Seccion[m]] # "ausente"
  /\ CambiarModulo(m, "ACTIVO")

ActivarModulo(m) == modulos[m] = "INACTIVO" /\ CambiarModulo(m, "ACTIVO")
InactivarModulo(m) == modulos[m] = "ACTIVO" /\ CambiarModulo(m, "INACTIVO")

-----------------------------------------------------------------------------
\* What goes wrong

\* The await of a statement that was not executed rejects.
Abortar(g) ==
  /\ Fallos /\ peticiones[g].pc \in {"borrar", "insertar", "menu"}
  /\ Sigue(g, Libre)
  /\ UNCHANGED <<memoria, tabla, modulos, limpias>>

\* The await of one that was executed rejects: the enforcer does not go on.
PerderRespuesta(g) ==
  /\ Fallos /\ peticiones[g].pc \in {"olvidar", "anotar"}
  /\ Sigue(g, Libre)
  /\ limpias' = limpias \ Tocadas(peticiones[g])
  /\ UNCHANGED <<memoria, tabla, modulos>>

\* The process ends and the next one loads the table.
Reinicio ==
  /\ Fallos
  /\ memoria' = Cargadas
  /\ peticiones' = [g \in Peticiones |-> Libre]
  /\ limpias' = {p \in Politicas : tabla[p] <= 1}
  /\ UNCHANGED <<tabla, modulos>>

-----------------------------------------------------------------------------
InitPoliticas ==
  /\ memoria = Semilla
  /\ tabla = [p \in Politicas |-> IF p \in Semilla THEN 1 ELSE 0]
  /\ modulos \in {[m \in Modulos |-> "ausente"], [m \in Modulos |-> "ACTIVO"]}
  /\ peticiones = [g \in Peticiones |-> Libre]
  /\ limpias = Politicas

Guardia(g) ==
  \/ CrearPolitica(g) \/ EliminarPolitica(g) \/ ActualizarPolitica(g)
  \/ AutorizarPerfil(g) \/ AutorizarOtra(g) \/ SiguienteRol(g) \/ Denegar(g)

Escritura(g) ==
  \/ QuitarAusente(g) \/ Quitar(g) \/ Borrar(g) \/ Olvidar(g)
  \/ AgregarPresente(g) \/ Agregar(g) \/ Insertar(g) \/ Anotar(g)

Menu(g) == LeerPoliticas(g) \/ ResponderMenu(g)

CambiarModulos(m) == CrearModulo(m) \/ ActivarModulo(m) \/ InactivarModulo(m)

NextPoliticas ==
  \/ \E g \in Peticiones : \/ Pedir(g) \/ Guardia(g) \/ Escritura(g) \/ Menu(g)
                           \/ Abortar(g) \/ PerderRespuesta(g)
  \/ \E m \in Modulos : CambiarModulos(m)
  \/ Reinicio

SpecPoliticas == InitPoliticas /\ [][NextPoliticas]_varsPoliticas

-----------------------------------------------------------------------------
\* Types.
Peticion ==
  [pc : Pcs, tipo : Tipos \cup {Nulo}, faltan : SUBSET Roles, recurso : Recursos \cup {Nulo},
   vieja : Politicas \cup {Nulo}, nueva : Politicas \cup {Nulo}, rol : Roles \cup {Nulo},
   leidas : SUBSET Politicas, antes : SUBSET Politicas, visto : SUBSET Politicas]

TypeOKPoliticas ==
  /\ memoria \subseteq Politicas
  /\ tabla \in [Politicas -> 0..MaxFilas]
  /\ modulos \in [Modulos -> {"ausente", "ACTIVO", "INACTIVO"}]
  /\ peticiones \in [Peticiones -> Peticion]
  /\ limpias \subseteq Politicas

\* What the server decides with is what it would load if it started again: of a policy
\* whose writers never overlapped and nobody is writing, there is one row if the enforcer
\* has it and none if it has not, whatever was left half-way and however often the server
\* stopped (the steps of addPolicy and removePolicy, and loadPolicy).
MemoriaFiel ==
  \A p \in limpias :
    (\A g \in Peticiones : ~ EscritaPor(g, p)) =>
      tabla[p] = IF p \in memoria THEN 1 ELSE 0

\* An administrator who is answered got what was asked for: the policy created stands in
\* memory and in the table, the one eliminated or replaced in neither, even if an update
\* replaces a policy by itself or one that was not there, whatever others did to other
\* policies in between (crearPolitica, actualizarPolitica, eliminarPolitica).
Completa(g) == QuitarAusente(g) \/ Olvidar(g) \/ AgregarPresente(g) \/ Anotar(g)

CambioCumplido ==
  [][\A g \in Peticiones :
       Completa(g) /\ peticiones'[g] = Libre =>
         LET r == peticiones[g] IN
         /\ r.nueva \in limpias => r.nueva \in memoria' /\ tabla'[r.nueva] = 1
         /\ r.vieja \in limpias \ {r.nueva} => r.vieja \notin memoria' /\ tabla'[r.vieja] = 0
    ]_varsPoliticas

\* An update is not atomic, but it fails on the side of granting less: wherever it stops -
\* a statement that fails, an answer that is lost, the server itself - the policy replaced
\* and the new one are never both in force, nor would the next start load both, because the
\* old one is in neither place once the handler has begun to add (actualizarPolitica).
NuncaAmbas ==
  \A g \in Peticiones :
    LET r == peticiones[g] IN
    r.tipo = "actualizar" /\ r.pc \in PcAgregar /\ r.vieja \in limpias \ {r.nueva} =>
      r.vieja \notin memoria /\ tabla[r.vieja] = 0

\* Nobody is sent away with a 403 who had, from the arrival of the request to the answer,
\* a policy in his favour, be it of the last of his roles or of "*" (canActivate).
NegadaConRazon ==
  [][\A g \in Peticiones : Denegar(g) => peticiones[g].antes = {}]_varsPoliticas

\* A menu mixes policies of one moment with modules of a later one, and yet: an item in it
\* is active, with its section, and was granted while the menu was made; an active item
\* that was granted all along is in it (obtenerPermisosPorRol).
Asignado(ps, rol, m) == [sujeto |-> rol, objeto |-> Url[m], app |-> "frontend"] \in ps

EnMenuActivo(m) ==
  /\ modulos[m] = "ACTIVO" /\ Seccion[m] # Nulo
  /\ Seccion[Seccion[m]] = Nulo /\ modulos[Seccion[m]] = "ACTIVO"

MenuFiel ==
  [][\A g \in Peticiones :
       ResponderMenu(g) =>
         LET r == peticiones[g] IN
         \A m \in Modulos :
           /\ m \in Visibles(r.leidas) => EnMenuActivo(m) /\ Asignado(r.visto, r.rol, m)
           /\ EnMenuActivo(m) /\ Asignado(r.antes, r.rol, m) => m \in Visibles(r.leidas)
    ]_varsPoliticas
=============================================================================
