------------------------------- MODULE Catalogo ------------------------------
(***************************************************************************)
(* The four tables that administrators edit by routes of the same shape:    *)
(* parametros (ParametroService), roles (RolService), modulos               *)
(* (ModuloService) and pelicula (PeliculaService), each with its            *)
(* repository.  A request is a chain of awaits, each a statement that       *)
(* PostgreSQL runs on its own (READ COMMITTED, one row lock at a time);     *)
(* only save() is a transaction: BEGIN, INSERT, COMMIT.  What a handler     *)
(* throws becomes an answer by Respuestas.                                  *)
(*                                                                         *)
(* No statement removes a row: the one route that would, DELETE of          *)
(* modulos, has no id and TypeORM refuses it.                               *)
(***************************************************************************)
EXTENDS Respuestas, FiniteSets

CONSTANTS
  Claves,      \* values of parametros.codigo, roles.rol, modulos.url, pelicula.title
  Peticiones,  \* slots for requests served at the same time
  Nulo,        \* undefined
  MaxFilas,    \* bound: ids that requests may take from the sequence
  Fallos       \* whether an await may fail and an answer be lost

Tablas == {"parametro", "rol", "modulo", "pelicula"}

Rutas == {"crear", "actualizar", "activar", "inactivar", "eliminar"}

ASSUME NuloSupuesto == Nulo \notin Claves \cup Nat \cup Rutas
ASSUME PeticionesSupuesto == IsFiniteSet(Peticiones)
ASSUME MaxFilasSupuesto == MaxFilas \in Nat
ASSUME FallosCatalogoSupuesto == Fallos \in BOOLEAN

VARIABLES
  tabla,       \* which of the four, chosen once
  filas,       \* its committed rows, by id
  secuencia,   \* last id the sequence gave
  peticiones   \* the request each slot serves

varsCatalogo == <<tabla, filas, secuencia, peticiones>>

-----------------------------------------------------------------------------
\* Rows and requests

Estados == {"ACTIVO", "INACTIVO", "ELIMINADO"}
Filas == [clave : Claves, estado : Estados]

\* What a request writes: the columns it gives, and whether the rest of them meet the
\* constraints of the table (lengths, the CHECK of estado, foreign keys).
Cuerpo(clave, estado, valido) == [clave |-> clave, estado |-> estado, valido |-> valido]

\* What the methods of a service are given to write: a body, or a column they set.
DeCrear == [clave : Claves, estado : {Nulo}, valido : BOOLEAN]
DeActualizar ==
  [clave : Claves, estado : {Nulo, "ACTIVO", "INACTIVO"}, valido : {TRUE}]
  \cup [clave : Claves, estado : {Nulo}, valido : {FALSE}]
SoloEstado(estado) == {Cuerpo(Nulo, estado, TRUE)}

\* A method: its first await and what it writes
Metodo(await, cuerpos) == [await |-> await, cuerpos |-> cuerpos]

ParametroService ==
  [crear |-> Metodo("buscarCodigo", DeCrear),
   actualizar |-> Metodo("buscarPorId", DeActualizar),
   activar |-> Metodo("buscarPorId", SoloEstado("ACTIVO")),
   inactivar |-> Metodo("buscarPorId", SoloEstado("INACTIVO"))]

RolService ==
  [crear |-> Metodo("insertar", DeCrear),
   actualizar |-> Metodo("buscarPorId", DeActualizar),
   activar |-> Metodo("buscarPorId", SoloEstado("ACTIVO")),
   inactivar |-> Metodo("buscarPorId", SoloEstado("INACTIVO"))]

\* actualizar does not look for the row.
ModuloService ==
  [crear |-> Metodo("insertar", DeCrear),
   actualizar |-> Metodo("actualizar", DeActualizar),
   activar |-> Metodo("buscarPorId", SoloEstado("ACTIVO")),
   inactivar |-> Metodo("buscarPorId", SoloEstado("INACTIVO")),
   eliminar |-> Metodo("eliminar", SoloEstado(Nulo))]

PeliculaService ==
  [crear |-> Metodo("insertar", DeCrear),
   activar |-> Metodo("buscarPorId", SoloEstado("ACTIVO")),
   inactivar |-> Metodo("buscarPorId", SoloEstado("INACTIVO")),
   eliminar |-> Metodo("buscarPorId", SoloEstado("ELIMINADO"))]

\* Their routes
ParametroController == {"crear", "actualizar", "activar", "inactivar"}
RolController == {"crear", "actualizar", "activar", "inactivar"}
ModuloController == {"crear", "actualizar", "activar", "inactivar", "eliminar"}
PeliculaController == {"crear", "inactivar", "eliminar"}

Servicio(t) ==
  CASE t = "parametro" -> ParametroService [] t = "rol" -> RolService
    [] t = "modulo" -> ModuloService [] t = "pelicula" -> PeliculaService

Controlador(t) ==
  CASE t = "parametro" -> ParametroController [] t = "rol" -> RolController
    [] t = "modulo" -> ModuloController [] t = "pelicula" -> PeliculaController

Pcs == {"libre", "buscarCodigo", "insertar", "confirmar", "buscarPorId", "actualizar",
        "eliminar", "fin"}

\* id is the row asked for, nuevo the one that the INSERT made.
Nueva(pc, ruta, id, cuerpo) ==
  [pc |-> pc, ruta |-> ruta, id |-> id, cuerpo |-> cuerpo, nuevo |-> Nulo, codigo |-> 0]
Libre == Nueva("libre", Nulo, Nulo, Cuerpo(Nulo, Nulo, TRUE))

En(g, pc) == peticiones[g].pc = pc
Sigue(g, peticion) == peticiones' = [peticiones EXCEPT ![g] = peticion]
Pasa(g, pc) == Sigue(g, [peticiones[g] EXCEPT !.pc = pc])
Contesta(g, codigo) == Sigue(g, [Libre EXCEPT !.pc = "fin", !.codigo = codigo])
Lanzar(g, excepcion) == Contesta(g, Atrapar(excepcion, TRUE).codigo)

-----------------------------------------------------------------------------
\* Faulty variants of definitions below, each the slip that one property of the runs
\* is there to catch.  No action uses them.

NuncaUnica(t) == FALSE                               \* no UNIQUE: the search is all there is

ColumnasConDefecto(fila, cuerpo) ==                  \* insertarEstado run by an UPDATE too
  [clave |-> IF cuerpo.clave = Nulo THEN fila.clave ELSE cuerpo.clave,
   estado |-> IF cuerpo.estado = Nulo THEN "ACTIVO" ELSE cuerpo.estado]

NuevaFilaSinEstado(clave) ==                         \* an INSERT that runs no @BeforeInsert
  [clave |-> clave, estado |-> Nulo]

EnEsperaMutua(g, clave) ==                           \* the key locked before the INSERT
  \E h \in Peticiones \ {g} :
    peticiones[h].pc \in {"insertar", "confirmar"} /\ peticiones[h].cuerpo.clave = clave

-----------------------------------------------------------------------------
\* Constraints

\* unique: true of codigo, rol and url
Unica(t) == t \in {"parametro", "rol", "modulo"}

Repetida(clave, id) ==
  Unica(tabla) /\ \E i \in DOMAIN filas \ {id} : filas[i].clave = clave

\* PostgreSQL waits for the end of a transaction that has inserted the same key.
EnEspera(g, clave) ==
  /\ Unica(tabla)
  /\ \E h \in Peticiones \ {g} : En(h, "confirmar") /\ peticiones[h].cuerpo.clave = clave

\* insertarEstado
NuevaFila(clave) == [clave |-> clave, estado |-> "ACTIVO"]

\* An UPDATE sets the columns that are not undefined.
ConColumnas(fila, cuerpo) ==
  [clave |-> IF cuerpo.clave = Nulo THEN fila.clave ELSE cuerpo.clave,
   estado |-> IF cuerpo.estado = Nulo THEN fila.estado ELSE cuerpo.estado]

-----------------------------------------------------------------------------
\* A request arrives and is authenticated (getUser); the first await follows.

\* Requests that are to take an id of the sequence
Creadoras == {g \in Peticiones : En(g, "buscarCodigo") \/ En(g, "insertar")}

Llegar(g) ==
  /\ En(g, "libre")
  /\ \E ruta \in Controlador(tabla) :
       LET metodo == Servicio(tabla)[ruta] IN
       \E cuerpo \in metodo.cuerpos,
          id \in IF metodo.await \in {"buscarPorId", "actualizar"} THEN 1..MaxFilas ELSE {Nulo} :
         /\ ruta = "crear" => secuencia + Cardinality(Creadoras) < MaxFilas
         /\ Sigue(g, Nueva(metodo.await, ruta, id, cuerpo))
  /\ UNCHANGED <<tabla, filas, secuencia>>

\* ParametroService.crear: ConflictException if there is such a code
BuscarCodigo(g) ==
  /\ En(g, "buscarCodigo")
  /\ IF \E i \in DOMAIN filas : filas[i].clave = peticiones[g].cuerpo.clave
     THEN Lanzar(g, Lanza("Conflict"))
     ELSE Pasa(g, "insertar")
  /\ UNCHANGED <<tabla, filas, secuencia>>

\* save(): the INSERT takes an id, fails on a constraint (QueryFailedError) or is seen only
\* by its own transaction.
Insertar(g) ==
  LET cuerpo == peticiones[g].cuerpo IN
  /\ En(g, "insertar")
  /\ secuencia < MaxFilas
  /\ ~ EnEspera(g, cuerpo.clave)
  /\ secuencia' = secuencia + 1
  /\ IF cuerpo.valido /\ ~ Repetida(cuerpo.clave, Nulo)
     THEN Sigue(g, [peticiones[g] EXCEPT !.pc = "confirmar", !.nuevo = secuencia + 1])
     ELSE Lanzar(g, Otra("Error"))
  /\ UNCHANGED <<tabla, filas>>

\* Whether the answer of a statement that was done comes back.
Contestada(g, codigo) ==
  \/ Contesta(g, codigo)
  \/ Fallos /\ Lanzar(g, Otra("Error"))

\* COMMIT: the row is there for everybody.
Confirmar(g) ==
  LET peticion == peticiones[g] IN
  /\ En(g, "confirmar")
  /\ filas' = [i \in DOMAIN filas \cup {peticion.nuevo} |->
                 IF i = peticion.nuevo
                 THEN NuevaFila(peticion.cuerpo.clave) ELSE filas[i]]
  /\ Contestada(g, 201)
  /\ UNCHANGED <<tabla, secuencia>>

NoEncontrada(t) == Lanza(IF t = "pelicula" THEN "PreconditionFailed" ELSE "NotFound")

BuscarPorId(g) ==
  /\ En(g, "buscarPorId")
  /\ IF peticiones[g].id \in DOMAIN filas
     THEN Pasa(g, "actualizar")
     ELSE Lanzar(g, NoEncontrada(tabla))
  /\ UNCHANGED <<tabla, filas, secuencia>>

\* update(id, ...): the number of rows it changed is not looked at.
Actualizar(g) ==
  LET cuerpo == peticiones[g].cuerpo
      id == peticiones[g].id IN
  /\ En(g, "actualizar")
  /\ \/ /\ id \notin DOMAIN filas
        /\ Contesta(g, 200)
        /\ UNCHANGED filas
     \/ /\ id \in DOMAIN filas
        /\ ~ cuerpo.valido \/ (~ EnEspera(g, cuerpo.clave) /\ Repetida(cuerpo.clave, id))
        /\ Lanzar(g, Otra("Error"))
        /\ UNCHANGED filas
     \/ /\ id \in DOMAIN filas
        /\ cuerpo.valido /\ ~ EnEspera(g, cuerpo.clave) /\ ~ Repetida(cuerpo.clave, id)
        /\ filas' = [filas EXCEPT ![id] = ConColumnas(@, cuerpo)]
        /\ Contestada(g, 200)
  /\ UNCHANGED <<tabla, secuencia>>

\* DELETE /autorizacion/modulos: the route has no :id, and delete(undefined) throws.
Eliminar(g) ==
  /\ En(g, "eliminar")
  /\ Lanzar(g, Otra("Error"))
  /\ UNCHANGED <<tabla, filas, secuencia>>

\* A statement fails, or the connection is lost before the COMMIT: what was not committed
\* is rolled back.
Abortar(g) ==
  /\ Fallos
  /\ peticiones[g].pc \notin {"libre", "fin"}
  /\ Lanzar(g, Otra("Error"))
  /\ UNCHANGED <<tabla, filas, secuencia>>

Responder(g) ==
  /\ En(g, "fin")
  /\ Sigue(g, Libre)
  /\ UNCHANGED <<tabla, filas, secuencia>>

-----------------------------------------------------------------------------
InitCatalogo ==
  /\ tabla \in Tablas
  /\ filas = <<>>
  /\ secuencia = 0
  /\ peticiones = [g \in Peticiones |-> Libre]

Atender(g) ==
  \/ BuscarCodigo(g) \/ Insertar(g) \/ Confirmar(g)
  \/ BuscarPorId(g) \/ Actualizar(g) \/ Eliminar(g)
  \/ Responder(g)

NextCatalogo == \E g \in Peticiones : Llegar(g) \/ Atender(g) \/ Abortar(g)

SpecCatalogo == InitCatalogo /\ [][NextCatalogo]_varsCatalogo

\* Every statement is answered in the end, and PostgreSQL serves those who wait for a key
\* in their order.
JustaCatalogo == SpecCatalogo /\ \A g \in Peticiones : SF_varsCatalogo(Atender(g))

-----------------------------------------------------------------------------
\* Properties

TypeOKCatalogo ==
  /\ tabla \in Tablas
  /\ secuencia \in 0..MaxFilas
  /\ DOMAIN filas \subseteq 1..secuencia
  /\ filas \in [DOMAIN filas -> Filas]
  /\ peticiones \in
       [Peticiones ->
          [pc : Pcs, codigo : {0, 200, 201, 404, 409, 412, 500},
           ruta : Rutas \cup {Nulo},
           id : 1..MaxFilas \cup {Nulo}, nuevo : 1..MaxFilas \cup {Nulo},
           cuerpo : [clave : Claves \cup {Nulo}, estado : Estados \cup {Nulo},
                     valido : BOOLEAN]]]

\* Rows, and what is about to be committed: pairs of an id and a key
Guardadas ==
  {<<i, filas[i].clave>> : i \in DOMAIN filas}
  \cup {<<peticiones[g].nuevo, peticiones[g].cuerpo.clave>> :
          g \in {h \in Peticiones : En(h, "confirmar")}}

\* However the creations and renames of several administrators overlap, no two parametros,
\* roles or modulos have the same codigo, rol or url: crear of ParametroService looks for
\* it before it inserts and the others do not look at all, so all hangs on the constraint
\* and on who waits for whom (crear, actualizarDatos).
ClaveUnica ==
  tabla \in {"parametro", "rol", "modulo"} =>
    \A x, y \in Guardadas : x[2] = y[2] => x[1] = y[1]

Pedidos == [g \in Peticiones |->
  [ruta |-> peticiones[g].ruta, id |-> peticiones[g].id, cuerpo |-> peticiones[g].cuerpo,
   codigo |-> peticiones[g].codigo]]

Abs == INSTANCE CatalogoAbs WITH pedidos <- Pedidos

\* Each order is done once and whole, between its arrival and its answer, on the columns it
\* gave; a 4xx has changed nothing and had its reason; a 500 comes only of a failure, of a
\* key in use, of a body the table does not admit or from the DELETE without id.
ImplementaCatalogo == Abs!Spec

\* No request waits for ever: the only lock held across an await is the key of an INSERT,
\* by a transaction that waits for nobody.
TodaPeticionResponde ==
  \A g \in Peticiones : ~ En(g, "libre") ~> En(g, "fin")
=============================================================================
