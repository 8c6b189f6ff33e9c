----------------------------- MODULE CatalogoAbs -----------------------------
(***************************************************************************)
(* What the routes of a catalogue promise, with no statements or locks: an  *)
(* order takes effect at most once, at one moment between its arrival and   *)
(* its answer and only on the columns it gives; a refusal changes nothing   *)
(* and its reason was true at some moment in between; only an error says    *)
(* neither.                                                                 *)
(***************************************************************************)
EXTENDS Naturals

CONSTANTS Peticiones, Nulo, Fallos

VARIABLES
  tabla,    \* the catalogue
  filas,    \* its rows, by id
  pedidos   \* the order of each slot, forgotten when the answer, codigo, is decided

vars == <<tabla, filas, pedidos>>

\* No order, and the answer to the last one
Nada(codigo) ==
  [ruta |-> Nulo, id |-> Nulo, codigo |-> codigo,
   cuerpo |-> [clave |-> Nulo, estado |-> Nulo, valido |-> TRUE]]
Nadie == Nada(0)

Pendiente(g) == pedidos[g].ruta # Nulo
Decide(g, codigo) == pedidos' = [pedidos EXCEPT ![g] = Nada(codigo)]

Unica == tabla # "pelicula"
Tomada(clave, id) ==
  Unica /\ \E i \in DOMAIN filas \ {id} : filas[i].clave = clave

Pedir(g) ==
  /\ pedidos[g] = Nadie
  /\ pedidos'[g].ruta # Nulo /\ pedidos'[g].codigo = 0
  /\ \A h \in Peticiones \ {g} : pedidos'[h] = pedidos[h]
  /\ UNCHANGED <<tabla, filas>>

\* Done; without an answer the client gets a 500.
Hecha(g, codigo) ==
  \/ Decide(g, codigo)
  \/ Fallos /\ Decide(g, 500)

Crear(g) ==
  LET cuerpo == pedidos[g].cuerpo IN
  /\ Pendiente(g) /\ pedidos[g].ruta = "crear"
  /\ cuerpo.valido /\ ~ Tomada(cuerpo.clave, Nulo)
  /\ \E i \in DOMAIN filas' \ DOMAIN filas :
       filas' = [j \in DOMAIN filas \cup {i} |->
                   IF j = i THEN [clave |-> cuerpo.clave, estado |-> "ACTIVO"] ELSE filas[j]]
  /\ Hecha(g, 201)
  /\ UNCHANGED tabla

Cambiar(g) ==
  LET cuerpo == pedidos[g].cuerpo
      id == pedidos[g].id IN
  /\ Pendiente(g) /\ pedidos[g].ruta # "crear" /\ id \in DOMAIN filas
  /\ cuerpo.valido /\ ~ Tomada(cuerpo.clave, id)
  /\ filas' = [filas EXCEPT
       ![id].clave = IF cuerpo.clave = Nulo THEN @ ELSE cuerpo.clave,
       ![id].estado = IF cuerpo.estado = Nulo THEN @ ELSE cuerpo.estado]
  /\ Hecha(g, 200)
  /\ UNCHANGED tabla

\* The reason of each answer to an order that is not done.
Razon(g, codigo) ==
  LET pedido == pedidos[g]
      falta == pedido.ruta # "crear" /\ pedido.id \notin DOMAIN filas IN
  CASE codigo = 409 ->
         tabla = "parametro" /\ pedido.ruta = "crear" /\ Tomada(pedido.cuerpo.clave, Nulo)
    [] codigo = 404 -> tabla # "pelicula" /\ falta
    [] codigo = 412 -> tabla = "pelicula" /\ falta
    [] codigo = 200 -> tabla = "modulo" /\ pedido.ruta = "actualizar" /\ falta
    [] codigo = 500 ->
         \/ Fallos
         \/ ~ pedido.cuerpo.valido
         \/ Tomada(pedido.cuerpo.clave, pedido.id)
         \/ tabla = "modulo" /\ pedido.ruta = "eliminar"
    [] OTHER -> FALSE

Rechazar(g) ==
  /\ Pendiente(g)
  /\ \E codigo \in {200, 404, 409, 412, 500} : Razon(g, codigo) /\ Decide(g, codigo)
  /\ UNCHANGED <<tabla, filas>>

Responder(g) ==
  /\ pedidos[g].codigo # 0
  /\ pedidos' = [pedidos EXCEPT ![g] = Nadie]
  /\ UNCHANGED <<tabla, filas>>

Init ==
  /\ filas = <<>>
  /\ pedidos = [g \in Peticiones |-> Nadie]

Next ==
  \E g \in Peticiones :
    Pedir(g) \/ Crear(g) \/ Cambiar(g) \/ Rechazar(g) \/ Responder(g)

Spec == Init /\ [][Next]_vars
=============================================================================
