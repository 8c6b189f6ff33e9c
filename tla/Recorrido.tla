------------------------------ MODULE Recorrido ------------------------------
(***************************************************************************)
(* Somebody reads a catalogue page by page while others change it: the      *)
(* listings of roles, modulos, parametros and peliculas (listarTodos,       *)
(* listar), which take Limite rows, skip those of the pages before, and     *)
(* then count.  Each page is two statements, and two pages are two          *)
(* requests.                                                                *)
(*                                                                         *)
(* Of the rest of the system it only matters that rows appear, not always   *)
(* in the order of their ids.  No handler removes one: the only route that  *)
(* would, DELETE /modulos, brings no id and TypeORM refuses it (Eliminar of *)
(* Catalogo).                                                               *)
(***************************************************************************)
EXTENDS Naturals, FiniteSets

CONSTANTS
  Limite,    \* rows per page (PaginacionQueryDto.limite)
  MaxIds   \* bound: ids of rows

ASSUME LimiteSupuesto == Limite \in Nat \ {0}
ASSUME MaxIdsSupuesto == MaxIds \in Nat

VARIABLES
  lista,     \* which of the catalogues, chosen once
  ids,       \* the ids of its committed rows
  recorrido  \* of one client

varsRecorrido == <<lista, ids, recorrido>>

Fases == {"no", "select", "count", "fin"}

SinRecorrido ==
  [fase |-> "no", pagina |-> 0,
   previas |-> {},  \* history: the rows there were when it began
   vistas |-> {}]   \* the rows it was given so far

-----------------------------------------------------------------------------
\* Faulty variants of definitions below, each the slip that one property of the runs
\* is there to catch.  No action uses them.

SaltarDesdeUno(pagina) == pagina * Limite            \* as if pages began at 0

NuncaOrdenada(t) == FALSE                            \* no ORDER BY

SiempreHayMas(pagina, total) == TRUE                 \* a total that is not looked at

-----------------------------------------------------------------------------
\* PaginacionQueryDto.saltar
Saltar(pagina) == (pagina - 1) * Limite

\* The listings with ORDER BY id; those of parametros and peliculas have no order.
Ordenada(t) == t \in {"rol", "modulo"}

Rango(i) == Cardinality({j \in ids : j <= i})

EnOrden(pagina) ==
  {i \in ids : Saltar(pagina) < Rango(i) /\ Rango(i) <= Saltar(pagina) + Limite}

\* What a page may be: without an order, any rows of the table, as many as there are left.
Paginas(pagina) ==
  IF Ordenada(lista) THEN {EnOrden(pagina)}
  ELSE {s \in SUBSET ids : Cardinality(s) = Cardinality(EnOrden(pagina))}

\* There is another page: total is what the answer said (successListRows).
HayMas(pagina, total) == pagina * Limite < total

\* The COMMIT of an INSERT; the id was taken before, so a smaller one may appear later.
Aparecer ==
  /\ \E i \in (1..MaxIds) \ ids : ids' = ids \cup {i}
  /\ UNCHANGED recorrido

Empezar ==
  /\ recorrido.fase = "no"
  /\ recorrido' = [fase |-> "select", pagina |-> 1, previas |-> ids, vistas |-> {}]

\* getManyAndCount: the page...
Seleccionar ==
  /\ recorrido.fase = "select"
  /\ \E s \in Paginas(recorrido.pagina) :
       recorrido' = [recorrido EXCEPT !.fase = "count", !.vistas = @ \cup s]

\* ... and then the count, with which the page is answered.
Contar ==
  /\ recorrido.fase = "count"
  /\ recorrido' =
       IF HayMas(recorrido.pagina, Cardinality(ids))
       THEN [recorrido EXCEPT !.fase = "select", !.pagina = @ + 1]
       ELSE [recorrido EXCEPT !.fase = "fin"]

Dejar ==
  /\ recorrido.fase = "fin"
  /\ recorrido' = SinRecorrido

InitRecorrido ==
  /\ lista \in {"parametro", "rol", "modulo", "pelicula"}
  /\ ids = {}
  /\ recorrido = SinRecorrido

Leer == (Empezar \/ Seleccionar \/ Contar \/ Dejar) /\ UNCHANGED ids

NextRecorrido == (Aparecer \/ Leer) /\ UNCHANGED lista

SpecRecorrido == InitRecorrido /\ [][NextRecorrido]_varsRecorrido

-----------------------------------------------------------------------------
\* Properties

TypeOKRecorrido ==
  /\ lista \in {"parametro", "rol", "modulo", "pelicula"}
  /\ ids \subseteq 1..MaxIds
  /\ recorrido.fase \in Fases
  /\ recorrido.pagina \in Nat
  /\ recorrido.fase # "no" =>
       recorrido.pagina > 0 /\ Saltar(recorrido.pagina) <= Cardinality(ids)
  /\ recorrido.previas \subseteq ids
  /\ recorrido.vistas \subseteq ids

\* Whoever reads all the pages of roles or modulos has seen every row that was there when
\* they began, although new rows move the others to later pages and rows are committed out
\* of the order of their ids (listarTodos, listar).  It needs the order by id, a count made
\* after the page, and that no row is ever deleted.
RecorridoCompleto ==
  recorrido.fase = "fin" /\ lista \in {"rol", "modulo"} =>
    recorrido.previas \subseteq recorrido.vistas

\* Why: the rows still unseen are on the pages to come.
LoQueFalta ==
  lista \in {"rol", "modulo"} =>
    \A i \in recorrido.previas \ recorrido.vistas :
      Rango(i) > (IF recorrido.fase = "count" THEN recorrido.pagina * Limite
                  ELSE Saltar(recorrido.pagina))
=============================================================================
