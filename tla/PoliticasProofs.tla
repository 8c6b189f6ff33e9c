--------------------------- MODULE PoliticasProofs ---------------------------
(***************************************************************************)
(* Theorems about Politicas, for any roles, policies, modules and number of *)
(* requests at a time, with failures and restarts.                          *)
(***************************************************************************)
EXTENDS Politicas, TLAPS

\* What a request at work holds.
Forma(r) ==
  /\ r.pc \in PcQuitar =>
       /\ r.vieja \in Politicas
       /\ \/ r.tipo = "eliminar" /\ r.nueva = Nulo
          \/ r.tipo = "actualizar" /\ r.nueva \in Politicas
  /\ r.pc \in PcAgregar => r.nueva \in Politicas

\* What its history is worth while the enforcer has ps: the policies in favour of a request
\* that the guard has not answered are of roles still to be asked about, and those of a
\* menu are among the ones read.
Historia(r, ps) ==
  /\ r.antes \subseteq ps
  /\ r.pc \in PcQuitar \cup PcAgregar => r.antes = {}
  /\ r.pc = "guardia" =>
       \A p \in r.antes : \E rol \in r.faltan : Concede(p, rol, r.recurso)
  /\ r.pc \in {"politicas", "menu"} =>
       Asignadas(ps, r.rol) \subseteq r.visto /\ Asignadas(r.antes, r.rol) = r.antes
  /\ r.pc = "menu" =>
       r.antes \subseteq r.leidas /\ r.leidas \subseteq r.visto
       /\ Asignadas(r.leidas, r.rol) = r.leidas

InvForma ==
  /\ TypeOKPoliticas
  /\ \A g \in Peticiones : Forma(peticiones[g]) /\ Historia(peticiones[g], memoria)

\* A policy has a statement executed whose answer the enforcer has not seen.
Pendiente(g, p) ==
  \/ En(g, "olvidar") /\ peticiones[g].vieja = p
  \/ En(g, "anotar") /\ peticiones[g].nueva = p

UnEscritor ==
  \A p \in limpias : \A g, h \in Peticiones : EscritaPor(g, p) /\ EscritaPor(h, p) => g = h

DeAcuerdo ==
  \A p \in limpias :
    (\A g \in Peticiones : ~ Pendiente(g, p)) => tabla[p] = IF p \in memoria THEN 1 ELSE 0

EnMarcha ==
  \A p \in limpias : \A g \in Peticiones :
    /\ En(g, "olvidar") /\ peticiones[g].vieja = p => tabla[p] = 0
    /\ En(g, "anotar") /\ peticiones[g].nueva = p => tabla[p] = 1
    /\ En(g, "insertar") /\ peticiones[g].nueva = p => p \notin memoria
    /\ peticiones[g].pc \in PcAgregar /\ peticiones[g].vieja = p /\ peticiones[g].nueva # p =>
         p \notin memoria

InvCuenta == UnEscritor /\ DeAcuerdo /\ EnMarcha

InvPoliticas == InvForma /\ InvCuenta

-----------------------------------------------------------------------------
\* Requests

LEMMA LibreTipo == Libre \in Peticion /\ Libre.pc = "libre" /\ Libre.antes = {}
BY DEF Libre, Peticion, Pcs

LEMMA TrasQuitar ==
  ASSUME NEW r \in Peticion
  PROVE  /\ r.tipo = "eliminar" => Tras(r, "quitar") = Libre
         /\ r.tipo = "actualizar" => Tras(r, "quitar") = [r EXCEPT !.pc = "agregar"]
<1>1. r.tipo = "eliminar" => Etapa(r.tipo, "quitar") = "libre"
  BY DEF Etapa
<1>2. r.tipo = "actualizar" => Etapa(r.tipo, "quitar") = "agregar"
  BY DEF Etapa
<1> QED BY <1>1, <1>2 DEF Tras

LEMMA TrasAgregar ==
  ASSUME NEW r \in Peticion
  PROVE  Tras(r, "agregar") = Libre
<1>1. Etapa(r.tipo, "agregar") = "libre"
  BY DEF Etapa
<1> QED BY <1>1 DEF Tras

LEMMA EtapaPrimera ==
  /\ Etapa("crear", "guardia") = "agregar"
  /\ Etapa("eliminar", "guardia") = "quitar"
  /\ Etapa("actualizar", "guardia") = "quitar"
BY DEF Etapa

\* The request g becomes r, and the others at most see the policies change.
LEMMA SiguePeticiones ==
  ASSUME peticiones \in [Peticiones -> Peticion], NEW g \in Peticiones, NEW r, Sigue(g, r)
  PROVE  /\ peticiones'[g] = r
         /\ \A h \in Peticiones \ {g} : peticiones'[h] = peticiones[h]
         /\ r \in Peticion => peticiones' \in [Peticiones -> Peticion]
BY DEF Sigue

LEMMA ObservadaTipo ==
  ASSUME NEW r \in Peticion, NEW ps \in SUBSET Politicas
  PROVE  /\ Observada(r, ps) \in Peticion
         /\ Observada(r, ps).pc = r.pc /\ Observada(r, ps).tipo = r.tipo
         /\ Observada(r, ps).faltan = r.faltan /\ Observada(r, ps).recurso = r.recurso
         /\ Observada(r, ps).vieja = r.vieja /\ Observada(r, ps).nueva = r.nueva
         /\ Observada(r, ps).rol = r.rol /\ Observada(r, ps).leidas = r.leidas
         /\ Observada(r, ps).antes = r.antes \cap ps
         /\ Observada(r, ps).visto = IF r.pc \in {"politicas", "menu"}
                                     THEN r.visto \cup Asignadas(ps, r.rol) ELSE r.visto
<1>1. Asignadas(ps, r.rol) \in SUBSET Politicas
  BY DEF Asignadas
<1> QED BY <1>1 DEF Observada, Peticion

LEMMA CambiandoPeticiones ==
  ASSUME peticiones \in [Peticiones -> Peticion], NEW g \in Peticiones, NEW r,
         NEW ps \in SUBSET Politicas, SigueCambiando(g, r, ps)
  PROVE  /\ memoria' = ps
         /\ peticiones'[g] = r
         /\ \A h \in Peticiones \ {g} : peticiones'[h] = Observada(peticiones[h], ps)
         /\ r \in Peticion => peticiones' \in [Peticiones -> Peticion]
BY ObservadaTipo DEF SigueCambiando
-----------------------------------------------------------------------------
\* Types and history

LEMMA FormaObservada ==
  ASSUME NEW r \in Peticion, NEW ps \in SUBSET Politicas, Forma(r)
  PROVE  Forma(Observada(r, ps))
<1> DEFINE o == Observada(r, ps)
<1>1. o.pc = r.pc /\ o.tipo = r.tipo /\ o.vieja = r.vieja /\ o.nueva = r.nueva
  BY ObservadaTipo
<1> HIDE DEF o
<1>2. Forma(o)
  BY <1>1 DEF Forma
<1> QED BY <1>2 DEF o

LEMMA HistoriaObservada ==
  ASSUME NEW r \in Peticion, NEW ps \in SUBSET Politicas, NEW qs \in SUBSET Politicas,
         Historia(r, qs)
  PROVE  Historia(Observada(r, ps), ps)
<1> DEFINE o == Observada(r, ps)
<1>1. /\ o.pc = r.pc /\ o.faltan = r.faltan /\ o.recurso = r.recurso
      /\ o.rol = r.rol /\ o.leidas = r.leidas /\ o.antes = r.antes \cap ps
      /\ o.visto = IF r.pc \in {"politicas", "menu"}
                   THEN r.visto \cup Asignadas(ps, r.rol) ELSE r.visto
  BY ObservadaTipo
<1> HIDE DEF o
<1>2. Historia(o, ps)
  BY <1>1 DEF Historia, Asignadas
<1> QED BY <1>2 DEF o

\* A step of one request that leaves the enforcer alone
LEMMA FormaSigue ==
  ASSUME InvForma, NEW g \in Peticiones, NEW r \in Peticion, Sigue(g, r),
         Forma(r), Historia(r, memoria), memoria' = memoria,
         tabla' \in [Politicas -> 0..MaxFilas], modulos' = modulos, limpias' \subseteq limpias
  PROVE  InvForma'
BY SiguePeticiones DEF InvForma, TypeOKPoliticas

\* A step of one request that changes it
LEMMA FormaCambiando ==
  ASSUME InvForma, NEW g \in Peticiones, NEW r \in Peticion, NEW ps \in SUBSET Politicas,
         SigueCambiando(g, r, ps), Forma(r), Historia(r, ps),
         UNCHANGED <<tabla, modulos, limpias>>
  PROVE  InvForma'
<1>1. TypeOKPoliticas'
  BY CambiandoPeticiones DEF InvForma, TypeOKPoliticas
<1>2. ASSUME NEW h \in Peticiones \ {g}
      PROVE  Forma(peticiones'[h]) /\ Historia(peticiones'[h], ps)
  <2>1. peticiones[h] \in Peticion /\ peticiones'[h] = Observada(peticiones[h], ps)
    BY CambiandoPeticiones DEF InvForma, TypeOKPoliticas
  <2>2. Forma(Observada(peticiones[h], ps))
    BY <2>1, FormaObservada DEF InvForma
  <2>3. Historia(Observada(peticiones[h], ps), ps)
    BY <2>1, HistoriaObservada DEF InvForma, TypeOKPoliticas
  <2> QED BY <2>1, <2>2, <2>3
<1>3. memoria' = ps /\ peticiones'[g] = r
  BY CambiandoPeticiones DEF InvForma, TypeOKPoliticas
<1> QED BY <1>1, <1>2, <1>3 DEF InvForma

LEMMA HistoriaVacia ==
  ASSUME NEW r, NEW ps, r.antes = {}, r.pc \notin {"politicas", "menu"}
  PROVE  Historia(r, ps)
BY DEF Historia

LEMMA FormaLibre == Forma(Libre) /\ \A ps : Historia(Libre, ps)
BY HistoriaVacia, LibreTipo DEF Forma, PcQuitar, PcAgregar

\* The server starts with no request at work and memory equal to the table of the seeds.
THEOREM FormaInicial == InitPoliticas => InvForma
<1> SUFFICES ASSUME InitPoliticas PROVE InvForma
  OBVIOUS
<1>1. \A g \in Peticiones : peticiones[g] = Libre
  BY DEF InitPoliticas
<1>2. TypeOKPoliticas
  BY LibreTipo, SemillaSupuesto, FilasPoliticasSupuesto DEF InitPoliticas, TypeOKPoliticas
<1> QED BY <1>1, <1>2, FormaLibre DEF InvForma

LEMMA FormaModulos ==
  ASSUME InvForma, NEW m \in Modulos, CambiarModulos(m)
  PROVE  InvForma'
BY DEF InvForma, TypeOKPoliticas, CambiarModulos, CrearModulo, ActivarModulo,
       InactivarModulo, CambiarModulo

LEMMA FormaReinicio == InvForma /\ Reinicio => InvForma'
<1> SUFFICES ASSUME InvForma, Reinicio PROVE InvForma'
  OBVIOUS
<1>1. \A g \in Peticiones : peticiones'[g] = Libre
  BY DEF Reinicio
<1>2. TypeOKPoliticas'
  BY LibreTipo DEF InvForma, TypeOKPoliticas, Reinicio, Cargadas
<1> QED BY <1>1, <1>2, FormaLibre DEF InvForma

\* Requests that are forgotten
LEMMA FormaTermina ==
  ASSUME InvForma, NEW g \in Peticiones,
         \/ AutorizarOtra(g) \/ Denegar(g) \/ ResponderMenu(g) \/ AgregarPresente(g)
         \/ Abortar(g) \/ PerderRespuesta(g)
  PROVE  InvForma'
<1>1. Sigue(g, Libre)
  <2>1. peticiones[g] \in Peticion
    BY DEF InvForma, TypeOKPoliticas
  <2> QED BY <2>1, TrasAgregar
          DEF AutorizarOtra, Denegar, ResponderMenu, AgregarPresente, Abortar, PerderRespuesta
<1>2. memoria' = memoria /\ tabla' = tabla /\ modulos' = modulos /\ limpias' \subseteq limpias
  BY DEF AutorizarOtra, Denegar, ResponderMenu, AgregarPresente, Abortar, PerderRespuesta
<1>3. tabla' \in [Politicas -> 0..MaxFilas]
  BY <1>2 DEF InvForma, TypeOKPoliticas
<1> QED BY <1>1, <1>2, <1>3, FormaSigue, FormaLibre, LibreTipo

\* Requests that begin something
LEMMA FormaPedir ==
  ASSUME InvForma, NEW g \in Peticiones, Pedir(g)
  PROVE  InvForma'
<1>1. PICK recurso \in Recursos, roles \in SUBSET Roles \ {{}} :
        Sigue(g, [Libre EXCEPT
                   !.pc = "guardia", !.recurso = recurso, !.faltan = roles,
                   !.antes = {p \in memoria : \E rol \in roles : Concede(p, rol, recurso)}])
  BY DEF Pedir
<1> DEFINE r == [Libre EXCEPT
                   !.pc = "guardia", !.recurso = recurso, !.faltan = roles,
                   !.antes = {p \in memoria : \E rol \in roles : Concede(p, rol, recurso)}]
<1>2. memoria \subseteq Politicas /\ tabla \in [Politicas -> 0..MaxFilas]
  BY DEF InvForma, TypeOKPoliticas
<1>3. r \in Peticion
  BY <1>2 DEF Libre, Peticion, Pcs
<1>4. r.pc = "guardia" /\ r.faltan = roles /\ r.recurso = recurso
      /\ r.antes = {p \in memoria : \E rol \in roles : Concede(p, rol, recurso)}
  BY DEF Libre
<1>5. Sigue(g, r)
  BY <1>1
<1> HIDE DEF r
<1>6. Forma(r) /\ Historia(r, memoria)
  BY <1>4 DEF Forma, Historia, PcQuitar, PcAgregar
<1> QED BY <1>2, <1>3, <1>5, <1>6, FormaSigue DEF Pedir

LEMMA FormaSiguienteRol ==
  ASSUME InvForma, NEW g \in Peticiones, SiguienteRol(g)
  PROVE  InvForma'
<1>1. PICK rol \in Roles :
        /\ Preguntar(g, rol) /\ ~ Permite(memoria, rol, peticiones[g].recurso)
        /\ Sigue(g, [peticiones[g] EXCEPT !.faltan = Restan(@, rol)])
  BY DEF SiguienteRol
<1> DEFINE r == [peticiones[g] EXCEPT !.faltan = Restan(@, rol)]
<1>2. peticiones[g] \in Peticion /\ Historia(peticiones[g], memoria)
      /\ tabla \in [Politicas -> 0..MaxFilas]
  BY DEF InvForma, TypeOKPoliticas
<1>3. r \in Peticion
  BY <1>2 DEF Peticion, Restan
<1>4. r.pc = peticiones[g].pc /\ r.antes = peticiones[g].antes
      /\ r.recurso = peticiones[g].recurso /\ r.faltan = peticiones[g].faltan \ {rol}
  BY <1>2 DEF Peticion, Restan
<1>5. Sigue(g, r)
  BY <1>1
<1>6. peticiones[g].pc = "guardia"
  BY <1>1 DEF Preguntar, En
<1> HIDE DEF r
<1>7. Forma(r)
  BY <1>4, <1>6 DEF Forma, PcQuitar, PcAgregar
<1>8. \A p \in r.antes : \E otro \in r.faltan : Concede(p, otro, r.recurso)
  BY <1>1, <1>2, <1>4, <1>6 DEF Historia, Permite
<1>9. Historia(r, memoria)
  BY <1>2, <1>4, <1>6, <1>8 DEF Historia
<1> QED BY <1>2, <1>3, <1>5, <1>7, <1>9, FormaSigue DEF SiguienteRol

LEMMA FormaPerfil ==
  ASSUME InvForma, NEW g \in Peticiones, AutorizarPerfil(g) \/ LeerPoliticas(g)
  PROVE  InvForma'
<1>0. /\ memoria \subseteq Politicas /\ tabla \in [Politicas -> 0..MaxFilas]
      /\ peticiones[g] \in Peticion /\ Historia(peticiones[g], memoria)
      /\ \A rol : Asignadas(memoria, rol) \in SUBSET Politicas
  BY DEF InvForma, TypeOKPoliticas, Asignadas
<1>1. CASE AutorizarPerfil(g)
  <2>1. PICK rol \in Roles :
          Sigue(g, [Libre EXCEPT !.pc = "politicas", !.rol = rol,
                                 !.antes = Asignadas(memoria, rol),
                                 !.visto = Asignadas(memoria, rol)])
    BY <1>1 DEF AutorizarPerfil
  <2> DEFINE r == [Libre EXCEPT !.pc = "politicas", !.rol = rol,
                                !.antes = Asignadas(memoria, rol),
                                !.visto = Asignadas(memoria, rol)]
  <2>2. r \in Peticion
    BY <1>0 DEF Libre, Peticion, Pcs
  <2>3. r.pc = "politicas" /\ r.rol = rol /\ r.antes = Asignadas(memoria, rol)
        /\ r.visto = Asignadas(memoria, rol)
    BY DEF Libre
  <2>4. Sigue(g, r)
    BY <2>1
  <2> HIDE DEF r
  <2>5. Forma(r) /\ Historia(r, memoria)
    BY <2>3 DEF Forma, Historia, PcQuitar, PcAgregar, Asignadas
  <2> QED BY <1>0, <1>1, <2>2, <2>4, <2>5, FormaSigue DEF AutorizarPerfil
<1>2. CASE LeerPoliticas(g)
  <2> DEFINE leidas == Asignadas(memoria, peticiones[g].rol)
             r == [peticiones[g] EXCEPT !.pc = "menu", !.leidas = leidas]
  <2>1. Sigue(g, r)
    BY <1>2 DEF LeerPoliticas
  <2>2. r \in Peticion
    BY <1>0 DEF Peticion, Pcs
  <2>3. r.pc = "menu" /\ r.leidas = leidas /\ r.rol = peticiones[g].rol
        /\ r.antes = peticiones[g].antes /\ r.visto = peticiones[g].visto
    BY <1>0 DEF Peticion
  <2>4. peticiones[g].pc = "politicas"
    BY <1>2 DEF LeerPoliticas, En
  <2> HIDE DEF r
  <2>5. Forma(r) /\ Historia(r, memoria)
    BY <1>0, <2>3, <2>4 DEF Forma, Historia, PcQuitar, PcAgregar, Asignadas
  <2> QED BY <1>0, <1>2, <2>1, <2>2, <2>5, FormaSigue DEF LeerPoliticas
<1> QED BY <1>1, <1>2

\* A writer with another pc
LEMMA FormaPasa ==
  ASSUME NEW r \in Peticion, NEW a \in PcQuitar \cup PcAgregar
  PROVE  /\ [r EXCEPT !.pc = a] \in Peticion
         /\ [r EXCEPT !.pc = a].pc = a /\ [r EXCEPT !.pc = a].tipo = r.tipo
         /\ [r EXCEPT !.pc = a].vieja = r.vieja /\ [r EXCEPT !.pc = a].nueva = r.nueva
         /\ [r EXCEPT !.pc = a].antes = r.antes
         /\ \A ps : r.antes = {} => Historia([r EXCEPT !.pc = a], ps)
         /\ a \in PcQuitar /\ r.pc \in PcQuitar /\ Forma(r) => Forma([r EXCEPT !.pc = a])
         /\ a \in PcAgregar /\ r.nueva \in Politicas => Forma([r EXCEPT !.pc = a])
<1> DEFINE t == [r EXCEPT !.pc = a]
<1>1. t \in Peticion
  BY DEF Peticion, Pcs
<1>2. t.pc = a /\ t.tipo = r.tipo /\ t.vieja = r.vieja /\ t.nueva = r.nueva /\ t.antes = r.antes
  BY DEF Peticion
<1>3. a \notin {"guardia", "politicas", "menu"} /\ (a \in PcQuitar => a \notin PcAgregar)
      /\ (a \in PcAgregar => a \notin PcQuitar)
  BY DEF PcQuitar, PcAgregar
<1> HIDE DEF t
<1>4. \A ps : r.antes = {} => Historia(t, ps)
  BY <1>2, <1>3 DEF Historia
<1>5. a \in PcQuitar /\ r.pc \in PcQuitar /\ Forma(r) => Forma(t)
  BY <1>2, <1>3 DEF Forma
<1>6. a \in PcAgregar /\ r.nueva \in Politicas => Forma(t)
  BY <1>2, <1>3 DEF Forma
<1> QED BY <1>1, <1>2, <1>4, <1>5, <1>6 DEF t

LEMMA FormaEmpezar ==
  ASSUME InvForma, NEW g \in Peticiones,
         CrearPolitica(g) \/ EliminarPolitica(g) \/ ActualizarPolitica(g)
  PROVE  InvForma'
<1>1. ASSUME NEW tipo \in Tipos, NEW vieja \in Politicas \cup {Nulo},
             NEW nueva \in Politicas \cup {Nulo}, Empezar(g, tipo, vieja, nueva),
             \/ tipo = "crear" /\ nueva \in Politicas
             \/ tipo = "eliminar" /\ vieja \in Politicas /\ nueva = Nulo
             \/ tipo = "actualizar" /\ vieja \in Politicas /\ nueva \in Politicas
      PROVE  InvForma'
  <2> DEFINE r == [Libre EXCEPT !.pc = Etapa(tipo, "guardia"), !.tipo = tipo,
                                !.vieja = vieja, !.nueva = nueva]
  <2>1. Etapa(tipo, "guardia") = IF tipo = "crear" THEN "agregar" ELSE "quitar"
    BY <1>1, EtapaPrimera DEF Tipos
  <2> HIDE DEF r
  <2>2. r.pc = (IF tipo = "crear" THEN "agregar" ELSE "quitar") /\ r.tipo = tipo
        /\ r.vieja = vieja /\ r.nueva = nueva /\ r.antes = {}
    BY <2>1, Zenon DEF r, Libre
  <2>3. Etapa(tipo, "guardia") \in Pcs
    BY <2>1 DEF Pcs, PcQuitar, PcAgregar
  <2>4. r \in Peticion
    <3> DEFINE e == Etapa(tipo, "guardia")
    <3> HIDE DEF e
    <3>1. e \in Pcs => [Libre EXCEPT !.pc = e, !.tipo = tipo, !.vieja = vieja, !.nueva = nueva]
                      \in Peticion
      BY DEF Libre, Peticion
    <3> QED BY <3>1, <2>3 DEF r, e
  <2>5. Sigue(g, r)
    BY <1>1 DEF Empezar, r
  <2>6. Forma(r)
    BY <1>1, <2>2 DEF Forma, PcQuitar, PcAgregar
  <2>7. Historia(r, memoria)
    BY <2>2, HistoriaVacia
  <2> QED BY <1>1, <2>4, <2>5, <2>6, <2>7, FormaSigue DEF Empezar, InvForma, TypeOKPoliticas
<1> QED BY <1>1, SemillaSupuesto DEF CrearPolitica, EliminarPolitica, ActualizarPolitica, Tipos

\* The steps of a removal and of an addition
LEMMA FormaEscritura ==
  ASSUME InvForma, NEW g \in Peticiones, Escritura(g)
  PROVE  InvForma'
<1> DEFINE r == peticiones[g]
<1>1. /\ r \in Peticion /\ Forma(r) /\ Historia(r, memoria)
      /\ r.pc \in PcQuitar \cup PcAgregar => r.antes = {}
      /\ memoria \in SUBSET Politicas /\ tabla \in [Politicas -> 0..MaxFilas]
  BY DEF InvForma, TypeOKPoliticas, Historia
<1> HIDE DEF r
<1>2. \A a \in PcQuitar \cup PcAgregar : Pasa(g, a) => Sigue(g, [r EXCEPT !.pc = a])
  BY DEF Pasa, r
<1>3. CASE QuitarAusente(g)
  <2>1. r.pc = "quitar" /\ Sigue(g, Tras(r, "quitar"))
    BY <1>3 DEF QuitarAusente, En, r
  <2>2. memoria' = memoria /\ tabla' = tabla /\ modulos' = modulos /\ limpias' = limpias
    BY <1>3 DEF QuitarAusente
  <2>3. CASE r.tipo = "eliminar"
    BY <1>1, <2>1, <2>2, <2>3, TrasQuitar, FormaSigue, FormaLibre, LibreTipo
  <2>4. CASE r.tipo = "actualizar"
    <3>1. Sigue(g, [r EXCEPT !.pc = "agregar"]) /\ r.nueva \in Politicas
      BY <1>1, <2>1, <2>4, TrasQuitar DEF Forma, PcQuitar
    <3>2. "agregar" \in PcAgregar /\ r.antes = {}
      BY <1>1, <2>1 DEF PcAgregar, PcQuitar
    <3> QED BY <1>1, <2>2, <3>1, <3>2, FormaPasa, FormaSigue
  <2> QED BY <1>1, <2>1, <2>3, <2>4 DEF Forma, PcQuitar
<1>4. CASE Quitar(g)
  <2>1. r.pc \in PcQuitar /\ r.antes = {} /\ "borrar" \in PcQuitar /\ Pasa(g, "borrar")
    BY <1>1, <1>4 DEF Quitar, En, r, PcQuitar
  <2>2. memoria' = memoria /\ tabla' = tabla /\ modulos' = modulos /\ limpias' = limpias
    BY <1>4 DEF Quitar
  <2> QED BY <1>1, <1>2, <2>1, <2>2, FormaPasa, FormaSigue
<1>5. CASE Borrar(g)
  <2>1. r.pc \in PcQuitar /\ r.antes = {} /\ "olvidar" \in PcQuitar /\ Pasa(g, "olvidar")
    BY <1>1, <1>5 DEF Borrar, En, r, PcQuitar
  <2>2. memoria' = memoria /\ modulos' = modulos /\ limpias' = limpias
    BY <1>5 DEF Borrar
  <2>3. tabla' \in [Politicas -> 0..MaxFilas]
    <3>1. tabla' = [tabla EXCEPT ![r.vieja] = 0] /\ 0 \in 0..MaxFilas
      BY <1>5, FilasPoliticasSupuesto DEF Borrar, BorrarFilas, r
    <3> QED BY <1>1, <3>1
  <2> QED BY <1>1, <1>2, <2>1, <2>2, <2>3, FormaPasa, FormaSigue
<1>6. CASE Olvidar(g)
  <2> DEFINE ps == memoria \ {r.vieja}
  <2>1. r.pc = "olvidar" /\ SigueCambiando(g, Tras(r, "quitar"), ps)
    BY <1>6 DEF Olvidar, En, r
  <2>2. UNCHANGED <<tabla, modulos, limpias>> /\ ps \in SUBSET Politicas
    BY <1>1, <1>6 DEF Olvidar
  <2>3. CASE r.tipo = "eliminar"
    BY <1>1, <2>1, <2>2, <2>3, TrasQuitar, FormaCambiando, FormaLibre, LibreTipo
  <2>4. CASE r.tipo = "actualizar"
    <3>1. SigueCambiando(g, [r EXCEPT !.pc = "agregar"], ps) /\ r.nueva \in Politicas
      BY <1>1, <2>1, <2>4, TrasQuitar DEF Forma, PcQuitar
    <3>2. "agregar" \in PcAgregar
      BY DEF PcAgregar
    <3>3. r.antes = {}
      BY <1>1, <2>1 DEF PcQuitar
    <3> QED BY <1>1, <2>2, <3>1, <3>2, <3>3, FormaPasa, FormaCambiando
  <2> QED BY <1>1, <2>1, <2>3, <2>4 DEF Forma, PcQuitar
<1>7. CASE AgregarPresente(g)
  BY <1>7, FormaTermina
<1>8. CASE Agregar(g)
  <2>1. r.nueva \in Politicas /\ r.antes = {} /\ "insertar" \in PcAgregar /\ Pasa(g, "insertar")
    BY <1>1, <1>8 DEF Agregar, En, r, PcAgregar, Forma
  <2>2. memoria' = memoria /\ tabla' = tabla /\ modulos' = modulos /\ limpias' = limpias
    BY <1>8 DEF Agregar
  <2> QED BY <1>1, <1>2, <2>1, <2>2, FormaPasa, FormaSigue
<1>9. CASE Insertar(g)
  <2>1. r.nueva \in Politicas /\ r.antes = {} /\ "anotar" \in PcAgregar /\ Pasa(g, "anotar")
    BY <1>1, <1>9 DEF Insertar, En, r, PcAgregar, Forma
  <2>2. memoria' = memoria /\ modulos' = modulos /\ limpias' = limpias
    BY <1>9 DEF Insertar
  <2>3. tabla' \in [Politicas -> 0..MaxFilas]
    <3>1. tabla[r.nueva] < MaxFilas /\ tabla' = [tabla EXCEPT ![r.nueva] = @ + 1]
      BY <1>9 DEF Insertar, InsertarFila, r
    <3> QED BY <1>1, <2>1, <3>1, FilasPoliticasSupuesto
  <2> QED BY <1>1, <1>2, <2>1, <2>2, <2>3, FormaPasa, FormaSigue
<1>10. CASE Anotar(g)
  <2> DEFINE ps == memoria \cup {r.nueva}
  <2>1. r.nueva \in Politicas /\ SigueCambiando(g, Libre, ps)
    BY <1>1, <1>10, TrasAgregar DEF Anotar, En, r, Forma, PcAgregar
  <2>2. UNCHANGED <<tabla, modulos, limpias>> /\ ps \in SUBSET Politicas
    BY <1>1, <1>10, <2>1 DEF Anotar
  <2> QED BY <2>1, <2>2, FormaCambiando, FormaLibre, LibreTipo
<1> QED BY <1>3, <1>4, <1>5, <1>6, <1>7, <1>8, <1>9, <1>10, Zenon DEF Escritura

\* Every step of the guard, a writer, a menu, a failure or a restart keeps what requests
\* hold and what their histories say.
THEOREM FormaSeMantiene == InvForma /\ [NextPoliticas]_varsPoliticas => InvForma'
<1> SUFFICES ASSUME InvForma, [NextPoliticas]_varsPoliticas PROVE InvForma'
  OBVIOUS
<1>1. CASE UNCHANGED varsPoliticas
  BY <1>1 DEF InvForma, TypeOKPoliticas, varsPoliticas
<1>2. ASSUME NEW g \in Peticiones,
             \/ Pedir(g) \/ Guardia(g) \/ Escritura(g) \/ Menu(g)
             \/ Abortar(g) \/ PerderRespuesta(g)
      PROVE  InvForma'
  <2>1. CASE Pedir(g) BY <2>1, FormaPedir
  <2>2. CASE Guardia(g)
    BY <2>2, FormaEmpezar, FormaPerfil, FormaSiguienteRol, FormaTermina, Zenon DEF Guardia
  <2>3. CASE Escritura(g) BY <2>3, FormaEscritura
  <2>4. CASE Menu(g) BY <2>4, FormaPerfil, FormaTermina, Zenon DEF Menu
  <2>5. CASE Abortar(g) \/ PerderRespuesta(g) BY <2>5, FormaTermina, Zenon
  <2> QED BY <1>2, <2>1, <2>2, <2>3, <2>4, <2>5
<1>3. ASSUME NEW m \in Modulos, CambiarModulos(m) PROVE InvForma'
  BY <1>3, FormaModulos
<1>4. CASE Reinicio BY <1>4, FormaReinicio
<1> QED BY <1>1, <1>2, <1>3, <1>4, Zenon DEF NextPoliticas

-----------------------------------------------------------------------------
\* Memory and table

\* What the invariant sees of a request
Igual(h) ==
  /\ peticiones'[h].pc = peticiones[h].pc
  /\ peticiones'[h].vieja = peticiones[h].vieja
  /\ peticiones'[h].nueva = peticiones[h].nueva

\* Request g stays with its policies, or leaves them.
Continua(g) ==
  \/ peticiones'[g].pc \notin PcQuitar \cup PcAgregar
  \/ /\ Escribe(g)
     /\ peticiones'[g].vieja = peticiones[g].vieja
     /\ peticiones'[g].nueva = peticiones[g].nueva

LEMMA UnEscritorSigue ==
  ASSUME UnEscritor, NEW g \in Peticiones, limpias' \subseteq limpias,
         \A h \in Peticiones \ {g} : Igual(h), Continua(g)
  PROVE  UnEscritor'
<1>1. \A h \in Peticiones, p \in limpias' : EscritaPor(h, p)' => EscritaPor(h, p)
  BY DEF EscritaPor, Escribe, Tocadas, Igual, Continua
<1> QED BY <1>1 DEF UnEscritor

\* A request that is about to write a clean policy is the only one at it.
LEMMA Solo ==
  ASSUME InvForma, UnEscritor, NEW g \in Peticiones, NEW p \in limpias, EscritaPor(g, p),
         NEW h \in Peticiones \ {g}
  PROVE  /\ ~ EscritaPor(h, p) /\ ~ Pendiente(h, p)
         /\ ~ (En(h, "insertar") /\ peticiones[h].nueva = p)
         /\ ~ (peticiones[h].pc \in PcAgregar /\ peticiones[h].vieja = p)
<1>1. ~ EscritaPor(h, p)
  BY DEF UnEscritor
<1>2. p # Nulo
  BY NuloPoliticasSupuesto DEF InvForma, TypeOKPoliticas
<1> QED BY <1>1, <1>2
        DEF EscritaPor, Escribe, Tocadas, Pendiente, En, PcQuitar, PcAgregar

\* A step of g that touches neither memory nor table
LEMMA CuentaQuieta ==
  ASSUME InvCuenta, NEW g \in Peticiones, limpias' \subseteq limpias,
         memoria' = memoria, tabla' = tabla,
         \A h \in Peticiones \ {g} : Igual(h), Continua(g),
         \A p \in limpias' : ~ Pendiente(g, p) /\ ~ Pendiente(g, p)',
         \A p \in limpias' :
           /\ peticiones'[g].pc = "insertar" /\ peticiones'[g].nueva = p => p \notin memoria
           /\ /\ peticiones'[g].pc \in PcAgregar /\ peticiones'[g].vieja = p
              /\ peticiones'[g].nueva # p
              => p \notin memoria
  PROVE  InvCuenta'
<1>1. UnEscritor'
  BY UnEscritorSigue DEF InvCuenta
<1>2. \A h \in Peticiones, p \in limpias' : Pendiente(h, p)' <=> Pendiente(h, p)
  BY DEF Pendiente, En, Igual
<1>3. DeAcuerdo'
  BY <1>2 DEF InvCuenta, DeAcuerdo
<1>4. ASSUME NEW p \in limpias', NEW h \in Peticiones
      PROVE  /\ En(h, "olvidar")' /\ peticiones'[h].vieja = p => tabla'[p] = 0
             /\ En(h, "anotar")' /\ peticiones'[h].nueva = p => tabla'[p] = 1
             /\ En(h, "insertar")' /\ peticiones'[h].nueva = p => p \notin memoria'
             /\ /\ peticiones'[h].pc \in PcAgregar /\ peticiones'[h].vieja = p
                /\ peticiones'[h].nueva # p
                => p \notin memoria'
  <2>1. CASE h = g
    BY <2>1 DEF Pendiente, En
  <2>2. CASE h # g
    BY <2>2 DEF InvCuenta, EnMarcha, En, Igual
  <2> QED BY <2>1, <2>2
<1>5. EnMarcha'
  BY <1>4 DEF EnMarcha
<1> QED BY <1>1, <1>3, <1>5 DEF InvCuenta

\* A step of g that touches them at one policy
LEMMA CuentaCambia ==
  ASSUME InvForma, InvCuenta, NEW g \in Peticiones, limpias' = limpias,
         NEW q \in Politicas, EscritaPor(g, q),
         \A p \in Politicas \ {q} :
            (p \in memoria' <=> p \in memoria) /\ tabla'[p] = tabla[p],
         \A h \in Peticiones \ {g} : Igual(h), Continua(g),
         \A p \in limpias \ {q} : ~ Pendiente(g, p) /\ ~ Pendiente(g, p)',
         ~ Pendiente(g, q)' /\ q \in limpias => tabla'[q] = IF q \in memoria' THEN 1 ELSE 0,
         \A p \in limpias :
           /\ En(g, "olvidar")' /\ peticiones'[g].vieja = p => tabla'[p] = 0
           /\ En(g, "anotar")' /\ peticiones'[g].nueva = p => tabla'[p] = 1
           /\ En(g, "insertar")' /\ peticiones'[g].nueva = p => p \notin memoria'
           /\ /\ peticiones'[g].pc \in PcAgregar /\ peticiones'[g].vieja = p
              /\ peticiones'[g].nueva # p
              => p \notin memoria'
  PROVE  InvCuenta'
<1>0. limpias \subseteq Politicas
  BY DEF InvForma, TypeOKPoliticas
<1>1. UnEscritor'
  BY UnEscritorSigue DEF InvCuenta
<1>2. \A h \in Peticiones, p \in limpias \ {q} : Pendiente(h, p)' <=> Pendiente(h, p)
  BY DEF Pendiente, En, Igual
<1>3. DeAcuerdo'
  <2>1. ASSUME NEW p \in limpias, p # q, \A h \in Peticiones : ~ Pendiente(h, p)'
        PROVE  tabla'[p] = IF p \in memoria' THEN 1 ELSE 0
    BY <1>0, <1>2, <2>1 DEF InvCuenta, DeAcuerdo
  <2> QED BY <2>1 DEF DeAcuerdo
<1>4. ASSUME NEW p \in limpias, NEW h \in Peticiones
      PROVE  /\ En(h, "olvidar")' /\ peticiones'[h].vieja = p => tabla'[p] = 0
             /\ En(h, "anotar")' /\ peticiones'[h].nueva = p => tabla'[p] = 1
             /\ En(h, "insertar")' /\ peticiones'[h].nueva = p => p \notin memoria'
             /\ /\ peticiones'[h].pc \in PcAgregar /\ peticiones'[h].vieja = p
                /\ peticiones'[h].nueva # p
                => p \notin memoria'
  <2>1. CASE h = g
    BY <2>1
  <2>2. CASE h # g /\ p # q
    BY <1>0, <2>2 DEF InvCuenta, EnMarcha, En, Igual
  <2>3. CASE h # g /\ p = q
    <3>1. /\ ~ Pendiente(h, q) /\ ~ (En(h, "insertar") /\ peticiones[h].nueva = q)
          /\ ~ (peticiones[h].pc \in PcAgregar /\ peticiones[h].vieja = q)
      BY <2>3, Solo DEF InvCuenta
    <3> QED BY <2>3, <3>1 DEF Pendiente, En, Igual
  <2> QED BY <2>1, <2>2, <2>3
<1>5. EnMarcha'
  BY <1>4 DEF EnMarcha
<1> QED BY <1>1, <1>3, <1>5 DEF InvCuenta

LEMMA IgualesSigue ==
  ASSUME InvForma, NEW g \in Peticiones, NEW r, Sigue(g, r)
  PROVE  peticiones'[g] = r /\ \A h \in Peticiones \ {g} : Igual(h)
BY SiguePeticiones DEF InvForma, TypeOKPoliticas, Igual

LEMMA IgualesCambiando ==
  ASSUME InvForma, NEW g \in Peticiones, NEW r, NEW ps \in SUBSET Politicas,
         SigueCambiando(g, r, ps)
  PROVE  memoria' = ps /\ peticiones'[g] = r /\ \A h \in Peticiones \ {g} : Igual(h)
<1>1. peticiones \in [Peticiones -> Peticion]
  BY DEF InvForma, TypeOKPoliticas
<1>2. /\ memoria' = ps /\ peticiones'[g] = r
      /\ \A h \in Peticiones \ {g} : peticiones'[h] = Observada(peticiones[h], ps)
  BY <1>1, CambiandoPeticiones
<1>3. ASSUME NEW h \in Peticiones \ {g} PROVE Igual(h)
  <2>1. peticiones[h] \in Peticion /\ peticiones'[h] = Observada(peticiones[h], ps)
    BY <1>1, <1>2
  <2> DEFINE o == Observada(peticiones[h], ps)
  <2>2. o.pc = peticiones[h].pc /\ o.vieja = peticiones[h].vieja /\ o.nueva = peticiones[h].nueva
    BY <2>1, ObservadaTipo
  <2> QED BY <2>1, <2>2 DEF Igual
<1> QED BY <1>2, <1>3

\* A request outside the writers, before or after
LEMMA CuentaFuera ==
  ASSUME InvPoliticas, NEW g \in Peticiones, NEW r, Sigue(g, r),
         r.pc \in {"libre", "guardia", "politicas", "menu"},
         memoria' = memoria, tabla' = tabla, limpias' \subseteq limpias,
         \A p \in limpias' : ~ Pendiente(g, p)
  PROVE  InvCuenta'
<1>1. peticiones'[g] = r /\ \A h \in Peticiones \ {g} : Igual(h)
  BY IgualesSigue DEF InvPoliticas
<1>2. r.pc \notin PcQuitar \cup PcAgregar
  BY DEF PcQuitar, PcAgregar
<1>3. Continua(g)
  BY <1>1, <1>2 DEF Continua
<1>4. \A p : ~ Pendiente(g, p)'
  BY <1>1 DEF Pendiente, En
<1>5. \A p \in limpias' :
        /\ peticiones'[g].pc = "insertar" /\ peticiones'[g].nueva = p => p \notin memoria
        /\ /\ peticiones'[g].pc \in PcAgregar /\ peticiones'[g].vieja = p
           /\ peticiones'[g].nueva # p
           => p \notin memoria
  BY <1>1, <1>2 DEF PcAgregar
<1> QED BY <1>1, <1>3, <1>4, <1>5, CuentaQuieta DEF InvPoliticas

LEMMA CuentaTermina ==
  ASSUME InvPoliticas, NEW g \in Peticiones,
         \/ AutorizarOtra(g) \/ Denegar(g) \/ ResponderMenu(g) \/ AgregarPresente(g)
         \/ Abortar(g) \/ PerderRespuesta(g)
  PROVE  InvCuenta'
<1>1. Sigue(g, Libre) /\ Libre.pc = "libre"
  <2>1. peticiones[g] \in Peticion
    BY DEF InvPoliticas, InvForma, TypeOKPoliticas
  <2> QED BY <2>1, TrasAgregar, LibreTipo
          DEF AutorizarOtra, Denegar, ResponderMenu, AgregarPresente, Abortar, PerderRespuesta
<1>2. memoria' = memoria /\ tabla' = tabla /\ limpias' \subseteq limpias
  BY DEF AutorizarOtra, Denegar, ResponderMenu, AgregarPresente, Abortar, PerderRespuesta
<1>3. \A p \in limpias' : ~ Pendiente(g, p)
  <2>1. CASE PerderRespuesta(g)
    <3>1. limpias' = limpias \ Tocadas(peticiones[g]) /\ limpias \subseteq Politicas
      BY <2>1 DEF PerderRespuesta, InvPoliticas, InvForma, TypeOKPoliticas
    <3>2. \A p \in limpias : Pendiente(g, p) => p \in Tocadas(peticiones[g])
      BY <3>1, NuloPoliticasSupuesto DEF Pendiente, Tocadas
    <3> QED BY <3>1, <3>2
  <2>2. CASE \/ AutorizarOtra(g) \/ Denegar(g) \/ ResponderMenu(g) \/ AgregarPresente(g)
             \/ Abortar(g)
    BY <2>2 DEF AutorizarOtra, Permitida, Preguntar, Denegar, ResponderMenu, AgregarPresente,
                Abortar, En, Pendiente
  <2> QED BY <2>1, <2>2
<1> QED BY <1>1, <1>2, <1>3, CuentaFuera

LEMMA CuentaEspera ==
  ASSUME InvPoliticas, NEW g \in Peticiones,
         Pedir(g) \/ SiguienteRol(g) \/ AutorizarPerfil(g) \/ LeerPoliticas(g)
  PROVE  InvCuenta'
<1>1. peticiones[g].pc \in {"libre", "guardia", "politicas"}
  BY DEF Pedir, SiguienteRol, AutorizarPerfil, LeerPoliticas, Permitida, Preguntar, En
<1>2. \E r : Sigue(g, r) /\ r.pc \in {"guardia", "politicas", "menu"}
  <2>1. peticiones[g] \in Peticion
    BY DEF InvPoliticas, InvForma, TypeOKPoliticas
  <2>2. CASE Pedir(g)
    <3>1. PICK recurso, roles, ps :
            Sigue(g, [Libre EXCEPT !.pc = "guardia", !.recurso = recurso, !.faltan = roles,
                                   !.antes = ps])
      BY <2>2, Zenon DEF Pedir
    <3>2. [Libre EXCEPT !.pc = "guardia", !.recurso = recurso, !.faltan = roles,
                        !.antes = ps].pc = "guardia"
      BY DEF Libre
    <3> QED BY <3>1, <3>2
  <2>3. CASE SiguienteRol(g)
    BY <2>1, <2>3 DEF SiguienteRol, Preguntar, En, Peticion
  <2>4. CASE AutorizarPerfil(g)
    <3>1. PICK rol, ps :
            Sigue(g, [Libre EXCEPT !.pc = "politicas", !.rol = rol, !.antes = ps, !.visto = ps])
      BY <2>4, Zenon DEF AutorizarPerfil
    <3>2. [Libre EXCEPT !.pc = "politicas", !.rol = rol, !.antes = ps, !.visto = ps].pc
            = "politicas"
      BY DEF Libre
    <3> QED BY <3>1, <3>2
  <2>5. CASE LeerPoliticas(g)
    <3> DEFINE t == [peticiones[g] EXCEPT
                       !.pc = "menu", !.leidas = Asignadas(memoria, peticiones[g].rol)]
    <3>1. Sigue(g, t)
      BY <2>5 DEF LeerPoliticas
    <3>2. t.pc = "menu"
      BY <2>1 DEF Peticion
    <3> QED BY <3>1, <3>2
  <2> QED BY <2>2, <2>3, <2>4, <2>5
<1>3. memoria' = memoria /\ tabla' = tabla /\ limpias' = limpias
  BY DEF Pedir, SiguienteRol, AutorizarPerfil, LeerPoliticas
<1>4. \A p \in limpias' : ~ Pendiente(g, p)
  BY <1>1 DEF Pendiente, En
<1> QED BY <1>2, <1>3, <1>4, CuentaFuera

LEMMA CuentaEmpezar ==
  ASSUME InvPoliticas, NEW g \in Peticiones,
         CrearPolitica(g) \/ EliminarPolitica(g) \/ ActualizarPolitica(g)
  PROVE  InvCuenta'
<1>1. PICK tipo \in Tipos, vieja \in Politicas \cup {Nulo}, nueva \in Politicas \cup {Nulo} :
        Empezar(g, tipo, vieja, nueva) /\ (tipo = "crear" => vieja = Nulo)
  BY SemillaSupuesto DEF CrearPolitica, EliminarPolitica, ActualizarPolitica, Tipos
<1> DEFINE r == [Libre EXCEPT !.pc = Etapa(tipo, "guardia"), !.tipo = tipo,
                              !.vieja = vieja, !.nueva = nueva]
<1> HIDE DEF r
<1>2. r.pc = (IF tipo = "crear" THEN "agregar" ELSE "quitar")
      /\ r.vieja = vieja /\ r.nueva = nueva
  <2>1. Etapa(tipo, "guardia") = IF tipo = "crear" THEN "agregar" ELSE "quitar"
    BY EtapaPrimera DEF Tipos
  <2> QED BY <2>1, Zenon DEF r, Libre
<1>3. Sigue(g, r)
  BY <1>1 DEF Empezar, r
<1>4. peticiones'[g] = r /\ \A h \in Peticiones \ {g} : Igual(h)
  BY <1>3, IgualesSigue DEF InvPoliticas
<1>5. /\ memoria' = memoria /\ tabla' = tabla
      /\ limpias' = {p \in limpias : p \in {vieja, nueva} =>
                                     \A h \in Peticiones \ {g} : ~ EscritaPor(h, p)}
      /\ En(g, "guardia")
  BY <1>1 DEF Empezar, Permitida, Preguntar
<1>6. limpias \subseteq Politicas /\ Nulo \notin limpias
  BY NuloPoliticasSupuesto DEF InvPoliticas, InvForma, TypeOKPoliticas
<1>7. \A h \in Peticiones \ {g} : \A p : EscritaPor(h, p)' <=> EscritaPor(h, p)
  BY <1>4 DEF EscritaPor, Escribe, Tocadas, Igual
<1>8. \A p : EscritaPor(g, p)' => p \in {vieja, nueva}
  BY <1>2, <1>4 DEF EscritaPor, Tocadas
<1>9. UnEscritor'
  BY <1>5, <1>7, <1>8 DEF UnEscritor, InvPoliticas, InvCuenta
<1>10. \A h \in Peticiones : \A p : Pendiente(h, p)' <=> Pendiente(h, p)
  BY <1>2, <1>4, <1>5 DEF Pendiente, En, Igual
<1>11. DeAcuerdo'
  BY <1>5, <1>10 DEF DeAcuerdo, InvPoliticas, InvCuenta
<1>12. ASSUME NEW p \in limpias', NEW h \in Peticiones
       PROVE  /\ En(h, "olvidar")' /\ peticiones'[h].vieja = p => tabla'[p] = 0
              /\ En(h, "anotar")' /\ peticiones'[h].nueva = p => tabla'[p] = 1
              /\ En(h, "insertar")' /\ peticiones'[h].nueva = p => p \notin memoria'
              /\ /\ peticiones'[h].pc \in PcAgregar /\ peticiones'[h].vieja = p
                 /\ peticiones'[h].nueva # p
                 => p \notin memoria'
  <2>1. CASE h = g
    BY <1>1, <1>2, <1>4, <1>5, <1>6, <2>1 DEF En, PcAgregar
  <2>2. CASE h # g
    BY <1>4, <1>5, <2>2 DEF InvPoliticas, InvCuenta, EnMarcha, En, Igual
  <2> QED BY <2>1, <2>2
<1>13. EnMarcha'
  BY <1>12 DEF EnMarcha
<1> QED BY <1>9, <1>11, <1>13 DEF InvCuenta

LEMMA CuentaReinicio == InvPoliticas /\ Reinicio => InvCuenta'
<1> SUFFICES ASSUME InvPoliticas, Reinicio PROVE InvCuenta'
  OBVIOUS
<1>1. \A g \in Peticiones : peticiones'[g].pc = "libre"
  BY LibreTipo DEF Reinicio
<1>2. UnEscritor'
  BY <1>1 DEF UnEscritor, EscritaPor, Escribe, PcQuitar, PcAgregar
<1>3. EnMarcha'
  BY <1>1 DEF EnMarcha, En, PcAgregar
<1>4. \A p \in limpias' : tabla'[p] = IF p \in memoria' THEN 1 ELSE 0
  BY DEF Reinicio, Cargadas, InvPoliticas, InvForma, TypeOKPoliticas
<1>5. DeAcuerdo'
  BY <1>4 DEF DeAcuerdo
<1> QED BY <1>2, <1>3, <1>5 DEF InvCuenta

\* The steps of a removal and of an addition
LEMMA CuentaEscritura ==
  ASSUME InvPoliticas, NEW g \in Peticiones, Escritura(g)
  PROVE  InvCuenta'
<1>r. PICK r : r = peticiones[g]
  OBVIOUS
<1>1. /\ r \in Peticion /\ Forma(r) /\ tabla \in [Politicas -> 0..MaxFilas]
      /\ memoria \in SUBSET Politicas /\ limpias \subseteq Politicas /\ InvForma
  BY <1>r DEF InvPoliticas, InvForma, TypeOKPoliticas
<1>0. InvCuenta /\ Nulo \notin Politicas
  BY NuloPoliticasSupuesto DEF InvPoliticas
\* where the request goes, when it goes on with the same policies
<1>2. ASSUME NEW a \in PcQuitar \cup PcAgregar,
             Sigue(g, [r EXCEPT !.pc = a]), r.pc \in PcQuitar \cup PcAgregar
      PROVE  /\ \A h \in Peticiones \ {g} : Igual(h)
             /\ peticiones'[g].pc = a /\ peticiones'[g].vieja = r.vieja
             /\ peticiones'[g].nueva = r.nueva /\ Continua(g)
  <2>1. peticiones'[g] = [r EXCEPT !.pc = a] /\ \A h \in Peticiones \ {g} : Igual(h)
    BY <1>1, <1>2, IgualesSigue
  <2>2. /\ peticiones'[g].pc = a /\ peticiones'[g].vieja = r.vieja
        /\ peticiones'[g].nueva = r.nueva
    BY <1>1, <2>1, FormaPasa
  <2> QED BY <1>r, <1>2, <2>1, <2>2 DEF Continua, Escribe
<1>3. CASE QuitarAusente(g)
  <2>1. r.pc = "quitar" /\ r.vieja \notin memoria /\ Sigue(g, Tras(r, "quitar"))
        /\ memoria' = memoria /\ tabla' = tabla /\ limpias' = limpias
    BY <1>r, <1>3 DEF QuitarAusente, En
  <2>2. \A p : ~ Pendiente(g, p)
    BY <1>r, <2>1 DEF Pendiente, En
  <2>3. CASE r.tipo = "eliminar"
    <3>1. Sigue(g, Libre) /\ Libre.pc = "libre"
      BY <1>1, <2>1, <2>3, TrasQuitar, LibreTipo
    <3> QED BY <2>1, <2>2, <3>1, CuentaFuera
  <2>4. CASE r.tipo = "actualizar"
    <3>1. Sigue(g, [r EXCEPT !.pc = "agregar"])
      BY <1>1, <2>1, <2>4, TrasQuitar
    <3>2. "agregar" \in PcQuitar \cup PcAgregar /\ r.pc \in PcQuitar \cup PcAgregar
      BY <2>1 DEF PcQuitar, PcAgregar
    <3>3. /\ \A h \in Peticiones \ {g} : Igual(h)
          /\ peticiones'[g].pc = "agregar" /\ peticiones'[g].vieja = r.vieja
          /\ peticiones'[g].nueva = r.nueva /\ Continua(g)
      BY <1>2, <3>1, <3>2
    <3>4. \A p : ~ Pendiente(g, p)'
      BY <3>3 DEF Pendiente, En
    <3> QED BY <1>0, <2>1, <2>2, <3>3, <3>4, CuentaQuieta
  <2> QED BY <1>1, <2>1, <2>3, <2>4 DEF Forma, PcQuitar
<1>4. CASE Quitar(g)
  <2>1. r.pc = "quitar" /\ Sigue(g, [r EXCEPT !.pc = "borrar"])
        /\ memoria' = memoria /\ tabla' = tabla /\ limpias' = limpias
    BY <1>r, <1>4 DEF Quitar, En, Pasa
  <2>2. \A p : ~ Pendiente(g, p)
    BY <1>r, <2>1 DEF Pendiente, En
  <2>3. "borrar" \in PcQuitar \cup PcAgregar /\ r.pc \in PcQuitar \cup PcAgregar
        /\ "borrar" \notin PcAgregar
    BY <2>1 DEF PcQuitar, PcAgregar
  <2>4. /\ \A h \in Peticiones \ {g} : Igual(h)
        /\ peticiones'[g].pc = "borrar" /\ Continua(g)
    BY <1>2, <2>1, <2>3
  <2>5. \A p : ~ Pendiente(g, p)'
    BY <2>4 DEF Pendiente, En
  <2> QED BY <1>0, <2>1, <2>2, <2>3, <2>4, <2>5, CuentaQuieta
<1>5. CASE AgregarPresente(g)
  BY <1>5, CuentaTermina
<1>6. CASE Agregar(g)
  <2>1. r.pc = "agregar" /\ r.nueva \notin memoria /\ Sigue(g, [r EXCEPT !.pc = "insertar"])
        /\ memoria' = memoria /\ tabla' = tabla /\ limpias' = limpias
    BY <1>r, <1>6 DEF Agregar, En, Pasa
  <2>2. \A p : ~ Pendiente(g, p)
    BY <1>r, <2>1 DEF Pendiente, En
  <2>3. "insertar" \in PcQuitar \cup PcAgregar /\ r.pc \in PcAgregar
    BY <2>1 DEF PcQuitar, PcAgregar
  <2>4. /\ \A h \in Peticiones \ {g} : Igual(h)
        /\ peticiones'[g].pc = "insertar" /\ peticiones'[g].vieja = r.vieja
        /\ peticiones'[g].nueva = r.nueva /\ Continua(g)
    BY <1>2, <2>1, <2>3
  <2>5. \A p : ~ Pendiente(g, p)'
    BY <2>4 DEF Pendiente, En
  <2>6. \A p \in limpias : r.vieja = p /\ r.nueva # p => p \notin memoria
    BY <1>r, <1>0, <2>3 DEF InvCuenta, EnMarcha
  <2> QED BY <1>0, <2>1, <2>2, <2>4, <2>5, <2>6, CuentaQuieta
<1>7. CASE Borrar(g)
  <2>1. r.pc = "borrar" /\ Sigue(g, [r EXCEPT !.pc = "olvidar"]) /\ r.vieja \in Politicas
        /\ memoria' = memoria /\ tabla' = [tabla EXCEPT ![r.vieja] = 0] /\ limpias' = limpias
    BY <1>r, <1>1, <1>7 DEF Borrar, BorrarFilas, En, Pasa, Forma, PcQuitar
  <2>2. "olvidar" \in PcQuitar \cup PcAgregar /\ r.pc \in PcQuitar \cup PcAgregar
        /\ "olvidar" \notin PcAgregar
    BY <2>1 DEF PcQuitar, PcAgregar
  <2>3. /\ \A h \in Peticiones \ {g} : Igual(h)
        /\ peticiones'[g].pc = "olvidar" /\ peticiones'[g].vieja = r.vieja /\ Continua(g)
    BY <1>2, <2>1, <2>2
  <2>4. EscritaPor(g, r.vieja)
    BY <1>r, <1>0, <2>1, <2>2 DEF EscritaPor, Escribe, Tocadas
  <2>5. \A p \in limpias \ {r.vieja} : ~ Pendiente(g, p) /\ ~ Pendiente(g, p)'
    BY <1>r, <2>1, <2>3 DEF Pendiente, En
  <2>6. Pendiente(g, r.vieja)'
    BY <2>3 DEF Pendiente, En
  <2>7. \A p \in Politicas \ {r.vieja} :
          (p \in memoria' <=> p \in memoria) /\ tabla'[p] = tabla[p]
    BY <1>1, <2>1
  <2>8. tabla'[r.vieja] = 0
    BY <1>1, <2>1
  <2>9. \A p \in limpias :
          /\ En(g, "olvidar")' /\ peticiones'[g].vieja = p => tabla'[p] = 0
          /\ En(g, "anotar")' /\ peticiones'[g].nueva = p => tabla'[p] = 1
          /\ En(g, "insertar")' /\ peticiones'[g].nueva = p => p \notin memoria'
          /\ /\ peticiones'[g].pc \in PcAgregar /\ peticiones'[g].vieja = p
             /\ peticiones'[g].nueva # p
             => p \notin memoria'
    BY <2>2, <2>3, <2>8 DEF En
  <2> QED BY <1>0, <1>1, <2>1, <2>3, <2>4, <2>5, <2>6, <2>7, <2>9, CuentaCambia
<1>8. CASE Insertar(g)
  <2>1. r.pc = "insertar" /\ Sigue(g, [r EXCEPT !.pc = "anotar"]) /\ r.nueva \in Politicas
        /\ memoria' = memoria /\ tabla' = [tabla EXCEPT ![r.nueva] = @ + 1] /\ limpias' = limpias
    BY <1>r, <1>1, <1>8 DEF Insertar, InsertarFila, En, Pasa, Forma, PcAgregar
  <2>2. "anotar" \in PcQuitar \cup PcAgregar /\ r.pc \in PcAgregar
    BY <2>1 DEF PcQuitar, PcAgregar
  <2>3. /\ \A h \in Peticiones \ {g} : Igual(h)
        /\ peticiones'[g].pc = "anotar" /\ peticiones'[g].vieja = r.vieja
        /\ peticiones'[g].nueva = r.nueva /\ Continua(g)
    BY <1>2, <2>1, <2>2
  <2>4. EscritaPor(g, r.nueva)
    BY <1>r, <1>0, <2>1, <2>2 DEF EscritaPor, Escribe, Tocadas
  <2>5. \A p \in limpias \ {r.nueva} : ~ Pendiente(g, p) /\ ~ Pendiente(g, p)'
    BY <1>r, <2>1, <2>3 DEF Pendiente, En
  <2>6. Pendiente(g, r.nueva)'
    BY <2>3 DEF Pendiente, En
  <2>7. \A p \in Politicas \ {r.nueva} :
          (p \in memoria' <=> p \in memoria) /\ tabla'[p] = tabla[p]
    BY <1>1, <2>1
  <2>8. r.nueva \in limpias => tabla'[r.nueva] = 1
    <3> SUFFICES ASSUME r.nueva \in limpias PROVE tabla'[r.nueva] = 1
      OBVIOUS
    <3>1. \A h \in Peticiones : ~ Pendiente(h, r.nueva)
      BY <1>r, <1>0, <1>1, <2>1, <2>4, Solo DEF InvCuenta, Pendiente, En
    <3>2. r.nueva \notin memoria
      BY <1>r, <1>0, <2>1 DEF InvCuenta, EnMarcha, En
    <3>3. tabla[r.nueva] = 0
      BY <1>0, <3>1, <3>2 DEF InvCuenta, DeAcuerdo
    <3> QED BY <1>1, <2>1, <3>3
  <2>9. \A p \in limpias :
          /\ En(g, "olvidar")' /\ peticiones'[g].vieja = p => tabla'[p] = 0
          /\ En(g, "anotar")' /\ peticiones'[g].nueva = p => tabla'[p] = 1
          /\ En(g, "insertar")' /\ peticiones'[g].nueva = p => p \notin memoria'
          /\ /\ peticiones'[g].pc \in PcAgregar /\ peticiones'[g].vieja = p
             /\ peticiones'[g].nueva # p
             => p \notin memoria'
    BY <1>r, <1>0, <2>1, <2>2, <2>3, <2>8 DEF InvCuenta, EnMarcha, En
  <2> QED BY <1>0, <1>1, <2>1, <2>3, <2>4, <2>5, <2>6, <2>7, <2>9, CuentaCambia
<1>9. CASE Olvidar(g)
  <2> DEFINE ps == memoria \ {r.vieja}
  <2>1. /\ r.pc = "olvidar" /\ SigueCambiando(g, Tras(r, "quitar"), ps)
        /\ r.vieja \in Politicas /\ tabla' = tabla /\ limpias' = limpias
    BY <1>r, <1>1, <1>9 DEF Olvidar, En, Forma, PcQuitar
  <2>2. ps \in SUBSET Politicas
    BY <1>1
  <2>3. memoria' = ps /\ peticiones'[g] = Tras(r, "quitar")
        /\ \A h \in Peticiones \ {g} : Igual(h)
    BY <1>1, <2>1, <2>2, IgualesCambiando
  <2>4. /\ r.pc \in PcQuitar \cup PcAgregar
        /\ "agregar" \in PcQuitar \cup PcAgregar /\ "libre" \notin PcQuitar \cup PcAgregar
        /\ "libre" \notin PcAgregar
    BY <2>1 DEF PcQuitar, PcAgregar
  <2>5. \/ peticiones'[g].pc = "libre"
        \/ /\ peticiones'[g].pc = "agregar" /\ peticiones'[g].vieja = r.vieja
           /\ peticiones'[g].nueva = r.nueva
    <3>1. CASE r.tipo = "eliminar"
      BY <1>1, <2>3, <3>1, TrasQuitar, LibreTipo
    <3>2. CASE r.tipo = "actualizar"
      <4>1. Tras(r, "quitar") = [r EXCEPT !.pc = "agregar"]
        BY <1>1, <3>2, TrasQuitar
      <4>2. peticiones'[g] = [r EXCEPT !.pc = "agregar"]
        BY <2>3, <4>1
      <4>3. r \in Peticion
        BY <1>1
      <4> QED BY <4>2, <4>3 DEF Peticion
    <3> QED BY <1>1, <2>1, <3>1, <3>2 DEF Forma, PcQuitar
  <2>6. Continua(g)
    BY <1>r, <2>4, <2>5 DEF Continua, Escribe
  <2>7. EscritaPor(g, r.vieja)
    BY <1>r, <1>0, <2>1, <2>4 DEF EscritaPor, Escribe, Tocadas
  <2>8. \A p : ~ Pendiente(g, p)'
    BY <2>5 DEF Pendiente, En
  <2>9. \A p \in limpias \ {r.vieja} : ~ Pendiente(g, p)
    BY <1>r, <2>1 DEF Pendiente, En
  <2>10. r.vieja \in limpias => tabla'[r.vieja] = IF r.vieja \in memoria' THEN 1 ELSE 0
    BY <1>r, <1>0, <2>1, <2>3 DEF InvCuenta, EnMarcha, En
  <2>11. \A p \in limpias :
           /\ En(g, "olvidar")' /\ peticiones'[g].vieja = p => tabla'[p] = 0
           /\ En(g, "anotar")' /\ peticiones'[g].nueva = p => tabla'[p] = 1
           /\ En(g, "insertar")' /\ peticiones'[g].nueva = p => p \notin memoria'
           /\ /\ peticiones'[g].pc \in PcAgregar /\ peticiones'[g].vieja = p
              /\ peticiones'[g].nueva # p
              => p \notin memoria'
    BY <2>3, <2>4, <2>5 DEF En
  <2>12. \A p \in Politicas \ {r.vieja} :
           (p \in memoria' <=> p \in memoria) /\ tabla'[p] = tabla[p]
    BY <2>1, <2>3
  <2> QED BY <1>0, <1>1, <2>1, <2>3, <2>6, <2>7, <2>8, <2>9, <2>10, <2>11, <2>12, CuentaCambia
<1>10. CASE Anotar(g)
  <2> DEFINE ps == memoria \cup {r.nueva}
  <2>1. /\ r.pc = "anotar" /\ SigueCambiando(g, Libre, ps)
        /\ r.nueva \in Politicas /\ tabla' = tabla /\ limpias' = limpias
    BY <1>r, <1>1, <1>10, TrasAgregar DEF Anotar, En, Forma, PcAgregar
  <2>2. ps \in SUBSET Politicas
    BY <1>1, <2>1
  <2>3. memoria' = ps /\ peticiones'[g].pc = "libre" /\ \A h \in Peticiones \ {g} : Igual(h)
    BY <1>1, <2>1, <2>2, IgualesCambiando, LibreTipo
  <2>4. r.pc \in PcAgregar /\ "libre" \notin PcQuitar \cup PcAgregar
    BY <2>1 DEF PcQuitar, PcAgregar
  <2>6. Continua(g)
    BY <2>3, <2>4 DEF Continua
  <2>7. EscritaPor(g, r.nueva)
    BY <1>r, <1>0, <2>1, <2>4 DEF EscritaPor, Escribe, Tocadas
  <2>8. \A p : ~ Pendiente(g, p)'
    BY <2>3 DEF Pendiente, En
  <2>9. \A p \in limpias \ {r.nueva} : ~ Pendiente(g, p)
    BY <1>r, <2>1 DEF Pendiente, En
  <2>10. r.nueva \in limpias => tabla'[r.nueva] = IF r.nueva \in memoria' THEN 1 ELSE 0
    BY <1>r, <1>0, <2>1, <2>3 DEF InvCuenta, EnMarcha, En
  <2>11. \A p \in limpias :
           /\ En(g, "olvidar")' /\ peticiones'[g].vieja = p => tabla'[p] = 0
           /\ En(g, "anotar")' /\ peticiones'[g].nueva = p => tabla'[p] = 1
           /\ En(g, "insertar")' /\ peticiones'[g].nueva = p => p \notin memoria'
           /\ /\ peticiones'[g].pc \in PcAgregar /\ peticiones'[g].vieja = p
              /\ peticiones'[g].nueva # p
              => p \notin memoria'
    BY <2>3, <2>4 DEF En
  <2>12. \A p \in Politicas \ {r.nueva} :
           (p \in memoria' <=> p \in memoria) /\ tabla'[p] = tabla[p]
    BY <2>1, <2>3
  <2> QED BY <1>0, <1>1, <2>1, <2>3, <2>6, <2>7, <2>8, <2>9, <2>10, <2>11, <2>12, CuentaCambia
<1> QED BY <1>3, <1>4, <1>5, <1>6, <1>7, <1>8, <1>9, <1>10, Zenon DEF Escritura

-----------------------------------------------------------------------------
\* The theorems

\* At the start memory and table agree, and nobody writes.
THEOREM InvInicial == InitPoliticas => InvPoliticas
<1> SUFFICES ASSUME InitPoliticas PROVE InvPoliticas
  OBVIOUS
<1>1. \A g \in Peticiones : peticiones[g].pc = "libre"
  BY LibreTipo DEF InitPoliticas
<1>2. UnEscritor /\ EnMarcha
  BY <1>1 DEF UnEscritor, EnMarcha, EscritaPor, Escribe, En, PcQuitar, PcAgregar
<1>3. DeAcuerdo
  BY DEF InitPoliticas, DeAcuerdo
<1> QED BY <1>2, <1>3, FormaInicial DEF InvPoliticas, InvCuenta

\* Every step keeps, of each policy whose writers did not overlap, that there is at most one
\* writer, that what memory and table differ in is what he has under way, and that nothing
\* else does.
THEOREM InvSeMantiene == InvPoliticas /\ [NextPoliticas]_varsPoliticas => InvPoliticas'
<1> SUFFICES ASSUME InvPoliticas, [NextPoliticas]_varsPoliticas PROVE InvPoliticas'
  OBVIOUS
<1>0. InvForma'
  BY FormaSeMantiene DEF InvPoliticas
<1>1. CASE UNCHANGED <<memoria, tabla, peticiones, limpias>>
  BY <1>0, <1>1 DEF InvPoliticas, InvCuenta, UnEscritor, DeAcuerdo, EnMarcha, EscritaPor,
                    Escribe, Tocadas, Pendiente, En
<1>2. ASSUME NEW g \in Peticiones,
             \/ Pedir(g) \/ Guardia(g) \/ Escritura(g) \/ Menu(g)
             \/ Abortar(g) \/ PerderRespuesta(g)
      PROVE  InvCuenta'
  <2>1. CASE Pedir(g) BY <2>1, CuentaEspera
  <2>2. CASE Guardia(g)
    BY <2>2, CuentaEmpezar, CuentaEspera, CuentaTermina, Zenon DEF Guardia
  <2>3. CASE Escritura(g) BY <2>3, CuentaEscritura
  <2>4. CASE Menu(g) BY <2>4, CuentaEspera, CuentaTermina, Zenon DEF Menu
  <2>5. CASE Abortar(g) \/ PerderRespuesta(g) BY <2>5, CuentaTermina, Zenon
  <2> QED BY <1>2, <2>1, <2>2, <2>3, <2>4, <2>5
<1>3. ASSUME NEW m \in Modulos, CambiarModulos(m)
      PROVE  UNCHANGED <<memoria, tabla, peticiones, limpias>>
  BY <1>3 DEF CambiarModulos, CrearModulo, ActivarModulo, InactivarModulo, CambiarModulo
<1>4. CASE Reinicio BY <1>0, <1>4, CuentaReinicio DEF InvPoliticas
<1>5. UNCHANGED varsPoliticas => UNCHANGED <<memoria, tabla, peticiones, limpias>>
  BY DEF varsPoliticas
<1> QED BY <1>0, <1>1, <1>2, <1>3, <1>4, <1>5, Zenon DEF NextPoliticas, InvPoliticas

\* Memory, table, requests and modules keep their types, with failures and restarts.
THEOREM TipoCorrectoPoliticas == SpecPoliticas => []TypeOKPoliticas
<1>1. InvForma => TypeOKPoliticas
  BY DEF InvForma
<1> QED BY <1>1, FormaInicial, FormaSeMantiene, PTL DEF SpecPoliticas

\* Whatever fails and however often the server restarts, the enforcer has a policy whose
\* writers did not overlap exactly when its table has one row of it.
THEOREM MemoriaSiempreFiel == SpecPoliticas => []MemoriaFiel
<1>1. ASSUME InvPoliticas PROVE MemoriaFiel
  <2>1. \A p \in limpias, g \in Peticiones : Pendiente(g, p) => EscritaPor(g, p)
    BY <1>1, NuloPoliticasSupuesto
       DEF InvPoliticas, InvForma, TypeOKPoliticas, Pendiente, En, EscritaPor, Escribe, Tocadas,
           PcQuitar, PcAgregar
  <2> QED BY <1>1, <2>1 DEF MemoriaFiel, InvPoliticas, InvCuenta, DeAcuerdo
<1> QED BY <1>1, InvInicial, InvSeMantiene, PTL DEF SpecPoliticas

\* Nobody is refused who had a policy in his favour all along.
THEOREM SiempreNegadaConRazon == SpecPoliticas => NegadaConRazon
<1> DEFINE Paso == \A g \in Peticiones : Denegar(g) => peticiones[g].antes = {}
<1>1. InvForma => Paso
  <2> SUFFICES ASSUME InvForma, NEW g \in Peticiones, Denegar(g) PROVE peticiones[g].antes = {}
    OBVIOUS
  <2>1. PICK rol \in Roles :
          /\ En(g, "guardia") /\ ~ Permite(memoria, rol, peticiones[g].recurso)
          /\ peticiones[g].faltan \subseteq {rol}
    BY DEF Denegar, Preguntar, Restan
  <2>2. Historia(peticiones[g], memoria)
    BY DEF InvForma
  <2> QED BY <2>1, <2>2 DEF Historia, En, Permite
<1>2. SpecPoliticas => []InvForma
  BY FormaInicial, FormaSeMantiene, PTL DEF SpecPoliticas
<1>3. [][Paso]_varsPoliticas => NegadaConRazon
  BY DEF NegadaConRazon
<1> QED BY <1>1, <1>2, <1>3, PTL

\* A menu shows what is active with its section and was granted while it was made, and all
\* that is active and was granted all along, however policies and modules change between its
\* two reads: obtenerPermisosPorRol.
THEOREM MenuSiempreFiel == SpecPoliticas => MenuFiel
<1> DEFINE Bien(r, m) ==
      /\ m \in Visibles(r.leidas) => EnMenuActivo(m) /\ Asignado(r.visto, r.rol, m)
      /\ EnMenuActivo(m) /\ Asignado(r.antes, r.rol, m) => m \in Visibles(r.leidas)
<1> DEFINE Paso == \A g \in Peticiones : ResponderMenu(g) =>
                     \A m \in Modulos : Bien(peticiones[g], m)
<1>1. InvForma => Paso
  <2> SUFFICES ASSUME InvForma, NEW g \in Peticiones, ResponderMenu(g), NEW m \in Modulos
               PROVE  Bien(peticiones[g], m)
    OBVIOUS
  <2>r. PICK r : r = peticiones[g]
    OBVIOUS
  <2>1. r \in Peticion /\ r.pc = "menu" /\ Historia(r, memoria)
    BY <2>r DEF InvForma, TypeOKPoliticas, ResponderMenu, En
  <2>2. /\ r.antes \subseteq r.leidas /\ r.leidas \subseteq r.visto
        /\ Asignadas(r.leidas, r.rol) = r.leidas
        /\ r.leidas \subseteq Politicas
    BY <2>1 DEF Historia, Peticion
  <2>3. ASSUME m \in Visibles(r.leidas)
        PROVE  EnMenuActivo(m) /\ Asignado(r.visto, r.rol, m)
    <3>1. PICK p \in r.leidas : p.objeto = Url[m]
      BY <2>3 DEF Visibles
    <3>2. p.app = "frontend" /\ p.sujeto = r.rol
      BY <2>2, <3>1 DEF Asignadas
    <3>3. p \in [sujeto : Roles \cup {Todos}, objeto : Objetos, app : Apps]
      BY <2>2, <3>1, PoliticasSupuesto
    <3>4. p = [sujeto |-> r.rol, objeto |-> Url[m], app |-> "frontend"]
      BY <3>1, <3>2, <3>3
    <3>5. Asignado(r.visto, r.rol, m)
      BY <2>2, <3>1, <3>4 DEF Asignado
    <3> QED BY <2>3, <3>5 DEF Visibles, EnMenuActivo
  <2>4. ASSUME EnMenuActivo(m), Asignado(r.antes, r.rol, m)
        PROVE  m \in Visibles(r.leidas)
    <3>1. [sujeto |-> r.rol, objeto |-> Url[m], app |-> "frontend"] \in r.leidas
      BY <2>2, <2>4 DEF Asignado
    <3>2. \E p \in r.leidas : p.objeto = Url[m]
      BY <3>1
    <3> QED BY <2>4, <3>2 DEF Visibles, EnMenuActivo
  <2> QED BY <2>r, <2>3, <2>4
<1>2. SpecPoliticas => []InvForma
  BY FormaInicial, FormaSeMantiene, PTL DEF SpecPoliticas
<1>3. [][Paso]_varsPoliticas => MenuFiel
  BY DEF MenuFiel
<1> QED BY <1>1, <1>2, <1>3, PTL

\* What a writer finds of a clean policy of its own while no statement of it is unanswered
LEMMA CuentaPropia ==
  ASSUME InvPoliticas, NEW g \in Peticiones, NEW p \in limpias, EscritaPor(g, p),
         ~ Pendiente(g, p)
  PROVE  tabla[p] = IF p \in memoria THEN 1 ELSE 0
<1>1. \A h \in Peticiones : ~ Pendiente(h, p)
  BY Solo DEF InvPoliticas, InvCuenta
<1> QED BY <1>1 DEF InvPoliticas, InvCuenta, DeAcuerdo

\* An update that stops half-way, or is interrupted by the end of the server, leaves the
\* policy it replaces in neither place before the new one is in any: actualizarPolitica.
THEOREM NuncaJamasAmbas == SpecPoliticas => []NuncaAmbas
<1>1. InvPoliticas => NuncaAmbas
  <2> SUFFICES ASSUME InvPoliticas, NEW g \in Peticiones,
                      peticiones[g].tipo = "actualizar", peticiones[g].pc \in PcAgregar,
                      peticiones[g].vieja \in limpias \ {peticiones[g].nueva}
               PROVE  peticiones[g].vieja \notin memoria /\ tabla[peticiones[g].vieja] = 0
    BY DEF NuncaAmbas
  <2> DEFINE p == peticiones[g].vieja
  <2>1. p \in limpias /\ p \in Politicas /\ p # Nulo /\ p # peticiones[g].nueva
    BY NuloPoliticasSupuesto DEF InvPoliticas, InvForma, TypeOKPoliticas
  <2>2. p \notin memoria
    BY <2>1 DEF InvPoliticas, InvCuenta, EnMarcha
  <2>3. EscritaPor(g, p) /\ ~ Pendiente(g, p)
    BY <2>1 DEF EscritaPor, Escribe, Tocadas, Pendiente, En, PcAgregar
  <2>4. tabla[p] = 0
    BY <2>1, <2>2, <2>3, CuentaPropia
  <2> QED BY <2>2, <2>4
<1>2. SpecPoliticas => []InvPoliticas
  BY InvInicial, InvSeMantiene, PTL DEF SpecPoliticas
<1> QED BY <1>1, <1>2, PTL

\* An administrator who is answered got what was asked for, of the policies that nobody
\* else was writing: crearPolitica, actualizarPolitica, eliminarPolitica.
THEOREM CambioSiempreCumplido == SpecPoliticas => CambioCumplido
<1> DEFINE Bien(r) ==
      /\ r.nueva \in limpias => r.nueva \in memoria' /\ tabla'[r.nueva] = 1
      /\ r.vieja \in limpias \ {r.nueva} => r.vieja \notin memoria' /\ tabla'[r.vieja] = 0
<1> DEFINE Paso == \A g \in Peticiones :
                      Completa(g) /\ peticiones'[g] = Libre => Bien(peticiones[g])
<1>1. InvPoliticas => Paso
  <2> SUFFICES ASSUME InvPoliticas, NEW g \in Peticiones, Completa(g), peticiones'[g] = Libre
               PROVE  Bien(peticiones[g])
    OBVIOUS
  <2>r. PICK r : r = peticiones[g]
    OBVIOUS
  <2>1. /\ r \in Peticion /\ Forma(r) /\ InvForma /\ peticiones'[g].pc = "libre"
        /\ memoria \in SUBSET Politicas /\ limpias \subseteq Politicas /\ Nulo \notin Politicas
    BY <2>r, NuloPoliticasSupuesto, LibreTipo DEF InvPoliticas, InvForma, TypeOKPoliticas
  <2>2. \A p \in limpias : r.pc \in PcQuitar \cup PcAgregar /\ p \in {r.vieja, r.nueva}
                             => EscritaPor(g, p)
    BY <2>r, <2>1 DEF EscritaPor, Escribe, Tocadas
  <2>3. CASE QuitarAusente(g)
    <3>1. r.pc = "quitar" /\ r.vieja \notin memoria /\ Sigue(g, Tras(r, "quitar"))
          /\ memoria' = memoria /\ tabla' = tabla
      BY <2>r, <2>3 DEF QuitarAusente, En
    <3>2. peticiones'[g] = Tras(r, "quitar")
      BY <2>1, <3>1, IgualesSigue
    <3>3. r.nueva = Nulo
      <4>1. r.tipo = "actualizar" => peticiones'[g].pc = "agregar"
        BY <2>1, <3>2, TrasQuitar DEF Peticion
      <4> QED BY <2>1, <3>1, <4>1 DEF Forma, PcQuitar
    <3>4. r.vieja \in limpias => tabla[r.vieja] = IF r.vieja \in memoria THEN 1 ELSE 0
      BY <2>r, <2>2, <3>1, CuentaPropia DEF PcQuitar, Pendiente, En
    <3> QED BY <2>r, <2>1, <3>1, <3>3, <3>4
  <2>4. CASE Olvidar(g)
    <3>1. r.pc = "olvidar" /\ SigueCambiando(g, Tras(r, "quitar"), memoria \ {r.vieja})
          /\ tabla' = tabla
      BY <2>r, <2>4 DEF Olvidar, En
    <3>0. memoria \ {r.vieja} \in SUBSET Politicas
      BY <2>1
    <3>2. peticiones'[g] = Tras(r, "quitar") /\ memoria' = memoria \ {r.vieja}
      BY <2>1, <3>0, <3>1, IgualesCambiando
    <3>3. r.nueva = Nulo
      <4>1. r.tipo = "actualizar" => peticiones'[g].pc = "agregar"
        BY <2>1, <3>2, TrasQuitar DEF Peticion
      <4> QED BY <2>1, <3>1, <4>1 DEF Forma, PcQuitar
    <3>4. r.vieja \in limpias => tabla[r.vieja] = 0
      BY <2>r, <3>1 DEF InvPoliticas, InvCuenta, EnMarcha, En
    <3> QED BY <2>r, <2>1, <3>1, <3>2, <3>3, <3>4
  <2>5. CASE AgregarPresente(g)
    <3>1. r.pc = "agregar" /\ r.nueva \in memoria /\ memoria' = memoria /\ tabla' = tabla
      BY <2>r, <2>5 DEF AgregarPresente, En
    <3>2. r.vieja \in limpias \ {r.nueva} => r.vieja \notin memoria
      BY <2>r, <3>1 DEF InvPoliticas, InvCuenta, EnMarcha, En, PcAgregar
    <3>3. \A p \in limpias : p \in {r.vieja, r.nueva} =>
                               tabla[p] = IF p \in memoria THEN 1 ELSE 0
      BY <2>r, <2>2, <3>1, CuentaPropia DEF PcAgregar, Pendiente, En
    <3> QED BY <2>r, <3>1, <3>2, <3>3
  <2>6. CASE Anotar(g)
    <3>1. r.pc = "anotar" /\ SigueCambiando(g, Tras(r, "agregar"), memoria \cup {r.nueva})
          /\ tabla' = tabla
      BY <2>r, <2>6 DEF Anotar, En
    <3>0. memoria \cup {r.nueva} \in SUBSET Politicas
      BY <2>1, <3>1 DEF Forma, PcAgregar
    <3>2. memoria' = memoria \cup {r.nueva}
      BY <2>1, <3>0, <3>1, IgualesCambiando
    <3>3. r.nueva \in limpias => tabla[r.nueva] = 1
      BY <2>r, <3>1 DEF InvPoliticas, InvCuenta, EnMarcha, En
    <3>4. r.vieja \in limpias \ {r.nueva} => r.vieja \notin memoria
      BY <2>r, <3>1 DEF InvPoliticas, InvCuenta, EnMarcha, En, PcAgregar
    <3>5. r.vieja \in limpias \ {r.nueva} =>
            tabla[r.vieja] = IF r.vieja \in memoria THEN 1 ELSE 0
      BY <2>r, <2>2, <3>1, CuentaPropia DEF PcAgregar, Pendiente, En
    <3> QED BY <2>r, <3>1, <3>2, <3>3, <3>4, <3>5
  <2> QED BY <2>3, <2>4, <2>5, <2>6 DEF Completa
<1>2. SpecPoliticas => []InvPoliticas
  BY InvInicial, InvSeMantiene, PTL DEF SpecPoliticas
<1>3. [][Paso]_varsPoliticas => CambioCumplido
  BY DEF CambioCumplido
<1> QED BY <1>1, <1>2, <1>3, PTL
=============================================================================
