---------------------------- MODULE MCPoliticas ------------------------------
\* Policies on a small instance.
EXTENDS Politicas, TLC

CONSTANTS p1, p2, r1, r2, seccion, item

DosPeticiones == {p1, p2}
DosRoles == {r1, r2}

DosModulos == {seccion, item}
SeccionDe == seccion :> Nulo @@ item :> seccion
UrlDe == seccion :> "/principal" @@ item :> "/admin/home"

LosObjetos == {"/principal", "/admin/home", "/api/autorizacion/politicas", "/api/usuarios/cuenta/perfil"}
LosRecursos == {"politicas", "perfil"}
CoincideDe == {<<"/api/autorizacion/politicas", "politicas">>,
               <<"/api/usuarios/cuenta/perfil", "perfil">>}

Administra(rol) ==
  [sujeto |-> rol, objeto |-> "/api/autorizacion/politicas", app |-> "backend"]
VePerfil == [sujeto |-> Todos, objeto |-> "/api/usuarios/cuenta/perfil", app |-> "backend"]
VeInicio(rol) == [sujeto |-> rol, objeto |-> "/admin/home", app |-> "frontend"]

LasPoliticas == {Administra(r1), VePerfil, VeInicio(r2)}
LaSemilla == {Administra(r1), VePerfil}
LasEnviadas == {Administra(r1), VeInicio(r2)}

Simetria == Permutations(Peticiones)
=============================================================================
