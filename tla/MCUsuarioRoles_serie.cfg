\* Two requests at once, never over one account nor over one address; any await may fail.
SPECIFICATION SpecAparte
CONSTANTS
  u1 = u1  u2 = u2  p1 = p1  p2 = p2  r1 = r1  r2 = r2
  m1 = m1  m2 = m2  m3 = m3
  Nulo = Nulo
  Usuarios <- DosUsuarios
  Peticiones <- DosPeticiones
  Roles <- DosRoles
  Correos <- TresCorreos
  Pedidos <- PedidosDeUno
  MaxFilas = 2
  Fallos = TRUE
SYMMETRY Simetria
INVARIANTS
  TypeOKRoles
  RolesPedidos
  SinCortes
  FilasDeAcuerdo
  CorreoUnico
