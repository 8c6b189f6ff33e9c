\* One request at a time, no failures.
SPECIFICATION SpecRoles
CONSTANTS
  u1 = u1  u2 = u2  p1 = p1  p2 = p2  r1 = r1  r2 = r2
  m1 = m1  m2 = m2  m3 = m3
  Nulo = Nulo
  Usuarios <- UnUsuario
  Peticiones <- UnaPeticion
  Roles <- DosRoles
  Correos <- DosCorreos
  Pedidos <- PedidosCualesquiera
  MaxFilas = 2
  Fallos = FALSE
SYMMETRY Simetria
INVARIANTS
  RolInactivadoFirme
