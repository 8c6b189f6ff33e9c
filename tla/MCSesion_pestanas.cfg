\* Two tabs of a browser, any await may fail.
SPECIFICATION SpecSesion
CONSTANTS
  u1 = u1  b1 = b1  p1 = p1  p2 = p2
  t1 = t1  t2 = t2  t3 = t3  t4 = t4
  Nulo = Nulo
  Usuarios <- UnUsuario
  Navegadores <- UnNavegador
  Ids <- CuatroIds
  Peticiones <- DosPeticiones
  REFRESH_TOKEN_EXPIRES_IN = 2
  REFRESH_TOKEN_ROTATE_IN = 2
  MaxReloj = 3
  Fallos = TRUE
SYMMETRY Simetria
VIEW Vista
INVARIANTS
  TypeOKSesion
  SesionConservada
  CookieViva
