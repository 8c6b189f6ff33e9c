\* Two requests on one account, no failures.
SPECIFICATION SpecAcceso
CONSTANTS
  u1 = u1  p1 = p1  p2 = p2  buena = buena  mala = mala
  c1 = c1  c2 = c2  c3 = c3  c4 = c4  c5 = c5  c6 = c6  c7 = c7  c8 = c8  c9 = c9
  Nulo = Nulo
  Usuarios <- UnUsuario
  ConRol <- UnUsuario
  Peticiones <- DosPeticiones
  Claves <- UnaClave
  Aleatorios <- NueveAleatorios
  WRONG_LOGIN_LIMIT = 1
  MINUTES_LOGIN_LOCK = 0
  MaxReloj = 1
  Fallos = FALSE
SYMMETRY SimetriaPeticiones
VIEW Vista
INVARIANTS
  SecretoEntregable
  PendienteConSalida
  BloqueoConSalida
