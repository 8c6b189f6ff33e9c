\* Two accounts at once, one request at a time per account, no failures.
SPECIFICATION SpecSerie
CONSTANTS
  u1 = u1  u2 = u2  p1 = p1  p2 = p2  buena = buena  mala = mala
  c1 = c1  c2 = c2  c3 = c3  c4 = c4
  Nulo = Nulo
  Usuarios <- DosUsuarios
  ConRol <- DosUsuarios
  Peticiones <- DosPeticiones
  Claves <- DosClaves
  Aleatorios <- CuatroAleatorios
  WRONG_LOGIN_LIMIT = 3
  MINUTES_LOGIN_LOCK = 1
  MaxReloj = 3
  Fallos = FALSE
SYMMETRY Simetria
INVARIANTS
  LimiteErroneos
  BloqueoMerecido
PROPERTIES
  ImplementaBloqueo
