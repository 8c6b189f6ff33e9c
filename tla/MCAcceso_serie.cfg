\* One slot, so that requests do not overlap; any await may fail.
SPECIFICATION SpecAcceso
CONSTANTS
  u1 = u1  p1 = p1  p2 = p2  buena = buena  mala = mala
  c1 = c1  c2 = c2  c3 = c3  c4 = c4  c5 = c5  c6 = c6  c7 = c7  c8 = c8  c9 = c9
  Nulo = Nulo
  Usuarios <- UnUsuario
  ConRol <- UnUsuario
  Peticiones <- UnaPeticion
  Claves <- DosClaves
  Aleatorios <- SeisAleatorios
  WRONG_LOGIN_LIMIT = 2
  MINUTES_LOGIN_LOCK = 1
  MaxReloj = 3
  Fallos = TRUE
SYMMETRY SimetriaPeticiones
VIEW Vista
INVARIANTS
  TypeOKAcceso
  BloqueoEfectivo
  TransaccionTrasRecuperacion
PROPERTIES
  BloqueoNoSeExtiende
