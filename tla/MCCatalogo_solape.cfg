\* Two administrators, statements that fail or are not answered; and pages of two rows of a
\* table that grows to four.
SPECIFICATION Spec
CONSTANTS
  p1 = p1  p2 = p2  k1 = k1  k2 = k2
  Nulo = Nulo
  Claves <- DosClaves
  Peticiones <- DosPeticiones
  MaxFilas = 2
  Fallos = TRUE
  Limite = 2
  MaxIds = 4
INVARIANTS
  TypeOKCatalogo
  ClaveUnica
  TypeOKRecorrido
  LoQueFalta
  RecorridoCompleto
  FiltroFiel
  ExternoFiel
PROPERTIES
  ImplementaCatalogo
  TodaPeticionResponde
