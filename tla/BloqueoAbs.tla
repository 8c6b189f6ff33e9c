----------------------------- MODULE BloqueoAbs ------------------------------
(***************************************************************************)
(* What the lockout of an account promises, with no requests, statements or *)
(* mails: WRONG_LOGIN_LIMIT wrong passwords exhaust the account, the next   *)
(* visit locks it for MINUTES_LOGIN_LOCK, and no password is looked at      *)
(* until that time is over or its owner unlocks it.                         *)
(***************************************************************************)
EXTENDS Naturals

CONSTANTS Usuarios, Nulo, WRONG_LOGIN_LIMIT, MINUTES_LOGIN_LOCK

VARIABLES
  fallos,  \* wrong passwords since the last fresh start
  hasta,   \* when the lock ends, Nulo when there is none
  reloj

vars == <<fallos, hasta, reloj>>

Permitida(u) ==
  \/ fallos[u] < WRONG_LOGIN_LIMIT
  \/ hasta[u] # Nulo /\ reloj > hasta[u]

Fallar(u) ==
  /\ Permitida(u)
  /\ fallos' = [fallos EXCEPT ![u] = IF @ < WRONG_LOGIN_LIMIT THEN @ + 1 ELSE 1]
  /\ hasta' = [hasta EXCEPT ![u] = Nulo]
  /\ UNCHANGED reloj

Acertar(u) ==
  /\ Permitida(u)
  /\ fallos' = [fallos EXCEPT ![u] = 0]
  /\ hasta' = [hasta EXCEPT ![u] = Nulo]
  /\ UNCHANGED reloj

Bloquear(u) ==
  /\ fallos[u] = WRONG_LOGIN_LIMIT
  /\ hasta[u] = Nulo
  /\ hasta' = [hasta EXCEPT ![u] = reloj + MINUTES_LOGIN_LOCK]
  /\ UNCHANGED <<fallos, reloj>>

Desbloquear(u) ==
  /\ hasta[u] # Nulo
  /\ fallos' = [fallos EXCEPT ![u] = 0]
  /\ hasta' = [hasta EXCEPT ![u] = Nulo]
  /\ UNCHANGED reloj

Pasar == reloj' = reloj + 1 /\ UNCHANGED <<fallos, hasta>>

Init ==
  /\ fallos = [u \in Usuarios |-> 0]
  /\ hasta = [u \in Usuarios |-> Nulo]
  /\ reloj = 0

Next ==
  \/ Pasar
  \/ \E u \in Usuarios : Fallar(u) \/ Acertar(u) \/ Bloquear(u) \/ Desbloquear(u)

Spec == Init /\ [][Next]_vars
=============================================================================
