---------------------------- MODULE Migraciones ----------------------------
(***************************************************************************)
(* db/migrate.js: several runs of the migrations, or of "mark", over one   *)
(* database (two deploys at once, an operator and a deploy), which may     *)
(* stop at any step.  The runner owns the transaction of each file: its    *)
(* changes and its row in schema_migrations are committed together.  What  *)
(* a file does is counted, since many files could be applied twice without *)
(* an error.                                                               *)
(***************************************************************************)
EXTENDS Naturals, Sequences, FiniteSets, SequencesExt

CONSTANTS
    Corredores,     \* processes that run the command
    Archivos,       \* the files of db/migrations, by name
    ConTransaccion  \* those that bring a BEGIN and a COMMIT of their own

VARIABLES
    filas,     \* file names committed in schema_migrations
    marcadas,  \* those that "mark" wrote
    efecto,    \* times the changes of each file are committed
    corre      \* corredor -> [paso, pend, fila]

vars == <<filas, marcadas, efecto, corre>>

Fuera == [paso |-> "fuera", pend |-> {}, fila |-> FALSE]
Pasa(r, a) == corre' = [corre EXCEPT ![r].paso = a]

\* The files that are missing are told by their place; the first one is next.
Primera(pend) == CHOOSE n \in pend : \A m \in pend : n <= m
Actual(r) == Archivos[Primera(corre[r].pend)]

\* Somebody has inserted the row of f and has not committed: an insert waits.
FilaEnVilo(f) ==
    \E s \in Corredores : corre[s].fila /\ Actual(s) = f

-----------------------------------------------------------------------------
(* run                                                                     *)

\* ensureTable: two at once may collide on the new table and one fails.
Arrancar(r) ==
    /\ corre[r].paso = "fuera" /\ Pasa(r, "leer")
    /\ UNCHANGED <<filas, marcadas, efecto>>

\* appliedSet and the files that are missing, in their order.
LeerPendientes(r) ==
    LET pend == {n \in DOMAIN Archivos : Archivos[n] \notin filas}
    IN /\ corre[r].paso = "leer"
       /\ corre' = [corre EXCEPT ![r] =
            IF pend = {} THEN Fuera ELSE [paso |-> "sql", pend |-> pend, fila |-> FALSE]]
       /\ UNCHANGED <<filas, marcadas, efecto>>

\* normalizarSqlMigracion: without the BEGIN and the COMMIT of the file.
Sentencias(f) == IF f \in ConTransaccion THEN <<"BEGIN", "cambios", "COMMIT">> ELSE <<"cambios">>
Normalizar(s) ==
    LET t == IF s[1] = "BEGIN" THEN Tail(s) ELSE s
    IN IF Last(t) = "COMMIT" THEN Front(t) ELSE t

ConfirmaSinNormalizar(f) == "COMMIT" \in ToSet(Sentencias(f))

\* The text commits by itself, before the row of the file is written.
ConfirmaSolo(f) == "COMMIT" \in ToSet(Normalizar(Sentencias(f)))

\* BEGIN and the text of the file.
EjecutarSql(r) ==
    /\ corre[r].paso = "sql"
    /\ efecto' = IF ConfirmaSolo(Actual(r))
                 THEN [efecto EXCEPT ![Actual(r)] = @ + 1] ELSE efecto
    /\ Pasa(r, "registrar")
    /\ UNCHANGED <<filas, marcadas>>

\* The row of the file; another one with that name makes it fail.
Registrar(r) ==
    /\ corre[r].paso = "registrar" /\ ~FilaEnVilo(Actual(r))
    /\ corre' = [corre EXCEPT ![r] =
            IF Actual(r) \in filas THEN Fuera ELSE [@ EXCEPT !.fila = TRUE, !.paso = "commit"]]
    /\ UNCHANGED <<filas, marcadas, efecto>>

Confirmar(r) ==
    /\ corre[r].paso = "commit"
    /\ filas' = filas \cup {Actual(r)}
    /\ efecto' = IF ConfirmaSolo(Actual(r)) THEN efecto ELSE [efecto EXCEPT ![Actual(r)] = @ + 1]
    /\ LET pend == corre[r].pend \ {Primera(corre[r].pend)}
       IN corre' = [corre EXCEPT ![r] =
            IF pend = {} THEN Fuera ELSE [paso |-> "sql", pend |-> pend, fila |-> FALSE]]
    /\ UNCHANGED marcadas

\* A statement fails, the connection falls or the process ends: ROLLBACK, and
\* the run goes no further.
Fallar(r) ==
    /\ corre[r].paso # "fuera" /\ corre' = [corre EXCEPT ![r] = Fuera]
    /\ UNCHANGED <<filas, marcadas, efecto>>

\* mark: the row alone, in one statement that leaves one already there as it is.
Marcar(f) ==
    /\ ~FilaEnVilo(f)
    /\ filas' = filas \cup {f}
    /\ marcadas' = IF f \in filas THEN marcadas ELSE marcadas \cup {f}
    /\ UNCHANGED <<efecto, corre>>

-----------------------------------------------------------------------------
Init ==
    /\ filas = {} /\ marcadas = {}
    /\ efecto = [f \in ToSet(Archivos) |-> 0]
    /\ corre = [r \in Corredores |-> Fuera]

Next ==
    \/ \E r \in Corredores :
         Arrancar(r) \/ LeerPendientes(r) \/ EjecutarSql(r) \/ Registrar(r) \/ Confirmar(r) \/ Fallar(r)
    \/ \E f \in ToSet(Archivos) : Marcar(f)

Spec == Init /\ [][Next]_vars

-----------------------------------------------------------------------------
(* Each file is applied at most once, and is in the table exactly when it  *)
(* was applied or marked, whatever runs overlap and wherever they stop;    *)
(* none is applied before one that comes earlier.                          *)
AplicadaUnaVez ==
    \A f \in ToSet(Archivos) : efecto[f] = IF f \in filas \ marcadas THEN 1 ELSE 0

EnOrden ==
    \A m, n \in DOMAIN Archivos :
        m < n /\ efecto[Archivos[n]] > 0 => Archivos[m] \in filas
=============================================================================
