------------------------------- MODULE Almacen -------------------------------
(***************************************************************************)
(* What the stock of one company promises, apart from how it is kept:      *)
(* every document (a purchase, a production, a count, a sale, ...) changes *)
(* the stock once, as a whole, and a document that is annulled takes back  *)
(* exactly what it changed, once, whatever happened in between.            *)
(*                                                                         *)
(* Inventario implements this specification.                               *)
(***************************************************************************)
EXTENDS Integers

CONSTANTS
    Productos,
    Documentos,
    Anulables,      \* documents that have an operation to annul them
    Inicial         \* stock of each product at the start

VARIABLES
    existencia,     \* stock of each product
    estado,         \* each document: "ausente", "vigente" or "anulado"
    neto            \* what each document has changed the stock by

vars == <<existencia, estado, neto>>

Nada == [p \in Productos |-> 0]

Init ==
    /\ existencia = Inicial
    /\ estado = [d \in Documentos |-> "ausente"]
    /\ neto = [d \in Documentos |-> Nada]

Pasar(d, de, a) == estado[d] = de /\ estado' = [estado EXCEPT ![d] = a]

\* The document d comes into force with the change of stock ef.
Aplicar(d, ef) ==
    /\ Pasar(d, "ausente", "vigente")
    /\ existencia' = [p \in Productos |-> existencia[p] + ef[p]]
    /\ neto' = [neto EXCEPT ![d] = ef]

\* It is annulled and its change is taken back.
Anular(d) ==
    /\ d \in Anulables
    /\ Pasar(d, "vigente", "anulado")
    /\ existencia' = [p \in Productos |-> existencia[p] - neto[d][p]]
    /\ neto' = [neto EXCEPT ![d] = Nada]

\* It is annulled before it changed anything (an order not received).
Descartar(d) ==
    /\ d \in Anulables
    /\ Pasar(d, "ausente", "anulado")
    /\ UNCHANGED <<existencia, neto>>

Next ==
    \E d \in Documentos : Aplicar(d, neto'[d]) \/ Anular(d) \/ Descartar(d)

Spec == Init /\ [][Next]_vars
=============================================================================
