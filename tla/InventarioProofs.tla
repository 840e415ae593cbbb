-------------------------- MODULE InventarioProofs --------------------------
(***************************************************************************)
(* Theorems about Inventario, for any number of products, documents and    *)
(* requests at once.                                                       *)
(***************************************************************************)
EXTENDS Inventario, SumasProofs, SequenceTheorems

-----------------------------------------------------------------------------
(* Numbers.                                                                *)

\* Primero is the least one of a set of naturals that is not empty.
LEMMA PrimeroEs ==
    ASSUME NEW S \in SUBSET Nat, S # {}
    PROVE  Primero(S) \in S /\ \A y \in S : Primero(S) <= y
BY Menor DEF Primero

-----------------------------------------------------------------------------
(* The values of the operators.                                            *)

Entero == [Productos -> Int]
TipoAsiento ==
    [ref : {"alta", "baja"}, delta : Entero,
     tipo : {"COMPRA", "PRODUCCION", "VENTA", "MERMA", "AJUSTE", "DEVOLUCION"}]

\* The places of a list are finitely many.
LEMMA Lugares ==
    ASSUME NEW S, NEW k \in Seq(S)
    PROVE  IsFiniteSet(DOMAIN k) /\ DOMAIN k = 1..Len(k) /\ Len(k) \in Nat
<1>1. Len(k) \in Nat /\ DOMAIN k = 1..Len(k)
  BY LenProperties
<1> QED
  BY <1>1, FS_Interval

\* Changes of stock added up, or reversed, are changes of stock.
LEMMA EnterosSumados ==
    /\ Nada \in Entero
    /\ \A f, g \in Entero : Mas(f, g) \in Entero
    /\ \A f \in Entero : Menos(f) \in Entero
BY DEF Entero, Nada, Mas, Menos

\* So is what some movements of a document change.
LEMMA SumaEnEntera ==
    ASSUME NEW k \in Seq(TipoAsiento), NEW I \in SUBSET DOMAIN k
    PROVE  SumaEn(k, I) \in Entero
<1>1. IsFiniteSet(I)
  BY Lugares, FS_Subset
<1>2. \A i \in I : k[i] \in TipoAsiento
  BY Lugares, ElementOfSeq
<1>3. ASSUME NEW p \in Productos
      PROVE  SumaDe([i \in I |-> k[i].delta[p]], I) \in Int
  <2>1. \A i \in I : [j \in I |-> k[j].delta[p]][i] \in Int
    BY <1>2 DEF TipoAsiento, Entero
  <2> QED
    BY <1>1, <2>1, SumaEntera
<1> QED
  BY <1>3 DEF SumaEn, Entero

\* What a list asks of a product is a number.
LEMMA CantidadEntera ==
    ASSUME NEW lineas \in Seq(TipoLinea), NEW p
    PROVE  CantidadDe(lineas, p) \in Int
<1> DEFINE f == [i \in DOMAIN lineas |-> lineas[i].cantidad]
<1>1. LineasDe(lineas, p) \subseteq DOMAIN lineas
  BY DEF LineasDe
<1>2. IsFiniteSet(LineasDe(lineas, p))
  BY <1>1, Lugares, FS_Subset
<1>3. \A i \in DOMAIN lineas : lineas[i] \in TipoLinea
  BY Lugares, ElementOfSeq
<1>4. \A i \in LineasDe(lineas, p) : f[i] \in Int
  BY <1>1, <1>3 DEF TipoLinea
<1> HIDE DEF f
<1>5. SumaDe(f, LineasDe(lineas, p)) \in Int
  BY <1>2, <1>4, SumaEntera
<1> QED
  BY <1>5 DEF CantidadDe, f

\* What an account takes of the stock.
LEMMA ConsumoEntero ==
    ASSUME NEW lineas \in Seq(TipoLinea)
    PROVE  ExplotarRenglones(lineas, Escandallo) \in Entero
<1>1. \A i \in DOMAIN lineas : lineas[i] \in TipoLinea
  BY Lugares, ElementOfSeq
<1>2. ASSUME NEW p \in Productos, NEW i \in DOMAIN lineas
      PROVE  Toma(lineas[i], Escandallo, p) \in Int
  <2>1. lineas[i].cantidad \in Int
    BY <1>1 DEF TipoLinea
  <2>2. lineas[i].receta # "ninguna" => Escandallo[lineas[i].receta][p] \in Nat
    BY <1>1, PrepsAssumption DEF TipoLinea
  <2>3. Factor[p] \in Nat
    BY FactorAssumption
  <2> QED
    BY <2>1, <2>2, <2>3 DEF Toma, NetoABruto
<1>3. ASSUME NEW p \in Productos
      PROVE  SumaDe([i \in DOMAIN lineas |-> Toma(lineas[i], Escandallo, p)], DOMAIN lineas) \in Int
  <2> DEFINE f == [i \in DOMAIN lineas |-> Toma(lineas[i], Escandallo, p)]
  <2>1. \A i \in DOMAIN lineas : f[i] \in Int
    BY <1>2
  <2> HIDE DEF f
  <2>2. SumaDe(f, DOMAIN lineas) \in Int
    BY <2>1, Lugares, SumaEntera
  <2> QED
    BY <2>2 DEF f
<1> QED
  BY <1>3 DEF ExplotarRenglones, Entero
-----------------------------------------------------------------------------
(* The preparations.                                                       *)

\* What the walk over the preparations carries.
TipoPase ==
    [consumo : Entero, producido : Entero, insumos : [Productos -> Entero], cambio : BOOLEAN]

\* One preparation keeps it.
LEMMA CubrirTipo ==
    ASSUME NEW s \in TipoPase, NEW leido \in Entero, NEW prep \in Preparacion(Elaborados)
    PROVE  Cubrir(s, leido, prep) \in TipoPase
<1> DEFINE e == prep.elaborado
           falta == Faltante(s, leido, prep)
           gasto == [p \in Productos |->
                       NetoABruto((falta * prep.detalle[p]) \div prep.rendimiento, p)]
<1>1. e \in Productos
  BY PrepsAssumption DEF Preparacion
<1>2. s.consumo \in Entero /\ s.producido \in Entero /\ s.insumos \in [Productos -> Entero]
  BY DEF TipoPase
<1>3. falta \in Int
  <2>1. s.consumo[e] \in Int /\ leido[e] \in Int /\ s.producido[e] \in Int
    BY <1>1, <1>2 DEF Entero
  <2> QED
    BY <2>1 DEF Faltante, Existe
<1> HIDE DEF falta
<1>4. gasto \in Entero
  <2>1. ASSUME NEW p \in Productos
        PROVE  NetoABruto((falta * prep.detalle[p]) \div prep.rendimiento, p) \in Int
    <3>1. prep.detalle[p] \in Int /\ prep.rendimiento \in Nat \ {0} /\ Factor[p] \in Int
      BY FactorAssumption DEF Preparacion
    <3>2. falta * prep.detalle[p] \in Int
      BY <1>3, <3>1
    <3> QED
      BY <3>1, <3>2 DEF NetoABruto
  <2> QED
    BY <2>1 DEF Entero
<1> HIDE DEF gasto
<1>5. Mas(s.consumo, gasto) \in Entero /\ Mas(s.insumos[e], gasto) \in Entero
  BY <1>1, <1>2, <1>4, EnterosSumados
<1>6. s.producido[e] + falta \in Int
  BY <1>1, <1>2, <1>3 DEF Entero
<1>7. [s.producido EXCEPT ![e] = @ + falta] \in Entero
  BY <1>1, <1>2, <1>6 DEF Entero
<1>8. [s.insumos EXCEPT ![e] = Mas(@, gasto)] \in [Productos -> Entero]
  BY <1>1, <1>2, <1>5
<1> QED
  BY <1>5, <1>7, <1>8 DEF Cubrir, TipoPase, falta, gasto

\* One pass over the list keeps it.
LEMMA VueltaTipo ==
    ASSUME NEW s \in TipoPase, NEW leido \in Entero
    PROVE  Vuelta(s, leido, Preps) \in TipoPase
<1> DEFINE n == Len(Preps)
           b == [s EXCEPT !.cambio = FALSE]
           Es(h) == h = [i \in 0..n |-> IF i = 0 THEN b ELSE Cubrir(h[i-1], leido, Preps[i])]
           G == [i \in 1..n |-> [v \in TipoPase |-> Cubrir(v, leido, Preps[i])]]
<1>1. n \in Nat /\ \A i \in 1..n : Preps[i] \in Preparacion(Elaborados)
  BY PrepsAssumption, Lugares, ElementOfSeq
<1>2. b \in TipoPase
  BY DEF TipoPase
<1>3. \A i \in 1..n : \A v \in TipoPase : G[i][v] \in TipoPase
  BY <1>1, CubrirTipo
<1>4. \E h : Es(h)
  <2> HIDE DEF b, n
  <2>1. PICK h \in [0..n -> TipoPase] : Recorre(h, n, b, G)
    <3> HIDE DEF G
    <3> QED
      BY <1>1, <1>2, <1>3, RecorreExiste
  <2>2. ASSUME NEW i \in 0..n
        PROVE  h[i] = IF i = 0 THEN b ELSE Cubrir(h[i-1], leido, Preps[i])
    <3>1. CASE i = 0
      BY <2>1, <3>1 DEF Recorre
    <3>2. CASE i # 0
      <4>1. i \in 1..n /\ i-1 \in 0..n
        BY <1>1, <3>2
      <4>2. h[i-1] \in TipoPase
        BY <4>1
      <4>3. h[i] = G[i][h[i-1]]
        BY <2>1, <3>2 DEF Recorre
      <4> QED
        BY <3>2, <4>1, <4>2, <4>3
    <3> QED
      BY <3>1, <3>2
  <2>3. Es(h)
    BY <2>2
  <2> QED
    BY <2>3
<1> DEFINE r == CHOOSE h : Es(h)
<1>5. Es(r)
  BY <1>4
<1>6. Vuelta(s, leido, Preps) = r[n]
  BY DEF Vuelta
<1> HIDE DEF r
<1> HIDE DEF n, b
<1>7. r[0] = b /\ \A i \in 1..n : r[i] = Cubrir(r[i-1], leido, Preps[i])
  <2>1. 0 \in 0..n /\ \A i \in 1..n : i \in 0..n /\ i # 0
    BY <1>1
  <2> QED
    BY <1>5, <2>1
<1> HIDE DEF Es
<1>8. \A i \in 1..n : r[i-1] \in TipoPase => r[i] \in TipoPase
  BY <1>1, <1>7, CubrirTipo
<1>9. r[n] \in TipoPase
  BY <1>1, <1>2, <1>7, <1>8, RecorreTipo
<1> QED
  BY <1>6, <1>9

\* And so do all the passes.
LEMMA ResolverTipo ==
    ASSUME NEW consumo \in Entero, NEW leido \in Entero
    PROVE  ResolverPreparaciones(consumo, leido, Preps) \in TipoPase
<1> DEFINE n == MaxVueltas
           b == Inicio(consumo)
           Otra(v) == IF v.cambio THEN Vuelta(v, leido, Preps) ELSE v
           Es(h) == h = [i \in 0..n |-> IF i = 0 THEN b
                                       ELSE IF h[i-1].cambio THEN Vuelta(h[i-1], leido, Preps)
                                       ELSE h[i-1]]
           G == [i \in 1..n |-> [v \in TipoPase |-> Otra(v)]]
<1>1. n \in Nat
  BY MaxDepthAssumption DEF MaxVueltas
<1>2. b \in TipoPase
  BY EnterosSumados DEF Inicio, TipoPase
<1>3. \A v \in TipoPase : Otra(v) \in TipoPase
  BY VueltaTipo
<1> HIDE DEF b, n
<1>4. \E h : Es(h)
  <2>0. \A i \in 1..n : \A v \in TipoPase : G[i][v] \in TipoPase
    BY <1>3
  <2>1. PICK h \in [0..n -> TipoPase] : Recorre(h, n, b, G)
    <3> HIDE DEF G
    <3> QED
      BY <1>1, <1>2, <2>0, RecorreExiste
  <2>2. ASSUME NEW i \in 0..n
        PROVE  h[i] = IF i = 0 THEN b
                      ELSE IF h[i-1].cambio THEN Vuelta(h[i-1], leido, Preps)
                      ELSE h[i-1]
    <3>1. CASE i = 0
      BY <2>1, <3>1 DEF Recorre
    <3>2. CASE i # 0
      <4>1. i \in 1..n /\ i-1 \in 0..n
        BY <1>1, <3>2
      <4>2. h[i-1] \in TipoPase
        BY <4>1
      <4>3. h[i] = G[i][h[i-1]]
        BY <2>1, <3>2 DEF Recorre
      <4>4. G[i][h[i-1]] = Otra(h[i-1])
        BY <4>1, <4>2
      <4> QED
        BY <3>2, <4>3, <4>4
    <3> QED
      BY <3>1, <3>2
  <2>3. Es(h)
    BY Zenon, <2>2
  <2> QED
    BY <2>3
<1> DEFINE r == CHOOSE h : Es(h)
<1>5. Es(r)
  BY <1>4
<1>6. ResolverPreparaciones(consumo, leido, Preps) = r[n]
  BY DEF ResolverPreparaciones, n, b
<1> HIDE DEF r
<1>7. r[0] = b /\ \A i \in 1..n : r[i] = Otra(r[i-1])
  <2>1. 0 \in 0..n /\ \A i \in 1..n : i \in 0..n /\ i # 0
    BY <1>1
  <2> QED
    BY <1>5, <2>1
<1> HIDE DEF Es, Otra
<1>8. \A i \in 1..n : r[i-1] \in TipoPase => r[i] \in TipoPase
  BY <1>3, <1>7
<1>9. r[n] \in TipoPase
  BY <1>1, <1>2, <1>7, <1>8, RecorreTipo
<1> QED
  BY <1>6, <1>9

\* The movements of the automatic productions are a change of stock.
LEMMA AutoEntera ==
    ASSUME NEW r \in TipoPase
    PROVE  AutoProduccion(r) \in Entero
<1>1. ASSUME NEW p \in Productos
      PROVE  SumaDe([e \in Productos |-> r.insumos[e][p]], Productos) \in Int
  <2> DEFINE f == [e \in Productos |-> r.insumos[e][p]]
  <2>1. \A e \in Productos : f[e] \in Int
    BY DEF TipoPase, Entero
  <2> HIDE DEF f
  <2>2. SumaDe(f, Productos) \in Int
    BY <2>1, ProductosAssumption, SumaEntera
  <2> QED
    BY <2>2 DEF f
<1>2. \A p \in Productos : r.producido[p] \in Int
  BY DEF TipoPase, Entero
<1> QED
  BY <1>1, <1>2 DEF AutoProduccion, Entero
-----------------------------------------------------------------------------
(* Lists of movements: what is appended is added up.                       *)

\* Nothing moves nothing.
LEMMA SumaNinguno == Suma(<<>>) = Nada
<1>1. ASSUME NEW p \in Productos
      PROVE  SumaDe([i \in DOMAIN <<>> |-> <<>>[i].delta[p]], DOMAIN <<>>) = 0
  <2>1. DOMAIN <<>> = {}
    OBVIOUS
  <2> QED
    BY <2>1, SumaVacia
<1> QED
  BY <1>1 DEF Suma, SumaEn, Nada

\* One movement more adds its change.
LEMMA SumaAgrega ==
    ASSUME NEW k \in Seq(TipoAsiento), NEW a \in TipoAsiento
    PROVE  Suma(Append(k, a)) = Mas(Suma(k), a.delta)
<1> DEFINE m == Append(k, a)
           n == Len(k)
<1>1. n \in Nat /\ DOMAIN k = 1..n /\ IsFiniteSet(1..n)
  BY Lugares
<1>2. DOMAIN m = 1..(n+1) /\ m[n+1] = a /\ \A i \in 1..n : m[i] = k[i]
  BY <1>1
<1>3. 1..(n+1) = (1..n) \cup {n+1} /\ n+1 \notin 1..n
  BY <1>1
<1>4. \A i \in 1..n : k[i] \in TipoAsiento
  BY ElementOfSeq
<1> HIDE DEF m, n
<1>5. ASSUME NEW p \in Productos
      PROVE  SumaDe([i \in DOMAIN m |-> m[i].delta[p]], DOMAIN m)
               = SumaDe([i \in DOMAIN k |-> k[i].delta[p]], DOMAIN k) + a.delta[p]
  <2> DEFINE f == [i \in DOMAIN m |-> m[i].delta[p]]
             g == [i \in DOMAIN k |-> k[i].delta[p]]
  <2>1. \A i \in 1..n : f[i] = g[i]
    BY <1>1, <1>2, <1>3
  <2>2. f[n+1] = a.delta[p] /\ a.delta[p] \in Int
    BY <1>2, <1>3 DEF TipoAsiento, Entero
  <2>3. \A i \in 1..n : g[i] \in Int
    BY <1>1, <1>4 DEF TipoAsiento, Entero
  <2>4. \A i \in (1..n) \cup {n+1} : f[i] \in Int
    BY <2>1, <2>2, <2>3
  <2> HIDE DEF f, g
  <2>5. SumaDe(f, (1..n) \cup {n+1}) = f[n+1] + SumaDe(f, 1..n)
    BY <1>1, <1>3, <2>4, SumaCon
  <2>6. SumaDe(f, 1..n) = SumaDe(g, 1..n)
    BY <1>1, <2>1, SumaIgual
  <2>7. SumaDe(g, 1..n) \in Int
    BY <1>1, <2>3, SumaEntera
  <2>8. SumaDe(f, DOMAIN m) = SumaDe(g, DOMAIN k) + a.delta[p]
    <3>1. DOMAIN m = (1..n) \cup {n+1} /\ DOMAIN k = 1..n
      BY <1>1, <1>2, <1>3
    <3>2. SumaDe(f, DOMAIN m) = a.delta[p] + SumaDe(g, 1..n)
      BY <2>2, <2>5, <2>6, <3>1
    <3> QED
      BY <2>2, <2>7, <3>1, <3>2
  <2> QED
    BY <2>8 DEF f, g
<1> QED
  BY <1>5 DEF Suma, SumaEn, Mas, m

\* One or two movements: what an operation writes.
Breve(k) == k \in Seq(TipoAsiento) /\ Len(k) \in {1, 2}

\* Each is a movement.
LEMMA BreveTipo ==
    ASSUME NEW m, Breve(m)
    PROVE  /\ m[1] \in TipoAsiento /\ m[1].delta \in Entero
           /\ Len(m) = 2 => m[2] \in TipoAsiento /\ m[2].delta \in Entero
<1>1. m \in Seq(TipoAsiento) /\ 1 \in 1..Len(m) /\ (Len(m) = 2 => 2 \in 1..Len(m))
  BY DEF Breve
<1>2. m[1] \in TipoAsiento /\ (Len(m) = 2 => m[2] \in TipoAsiento)
  BY <1>1, ElementOfSeq
<1> QED
  BY <1>2 DEF TipoAsiento

\* They add what they change.
LEMMA SumaPega ==
    ASSUME NEW k \in Seq(TipoAsiento), NEW m, Breve(m)
    PROVE  /\ k \o m \in Seq(TipoAsiento)
           /\ Suma(k \o m) = Mas(Suma(k), Suma(m))
<1>0. k \o m \in Seq(TipoAsiento) /\ <<>> \in Seq(TipoAsiento) /\ m \in Seq(TipoAsiento)
  BY ConcatProperties DEF Breve
<1>1. Suma(k) \in Entero
  BY SumaEnEntera DEF Suma
<1>2. m[1] \in TipoAsiento /\ m[1].delta \in Entero
  BY BreveTipo
<1>3. Suma(<<m[1]>>) = Mas(Nada, m[1].delta)
  <2>1. Append(<<>>, m[1]) = <<m[1]>>
    OBVIOUS
  <2> QED
    BY <1>0, <1>2, <2>1, SumaAgrega, SumaNinguno
<1>4. CASE Len(m) = 1
  <2>1. m = <<m[1]>>
    BY <1>4 DEF Breve
  <2>2. k \o m = Append(k, m[1])
    <3>1. k \o <<m[1]>> = Append(k, m[1])
      BY <1>2
    <3> QED
      BY <2>1, <3>1
  <2>3. Suma(k \o m) = Mas(Suma(k), m[1].delta)
    BY <1>2, <2>2, SumaAgrega
  <2>4. Mas(Suma(k), Mas(Nada, m[1].delta)) = Mas(Suma(k), m[1].delta)
    BY <1>1, <1>2 DEF Mas, Nada, Entero
  <2> QED
    BY <1>0, <1>3, <2>1, <2>3, <2>4
<1>5. CASE Len(m) = 2
  <2>1. m = <<m[1], m[2]>>
    BY <1>5 DEF Breve
  <2>2. m[2] \in TipoAsiento /\ m[2].delta \in Entero
    BY <1>5, BreveTipo
  <2>3. k \o m = Append(Append(k, m[1]), m[2]) /\ m = Append(<<m[1]>>, m[2])
    <3>1. k \o <<m[1], m[2]>> = Append(Append(k, m[1]), m[2])
      BY <1>2, <2>2
    <3>2. <<m[1], m[2]>> = Append(<<m[1]>>, m[2])
      OBVIOUS
    <3> QED
      BY <2>1, <3>1, <3>2
  <2>4. Append(k, m[1]) \in Seq(TipoAsiento) /\ <<m[1]>> \in Seq(TipoAsiento)
    BY <1>2
  <2>5. Suma(k \o m) = Mas(Mas(Suma(k), m[1].delta), m[2].delta)
    BY <1>2, <2>2, <2>3, <2>4, SumaAgrega
  <2>6. Suma(m) = Mas(Mas(Nada, m[1].delta), m[2].delta)
    <3>1. Suma(Append(<<m[1]>>, m[2])) = Mas(Suma(<<m[1]>>), m[2].delta)
      BY <2>2, <2>4, SumaAgrega
    <3> QED
      BY <1>3, <2>3, <3>1
  <2>7. Mas(Suma(k), Mas(Mas(Nada, m[1].delta), m[2].delta))
          = Mas(Mas(Suma(k), m[1].delta), m[2].delta)
    BY <1>1, <1>2, <2>2 DEF Mas, Nada, Entero
  <2> QED
    BY <1>0, <2>5, <2>6, <2>7
<1> QED
  BY <1>4, <1>5 DEF Breve

\* What is taken back adds up to nothing.
LEMMA MenosSuma == \A f, g \in Entero : g = Menos(f) => Mas(f, g) = Nada
BY DEF Entero, Menos, Mas, Nada

\* The sum of one or two movements, product by product.
LEMMA SumaBreve ==
    ASSUME NEW m, Breve(m), NEW p \in Productos
    PROVE  /\ Len(m) = 1 => Suma(m)[p] = m[1].delta[p]
           /\ Len(m) = 2 => Suma(m)[p] = m[1].delta[p] + m[2].delta[p]
<1>1. <<>> \in Seq(TipoAsiento) /\ m \in Seq(TipoAsiento)
  BY DEF Breve
<1>2. m[1] \in TipoAsiento /\ m[1].delta[p] \in Int
  BY BreveTipo DEF Entero
<1>3. CASE Len(m) = 1
  <2>1. m = Append(<<>>, m[1])
    BY <1>3, <1>1
  <2>2. Suma(Append(<<>>, m[1])) = Mas(Nada, m[1].delta)
    BY <1>1, <1>2, SumaAgrega, SumaNinguno
  <2>3. Suma(m) = Mas(Nada, m[1].delta)
    BY <2>1, <2>2
  <2> QED
    BY <1>2, <1>3, <2>3 DEF Mas, Nada
<1>4. CASE Len(m) = 2
  <2>0. m[2] \in TipoAsiento /\ m[2].delta[p] \in Int
    BY <1>4, BreveTipo DEF Entero
  <2>1. m = Append(Append(<<>>, m[1]), m[2])
    BY <1>4, <1>1
  <2>2. Append(<<>>, m[1]) \in Seq(TipoAsiento)
    BY <1>1, <1>2
  <2>3. Suma(Append(<<>>, m[1])) = Mas(Nada, m[1].delta)
    BY <1>1, <1>2, SumaAgrega, SumaNinguno
  <2>4. Suma(Append(Append(<<>>, m[1]), m[2])) = Mas(Mas(Nada, m[1].delta), m[2].delta)
    BY <2>0, <2>2, <2>3, SumaAgrega
  <2>5. Suma(m) = Mas(Mas(Nada, m[1].delta), m[2].delta)
    BY <2>1, <2>4
  <2> QED
    BY <1>2, <1>4, <2>0, <2>5 DEF Mas, Nada
<1> QED
  BY <1>3, <1>4 DEF Breve
-----------------------------------------------------------------------------
(* The movements of each operation.                                        *)

\* All of them are of the document and not of its annulment.
TodoAlta(k) == \A i \in DOMAIN k : k[i].ref = "alta"

\* A movement, or two, that are so.
LEMMA UnoODos ==
    /\ \A a \in TipoAsiento : Breve(<<a>>) /\ (a.ref = "alta" => TodoAlta(<<a>>))
    /\ \A a, b \in TipoAsiento :
          /\ Breve(<<a, b>>)
          /\ a.ref = "alta" /\ b.ref = "alta" => TodoAlta(<<a, b>>)
BY DEF Breve, TodoAlta

\* A change of stock makes a movement of each type and reference.
LEMMA AsientoTipo ==
    \A delta \in Entero :
        /\ \A tipo \in {"COMPRA", "PRODUCCION", "VENTA", "MERMA", "AJUSTE", "DEVOLUCION"} :
              Asiento("alta", tipo, delta) \in TipoAsiento
        /\ Asiento("baja", "AJUSTE", delta) \in TipoAsiento
BY DEF Asiento, TipoAsiento

\* Lines added up by product are a change of stock.
LEMMA DeLineasBreve ==
    ASSUME NEW lineas \in Seq(TipoLinea), NEW tipo \in {"COMPRA", "MERMA", "DEVOLUCION"}
    PROVE  Breve(DeLineas(tipo, lineas)) /\ TodoAlta(DeLineas(tipo, lineas))
<1> DEFINE delta == [p \in Productos |-> CantidadDe(lineas, p)]
<1>1. delta \in Entero
  BY CantidadEntera DEF Entero
<1> HIDE DEF delta
<1>2. Asiento("alta", tipo, delta) \in TipoAsiento
  BY <1>1, AsientoTipo
<1>3. Asiento("alta", tipo, delta).ref = "alta"
  BY DEF Asiento
<1>4. Breve(<<Asiento("alta", tipo, delta)>>) /\ TodoAlta(<<Asiento("alta", tipo, delta)>>)
  BY <1>2, <1>3, UnoODos
<1> QED
  BY <1>4 DEF DeLineas, delta

\* A sale or a loss.
LEMMA DeConsumoBreve ==
    ASSUME NEW lineas \in Seq(TipoLinea), NEW leido \in Entero, NEW tipo \in {"VENTA", "MERMA"}
    PROVE  /\ Breve(DeConsumo(tipo, lineas, leido))
           /\ TodoAlta(DeConsumo(tipo, lineas, leido))
           /\ \A i \in DOMAIN DeConsumo(tipo, lineas, leido) :
                 DeConsumo(tipo, lineas, leido)[i].tipo \in {"PRODUCCION", tipo}
<1> DEFINE consumo == ExplotarRenglones(lineas, Escandallo)
           auto == AutoProduccion(ResolverPreparaciones(consumo, leido, Preps))
           a == Asiento("alta", "PRODUCCION", auto)
           b == Asiento("alta", tipo, Menos(consumo))
<1>1. consumo \in Entero
  BY ConsumoEntero
<1> HIDE DEF consumo
<1>2. auto \in Entero /\ Menos(consumo) \in Entero
  BY <1>1, ResolverTipo, AutoEntera, EnterosSumados
<1> HIDE DEF auto
<1>3. a \in TipoAsiento /\ b \in TipoAsiento
  BY <1>2, AsientoTipo
<1>4. a.ref = "alta" /\ b.ref = "alta" /\ a.tipo = "PRODUCCION" /\ b.tipo = tipo
  BY DEF Asiento
<1> HIDE DEF a, b
<1>5. DeConsumo(tipo, lineas, leido) = <<a, b>>
  BY DEF DeConsumo, a, b, auto, consumo
<1>6. Breve(<<a, b>>) /\ TodoAlta(<<a, b>>)
  BY <1>3, <1>4, UnoODos
<1> QED
  BY <1>4, <1>5, <1>6

\* A production names recipes that are prepared, and what a batch really
\* yielded comes after the batch.
Ordenada(lineas) ==
    \A i \in DOMAIN lineas :
        IF lineas[i].receta # "ninguna"
        THEN \E k \in DOMAIN Preps : Preps[k].receta = lineas[i].receta
        ELSE i > 1 /\ lineas[i - 1].receta # "ninguna"

\* The preparation of a recipe.
LEMMA PrepBuena ==
    ASSUME NEW receta, \E k \in DOMAIN Preps : Preps[k].receta = receta
    PROVE  PrepDe(receta) \in Preparacion(Elaborados)
<1>1. DOMAIN Preps = 1..Len(Preps)
  BY PrepsAssumption, Lugares
<1> DEFINE i == CHOOSE i \in 1..Len(Preps) : Preps[i].receta = receta
<1>2. i \in 1..Len(Preps)
  BY <1>1
<1>3. PrepDe(receta) = Preps[i]
  BY DEF PrepDe
<1> HIDE DEF i
<1> QED
  BY <1>2, <1>3, PrepsAssumption, ElementOfSeq

\* What a line of it changes is a change of stock.
LEMMA ProducidoEntero ==
    ASSUME NEW lineas \in Seq(TipoLinea), Ordenada(lineas), NEW i \in DOMAIN lineas
    PROVE  Producido(lineas, i) \in Entero
<1> DEFINE esLote == lineas[i].receta # "ninguna"
           j == IF esLote THEN i ELSE i - 1
           lote == lineas[j]
           prep == PrepDe(lote.receta)
           teoria == prep.rendimiento * lote.cantidad
           entra == [p \in Productos |->
                       (IF p = prep.elaborado THEN teoria ELSE 0)
                         - NetoABruto(prep.detalle[p] * lote.cantidad, p)]
           ajuste == [Nada EXCEPT ![prep.elaborado] = lineas[i].cantidad - teoria]
<1>1. DOMAIN lineas = 1..Len(lineas) /\ Len(lineas) \in Nat
  BY Lugares
<1>2. j \in DOMAIN lineas /\ lote.receta # "ninguna"
  BY <1>1 DEF Ordenada
<1>3. lote \in TipoLinea /\ lineas[i] \in TipoLinea
  <2> HIDE DEF j
  <2> QED
    BY <1>1, <1>2, ElementOfSeq
<1>4. prep \in Preparacion(Elaborados)
  <2> HIDE DEF j
  <2>1. \E k \in DOMAIN Preps : Preps[k].receta = lote.receta
    BY <1>2 DEF Ordenada
  <2> QED
    BY <2>1, PrepBuena
<1>5. Producido(lineas, i) = IF esLote THEN entra ELSE ajuste
  BY DEF Producido
<1> HIDE DEF j, lote, prep
<1>6. prep.elaborado \in Productos /\ prep.rendimiento \in Int /\ prep.detalle \in [Productos -> Int]
  BY <1>4, PrepsAssumption DEF Preparacion
<1>7. teoria \in Int /\ lote.cantidad \in Int /\ lineas[i].cantidad \in Int
  BY <1>3, <1>6 DEF TipoLinea
<1> HIDE DEF teoria
<1>8. entra \in Entero
  <2>1. ASSUME NEW p \in Productos
        PROVE  NetoABruto(prep.detalle[p] * lote.cantidad, p) \in Int
    <3>1. prep.detalle[p] * lote.cantidad \in Int
      BY <1>6, <1>7
    <3>2. Factor[p] \in Int
      BY FactorAssumption
    <3> QED
      BY <3>1, <3>2 DEF NetoABruto
  <2> QED
    BY <1>7, <2>1 DEF Entero
<1>9. ajuste \in Entero
  <2>1. lineas[i].cantidad - teoria \in Int
    BY <1>7
  <2> QED
    BY <1>6, <2>1, EnterosSumados DEF Entero
<1> QED
  BY <1>5, <1>8, <1>9

\* And so is what some of its lines add up to.
LEMMA SumaProducidaEntera ==
    ASSUME NEW lineas \in Seq(TipoLinea), Ordenada(lineas), NEW I \in SUBSET DOMAIN lineas
    PROVE  SumaProducida(lineas, I) \in Entero
<1>1. IsFiniteSet(I)
  BY Lugares, FS_Subset
<1>2. ASSUME NEW p \in Productos
      PROVE  SumaDe([i \in I |-> Producido(lineas, i)[p]], I) \in Int
  <2> DEFINE f == [i \in I |-> Producido(lineas, i)[p]]
  <2>1. \A i \in I : f[i] \in Int
    BY ProducidoEntero DEF Entero
  <2> HIDE DEF f
  <2>2. SumaDe(f, I) \in Int
    BY <1>1, <2>1, SumaEntera
  <2> QED
    BY <2>2 DEF f
<1> QED
  BY <1>2 DEF SumaProducida, Entero

\* A production.
LEMMA DeProduccionBreve ==
    ASSUME NEW lineas \in Seq(TipoLinea), Ordenada(lineas)
    PROVE  Breve(DeProduccion(lineas)) /\ TodoAlta(DeProduccion(lineas))
<1> DEFINE lotes == {i \in DOMAIN lineas : lineas[i].receta # "ninguna"}
           a == Asiento("alta", "PRODUCCION", SumaProducida(lineas, lotes))
           b == Asiento("alta", "AJUSTE", SumaProducida(lineas, DOMAIN lineas \ lotes))
<1>1. SumaProducida(lineas, lotes) \in Entero
      /\ SumaProducida(lineas, DOMAIN lineas \ lotes) \in Entero
  <2>1. lotes \in SUBSET DOMAIN lineas /\ DOMAIN lineas \ lotes \in SUBSET DOMAIN lineas
    OBVIOUS
  <2> QED
    BY <2>1, SumaProducidaEntera
<1>2. DeProduccion(lineas) = <<a, b>>
  BY DEF DeProduccion
<1> HIDE DEF lotes
<1>3. a \in TipoAsiento /\ b \in TipoAsiento
  BY <1>1, AsientoTipo
<1>4. a.ref = "alta" /\ b.ref = "alta"
  BY DEF Asiento
<1> HIDE DEF a, b
<1> QED
  BY <1>2, <1>3, <1>4, UnoODos

\* What annulling a document writes is the opposite of all it moved.
LEMMA ContrarioSuma ==
    ASSUME NEW d, kardex[d] \in Seq(TipoAsiento), TodoAlta(kardex[d])
    PROVE  /\ Breve(Contrario(d))
           /\ Suma(Contrario(d)) = Menos(Suma(kardex[d]))
<1> DEFINE neto == Menos(SumaEn(kardex[d], DeAlta(d)))
           a == Asiento("baja", "AJUSTE", neto)
<1>1. DeAlta(d) = DOMAIN kardex[d]
  BY DEF DeAlta, TodoAlta
<1>2. neto = Menos(Suma(kardex[d]))
  BY <1>1 DEF Suma
<1>3. neto \in Entero
  BY <1>1, SumaEnEntera, EnterosSumados
<1> HIDE DEF neto
<1>4. a \in TipoAsiento /\ a.delta = neto
  BY <1>3, AsientoTipo DEF Asiento
<1> HIDE DEF a
<1>5. Breve(<<a>>)
  BY <1>4, UnoODos
<1>6. \A p \in Productos : Suma(<<a>>)[p] = neto[p]
  <2>1. Len(<<a>>) = 1 /\ <<a>>[1] = a
    OBVIOUS
  <2> QED
    BY <1>4, <1>5, <2>1, SumaBreve
<1>7. Suma(<<a>>) = neto
  <2>1. Suma(<<a>>) = [p \in Productos |-> Suma(<<a>>)[p]]
    BY DEF Suma, SumaEn
  <2>2. neto = [p \in Productos |-> neto[p]]
    BY <1>3 DEF Entero
  <2> QED
    BY <1>6, <2>1, <2>2
<1>8. Contrario(d) = <<a>>
  BY DEF Contrario, a, neto
<1> QED
  BY <1>2, <1>5, <1>7, <1>8

\* So does reverting a charged account, whose movements are sales and the
\* productions they needed.
LEMMA InversosSuma ==
    ASSUME NEW d, kardex[d] \in Seq(TipoAsiento), TodoAlta(kardex[d]),
           \A i \in DOMAIN kardex[d] : kardex[d][i].tipo \in {"PRODUCCION", "VENTA"}
    PROVE  /\ Breve(Inversos(d))
           /\ Suma(Inversos(d)) = Menos(Suma(kardex[d]))
<1> DEFINE P == DeTipo(d, "PRODUCCION")
           V == DeTipo(d, "VENTA")
           k == kardex[d]
           f == Menos(SumaEn(k, P))
           g == Menos(SumaEn(k, V))
           a == Asiento("alta", "PRODUCCION", f)
           b == Asiento("alta", "DEVOLUCION", g)
<1>1. P \cup V = DOMAIN k /\ P \cap V = {} /\ P \subseteq DOMAIN k /\ V \subseteq DOMAIN k
  BY DEF DeTipo, DeAlta, TodoAlta
<1>2. IsFiniteSet(P) /\ IsFiniteSet(V)
  BY <1>1, Lugares, FS_Subset
<1>3. \A i \in DOMAIN k : k[i] \in TipoAsiento
  BY Lugares, ElementOfSeq
<1> HIDE DEF P, V
<1>4. f \in Entero /\ g \in Entero
  BY <1>1, SumaEnEntera, EnterosSumados
<1>5. ASSUME NEW p \in Productos
      PROVE  f[p] + g[p] = -(Suma(k)[p])
  <2> DEFINE h == [i \in DOMAIN k |-> k[i].delta[p]]
             hp == [i \in P |-> k[i].delta[p]]
             hv == [i \in V |-> k[i].delta[p]]
  <2>1. \A i \in P \cup V : h[i] \in Int
    BY <1>1, <1>3 DEF TipoAsiento, Entero
  <2>2. (\A i \in P : hp[i] = h[i]) /\ (\A i \in V : hv[i] = h[i])
    BY <1>1
  <2>3. Suma(k)[p] = SumaDe(h, DOMAIN k)
    BY DEF Suma, SumaEn
  <2>4. f[p] = -SumaDe(hp, P) /\ g[p] = -SumaDe(hv, V)
    BY DEF Menos, SumaEn
  <2> HIDE DEF f, g, h, hp, hv
  <2>5. SumaDe(h, P \cup V) = SumaDe(h, P) + SumaDe(h, V)
    BY <1>1, <1>2, <2>1, SumaUnion
  <2>6. SumaDe(hp, P) = SumaDe(h, P) /\ SumaDe(hv, V) = SumaDe(h, V)
    BY <1>2, <2>2, SumaIgual
  <2>7. SumaDe(h, P) \in Int /\ SumaDe(h, V) \in Int
    BY <1>2, <2>1, SumaEntera
  <2>8. Suma(k)[p] = SumaDe(h, P) + SumaDe(h, V)
    BY <1>1, <2>3, <2>5
  <2>9. f[p] = -SumaDe(h, P) /\ g[p] = -SumaDe(h, V)
    BY <2>4, <2>6
  <2> HIDE DEF k
  <2> QED
    BY <2>7, <2>8, <2>9
<1>6. a \in TipoAsiento /\ b \in TipoAsiento /\ a.delta = f /\ b.delta = g
  <2> HIDE DEF f, g
  <2> QED
    BY <1>4, AsientoTipo DEF Asiento
<1>7. Inversos(d) = <<a, b>>
  BY DEF Inversos, P, V
<1> HIDE DEF a, b, f, g
<1>8. Breve(<<a, b>>)
  BY <1>6, UnoODos
<1>9. \A p \in Productos : Suma(<<a, b>>)[p] = f[p] + g[p]
  <2>1. Len(<<a, b>>) = 2 /\ <<a, b>>[1] = a /\ <<a, b>>[2] = b
    OBVIOUS
  <2> QED
    BY <1>6, <1>8, <2>1, SumaBreve
<1>10. Suma(<<a, b>>) = Menos(Suma(k))
  <2>1. Suma(<<a, b>>) = [p \in Productos |-> Suma(<<a, b>>)[p]]
    BY DEF Suma, SumaEn
  <2> QED
    BY <1>5, <1>9, <2>1 DEF Menos
<1> QED
  BY <1>7, <1>8, <1>10

\* A purchase moves of each product what its lines ask.
LEMMA DeLineasSuma ==
    ASSUME NEW lineas \in Seq(TipoLinea), NEW p \in Productos
    PROVE  Suma(DeLineas("COMPRA", lineas))[p] = CantidadDe(lineas, p)
<1> DEFINE k == DeLineas("COMPRA", lineas)
<1>1. Breve(k)
  BY DeLineasBreve
<1>2. Len(k) = 1 /\ k[1].delta[p] = CantidadDe(lineas, p)
  BY DEF DeLineas, Asiento
<1> HIDE DEF k
<1>3. Suma(k)[p] = CantidadDe(lineas, p)
  BY <1>1, <1>2, SumaBreve
<1> QED
  BY <1>3 DEF k

\* In a list that names each product once, the sum is its line.
LEMMA CantidadUnica ==
    ASSUME NEW lineas \in Seq(TipoLinea),
           \A i, j \in DOMAIN lineas : lineas[i].producto = lineas[j].producto => i = j,
           NEW i \in DOMAIN lineas
    PROVE  CantidadDe(lineas, lineas[i].producto) = lineas[i].cantidad
<1> DEFINE f == [j \in DOMAIN lineas |-> lineas[j].cantidad]
<1>1. LineasDe(lineas, lineas[i].producto) = {} \cup {i}
  BY DEF LineasDe
<1>2. f[i] \in Int /\ f[i] = lineas[i].cantidad
  <2>1. lineas[i] \in TipoLinea
    BY Lugares, ElementOfSeq
  <2> QED
    BY <2>1 DEF TipoLinea
<1>3. CantidadDe(lineas, lineas[i].producto) = SumaDe(f, {} \cup {i})
  BY <1>1 DEF CantidadDe
<1> HIDE DEF f
<1>4. SumaDe(f, {} \cup {i}) = f[i] + SumaDe(f, {})
  <2>1. IsFiniteSet({}) /\ i \notin {} /\ \A y \in {} \cup {i} : f[y] \in Int
    BY <1>2, FS_EmptySet
  <2> QED
    BY <2>1, SumaCon
<1> QED
  BY <1>2, <1>3, <1>4, SumaVacia

-----------------------------------------------------------------------------
(* The types of the variables.                                             *)

Clase(op) ==
    CASE op \in {"compra", "recibir", "anularCompra"}     -> "compra"
      [] op \in {"produccion", "anularProduccion"}        -> "produccion"
      [] op \in {"conteo", "conteoConBase", "anularConteo"} -> "conteo"
      [] op \in {"cobrar", "anularVenta"}                 -> "venta"
      [] op = "merma"                                     -> "merma"
      [] OTHER                                            -> "manual"

TipoDoc ==
    [estado : {"ausente", "pedido", "vigente", "anulado"}, lineas : Seq(TipoLinea),
     op : Operaciones \cup {"pedido"}]

TipoTx ==
    [op : Operaciones, doc : Documentos \cup {"ninguno"},
     fase : {"libre", "contando", "cabecera", "inventario"}, lineas : Seq(TipoLinea),
     leido : Entero, plan : Seq(TipoAsiento), filas : SUBSET Productos,
     candados : SUBSET Productos, lectura : Entero]

Tipos ==
    /\ stock \in Entero
    /\ docs \in [Documentos -> TipoDoc]
    /\ kardex \in [Documentos -> Seq(TipoAsiento)]
    /\ tx \in [Conexiones -> TipoTx]

\* Operations that make their document: nobody else knows of it yet.
Crea(op) == op \in {"compra", "produccion", "conteo", "conteoConBase", "manual"}

\* What a count lists.
ListaDeConteo(lineas) ==
    /\ \A i \in DOMAIN lineas : lineas[i].producto \in Productos
    /\ \A i, j \in DOMAIN lineas : lineas[i].producto = lineas[j].producto => i = j

\* A request agrees with its operation, and what it has read is what its
\* operation needs.
Sana(t) ==
    /\ t.op # "libre" /\ t.doc \in Documentos /\ ClaseDe[t.doc] = Clase(t.op)
    /\ t.fase # "libre"
    /\ Cuenta(t.op) => ListaDeConteo(t.lineas)
    /\ Crea(t.op) => t.fase # "cabecera"
    /\ t.fase = "contando" => Cuenta(t.op)
    /\ t.fase # "inventario" => t.candados = {}
    /\ t.fase # "cabecera" => t.filas = Filas(t.op, t.lineas, t.plan)
    /\ t.fase = "inventario" =>
          /\ ~Cuenta(t.op) => Breve(t.plan)
          /\ ~Cuenta(t.op) /\ ~Anula(t.op) => TodoAlta(t.plan)
          /\ t.op \in {"compra", "recibir"} =>
                /\ t.plan = DeLineas("COMPRA", t.lineas)
                /\ \A i \in DOMAIN t.lineas : t.lineas[i].cantidad > 0
          /\ t.op = "cobrar" =>
                \A i \in DOMAIN t.plan : t.plan[i].tipo \in {"PRODUCCION", "VENTA"}

-----------------------------------------------------------------------------
(* The inductive invariant.                                                *)

\* t has locked the row of its document.
EnTurno(t) == PideCabecera(t.op) /\ t.fase = "inventario"

\* Who makes a document is alone with it; who has locked it saw it in the state
\* it needs, which lasts; and who annuls it will take back what it still moves.
Turno(c, t) ==
    /\ Crea(t.op) =>
          /\ docs[t.doc].estado = "ausente"
          /\ \A otra \in Conexiones \ {c} : tx[otra] # Libre => tx[otra].doc # t.doc
    /\ ~Crea(t.op) =>
          \A otra \in Conexiones \ {c} : ~(Crea(tx[otra].op) /\ tx[otra].doc = t.doc)
    /\ PideCabecera(t.op) /\ ~Consume(t.op) => docs[t.doc].estado # "ausente"
    /\ EnTurno(t) =>
          /\ Admite(t.op, docs[t.doc].estado)
          /\ \A otra \in Conexiones \ {c} : ~(EnTurno(tx[otra]) /\ tx[otra].doc = t.doc)
          /\ Anula(t.op) =>
                t.plan = IF t.op = "anularVenta" THEN Inversos(t.doc) ELSE Contrario(t.doc)

\* The rows a request has locked are the lowest of those it needs, nobody else
\* has them, and what was read of them is what they still have.
Candados(c, t) ==
    /\ t.candados \subseteq t.filas
    /\ \A p \in t.candados : t.lectura[p] = stock[p]
    /\ \A p \in t.candados, q \in t.filas \ t.candados : p < q
    /\ \A otra \in Conexiones \ {c} : t.candados \cap tx[otra].candados = {}

Buena(c, t) == t \in TipoTx /\ Sana(t) /\ Turno(c, t) /\ Candados(c, t)

\* What the movements of a document say of its state.
Papel(d) ==
    /\ docs[d].estado \in {"ausente", "pedido"} => kardex[d] = <<>>
    /\ docs[d].estado = "vigente" =>
          /\ TodoAlta(kardex[d])
          /\ ClaseDe[d] = "venta" =>
                \A i \in DOMAIN kardex[d] : kardex[d][i].tipo \in {"PRODUCCION", "VENTA"}
    /\ docs[d].estado = "anulado" => Suma(kardex[d]) = Nada
    /\ docs[d].estado = "pedido" => ClaseDe[d] = "compra" /\ docs[d].lineas \in Peticiones[d]

Inv ==
    /\ Tipos
    /\ \A c \in Conexiones : tx[c] = Libre \/ Buena(c, tx[c])
    /\ \A d \in Documentos : Papel(d)
\* A free connection.
LEMMA LibreTipo == Libre \in TipoTx /\ Libre.candados = {} /\ Libre.op = "libre"
<1>1. <<>> \in Seq(TipoLinea) /\ <<>> \in Seq(TipoAsiento)
  OBVIOUS
<1> QED
  BY <1>1, EnterosSumados DEF Libre, TipoTx, Operaciones

\* It starts.
LEMMA EmpiezaInv == Init => Inv
<1> SUFFICES ASSUME Init PROVE Inv
  OBVIOUS
<1>1. Tipos
  <2>1. SinDocumento \in TipoDoc
    BY DEF SinDocumento, TipoDoc, Operaciones
  <2>2. stock \in Entero
    BY InicialAssumption DEF Init, Entero
  <2>3. <<>> \in Seq(TipoAsiento)
    OBVIOUS
  <2> QED
    BY <2>1, <2>2, <2>3, LibreTipo DEF Init, Tipos
<1>2. \A d \in Documentos : Papel(d)
  <2>1. \A d \in Documentos : docs[d].estado = "ausente" /\ kardex[d] = <<>>
    BY DEF Init, SinDocumento
  <2> QED
    BY <2>1 DEF Papel
<1> QED
  BY <1>1, <1>2 DEF Init, Inv

\* A request that changes, while the tables stay, keeps the others as they are.
LEMMA CambiaInv ==
    ASSUME Inv, NEW c \in Conexiones, NEW t, tx' = [tx EXCEPT ![c] = t],
           UNCHANGED <<stock, docs, kardex>>, t = Libre \/ Buena(c, t)
    PROVE  Inv'
<1>1. tx \in [Conexiones -> TipoTx] /\ t \in TipoTx
  BY LibreTipo DEF Inv, Tipos, Buena
<1>2. tx' \in [Conexiones -> TipoTx] /\ tx'[c] = t /\ \A otra \in Conexiones \ {c} : tx'[otra] = tx[otra]
  BY <1>1
<1>3. Tipos'
  BY <1>2 DEF Inv, Tipos
<1>4. \A d \in Documentos : Papel(d)'
  BY DEF Inv, Papel
<1>5. \A d : Inversos(d)' = Inversos(d) /\ Contrario(d)' = Contrario(d)
  BY DEF Inversos, Contrario, DeTipo, DeAlta
<1>6. ASSUME t # Libre
      PROVE  Buena(c, t)'
  <2>1. Buena(c, t)
    BY <1>6
  <2>2. Turno(c, t)'
    BY <1>2, <1>5, <2>1 DEF Buena, Turno
  <2>3. Candados(c, t)'
    BY <1>2, <2>1 DEF Buena, Candados
  <2> QED
    BY <2>1, <2>2, <2>3 DEF Buena
<1>7. ASSUME NEW otra \in Conexiones \ {c}, tx[otra] # Libre
      PROVE  Buena(otra, tx[otra])'
  <2> DEFINE u == tx[otra]
  <2>1. Buena(otra, u) /\ u # Libre
    BY <1>7 DEF Inv
  <2>2. u' = u
    BY <1>2
  <2>3. t # Libre => Turno(c, t) /\ Candados(c, t)
    BY <1>6 DEF Buena
  <2>4. /\ Crea(u.op) => (t # Libre => t.doc # u.doc)
        /\ ~Crea(u.op) => ~(Crea(t.op) /\ t.doc = u.doc)
    <3>1. t = Libre => ~Crea(t.op)
      BY LibreTipo DEF Crea
    <3> QED
      BY <1>7, <2>1, <2>3, <3>1 DEF Turno
  <2>5. EnTurno(u) => ~(EnTurno(t) /\ t.doc = u.doc)
    <3>1. t = Libre => ~EnTurno(t)
      BY LibreTipo DEF EnTurno, PideCabecera
    <3> QED
      BY <1>7, <2>1, <2>3, <3>1 DEF Turno
  <2>6. u.candados \cap t.candados = {}
    BY <1>7, <2>3, LibreTipo DEF Candados
  <2> HIDE DEF u
  <2>7. Turno(otra, u)'
    <3>1. Turno(otra, u)
      BY <2>1 DEF Buena
    <3>2. \A x \in Conexiones \ {otra} : tx'[x] = IF x = c THEN t ELSE tx[x]
      BY <1>2
    <3>3. Crea(u.op) => docs'[u.doc].estado = "ausente" /\
            \A x \in Conexiones \ {otra} : tx'[x] # Libre => tx'[x].doc # u.doc
      BY <2>4, <3>1, <3>2 DEF Turno
    <3>4. ~Crea(u.op) =>
            \A x \in Conexiones \ {otra} : ~(Crea(tx'[x].op) /\ tx'[x].doc = u.doc)
      BY <2>4, <3>1, <3>2 DEF Turno
    <3>5. EnTurno(u) =>
            \A x \in Conexiones \ {otra} : ~(EnTurno(tx'[x]) /\ tx'[x].doc = u.doc)
      BY <2>5, <3>1, <3>2 DEF Turno
    <3> QED
      BY <1>5, <2>2, <3>1, <3>3, <3>4, <3>5 DEF Turno
  <2>8. Candados(otra, u)'
    BY <1>2, <2>1, <2>2, <2>6 DEF Buena, Candados
  <2> QED
    BY <2>1, <2>2, <2>7, <2>8 DEF Buena, u
<1>8. ASSUME NEW x \in Conexiones
      PROVE  (tx[x] = Libre \/ Buena(x, tx[x]))'
  <2>1. CASE x = c
    BY <1>2, <1>6, <2>1
  <2>2. CASE x # c
    BY <1>2, <1>7, <2>2
  <2> QED
    BY <2>1, <2>2
<1> QED
  BY <1>3, <1>4, <1>8 DEF Inv
-----------------------------------------------------------------------------
(* What is written.                                                        *)

\* A document that is in force, or was only ordered, has only movements of
\* its own.
LEMMA AnulableAlta ==
    ASSUME Inv, NEW d \in Documentos, docs[d].estado \in {"pedido", "vigente"}
    PROVE  /\ kardex[d] \in Seq(TipoAsiento) /\ TodoAlta(kardex[d])
           /\ docs[d].estado = "vigente" /\ ClaseDe[d] = "venta" =>
                 \A i \in DOMAIN kardex[d] : kardex[d][i].tipo \in {"PRODUCCION", "VENTA"}
<1>1. kardex[d] \in Seq(TipoAsiento)
  BY DEF Inv, Tipos
<1>2. Papel(d)
  BY DEF Inv
<1>3. DOMAIN <<>> = {}
  OBVIOUS
<1> QED
  BY <1>1, <1>2, <1>3 DEF Papel, TodoAlta

\* The state that each operation finds and leaves.
LEMMA Estados ==
    ASSUME Inv, NEW c \in Conexiones, NEW t, Buena(c, t), EnTurno(t)
    PROVE  /\ t.op = "anularCompra" => docs[t.doc].estado \in {"pedido", "vigente"}
           /\ Anula(t.op) /\ t.op # "anularCompra" => docs[t.doc].estado = "vigente"
           /\ t.op = "recibir" => docs[t.doc].estado = "pedido"
           /\ Consume(t.op) => docs[t.doc].estado = "ausente"
BY DEF Buena, Turno, EnTurno, PideCabecera, Admite, Anula, Consume

\* A request about to commit: its movements are one or two, of its document;
\* those of an annulment add up to the opposite of what the document moved.
LEMMA AsientosBreves ==
    ASSUME Inv, NEW c \in Conexiones, NEW t, Buena(c, t), t.fase = "inventario"
    PROVE  /\ Breve(Asientos(t))
           /\ ~Anula(t.op) => TodoAlta(Asientos(t))
           /\ t.op = "cobrar" =>
                 \A i \in DOMAIN Asientos(t) : Asientos(t)[i].tipo \in {"PRODUCCION", "VENTA"}
           /\ Anula(t.op) => Suma(Asientos(t)) = Menos(Suma(kardex[t.doc]))
<1>1. t \in TipoTx /\ Sana(t) /\ Turno(c, t) /\ t.doc \in Documentos
  BY DEF Buena, Sana
<1>2. CASE Cuenta(t.op)
  <2>1. Variacion(t) \in Entero
    <3>1. \A p \in Productos : CantidadDe(t.lineas, p) \in Int /\ t.leido[p] \in Int /\ t.lectura[p] \in Int
      BY <1>1, CantidadEntera DEF TipoTx, Entero
    <3> QED
      BY <3>1 DEF Variacion, Entero
  <2> DEFINE a == Asiento("alta", "AJUSTE", Variacion(t))
  <2>2. a \in TipoAsiento /\ a.ref = "alta"
    BY <2>1, AsientoTipo DEF Asiento
  <2> HIDE DEF a
  <2>3. Breve(<<a>>) /\ TodoAlta(<<a>>)
    BY <2>2, UnoODos
  <2>4. Asientos(t) = <<a>> /\ ~Anula(t.op) /\ t.op # "cobrar"
    BY <1>2 DEF Asientos, Cuenta, Anula, a
  <2> QED
    BY <2>3, <2>4
<1>3. CASE ~Cuenta(t.op)
  <2>1. Asientos(t) = t.plan
    BY <1>3 DEF Asientos
  <2>2. ASSUME Anula(t.op)
        PROVE  Suma(t.plan) = Menos(Suma(kardex[t.doc]))
    <3>1. EnTurno(t)
      BY <2>2 DEF EnTurno, PideCabecera, Anula
    <3>2. t.plan = IF t.op = "anularVenta" THEN Inversos(t.doc) ELSE Contrario(t.doc)
      BY <1>1, <2>2, <3>1 DEF Turno
    <3>3. docs[t.doc].estado \in {"pedido", "vigente"}
      BY <2>2, <3>1, Estados
    <3>4. t.op = "anularVenta" => docs[t.doc].estado = "vigente" /\ ClaseDe[t.doc] = "venta"
      BY <1>1, <2>2, <3>1, Estados DEF Sana, Clase
    <3>5. CASE t.op = "anularVenta"
      BY <1>1, <3>2, <3>3, <3>4, <3>5, AnulableAlta, InversosSuma
    <3>6. CASE t.op # "anularVenta"
      BY <1>1, <3>2, <3>3, <3>6, AnulableAlta, ContrarioSuma
    <3> QED
      BY <3>5, <3>6
  <2> QED
    BY <1>1, <1>3, <2>1, <2>2 DEF Sana
<1> QED
  BY <1>2, <1>3

\* What it does not lock it does not change.
LEMMA FueraNada ==
    ASSUME Inv, NEW c \in Conexiones, NEW t, Buena(c, t), t.fase = "inventario",
           NEW p \in Productos, p \notin t.filas
    PROVE  Suma(Asientos(t))[p] = 0
<1>1. Breve(Asientos(t))
  BY AsientosBreves
<1>2. t.filas = Filas(t.op, t.lineas, t.plan)
  BY DEF Buena, Sana
<1>3. \A i \in DOMAIN Asientos(t) : Asientos(t)[i].delta[p] = 0
  <2>1. CASE Cuenta(t.op)
    <3>1. DOMAIN Asientos(t) = {1} /\ Asientos(t)[1] = Asiento("alta", "AJUSTE", Variacion(t))
      BY <2>1 DEF Asientos
    <3>2. Variacion(t)[p] = 0
      BY DEF Variacion
    <3> QED
      BY <3>1, <3>2 DEF Asiento
  <2>2. CASE ~Cuenta(t.op)
    BY <1>2, <2>2 DEF Asientos, Filas
  <2> QED
    BY <2>1, <2>2
<1>4. 1 \in DOMAIN Asientos(t) /\ (Len(Asientos(t)) = 2 => 2 \in DOMAIN Asientos(t))
  BY <1>1 DEF Breve
<1>5. Asientos(t)[1].delta[p] = 0 /\ (Len(Asientos(t)) = 2 => Asientos(t)[2].delta[p] = 0)
  BY <1>3, <1>4
<1>6. /\ Len(Asientos(t)) = 1 => Suma(Asientos(t))[p] = Asientos(t)[1].delta[p]
      /\ Len(Asientos(t)) = 2 =>
            Suma(Asientos(t))[p] = Asientos(t)[1].delta[p] + Asientos(t)[2].delta[p]
  BY <1>1, SumaBreve
<1>7. Len(Asientos(t)) \in {1, 2}
  BY <1>1 DEF Breve
<1> QED
  BY <1>5, <1>6, <1>7

\* The commit moves the stock by what its movements add up to, whatever
\* happened since the rows were read.
LEMMA EscribirMueve ==
    ASSUME Inv, NEW c \in Conexiones, Escribir(c)
    PROVE  /\ tx[c] # Libre /\ Buena(c, tx[c]) /\ tx[c].fase = "inventario"
           /\ tx[c].candados = tx[c].filas
           /\ stock' = Mas(stock, Suma(Asientos(tx[c])))
           /\ \A p \in Productos : p \notin tx[c].filas => stock'[p] = stock[p]
<1> DEFINE t == tx[c]
           cambio == Suma(Asientos(t))
<1>1. t.fase = "inventario" /\ t.candados = t.filas
  BY DEF Escribir, ConTodo
<1>2. t # Libre
  BY <1>1 DEF Libre
<1>3. Buena(c, t)
  BY <1>2 DEF Inv
<1>4. cambio \in Entero
  <2>1. Asientos(t) \in Seq(TipoAsiento)
    BY <1>1, <1>3, AsientosBreves DEF Breve
  <2> QED
    BY <2>1, SumaEnEntera DEF Suma
<1>5. stock' = [p \in Productos |-> IF p \in t.filas THEN t.lectura[p] + cambio[p] ELSE stock[p]]
  BY DEF Escribir
<1>6. \A p \in t.filas : t.lectura[p] = stock[p]
  BY <1>1, <1>3 DEF Buena, Candados
<1>7. \A p \in Productos : p \notin t.filas => cambio[p] = 0
  BY <1>1, <1>3, FueraNada
<1>8. stock \in Entero
  BY DEF Inv, Tipos
<1> HIDE DEF cambio
<1>9. stock' = Mas(stock, cambio)
  BY <1>4, <1>5, <1>6, <1>7, <1>8 DEF Mas, Entero
<1> QED
  BY <1>1, <1>2, <1>3, <1>5, <1>9 DEF cambio
\* Before a document comes into force it has no movements.
LEMMA AntesNada ==
    ASSUME Inv, NEW c \in Conexiones, NEW t, Buena(c, t), t.fase = "inventario", ~Anula(t.op)
    PROVE  docs[t.doc].estado \in {"ausente", "pedido"} /\ kardex[t.doc] = <<>>
<1>1. t.doc \in Documentos /\ Sana(t) /\ Turno(c, t) /\ t \in TipoTx
  BY DEF Buena, Sana
<1>2. docs[t.doc].estado \in {"ausente", "pedido"}
  <2>1. CASE Crea(t.op)
    BY <1>1, <2>1 DEF Turno
  <2>2. CASE ~Crea(t.op)
    <3>1. t.op = "recibir" \/ Consume(t.op)
      BY <1>1, <2>2 DEF TipoTx, Operaciones, Crea, Anula, Consume, Sana
    <3>2. EnTurno(t)
      BY <3>1 DEF EnTurno, PideCabecera, Consume
    <3> QED
      BY <3>1, <3>2, Estados
  <2> QED
    BY <2>1, <2>2
<1>3. Papel(t.doc)
  BY <1>1 DEF Inv
<1> QED
  BY <1>2, <1>3 DEF Papel

\* The document after the commit.
LEMMA EscribirPapel ==
    ASSUME Inv, NEW c \in Conexiones, Escribir(c), NEW d, d = tx[c].doc
    PROVE  /\ Tipos'
           /\ Papel(d)'
           /\ docs'[d].estado = Deja(tx[c].op)
<1> DEFINE t == tx[c]
<1>1. Buena(c, t) /\ t.fase = "inventario" /\ stock' = Mas(stock, Suma(Asientos(t)))
  BY EscribirMueve
<1>2. d \in Documentos /\ Sana(t) /\ t \in TipoTx
  BY <1>1 DEF Buena, Sana
<1>3. Breve(Asientos(t)) /\ Asientos(t) \in Seq(TipoAsiento)
  BY <1>1, AsientosBreves DEF Breve
<1>4. kardex[d] \in Seq(TipoAsiento) /\ docs[d] \in TipoDoc
  BY <1>2 DEF Inv, Tipos
<1>5. kardex' = [kardex EXCEPT ![d] = @ \o Asientos(t)]
  BY DEF Escribir
<1>6. docs' = [docs EXCEPT ![d] = IF Anula(t.op) THEN [@ EXCEPT !.estado = Deja(t.op)]
                 ELSE [estado |-> Deja(t.op), lineas |-> t.lineas, op |-> t.op]]
  BY DEF Escribir
<1>7. kardex[d] \o Asientos(t) \in Seq(TipoAsiento)
      /\ Suma(kardex[d] \o Asientos(t)) = Mas(Suma(kardex[d]), Suma(Asientos(t)))
  BY <1>3, <1>4, SumaPega
<1>8. kardex' \in [Documentos -> Seq(TipoAsiento)] /\ kardex'[d] = kardex[d] \o Asientos(t)
  BY <1>2, <1>5, <1>7 DEF Inv, Tipos
<1>9. docs' \in [Documentos -> TipoDoc] /\ docs'[d].estado = Deja(t.op)
  <2>1. Deja(t.op) \in {"vigente", "anulado"}
    BY DEF Deja
  <2>2. [docs[d] EXCEPT !.estado = Deja(t.op)] \in TipoDoc
    BY <1>4, <2>1 DEF TipoDoc
  <2>3. [estado |-> Deja(t.op), lineas |-> t.lineas, op |-> t.op] \in TipoDoc
    BY <1>2, <2>1 DEF TipoDoc, TipoTx
  <2>4. docs'[d] \in TipoDoc /\ docs'[d].estado = Deja(t.op)
    <3>1. docs'[d] = IF Anula(t.op) THEN [docs[d] EXCEPT !.estado = Deja(t.op)]
                     ELSE [estado |-> Deja(t.op), lineas |-> t.lineas, op |-> t.op]
      BY <1>2, <1>6 DEF Inv, Tipos
    <3>2. [docs[d] EXCEPT !.estado = Deja(t.op)].estado = Deja(t.op)
      BY <1>4 DEF TipoDoc
    <3> QED
      BY <2>2, <2>3, <3>1, <3>2
  <2>5. \A e \in Documentos \ {d} : docs'[e] = docs[e]
    BY <1>6 DEF Inv, Tipos
  <2>6. docs' = [e \in Documentos |-> docs'[e]]
    BY <1>6 DEF Inv, Tipos
  <2>7. \A e \in Documentos : docs'[e] \in TipoDoc
    BY <2>4, <2>5 DEF Inv, Tipos
  <2> QED
    BY <2>4, <2>6, <2>7
<1>10. Suma(kardex[d]) \in Entero /\ Suma(Asientos(t)) \in Entero
  BY <1>3, <1>4, SumaEnEntera DEF Suma
<1>11. stock' \in Entero
  BY <1>1, <1>10, EnterosSumados DEF Inv, Tipos
<1>12. tx' \in [Conexiones -> TipoTx]
  BY LibreTipo DEF Escribir, Inv, Tipos
<1>13. Papel(d)'
  <2>1. CASE Anula(t.op)
    <3>1. Suma(kardex[d] \o Asientos(t)) = Nada
      BY <1>1, <1>7, <1>10, <2>1, AsientosBreves, MenosSuma
    <3>2. docs'[d].estado = "anulado"
      BY <1>9, <2>1 DEF Deja
    <3>3. Suma(kardex'[d]) = Nada
      BY <1>8, <3>1
    <3> QED
      BY <3>2, <3>3 DEF Papel
  <2>2. CASE ~Anula(t.op)
    <3>1. kardex[d] = <<>>
      BY <1>1, <2>2, AntesNada
    <3>2. kardex'[d] = Asientos(t)
      BY <1>3, <1>8, <3>1
    <3>3. docs'[d].estado = "vigente"
      BY <1>9, <2>2 DEF Deja
    <3>4. TodoAlta(Asientos(t)) /\ (t.op = "cobrar" =>
             \A i \in DOMAIN Asientos(t) : Asientos(t)[i].tipo \in {"PRODUCCION", "VENTA"})
      BY <1>1, <2>2, AsientosBreves
    <3>5. ClaseDe[d] = "venta" => t.op = "cobrar"
      BY <1>2, <2>2 DEF Sana, Clase, Anula
    <3> QED
      BY <3>2, <3>3, <3>4, <3>5 DEF Papel
  <2> QED
    BY <2>1, <2>2
<1> QED
  BY <1>8, <1>9, <1>11, <1>12, <1>13 DEF Tipos

\* The others go on as they were: nobody whose turn it is had the document,
\* and nobody else had the rows.
LEMMA EscribirAjenas ==
    ASSUME Inv, NEW c \in Conexiones, Escribir(c),
           NEW otra \in Conexiones \ {c}, tx[otra] # Libre
    PROVE  Buena(otra, tx[otra])'
<1> DEFINE t == tx[c]
           u == tx[otra]
<1>1. Buena(c, t) /\ t # Libre /\ t.fase = "inventario" /\ t.candados = t.filas
  BY EscribirMueve
<1>2. Buena(otra, u)
  BY DEF Inv
<1>3. tx' = [tx EXCEPT ![c] = Libre] /\ tx \in [Conexiones -> TipoTx]
  BY DEF Escribir, Inv, Tipos
<1>4. u' = u /\ tx'[c] = Libre /\ \A x \in Conexiones \ {c} : tx'[x] = tx[x]
  BY <1>3
<1>5. ~Crea(Libre.op) /\ ~EnTurno(Libre) /\ Libre.candados = {}
  BY DEF Libre, Crea, EnTurno, PideCabecera
<1>6. u.doc \in Documentos /\ t.doc \in Documentos /\ Sana(t) /\ Sana(u) /\ t \in TipoTx /\ u \in TipoTx
  BY <1>1, <1>2 DEF Buena, Sana
<1>7. Candados(otra, u)'
  <2>1. \A p \in u.candados : stock'[p] = stock[p]
    <3>1. t.candados \cap u.candados = {}
      BY <1>1 DEF Buena, Candados
    <3>2. u.candados \subseteq Productos
      BY <1>6 DEF TipoTx
    <3> QED
      BY <1>1, <3>1, <3>2, EscribirMueve
  <2>2. Candados(otra, u)
    BY <1>2 DEF Buena
  <2> HIDE DEF u, t
  <2> QED
    BY <1>4, <1>5, <2>1, <2>2 DEF Candados
<1>8. Turno(otra, u)'
  <2>0. Turno(otra, u)
    BY <1>2 DEF Buena
  <2>1. CASE u.doc # t.doc
    <3>1. docs'[u.doc] = docs[u.doc] /\ kardex'[u.doc] = kardex[u.doc]
      BY <1>6, <2>1 DEF Escribir, Inv, Tipos
    <3>2. Inversos(u.doc)' = Inversos(u.doc) /\ Contrario(u.doc)' = Contrario(u.doc)
      BY <1>4, <3>1 DEF Inversos, Contrario, DeTipo, DeAlta
    <3> HIDE DEF u, t
    <3> QED
      BY <1>4, <1>5, <2>0, <3>1, <3>2 DEF Turno
  <2>2. CASE u.doc = t.doc
    <3>1. ~Crea(t.op) /\ ~Crea(u.op)
      BY <1>1, <2>0, <2>2 DEF Buena, Turno
    <3>2. EnTurno(t)
      BY <1>1, <1>6, <3>1 DEF EnTurno, PideCabecera, Crea, TipoTx, Operaciones, Sana
    <3>3. ~EnTurno(u)
      BY <1>1, <2>2, <3>2 DEF Buena, Turno
    <3>4. docs'[u.doc].estado # "ausente"
      <4>1. PICK d : d = t.doc
        OBVIOUS
      <4>2. docs'[d].estado = Deja(t.op)
        BY <4>1, EscribirPapel
      <4> QED
        BY <2>2, <4>1, <4>2 DEF Deja
    <3> HIDE DEF u, t
    <3> QED
      BY <1>4, <1>5, <2>0, <3>1, <3>3, <3>4 DEF Turno
  <2> QED
    BY <2>1, <2>2
<1> QED
  BY <1>2, <1>4, <1>7, <1>8 DEF Buena

\* The commit keeps the invariant.
LEMMA EscribirInv ==
    ASSUME Inv, NEW c \in Conexiones, Escribir(c)
    PROVE  Inv'
<1>1. tx' = [tx EXCEPT ![c] = Libre] /\ tx \in [Conexiones -> TipoTx]
  BY DEF Escribir, Inv, Tipos
<1>2. \A x \in Conexiones : (tx[x] = Libre \/ Buena(x, tx[x]))'
  <2>1. ASSUME NEW x \in Conexiones
        PROVE  (tx[x] = Libre \/ Buena(x, tx[x]))'
    <3>1. CASE x = c
      BY <1>1, <3>1
    <3>2. CASE x # c
      <4>1. tx'[x] = tx[x]
        BY <1>1, <3>2
      <4> QED
        BY <3>2, <4>1, EscribirAjenas
    <3> QED
      BY <3>1, <3>2
  <2> QED
    BY <2>1
<1>3. \A d \in Documentos : Papel(d)'
  <2>1. \A d \in Documentos : d # tx[c].doc => docs'[d] = docs[d] /\ kardex'[d] = kardex[d]
    BY DEF Escribir, Inv, Tipos
  <2>2. \A d \in Documentos : Papel(d)
    BY DEF Inv
  <2>3. \A d \in Documentos : d # tx[c].doc => Papel(d)'
    BY <2>1, <2>2 DEF Papel
  <2>4. \A d : d = tx[c].doc => Papel(d)'
    BY EscribirPapel
  <2> QED
    BY <2>3, <2>4
<1>4. Tipos'
  BY EscribirPapel
<1> QED
  BY <1>2, <1>3, <1>4 DEF Inv
-----------------------------------------------------------------------------
(* Requests that begin.                                                    *)

\* The movements planned for an operation that does not annul.
LEMMA PlanSano ==
    ASSUME NEW op \in Operaciones, op # "libre", ~Cuenta(op), ~Anula(op),
           NEW lineas \in Seq(TipoLinea), NEW leido \in Entero, NEW d,
           op = "produccion" => Ordenada(lineas)
    PROVE  /\ Breve(Plan(op, lineas, leido, d)) /\ TodoAlta(Plan(op, lineas, leido, d))
           /\ op \in {"compra", "recibir"} =>
                 Plan(op, lineas, leido, d) = DeLineas("COMPRA", lineas)
           /\ op = "cobrar" =>
                 \A i \in DOMAIN Plan(op, lineas, leido, d) :
                     Plan(op, lineas, leido, d)[i].tipo \in {"PRODUCCION", "VENTA"}
<1>1. op \in {"compra", "recibir", "manual", "produccion", "cobrar", "merma"}
  BY DEF Operaciones, Cuenta, Anula
<1>2. CASE op \in {"compra", "recibir"}
  <2>1. Plan(op, lineas, leido, d) = DeLineas("COMPRA", lineas)
    BY <1>2 DEF Plan
  <2> QED
    BY <1>2, <2>1, DeLineasBreve
<1>3. CASE op = "manual"
  <2> DEFINE tipo == IF lineas[1].cantidad < 0 THEN "MERMA" ELSE "DEVOLUCION"
  <2>1. Plan(op, lineas, leido, d) = DeLineas(tipo, lineas)
    BY <1>3 DEF Plan
  <2>2. tipo \in {"COMPRA", "MERMA", "DEVOLUCION"}
    OBVIOUS
  <2> HIDE DEF tipo
  <2> QED
    BY <1>3, <2>1, <2>2, DeLineasBreve
<1>4. CASE op = "produccion"
  <2>1. Plan(op, lineas, leido, d) = DeProduccion(lineas)
    BY <1>4 DEF Plan
  <2> QED
    BY <1>4, <2>1, DeProduccionBreve
<1>5. CASE op = "cobrar"
  <2>1. Plan(op, lineas, leido, d) = DeConsumo("VENTA", lineas, leido)
    BY <1>5 DEF Plan
  <2>2. /\ Breve(DeConsumo("VENTA", lineas, leido))
        /\ TodoAlta(DeConsumo("VENTA", lineas, leido))
        /\ \A i \in DOMAIN DeConsumo("VENTA", lineas, leido) :
              DeConsumo("VENTA", lineas, leido)[i].tipo \in {"PRODUCCION", "VENTA"}
    BY DeConsumoBreve
  <2> QED
    BY <1>5, <2>1, <2>2
<1>6. CASE op = "merma"
  <2>1. Plan(op, lineas, leido, d) = DeConsumo("MERMA", lineas, leido)
    BY <1>6 DEF Plan
  <2> QED
    BY <1>6, <2>1, DeConsumoBreve
<1> QED
  BY <1>1, <1>2, <1>3, <1>4, <1>5, <1>6

\* The rows of an operation are products.
LEMMA FilasProductos ==
    ASSUME NEW op, NEW lineas, NEW plan, Cuenta(op) => ListaDeConteo(lineas)
    PROVE  Filas(op, lineas, plan) \in SUBSET Productos
BY DEF Filas, ListaDeConteo, ProductosDe

\* A document nobody uses: who takes it is alone with it.
LEMMA NuevoTurno ==
    ASSUME NEW d \in Documentos, Nuevo(d), NEW t, t.doc = d, Crea(t.op), NEW c \in Conexiones
    PROVE  Turno(c, t)
<1>1. ~PideCabecera(t.op)
  BY DEF Crea, PideCabecera
<1>2. docs[d].estado = "ausente" /\ \A otra \in Conexiones : tx[otra].doc # d
  BY DEF Nuevo
<1> QED
  BY <1>1, <1>2 DEF Turno, EnTurno

\* A document is made with what was asked.
LEMMA CrearInv ==
    ASSUME Inv, NEW c \in Conexiones, NEW d \in Documentos,
           NEW op \in {"compra", "produccion", "manual"}, Crear(c, op, op, d)
    PROVE  Inv'
<1>0. ClaseDe[d] = op /\ Nuevo(d)
  BY DEF Crear
<1>1. PICK lineas \in Peticiones[d] :
          Abrir(c, op, d, "inventario", lineas, Nada, Plan(op, lineas, Nada, d))
  BY DEF Crear
<1>2. PICK plan : plan = Plan(op, lineas, Nada, d)
  OBVIOUS
<1> DEFINE t == [op |-> op, doc |-> d, fase |-> "inventario", lineas |-> lineas,
                 leido |-> Nada, plan |-> plan, filas |-> Filas(op, lineas, plan),
                 candados |-> {}, lectura |-> Nada]
<1>3. tx' = [tx EXCEPT ![c] = t] /\ UNCHANGED <<stock, docs, kardex>>
  BY <1>1, <1>2 DEF Abrir
<1>4. lineas \in Seq(TipoLinea)
      /\ (op = "compra" => \A i \in DOMAIN lineas : lineas[i].cantidad > 0)
      /\ (op = "produccion" => Ordenada(lineas))
  BY <1>0, PeticionesAssumption DEF Ordenada
<1>5. op \in Operaciones /\ op # "libre" /\ ~Cuenta(op) /\ ~Anula(op) /\ op # "cobrar" /\ op # "recibir"
      /\ Clase(op) = op
  BY DEF Operaciones, Cuenta, Anula, Clase
<1>6. Breve(plan) /\ TodoAlta(plan) /\ (op = "compra" => plan = DeLineas("COMPRA", lineas))
  <2>1. Nada \in Entero
    BY EnterosSumados
  <2> QED
    BY <1>2, <1>4, <1>5, <2>1, PlanSano
<1>7. Filas(op, lineas, plan) \in SUBSET Productos
  BY <1>5, FilasProductos
<1>8. t \in TipoTx
  BY <1>4, <1>5, <1>6, <1>7, EnterosSumados DEF TipoTx, Breve
<1>9. Sana(t)
  BY <1>0, <1>4, <1>5, <1>6 DEF Sana
<1>10. Turno(c, t)
  <2>1. Crea(t.op) /\ t.doc = d
    BY DEF Crea
  <2> HIDE DEF t
  <2> QED
    BY <1>0, <2>1, NuevoTurno
<1>11. Candados(c, t)
  <2>1. t.candados = {}
    OBVIOUS
  <2> HIDE DEF t
  <2> QED
    BY <2>1 DEF Candados
<1> HIDE DEF t
<1> QED
  BY <1>3, <1>8, <1>9, <1>10, <1>11, CambiaInv DEF Buena

\* What somebody counts is a number.
LEMMA AnaquelEntero ==
    ASSUME Inv, NEW p \in Productos
    PROVE  EnAnaquel(p) \in Int
<1> DEFINE C == {d \in Documentos : ClaseDe[d] = "conteo"}
           f == [d \in Documentos |-> Suma(kardex[d])[p]]
<1>1. IsFiniteSet(C)
  BY DocumentosAssumption, FS_Subset
<1>2. \A d \in C : f[d] \in Int
  <2>1. \A d \in Documentos : Suma(kardex[d]) \in Entero
    BY SumaEnEntera DEF Inv, Tipos, Suma
  <2> QED
    BY <2>1 DEF Entero
<1> HIDE DEF C, f
<1>3. SumaDe(f, C) \in Int
  BY <1>1, <1>2, SumaEntera
<1>4. stock[p] \in Int /\ Desfase[p] \in Int
  BY InicialAssumption DEF Inv, Tipos, Entero
<1> QED
  BY <1>3, <1>4 DEF EnAnaquel, C, f

\* The lines of a count with what was found.
Contadas(lineas) ==
    [i \in 1..Len(lineas) |-> [lineas[i] EXCEPT !.cantidad = EnAnaquel(lineas[i].producto)]]

\* They list what was asked.
LEMMA ContadasTipo ==
    ASSUME Inv, NEW lineas \in Seq(TipoLinea), ListaDeConteo(lineas)
    PROVE  /\ Contadas(lineas) \in Seq(TipoLinea)
           /\ DOMAIN Contadas(lineas) = DOMAIN lineas
           /\ \A i \in DOMAIN lineas :
                 /\ Contadas(lineas)[i].producto = lineas[i].producto
                 /\ Contadas(lineas)[i].cantidad = EnAnaquel(lineas[i].producto)
           /\ ListaDeConteo(Contadas(lineas))
<1>1. DOMAIN lineas = 1..Len(lineas) /\ Len(lineas) \in Nat
  BY Lugares
<1>2. \A i \in 1..Len(lineas) : lineas[i] \in TipoLinea
  BY ElementOfSeq
<1>3. \A i \in 1..Len(lineas) : EnAnaquel(lineas[i].producto) \in Int
  BY <1>1, AnaquelEntero DEF ListaDeConteo
<1>4. \A i \in 1..Len(lineas) :
          /\ [lineas[i] EXCEPT !.cantidad = EnAnaquel(lineas[i].producto)] \in TipoLinea
          /\ [lineas[i] EXCEPT !.cantidad = EnAnaquel(lineas[i].producto)].producto = lineas[i].producto
          /\ [lineas[i] EXCEPT !.cantidad = EnAnaquel(lineas[i].producto)].cantidad
               = EnAnaquel(lineas[i].producto)
  BY <1>2, <1>3 DEF TipoLinea
<1>5. Contadas(lineas) \in [1..Len(lineas) -> TipoLinea]
  BY <1>4 DEF Contadas
<1>6. Contadas(lineas) \in Seq(TipoLinea)
  BY <1>1, <1>5, SeqDef
<1>7. DOMAIN Contadas(lineas) = DOMAIN lineas
  BY <1>1 DEF Contadas
<1>8. \A i \in DOMAIN lineas :
         /\ Contadas(lineas)[i].producto = lineas[i].producto
         /\ Contadas(lineas)[i].cantidad = EnAnaquel(lineas[i].producto)
  BY <1>1, <1>4 DEF Contadas
<1> QED
  BY <1>6, <1>7, <1>8 DEF ListaDeConteo
\* A count begins.
LEMMA EmpezarConteoInv ==
    ASSUME Inv, NEW c \in Conexiones, NEW d \in Documentos, NEW conBase \in BOOLEAN,
           EmpezarConteo(c, d, conBase)
    PROVE  Inv'
<1>0. ClaseDe[d] = "conteo" /\ Nuevo(d)
  BY DEF EmpezarConteo
<1> DEFINE op == IF conBase THEN "conteoConBase" ELSE "conteo"
<1>1. PICK lineas \in Peticiones[d] :
          Abrir(c, op, d, "contando", Contadas(lineas), stock, <<>>)
  BY DEF EmpezarConteo, Contadas
<1>2. PICK contadas, leido : contadas = Contadas(lineas) /\ leido = stock
  OBVIOUS
<1> DEFINE t == [op |-> op, doc |-> d, fase |-> "contando", lineas |-> contadas,
                 leido |-> leido, plan |-> <<>>, filas |-> Filas(op, contadas, <<>>),
                 candados |-> {}, lectura |-> Nada]
<1>3. tx' = [tx EXCEPT ![c] = t] /\ UNCHANGED <<stock, docs, kardex>>
  BY <1>1, <1>2 DEF Abrir
<1>4. lineas \in Seq(TipoLinea) /\ ListaDeConteo(lineas)
  BY <1>0, PeticionesAssumption DEF ListaDeConteo
<1>5. contadas \in Seq(TipoLinea) /\ ListaDeConteo(contadas)
  BY <1>2, <1>4, ContadasTipo
<1>6. op \in Operaciones /\ op # "libre" /\ Cuenta(op) /\ Clase(op) = "conteo" /\ Crea(op)
  BY DEF Operaciones, Cuenta, Clase, Crea
<1> HIDE DEF op
<1>7. Filas(op, contadas, <<>>) \in SUBSET Productos
  BY <1>5, FilasProductos
<1>8. t \in TipoTx
  <2>1. <<>> \in Seq(TipoAsiento)
    OBVIOUS
  <2>2. leido \in Entero
    BY <1>2 DEF Inv, Tipos
  <2> QED
    BY <1>5, <1>6, <1>7, <2>1, <2>2, EnterosSumados DEF TipoTx
<1>9. Sana(t)
  BY <1>0, <1>5, <1>6 DEF Sana
<1>10. Turno(c, t)
  <2>1. Crea(t.op) /\ t.doc = d
    BY <1>6
  <2> HIDE DEF t
  <2> QED
    BY <1>0, <2>1, NuevoTurno
<1>11. Candados(c, t)
  <2>1. t.candados = {}
    OBVIOUS
  <2> HIDE DEF t
  <2> QED
    BY <2>1 DEF Candados
<1> HIDE DEF t
<1> QED
  BY <1>3, <1>8, <1>9, <1>10, <1>11, CambiaInv DEF Buena

\* An operation on a document that exists begins.
LEMMA SobreInv ==
    ASSUME Inv, NEW c \in Conexiones, NEW d \in Documentos,
           NEW op \in Operaciones, PideCabecera(op), Sobre(c, op, Clase(op), d)
    PROVE  Inv'
<1> DEFINE t == [op |-> op, doc |-> d, fase |-> "cabecera", lineas |-> <<>>,
                 leido |-> Nada, plan |-> <<>>, filas |-> Filas(op, <<>>, <<>>),
                 candados |-> {}, lectura |-> Nada]
<1>1. tx' = [tx EXCEPT ![c] = t] /\ UNCHANGED <<stock, docs, kardex>>
  BY DEF Sobre, Abrir
<1>2. op # "libre" /\ ~Cuenta(op) /\ ~Crea(op)
  BY DEF PideCabecera, Cuenta, Crea
<1>3. t \in TipoTx
  <2>1. <<>> \in Seq(TipoAsiento) /\ <<>> \in Seq(TipoLinea)
    OBVIOUS
  <2>2. Filas(op, <<>>, <<>>) \in SUBSET Productos
    BY <1>2, FilasProductos
  <2> QED
    BY <2>1, <2>2, EnterosSumados DEF TipoTx
<1>4. Sana(t)
  BY <1>2 DEF Sana, Sobre
<1>5. Turno(c, t)
  <2>1. ~EnTurno(t)
    BY DEF EnTurno
  <2>2. ~Consume(op) => docs[d].estado # "ausente"
    BY DEF Sobre
  <2>3. ASSUME NEW otra \in Conexiones \ {c}, Crea(tx[otra].op), tx[otra].doc = d
        PROVE  FALSE
    <3>1. tx[otra] # Libre
      BY <2>3, LibreTipo DEF Crea
    <3>2. Buena(otra, tx[otra])
      BY <3>1 DEF Inv
    <3>3. docs[d].estado = "ausente" /\ ClaseDe[d] = Clase(tx[otra].op)
      BY <2>3, <3>2 DEF Buena, Turno, Sana
    <3>4. Consume(op)
      BY <2>2, <3>3
    <3>5. Clase(op) \in {"venta", "merma"} /\ Clase(tx[otra].op) \notin {"venta", "merma"}
      BY <2>3, <3>4 DEF Clase, Consume, Crea
    <3> QED
      BY <3>3, <3>5 DEF Sobre
  <2> QED
    BY <1>2, <2>1, <2>2, <2>3 DEF Turno
<1>6. Candados(c, t)
  <2>1. t.candados = {}
    OBVIOUS
  <2> HIDE DEF t
  <2> QED
    BY <2>1 DEF Candados
<1> HIDE DEF t
<1> QED
  BY <1>1, <1>3, <1>4, <1>5, <1>6, CambiaInv DEF Buena

\* Every request that begins keeps the invariant.
LEMMA EmpiezaPasoInv ==
    ASSUME Inv, NEW c \in Conexiones, NEW d \in Documentos, Empieza(c, d)
    PROVE  Inv'
<1>1. CASE RegistrarMovimiento(c, d) \/ CrearCompra(c, d) \/ ConfirmarProduccion(c, d)
  BY <1>1, CrearInv DEF RegistrarMovimiento, CrearCompra, ConfirmarProduccion
<1>2. CASE \E conBase \in BOOLEAN : EmpezarConteo(c, d, conBase)
  BY <1>2, EmpezarConteoInv
<1>3. CASE ConfirmarRecepcion(c, d) \/ AnularCompra(c, d) \/ AnularProduccion(c, d)
            \/ AnularConteo(c, d) \/ Cobrar(c, d) \/ CancelarConMerma(c, d) \/ AnularVenta(c, d)
  <2>1. \A op \in {"recibir", "anularCompra", "anularProduccion", "anularConteo",
                   "cobrar", "merma", "anularVenta"} : op \in Operaciones /\ PideCabecera(op)
    BY DEF Operaciones, PideCabecera
  <2>2. /\ Clase("recibir") = "compra" /\ Clase("anularCompra") = "compra"
        /\ Clase("anularProduccion") = "produccion" /\ Clase("anularConteo") = "conteo"
        /\ Clase("cobrar") = "venta" /\ Clase("merma") = "merma" /\ Clase("anularVenta") = "venta"
    BY DEF Clase
  <2>3. \E op \in Operaciones : PideCabecera(op) /\ Sobre(c, op, Clase(op), d)
    BY <1>3, <2>1, <2>2 DEF ConfirmarRecepcion, AnularCompra, AnularProduccion, AnularConteo,
                            Cobrar, CancelarConMerma, AnularVenta
  <2> QED
    BY <2>3, SobreInv
<1> QED
  BY <1>1, <1>2, <1>3 DEF Empieza

-----------------------------------------------------------------------------
(* Requests that go on.                                                    *)

\* The row of the document is locked.
LEMMA TomarCabeceraInv ==
    ASSUME Inv, NEW c \in Conexiones, TomarCabecera(c)
    PROVE  Inv'
<1> DEFINE u == tx[c]
<1>1. u.fase = "cabecera" /\ CabeceraLibre(c) /\ Admite(u.op, docs[u.doc].estado)
  BY DEF TomarCabecera
<1>2. u # Libre /\ Buena(c, u) /\ tx \in [Conexiones -> TipoTx]
  <2>1. u # Libre
    BY <1>1 DEF Libre
  <2> QED
    BY <2>1 DEF Inv, Tipos
<1>3. PICK lineas \in IF Consume(u.op) THEN Peticiones[u.doc] ELSE {docs[u.doc].lineas} :
          tx' = [tx EXCEPT ![c].fase = "inventario", ![c].lineas = lineas,
                           ![c].plan = Plan(u.op, lineas, stock, u.doc),
                           ![c].filas = Filas(u.op, lineas, Plan(u.op, lineas, stock, u.doc))]
  BY DEF TomarCabecera
<1>4. PICK plan : plan = Plan(u.op, lineas, stock, u.doc)
  OBVIOUS
<1>5. PICK t : t = [u EXCEPT !.fase = "inventario", !.lineas = lineas, !.plan = plan,
                             !.filas = Filas(u.op, lineas, plan)]
  OBVIOUS
<1>6. tx' = [tx EXCEPT ![c] = t] /\ UNCHANGED <<stock, docs, kardex>>
  BY <1>2, <1>3, <1>4, <1>5 DEF TomarCabecera
<1>7. u \in TipoTx /\ Sana(u) /\ Turno(c, u) /\ Candados(c, u) /\ u.doc \in Documentos
  BY <1>2 DEF Buena, Sana
<1>8. /\ t.op = u.op /\ t.doc = u.doc /\ t.fase = "inventario" /\ t.lineas = lineas
      /\ t.plan = plan /\ t.filas = Filas(u.op, lineas, plan) /\ t.candados = u.candados
      /\ t.lectura = u.lectura /\ t.leido = u.leido
  BY <1>5, <1>7 DEF TipoTx
<1>9. PideCabecera(u.op) /\ ~Crea(u.op) /\ ~Cuenta(u.op) /\ u.op # "libre" /\ u.candados = {}
  <2>1. u.op # "libre" /\ ~Crea(u.op) /\ u.candados = {}
    BY <1>1, <1>7 DEF Sana
  <2>2. u.op \in Operaciones
    BY <1>7 DEF TipoTx
  <2> QED
    BY <2>1, <2>2 DEF Operaciones, Crea, PideCabecera, Cuenta
<1>10. /\ lineas \in Seq(TipoLinea)
       /\ u.op = "recibir" => \A i \in DOMAIN lineas : lineas[i].cantidad > 0
  <2>1. CASE Consume(u.op)
    <3>1. lineas \in Peticiones[u.doc] /\ u.op # "recibir"
      BY <2>1 DEF Consume
    <3> QED
      BY <1>7, <3>1, PeticionesAssumption
  <2>2. CASE ~Consume(u.op)
    <3>1. lineas = docs[u.doc].lineas
      BY <2>2
    <3>2. lineas \in Seq(TipoLinea)
      BY <1>7, <3>1 DEF Inv, Tipos, TipoDoc
    <3>3. ASSUME u.op = "recibir"
          PROVE  \A i \in DOMAIN lineas : lineas[i].cantidad > 0
      <4>1. docs[u.doc].estado = "pedido"
        BY <1>1, <3>3 DEF Admite, Consume
      <4>2. lineas \in Peticiones[u.doc] /\ ClaseDe[u.doc] = "compra"
        BY <1>7, <3>1, <4>1 DEF Inv, Papel
      <4> QED
        BY <1>7, <4>2, PeticionesAssumption
    <3> QED
      BY <3>2, <3>3
  <2> QED
    BY <2>1, <2>2
<1>11. /\ Breve(plan)
       /\ ~Anula(u.op) => TodoAlta(plan)
       /\ u.op \in {"compra", "recibir"} => plan = DeLineas("COMPRA", lineas)
       /\ u.op = "cobrar" => \A i \in DOMAIN plan : plan[i].tipo \in {"PRODUCCION", "VENTA"}
       /\ Anula(u.op) =>
             plan = IF u.op = "anularVenta" THEN Inversos(u.doc) ELSE Contrario(u.doc)
  <2>1. CASE ~Anula(u.op)
    <3>1. stock \in Entero /\ u.op \in Operaciones /\ u.op # "produccion"
      BY <1>7, <1>9 DEF Inv, Tipos, TipoTx, Crea
    <3> QED
      BY <1>4, <1>9, <1>10, <2>1, <3>1, PlanSano
  <2>2. CASE Anula(u.op)
    <3>1. plan = IF u.op = "anularVenta" THEN Inversos(u.doc) ELSE Contrario(u.doc)
      BY <1>4, <2>2 DEF Plan, Anula, Cuenta
    <3>2. docs[u.doc].estado \in {"pedido", "vigente"}
          /\ (u.op = "anularVenta" => docs[u.doc].estado = "vigente" /\ ClaseDe[u.doc] = "venta")
      BY <1>1, <1>7, <2>2 DEF Admite, Anula, Consume, Sana, Clase
    <3>3. Breve(plan)
      BY <1>7, <3>1, <3>2, AnulableAlta, InversosSuma, ContrarioSuma
    <3> QED
      BY <2>2, <3>1, <3>3 DEF Anula
  <2> QED
    BY <2>1, <2>2
<1>12. t \in TipoTx
  <2>1. Filas(u.op, lineas, plan) \in SUBSET Productos
    BY <1>9, FilasProductos
  <2> QED
    BY <1>5, <1>7, <1>10, <1>11, <2>1 DEF TipoTx, Breve
<1>13. Sana(t)
  BY <1>7, <1>8, <1>9, <1>10, <1>11 DEF Sana, Crea, Cuenta
<1>14. Turno(c, t)
  <2>1. \A otra \in Conexiones \ {c} : ~(EnTurno(tx[otra]) /\ tx[otra].doc = t.doc)
    BY <1>1, <1>8 DEF CabeceraLibre, EnTurno
  <2> HIDE DEF u
  <2> QED
    BY <1>1, <1>7, <1>8, <1>9, <1>11, <2>1 DEF Turno
<1>15. Candados(c, t)
  BY <1>8, <1>9 DEF Candados
<1> QED
  BY <1>6, <1>12, <1>13, <1>14, <1>15, CambiaInv DEF Buena

\* A row of inventario is locked and read.
LEMMA TomarInventarioInv ==
    ASSUME Inv, NEW c \in Conexiones, TomarInventario(c)
    PROVE  Inv'
<1> DEFINE u == tx[c]
<1>1. u.fase = "inventario" /\ u.candados # u.filas /\ ~Tomada(c, Siguiente(u))
  BY DEF TomarInventario
<1>2. u # Libre /\ Buena(c, u) /\ tx \in [Conexiones -> TipoTx]
  <2>1. u # Libre
    BY <1>1 DEF Libre
  <2> QED
    BY <2>1 DEF Inv, Tipos
<1>3. PICK p, n : p = Siguiente(u) /\ n = stock[p]
  OBVIOUS
<1>4. PICK t : t = [u EXCEPT !.candados = @ \cup {p}, !.lectura = [@ EXCEPT ![p] = n]]
  OBVIOUS
<1>5. tx' = [tx EXCEPT ![c] = t] /\ UNCHANGED <<stock, docs, kardex>>
  BY <1>2, <1>3, <1>4 DEF TomarInventario
<1>6. u \in TipoTx /\ Sana(u) /\ Turno(c, u) /\ Candados(c, u)
  BY <1>2 DEF Buena
<1>7. /\ t.op = u.op /\ t.doc = u.doc /\ t.fase = u.fase /\ t.lineas = u.lineas
      /\ t.plan = u.plan /\ t.filas = u.filas /\ t.leido = u.leido
      /\ t.candados = u.candados \cup {p} /\ t.lectura = [u.lectura EXCEPT ![p] = n]
  BY <1>4, <1>6 DEF TipoTx
<1>8. p \in u.filas \ u.candados /\ \A q \in u.filas \ u.candados : p <= q
  <2>1. u.filas \ u.candados # {}
    BY <1>1, <1>6 DEF Candados
  <2>2. (u.filas \ u.candados) \in SUBSET Nat
    BY <1>6, ProductosAssumption DEF TipoTx
  <2> QED
    BY <1>3, <2>1, <2>2, PrimeroEs DEF Siguiente
<1>9. p \in Productos /\ n \in Int /\ n = stock[p] /\ u.filas \subseteq Nat
  BY <1>3, <1>6, <1>8, ProductosAssumption DEF TipoTx, Inv, Tipos, Entero
<1>10. t \in TipoTx
  <2>1. [u.lectura EXCEPT ![p] = n] \in Entero
    BY <1>6, <1>9 DEF TipoTx, Entero
  <2>2. u.candados \cup {p} \in SUBSET Productos
    BY <1>6, <1>9 DEF TipoTx
  <2> QED
    BY <1>4, <1>6, <2>1, <2>2 DEF TipoTx
<1>11. Sana(t)
  BY <1>1, <1>6, <1>7 DEF Sana
<1>12. Turno(c, t)
  <2>1. EnTurno(t) <=> EnTurno(u)
    BY <1>7 DEF EnTurno
  <2> HIDE DEF u
  <2> QED
    BY <1>6, <1>7, <2>1 DEF Turno
<1>13. Candados(c, t)
  <2>1. t.candados \subseteq t.filas
    BY <1>6, <1>7, <1>8 DEF Candados
  <2>2. \A q \in t.candados : t.lectura[q] = stock[q]
    <3>1. u.lectura \in [Productos -> Int] /\ u.candados \subseteq Productos
      BY <1>6 DEF TipoTx, Entero
    <3>2. \A q \in u.candados : u.lectura[q] = stock[q]
      BY <1>6 DEF Candados
    <3> QED
      BY <1>7, <1>9, <3>1, <3>2
  <2>3. \A x \in t.candados, q \in t.filas \ t.candados : x < q
    <3>1. \A x \in u.candados, q \in u.filas \ u.candados : x < q
      BY <1>6 DEF Candados
    <3>2. \A q \in t.filas \ t.candados : p < q /\ q \in u.filas \ u.candados
      <4>1. \A q \in t.filas \ t.candados : q \in u.filas \ u.candados /\ q # p /\ q \in Nat /\ p \in Nat
        BY <1>7, <1>8, <1>9
      <4> QED
        BY <1>8, <4>1
    <3> QED
      BY <1>7, <3>1, <3>2
  <2>4. \A otra \in Conexiones \ {c} : t.candados \cap tx[otra].candados = {}
    BY <1>1, <1>3, <1>6, <1>7 DEF Candados, Tomada
  <2> QED
    BY <2>1, <2>2, <2>3, <2>4 DEF Candados
<1> QED
  BY <1>5, <1>10, <1>11, <1>12, <1>13, CambiaInv DEF Buena

\* A count is sent.
LEMMA EnviarConteoInv ==
    ASSUME Inv, NEW c \in Conexiones, EnviarConteo(c)
    PROVE  Inv'
<1> DEFINE u == tx[c]
<1>1. u.fase = "contando"
  BY DEF EnviarConteo
<1>2. u # Libre /\ Buena(c, u) /\ tx \in [Conexiones -> TipoTx]
  <2>1. u # Libre
    BY <1>1 DEF Libre
  <2> QED
    BY <2>1 DEF Inv, Tipos
<1>3. PICK t : t = [u EXCEPT !.fase = "inventario"]
  OBVIOUS
<1>4. tx' = [tx EXCEPT ![c] = t] /\ UNCHANGED <<stock, docs, kardex>>
  BY <1>2, <1>3 DEF EnviarConteo
<1>5. u \in TipoTx /\ Sana(u) /\ Turno(c, u) /\ Candados(c, u)
  BY <1>2 DEF Buena
<1>6. t \in TipoTx
  BY <1>3, <1>5 DEF TipoTx
<1>7. /\ t.op = u.op /\ t.doc = u.doc /\ t.fase = "inventario" /\ t.lineas = u.lineas
      /\ t.plan = u.plan /\ t.filas = u.filas /\ t.leido = u.leido
      /\ t.candados = u.candados /\ t.lectura = u.lectura
  BY <1>3, <1>5 DEF TipoTx
<1>8. Cuenta(u.op) /\ ~PideCabecera(u.op) /\ u.op \notin {"compra", "recibir", "cobrar"}
  BY <1>1, <1>5 DEF Sana, Cuenta, PideCabecera
<1>9. Sana(t)
  BY <1>1, <1>5, <1>7, <1>8 DEF Sana
<1>10. Turno(c, t)
  <2>1. ~EnTurno(t)
    BY <1>7, <1>8 DEF EnTurno
  <2> HIDE DEF u
  <2> QED
    BY <1>5, <1>7, <1>8, <2>1 DEF Turno
<1>11. Candados(c, t)
  BY <1>5, <1>7 DEF Candados
<1> QED
  BY <1>4, <1>6, <1>9, <1>10, <1>11, CambiaInv DEF Buena
\* An order touches no stock, and nobody was making that document.
LEMMA CrearPedidoInv ==
    ASSUME Inv, NEW d \in Documentos, CrearPedido(d)
    PROVE  Inv'
<1>1. ClaseDe[d] = "compra" /\ Nuevo(d) /\ UNCHANGED <<stock, kardex, tx>>
  BY DEF CrearPedido
<1>2. PICK lineas \in Peticiones[d] :
          docs' = [docs EXCEPT ![d] = [estado |-> "pedido", lineas |-> lineas, op |-> "pedido"]]
  BY DEF CrearPedido
<1>3. lineas \in Seq(TipoLinea)
  BY PeticionesAssumption
<1>4. docs' \in [Documentos -> TipoDoc] /\ docs'[d].estado = "pedido" /\ docs'[d].lineas = lineas
      /\ \A e \in Documentos \ {d} : docs'[e] = docs[e]
  BY <1>2, <1>3 DEF Inv, Tipos, TipoDoc
<1>5. Tipos'
  BY <1>1, <1>4 DEF Inv, Tipos
<1>6. ASSUME NEW e \in Documentos
      PROVE  Papel(e)'
  <2>1. Papel(e)
    BY DEF Inv
  <2>2. CASE e = d
    <3>1. docs[d].estado = "ausente"
      BY <1>1 DEF Nuevo
    <3>2. kardex'[d] = <<>>
      BY <1>1, <2>1, <2>2, <3>1 DEF Papel
    <3> QED
      BY <1>1, <1>4, <2>2, <3>2 DEF Papel
  <2>3. CASE e # d
    BY <1>1, <1>4, <2>1, <2>3 DEF Papel
  <2> QED
    BY <2>2, <2>3
<1>7. ASSUME NEW c \in Conexiones, tx[c] # Libre
      PROVE  Buena(c, tx[c])'
  <2> DEFINE u == tx[c]
  <2>1. Buena(c, u) /\ u' = u
    BY <1>1, <1>7 DEF Inv
  <2>2. u.doc \in Documentos \ {d}
    BY <1>1, <2>1 DEF Nuevo, Buena, Sana
  <2>3. docs'[u.doc] = docs[u.doc] /\ Inversos(u.doc)' = Inversos(u.doc)
        /\ Contrario(u.doc)' = Contrario(u.doc)
    BY <1>1, <1>4, <2>1, <2>2 DEF Inversos, Contrario, DeTipo, DeAlta
  <2> HIDE DEF u
  <2>4. Turno(c, u)'
    BY <1>1, <2>1, <2>3 DEF Buena, Turno
  <2>5. Candados(c, u)'
    BY <1>1, <2>1 DEF Buena, Candados
  <2> QED
    BY <2>1, <2>4, <2>5 DEF Buena, u
<1>8. \A c \in Conexiones : (tx[c] = Libre \/ Buena(c, tx[c]))'
  BY <1>1, <1>7
<1> QED
  BY <1>5, <1>6, <1>8 DEF Inv

\* Every step keeps the invariant.
LEMMA PasoInv == Inv /\ [Next]_vars => Inv'
<1> SUFFICES ASSUME Inv, [Next]_vars PROVE Inv'
  OBVIOUS
<1>1. CASE UNCHANGED vars
  <2>1. \A d : Inversos(d)' = Inversos(d) /\ Contrario(d)' = Contrario(d)
    BY <1>1 DEF vars, Inversos, Contrario, DeTipo, DeAlta
  <2>2. \A c, t : Buena(c, t)' <=> Buena(c, t)
    BY <1>1, <2>1 DEF vars, Buena, Turno, Candados
  <2>3. \A c \in Conexiones : (tx[c] = Libre \/ Buena(c, tx[c]))'
    <3>1. ASSUME NEW c \in Conexiones
          PROVE  (tx[c] = Libre \/ Buena(c, tx[c]))'
      <4>1. PICK t : t = tx[c]
        OBVIOUS
      <4>2. tx'[c] = t /\ (t = Libre \/ Buena(c, t))
        BY <1>1, <4>1 DEF vars, Inv
      <4>3. t = Libre \/ Buena(c, t)'
        BY <2>2, <4>2
      <4> QED
        BY <4>2, <4>3
    <3> QED
      BY <3>1
  <2> QED
    BY <1>1, <2>3 DEF vars, Inv, Tipos, Papel
<1>2. ASSUME NEW c \in Conexiones, tx' = [tx EXCEPT ![c] = Libre], UNCHANGED <<stock, docs, kardex>>
      PROVE  Inv'
  BY <1>2, CambiaInv
<1>3. ASSUME NEW c \in Conexiones, Sigue(c) \/ EnviarConteo(c) \/ Abortar(c)
      PROVE  Inv'
  <2>1. CASE RechazarCabecera(c) \/ Rechazar(c) \/ Abortar(c)
    BY <1>2, <2>1 DEF RechazarCabecera, Rechazar, Abortar
  <2>2. CASE TomarCabecera(c) \/ TomarInventario(c) \/ Escribir(c) \/ EnviarConteo(c)
    BY <2>2, TomarCabeceraInv, TomarInventarioInv, EscribirInv, EnviarConteoInv
  <2> QED
    BY <1>3, <2>1, <2>2 DEF Sigue
<1>4. ASSUME NEW c \in Conexiones, NEW d \in Documentos, Empieza(c, d)
      PROVE  Inv'
  BY <1>4, EmpiezaPasoInv
<1>5. ASSUME NEW d \in Documentos, CrearPedido(d)
      PROVE  Inv'
  BY <1>5, CrearPedidoInv
<1> QED
  BY <1>1, <1>3, <1>4, <1>5 DEF Next

\* The invariant holds in every state that can be reached.
LEMMA Siempre == Spec => []Inv
BY EmpiezaInv, PasoInv, PTL DEF Spec

\* It says that the types are right.
LEMMA InvTipos == Inv => TypeOK
<1> SUFFICES ASSUME Inv PROVE TypeOK
  OBVIOUS
<1>1. \A c \in Conexiones : tx[c] \in TipoTx
  BY DEF Inv, Tipos
<1>2. \A c \in Conexiones :
         /\ tx[c].candados \subseteq tx[c].filas
         /\ \A otra \in Conexiones \ {c} : tx[c].candados \cap tx[otra].candados = {}
  BY LibreTipo DEF Inv, Buena, Candados
<1>3. \A d \in Documentos : kardex[d] \in Seq(TipoAsiento) /\ docs[d] \in TipoDoc
  BY DEF Inv, Tipos
<1>4. \A d \in Documentos : \A i \in 1..Len(kardex[d]) : kardex[d][i] \in TipoAsiento
  BY <1>3, ElementOfSeq
<1> QED
  BY <1>1, <1>2, <1>3, <1>4 DEF TypeOK, TipoTx, TipoDoc, TipoAsiento, Entero, Inv, Tipos

\* The tables keep their types, and no two requests hold the same row
\* (TypeOK), whatever the documents, the products and the connections are.
THEOREM TypeCorrect == Spec => []TypeOK
BY Siempre, InvTipos, PTL
-----------------------------------------------------------------------------
(* Nobody waits for ever.                                                  *)

\* The row a request waits for comes after all those it has.
LEMMA SiguienteMayor ==
    ASSUME Inv, NEW c \in Conexiones, tx[c].fase = "inventario", tx[c].filas # tx[c].candados
    PROVE  /\ Siguiente(tx[c]) \in Productos
           /\ \A p \in tx[c].candados : p < Siguiente(tx[c])
<1>1. tx[c] # Libre
  BY DEF Libre
<1>2. tx[c] \in TipoTx /\ Candados(c, tx[c])
  BY <1>1 DEF Inv, Buena
<1>3. (tx[c].filas \ tx[c].candados) \in SUBSET Nat /\ tx[c].filas \ tx[c].candados # {}
  BY <1>2, ProductosAssumption DEF TipoTx, Candados
<1>4. Siguiente(tx[c]) \in tx[c].filas \ tx[c].candados
  BY <1>3, PrimeroEs DEF Siguiente
<1> QED
  BY <1>2, <1>4 DEF TipoTx, Candados

\* Take those of the group that wait for a row of inventario, and among them
\* the one that waits for the highest: who has that row waits for a higher one.
LEMMA InvSinAbrazo == Inv => SinAbrazoMortal
<1> SUFFICES ASSUME Inv, NEW S \in (SUBSET Conexiones) \ {{}},
                    \A c \in S : \E otra \in S \ {c} : Espera(c, otra)
             PROVE  FALSE
  BY DEF SinAbrazoMortal
<1> DEFINE W == {c \in S : tx[c].fase = "inventario" /\ tx[c].filas # tx[c].candados}
           V == {Siguiente(tx[c]) : c \in W}
<1>1. ASSUME NEW c \in S
      PROVE  \E otra \in S : tx[otra].fase = "inventario" /\ Espera(c, otra)
  <2>1. PICK otra \in S \ {c} : Espera(c, otra)
    OBVIOUS
  <2>2. CASE tx[otra].fase = "inventario"
    BY <2>1, <2>2
  <2>3. CASE tx[otra].fase # "inventario"
    <3>1. Siguiente(tx[c]) \in tx[otra].candados
      BY <2>1, <2>3 DEF Espera
    <3>2. tx[otra] # Libre
      BY <3>1, LibreTipo
    <3>3. Sana(tx[otra])
      BY <3>2 DEF Inv, Buena
    <3> QED
      BY <2>3, <3>1, <3>3 DEF Sana
  <2> QED
    BY <2>2, <2>3
<1>2. ASSUME NEW c \in S, tx[c].fase = "inventario"
      PROVE  \E otra \in W : c \in W /\ Siguiente(tx[c]) \in tx[otra].candados
  <2>1. PICK otra \in S : tx[otra].fase = "inventario" /\ Espera(c, otra)
    BY <1>1
  <2>2. tx[c].filas # tx[c].candados /\ Siguiente(tx[c]) \in tx[otra].candados
    BY <1>2, <2>1 DEF Espera
  <2>3. PICK mas \in S : Espera(otra, mas)
    BY <1>1
  <2>4. tx[otra].filas # tx[otra].candados
    BY <2>1, <2>3 DEF Espera
  <2> QED
    BY <1>2, <2>1, <2>2, <2>4
<1>3. W # {}
  <2>1. PICK c \in S : TRUE
    OBVIOUS
  <2>2. PICK otra \in S : tx[otra].fase = "inventario"
    BY <1>1
  <2> QED
    BY <1>2, <2>2
<1>4. \A c \in W : Siguiente(tx[c]) \in Productos
  BY SiguienteMayor
<1>5. V \in SUBSET Nat /\ IsFiniteSet(V) /\ V # {}
  <2>1. V \in SUBSET Productos
    BY <1>4
  <2>2. V # {}
    BY <1>3
  <2> HIDE DEF V
  <2> QED
    BY <2>1, <2>2, ProductosAssumption, FS_Subset
<1>6. PICK x \in V : \A y \in V : y <= x
  <2> HIDE DEF V
  <2> QED
    BY <1>5, Mayor
<1>7. PICK c \in W : x = Siguiente(tx[c])
  OBVIOUS
<1>8. PICK otra \in W : x \in tx[otra].candados
  BY <1>2, <1>7
<1>9. x < Siguiente(tx[otra]) /\ Siguiente(tx[otra]) \in V
  BY <1>8, SiguienteMayor
<1>10. x \in Nat /\ Siguiente(tx[otra]) \in Nat
  BY <1>5, <1>9
<1> QED
  BY <1>6, <1>9, <1>10

\* However many requests, products and documents there are, and whatever the
\* order of the lines, no group of requests waits for rows of one another
\* (SinAbrazoMortal: FOR UPDATE in ascending order of product).
THEOREM InventarioSinAbrazos == Spec => []SinAbrazoMortal
BY Siempre, InvSinAbrazo, PTL
-----------------------------------------------------------------------------
(* The stock below zero.                                                   *)

\* Only a commit touches the stock.
LEMMA SoloEscribir ==
    ASSUME [Next]_vars
    PROVE  \/ UNCHANGED <<stock, docs, kardex>>
           \/ \E c \in Conexiones : Escribir(c)
           \/ \E d \in Documentos : CrearPedido(d)
<1>1. CASE UNCHANGED vars
  BY <1>1 DEF vars
<1>2. ASSUME NEW c \in Conexiones, NEW d \in Documentos, Empieza(c, d)
      PROVE  UNCHANGED <<stock, docs, kardex>>
  BY <1>2 DEF Empieza, RegistrarMovimiento, CrearCompra, ConfirmarProduccion, Crear,
              EmpezarConteo, ConfirmarRecepcion, AnularCompra, AnularProduccion, AnularConteo,
              Cobrar, CancelarConMerma, AnularVenta, Sobre, Abrir
<1>3. ASSUME NEW c \in Conexiones, Sigue(c) \/ EnviarConteo(c) \/ Abortar(c)
      PROVE  UNCHANGED <<stock, docs, kardex>> \/ Escribir(c)
  BY <1>3 DEF Sigue, TomarCabecera, RechazarCabecera, TomarInventario, Rechazar,
              EnviarConteo, Abortar
<1> QED
  BY <1>1, <1>2, <1>3 DEF Next

\* A commit takes below zero only what its operation may.
LEMMA EscribirBajoCero ==
    ASSUME Inv, NEW c \in Conexiones, Escribir(c), NEW p \in Productos,
           stock'[p] # stock[p], stock'[p] < 0
    PROVE  PermiteNegativo(tx[c], p) /\ tx[c].lectura[p] = stock[p]
<1> DEFINE t == tx[c]
           cambio == Suma(Asientos(t))
<1>1. Buena(c, t) /\ t.fase = "inventario" /\ t.candados = t.filas /\ p \in t.filas
      /\ stock' = Mas(stock, cambio)
  BY EscribirMueve
<1>2. t.lectura[p] = stock[p]
  BY <1>1 DEF Buena, Candados
<1>3. cambio \in Entero
  <2>1. Asientos(t) \in Seq(TipoAsiento)
    BY <1>1, AsientosBreves DEF Breve
  <2> QED
    BY <2>1, SumaEnEntera DEF Suma
<1>4. stock[p] \in Int /\ cambio[p] \in Int /\ stock'[p] = stock[p] + cambio[p]
  BY <1>1, <1>3 DEF Inv, Tipos, Entero, Mas
<1>5. Alcanza(t, cambio)
  BY DEF Escribir
<1>6. cambio[p] # 0
  BY <1>4
<1>7. PermiteNegativo(t, p) \/ t.lectura[p] + cambio[p] >= 0
  <2> HIDE DEF cambio, t
  <2> QED
    BY <1>1, <1>5, <1>6 DEF Alcanza
<1> HIDE DEF cambio
<1>8. ~(t.lectura[p] + cambio[p] >= 0)
  BY <1>2, <1>4
<1> QED
  BY <1>2, <1>7, <1>8

\* A sale, a loss, the annulment of a sale, or a count with base whose stock
\* moved, are the only ones that may leave a product below zero
\* (NuncaBajoCero: permitirNegativo), however the requests interleave.
THEOREM StockBajoCero == Spec => NuncaBajoCero
<1> DEFINE Bien(p) ==
            stock'[p] # stock[p] /\ stock'[p] < 0 =>
              \E c \in Conexiones :
                  /\ tx[c] # Libre /\ tx'[c] = Libre
                  /\ \/ tx[c].op \in {"cobrar", "merma", "anularVenta"}
                     \/ tx[c].op = "conteoConBase" /\ tx[c].leido[p] # stock[p]
<1>1. Inv /\ [Next]_vars => [\A p \in Productos : Bien(p)]_vars
  <2> SUFFICES ASSUME Inv, [Next]_vars, NEW p \in Productos, stock'[p] # stock[p], stock'[p] < 0
               PROVE  Bien(p)
    OBVIOUS
  <2>1. ~ UNCHANGED stock
    OBVIOUS
  <2>2. PICK c \in Conexiones : Escribir(c)
    BY <2>1, SoloEscribir DEF CrearPedido
  <2>3. PermiteNegativo(tx[c], p) /\ tx[c].lectura[p] = stock[p]
    BY <2>2, EscribirBajoCero
  <2>4. tx[c] # Libre /\ tx'[c] = Libre
    <3>1. tx' = [tx EXCEPT ![c] = Libre] /\ tx \in [Conexiones -> TipoTx]
      BY <2>2 DEF Escribir, Inv, Tipos
    <3> QED
      BY <2>2, <3>1, EscribirMueve
  <2> QED
    BY <2>3, <2>4 DEF PermiteNegativo
<1> QED
  BY <1>1, Siempre, PTL DEF Spec, NuncaBajoCero
-----------------------------------------------------------------------------
(* The documents as Almacen sees them.                                     *)

\* A document before it comes into force is, for Almacen, absent.
Estado(d) == IF docs[d].estado = "pedido" THEN "ausente" ELSE docs[d].estado
EstadoAlmacen == [d \in Documentos |-> Estado(d)]
NetoAlmacen == [d \in Documentos |-> Suma(kardex[d])]

\* What Almacen sees is read from the three tables.
LEMMA TablasIguales ==
    ASSUME UNCHANGED <<stock, docs, kardex>>
    PROVE  UNCHANGED Almacen!vars
BY DEF Almacen!vars

\* It starts as Almacen starts.
LEMMA EmpiezaAlmacen == Init => Almacen!Init
<1> SUFFICES ASSUME Init PROVE Almacen!Init
  OBVIOUS
<1>1. \A d \in Documentos : docs[d].estado = "ausente" /\ kardex[d] = <<>> /\ Suma(kardex[d]) = Nada
  <2>1. \A d \in Documentos : docs[d].estado = "ausente" /\ kardex[d] = <<>>
    BY DEF Init, SinDocumento
  <2> QED
    BY <2>1, SumaNinguno
<1>2. Almacen!Nada = Nada
  BY DEF Almacen!Nada, Nada
<1>3. stock = Inicial
  BY DEF Init
<1> QED
  BY <1>1, <1>2, <1>3 DEF Almacen!Init

\* An order changes nothing of what it sees.
LEMMA PedidoAlmacen ==
    ASSUME Inv, NEW d \in Documentos, CrearPedido(d)
    PROVE  UNCHANGED Almacen!vars
<1>1. UNCHANGED <<stock, kardex>> /\ docs[d].estado = "ausente"
  BY DEF CrearPedido, Nuevo
<1>2. docs'[d].estado = "pedido" /\ \A e \in Documentos \ {d} : docs'[e] = docs[e]
  BY DEF CrearPedido, Inv, Tipos
<1> QED
  BY <1>1, <1>2 DEF Almacen!vars

\* A commit is one of its three actions.
LEMMA EscribirAlmacen ==
    ASSUME Inv, NEW c \in Conexiones, Escribir(c)
    PROVE  Almacen!Next
<1> DEFINE t == tx[c]
<1>0. PICK d, ef, op : d = t.doc /\ ef = Suma(Asientos(t)) /\ op = t.op
  OBVIOUS
<1>1. Buena(c, t) /\ t.fase = "inventario" /\ stock' = Mas(stock, ef)
  BY <1>0, EscribirMueve
<1>2. d \in Documentos /\ Sana(t) /\ t \in TipoTx
  BY <1>0, <1>1 DEF Buena, Sana
<1>3. Breve(Asientos(t)) /\ Asientos(t) \in Seq(TipoAsiento)
  BY <1>1, AsientosBreves DEF Breve
<1>4. ef \in Entero /\ Suma(kardex[d]) \in Entero /\ kardex[d] \in Seq(TipoAsiento) /\ stock \in Entero
  BY <1>0, <1>2, <1>3, SumaEnEntera DEF Suma, Inv, Tipos
<1>5. kardex' = [kardex EXCEPT ![d] = @ \o Asientos(t)] /\ kardex \in [Documentos -> Seq(TipoAsiento)]
  BY <1>0 DEF Escribir, Inv, Tipos
<1>6. kardex'[d] = kardex[d] \o Asientos(t) /\ \A e \in Documentos \ {d} : kardex'[e] = kardex[e]
  BY <1>2, <1>5
<1>7. Suma(kardex'[d]) = Mas(Suma(kardex[d]), ef)
  BY <1>0, <1>3, <1>4, <1>6, SumaPega
<1>8. docs'[d].estado = Deja(op)
  BY <1>0, EscribirPapel
<1>9. \A e \in Documentos \ {d} : docs'[e] = docs[e]
  BY <1>0 DEF Escribir, Inv, Tipos
<1>10. NetoAlmacen' = [NetoAlmacen EXCEPT ![d] = Suma(kardex'[d])]
  BY <1>2, <1>6 DEF NetoAlmacen
<1>11. EstadoAlmacen' = [EstadoAlmacen EXCEPT ![d] = Deja(op)]
  <2>1. Estado(d)' = Deja(op)
    BY <1>8 DEF Estado, Deja
  <2>2. \A e \in Documentos \ {d} : Estado(e)' = Estado(e)
    BY <1>9 DEF Estado
  <2> QED
    BY <1>2, <2>1, <2>2 DEF EstadoAlmacen
<1>12. stock' = [p \in Productos |-> stock[p] + ef[p]]
  BY <1>1 DEF Mas
<1>13. CASE ~Anula(op)
  <2>1. docs[d].estado \in {"ausente", "pedido"} /\ kardex[d] = <<>>
    BY <1>0, <1>1, <1>13, AntesNada
  <2>2. Suma(kardex'[d]) = ef
    <3>1. Mas(Nada, ef) = ef
      BY <1>4 DEF Mas, Nada, Entero
    <3> QED
      BY <1>7, <2>1, <3>1, SumaNinguno
  <2>3. EstadoAlmacen[d] = "ausente" /\ Deja(op) = "vigente"
    BY <1>2, <1>13, <2>1 DEF EstadoAlmacen, Estado, Deja
  <2>4. NetoAlmacen'[d] = ef
    BY <1>2, <2>2 DEF NetoAlmacen
  <2>5. Almacen!Aplicar(d, NetoAlmacen'[d])
    BY <1>10, <1>11, <1>12, <2>2, <2>3, <2>4
    DEF Almacen!Aplicar, Almacen!Pasar, EstadoAlmacen, NetoAlmacen, Estado
  <2> QED
    BY <1>2, <2>5 DEF Almacen!Next, NetoAlmacen
<1>14. CASE Anula(op)
  <2>1. ef = Menos(Suma(kardex[d])) /\ Suma(kardex'[d]) = Nada
    BY <1>0, <1>1, <1>4, <1>7, <1>14, AsientosBreves, MenosSuma
  <2>2. docs[d].estado \in {"pedido", "vigente"}
    <3>1. EnTurno(t)
      BY <1>0, <1>1, <1>14 DEF EnTurno, PideCabecera, Anula
    <3> QED
      BY <1>0, <1>1, <1>14, <3>1, Estados
  <2>3. ClaseDe[d] \in {"compra", "produccion", "conteo", "venta"} /\ Deja(op) = "anulado"
    BY <1>0, <1>2, <1>14 DEF Sana, Clase, Anula, Deja
  <2>4. Almacen!Nada = Nada
    BY DEF Almacen!Nada, Nada
  <2>5. CASE docs[d].estado = "vigente"
    <3>1. EstadoAlmacen[d] = "vigente"
      BY <1>2, <2>5 DEF EstadoAlmacen, Estado
    <3>2. \A p \in Productos : stock[p] + ef[p] = stock[p] - NetoAlmacen[d][p]
      <4>1. NetoAlmacen[d] = Suma(kardex[d])
        BY <1>2 DEF NetoAlmacen
      <4>2. \A p \in Productos : ef[p] = -(Suma(kardex[d])[p])
        BY <2>1 DEF Menos
      <4>3. \A p \in Productos : stock[p] \in Int /\ Suma(kardex[d])[p] \in Int
        BY <1>4 DEF Entero
      <4> QED
        BY <4>1, <4>2, <4>3
    <3>3. stock' = [p \in Productos |-> stock[p] - NetoAlmacen[d][p]]
      BY <1>12, <3>2
    <3>4. Almacen!Anular(d)
      BY <1>2, <1>10, <1>11, <2>1, <2>3, <2>4, <3>1, <3>3
      DEF Almacen!Anular, Almacen!Pasar, EstadoAlmacen, NetoAlmacen, Estado
    <3> QED
      BY <1>2, <3>4 DEF Almacen!Next
  <2>6. CASE docs[d].estado = "pedido"
    <3>1. EstadoAlmacen[d] = "ausente"
      BY <1>2, <2>6 DEF EstadoAlmacen, Estado
    <3>2. kardex[d] = <<>>
      BY <1>2, <2>6 DEF Inv, Papel
    <3>3. Suma(kardex[d]) = Nada
      BY <3>2, SumaNinguno
    <3>4. stock' = stock
      <4>1. Mas(stock, Menos(Nada)) = stock
        BY <1>4 DEF Mas, Menos, Nada, Entero
      <4> QED
        BY <1>1, <2>1, <3>3, <4>1
    <3>5. NetoAlmacen' = NetoAlmacen
      BY <1>2, <1>10, <2>1, <3>3 DEF NetoAlmacen
    <3>6. Almacen!Descartar(d)
      BY <1>2, <1>11, <2>3, <3>1, <3>4, <3>5
      DEF Almacen!Descartar, Almacen!Pasar, EstadoAlmacen, NetoAlmacen, Estado
    <3> QED
      BY <1>2, <3>6 DEF Almacen!Next
  <2> QED
    BY <2>2, <2>5, <2>6
<1> QED
  BY <1>13, <1>14

\* Every step is a step of Almacen or leaves what it sees.
LEMMA PasoAlmacen ==
    Inv /\ [Next]_vars =>
        UNCHANGED <<stock, docs, kardex>> \/ Almacen!Next \/ UNCHANGED Almacen!vars
BY SoloEscribir, EscribirAlmacen, PedidoAlmacen

\* Every document moves the stock once and as a whole, and to annul it takes
\* back exactly what it moved (ImplementaAlmacen: compra, produccion, conteo,
\* movimiento, aplicarConsumo and revertirPorReferencia), for any list of
\* preparations and any number of requests at once.
THEOREM InventarioImplementaAlmacen == Spec => ImplementaAlmacen
<1>1. Inv /\ [Next]_vars => [Almacen!Next]_(Almacen!vars)
  BY PasoAlmacen, TablasIguales
<1> QED
  BY <1>1, Siempre, EmpiezaAlmacen, PTL DEF Spec, ImplementaAlmacen, Almacen!Spec

\* The same, in the form that TLC checks.
THEOREM AlmacenEnPasos == Spec => AlmacenImplementado
<1>1. Inv /\ [Next]_vars =>
        [UNCHANGED <<stock, docs, kardex>> \/ Almacen!Next \/ UNCHANGED Almacen!vars]_vars
  BY PasoAlmacen
<1> QED
  BY <1>1, Siempre, EmpiezaAlmacen, PTL DEF Spec, AlmacenImplementado
-----------------------------------------------------------------------------
(* Counts.                                                                 *)

\* What is counted, against the stock of when the count began, differs by what
\* was off at the start.
ConBase(t) ==
    \A i \in DOMAIN t.lineas :
        t.lineas[i].cantidad - t.leido[t.lineas[i].producto] = Desfase[t.lineas[i].producto]

\* A count in force has corrected what was off.
Contado(d) ==
    docs[d].op = "conteoConBase" /\ docs[d].estado = "vigente" /\ UnicoConteo(d) =>
        /\ ClaseDe[d] = "conteo"
        /\ ListaDeConteo(docs[d].lineas)
        /\ \A p \in ProductosDe(docs[d].lineas) : Suma(kardex[d])[p] = Desfase[p]

ConteoInv ==
    /\ \A c \in Conexiones :
          tx[c].op = "conteoConBase" /\ UnicoConteo(tx[c].doc) => ConBase(tx[c])
    /\ \A d \in Documentos : Contado(d)

\* Documents that no count made moved nothing: of all the counts only d counts.
LEMMA SoloCuentaUno ==
    ASSUME Inv, NEW d \in Documentos, ClaseDe[d] = "conteo", UnicoConteo(d), NEW p \in Productos
    PROVE  EnAnaquel(p) = stock[p] + Desfase[p] - Suma(kardex[d])[p]
<1> DEFINE C == {e \in Documentos : ClaseDe[e] = "conteo"}
           f == [e \in Documentos |-> Suma(kardex[e])[p]]
<1>1. IsFiniteSet(C) /\ IsFiniteSet(C \ {d}) /\ d \in C
  BY DocumentosAssumption, FS_Subset
<1>2. \A e \in C : f[e] \in Int
  <2>1. \A e \in Documentos : Suma(kardex[e]) \in Entero
    BY SumaEnEntera DEF Inv, Tipos, Suma
  <2> QED
    BY <2>1 DEF Entero
<1>3. \A e \in C \ {d} : f[e] = 0
  <2>1. ASSUME NEW e \in C \ {d}
        PROVE  f[e] = 0
    <3>1. docs[e].estado = "ausente"
      BY DEF UnicoConteo
    <3>2. kardex[e] = <<>>
      BY <3>1 DEF Inv, Papel
    <3>3. Suma(kardex[e])[p] = 0
      BY <3>2, SumaNinguno DEF Nada
    <3> QED
      BY <3>3
  <2> QED
    BY <2>1
<1>4. f[d] = Suma(kardex[d])[p]
  OBVIOUS
<1>5. EnAnaquel(p) = stock[p] + Desfase[p] - SumaDe(f, C)
  BY DEF EnAnaquel
<1> HIDE DEF C, f
<1>6. SumaDe(f, C) = f[d] + SumaDe(f, C \ {d})
  BY <1>1, <1>2, SumaSin
<1>7. SumaDe(f, C \ {d}) = 0
  BY <1>1, <1>3, SumaCero
<1>8. f[d] \in Int
  BY <1>1, <1>2
<1> QED
  BY <1>4, <1>5, <1>6, <1>7, <1>8

\* If only d is counted, so it was before.
LEMMA UnicoAntes ==
    ASSUME Inv, [Next]_vars, NEW d, UnicoConteo(d)'
    PROVE  UnicoConteo(d)
<1>1. ASSUME NEW e \in Documentos, docs'[e].estado = "ausente"
      PROVE  docs[e].estado = "ausente"
  <2>1. CASE UNCHANGED <<stock, docs, kardex>>
    BY <1>1, <2>1
  <2>2. ASSUME NEW c \in Conexiones, Escribir(c)
        PROVE  docs[e].estado = "ausente"
    <3>1. PICK f : f = tx[c].doc
      OBVIOUS
    <3>2. docs'[f].estado # "ausente"
      BY <2>2, <3>1, EscribirPapel DEF Deja
    <3>3. e # f => docs'[e] = docs[e]
      BY <2>2, <3>1 DEF Escribir, Inv, Tipos
    <3> QED
      BY <1>1, <3>2, <3>3
  <2>3. ASSUME NEW f \in Documentos, CrearPedido(f)
        PROVE  docs[e].estado = "ausente"
    BY <1>1, <2>3 DEF CrearPedido, Inv, Tipos
  <2> QED
    BY <2>1, <2>2, <2>3, SoloEscribir
<1> QED
  BY <1>1 DEF UnicoConteo

\* The corrected stock follows from it.
LEMMA ConteoInvCorrige == Inv /\ ConteoInv => ConteoCorrige
<1> SUFFICES ASSUME Inv, ConteoInv, NEW d \in Documentos,
                    docs[d].op = "conteoConBase", docs[d].estado = "vigente", UnicoConteo(d),
                    NEW p \in ProductosDe(docs[d].lineas)
             PROVE  EnAnaquel(p) = stock[p]
  BY DEF ConteoCorrige
<1>1. ClaseDe[d] = "conteo" /\ ListaDeConteo(docs[d].lineas) /\ Suma(kardex[d])[p] = Desfase[p]
  BY DEF ConteoInv, Contado
<1>2. p \in Productos
  BY <1>1 DEF ListaDeConteo, ProductosDe
<1>3. EnAnaquel(p) = stock[p] + Desfase[p] - Suma(kardex[d])[p]
  BY <1>1, <1>2, SoloCuentaUno
<1>4. stock[p] \in Int /\ Desfase[p] \in Int
  BY <1>2, InicialAssumption DEF Inv, Tipos, Entero
<1> QED
  BY <1>1, <1>3, <1>4

\* A request of a count with base has just begun, or its lines and what it
\* read at the beginning are those it had.
Misma(u, v) == u.op = v.op /\ u.doc = v.doc /\ u.lineas = v.lineas /\ u.leido = v.leido

\* BEGIN puts a request of that operation.
LEMMA AbrirPone ==
    \A c, op, d, fase, lineas, leido, plan :
        Abrir(c, op, d, fase, lineas, leido, plan) =>
            \E t : tx' = [tx EXCEPT ![c] = t] /\ t.op = op
<1> SUFFICES ASSUME NEW c, NEW op, NEW d, NEW fase, NEW lineas, NEW leido, NEW plan,
                    Abrir(c, op, d, fase, lineas, leido, plan)
             PROVE  \E t : tx' = [tx EXCEPT ![c] = t] /\ t.op = op
  OBVIOUS
<1> DEFINE t == [op |-> op, doc |-> d, fase |-> fase, lineas |-> lineas, leido |-> leido,
                 plan |-> plan, filas |-> Filas(op, lineas, plan), candados |-> {},
                 lectura |-> Nada]
<1>1. tx' = [tx EXCEPT ![c] = t]
  BY DEF Abrir
<1>2. t.op = op
  OBVIOUS
<1> HIDE DEF t
<1> QED
  BY <1>1, <1>2

\* Steps do one thing or the other.
LEMMA ConteoSigue ==
    ASSUME Inv, [Next]_vars, NEW x \in Conexiones, tx'[x].op = "conteoConBase"
    PROVE  \/ Misma(tx'[x], tx[x])
           \/ \E d \in Documentos : EmpezarConteo(x, d, TRUE)
<1>1. tx \in [Conexiones -> TipoTx]
  BY DEF Inv, Tipos
<1>2. CASE tx'[x] = tx[x]
  BY <1>2 DEF Misma
<1>3. ASSUME NEW c \in Conexiones, NEW d \in Documentos, Empieza(c, d)
      PROVE  tx'[x] = tx[x] \/ EmpezarConteo(x, d, TRUE)
  <2>1. CASE \E conBase \in BOOLEAN : EmpezarConteo(c, d, conBase)
    <3>1. PICK conBase \in BOOLEAN : EmpezarConteo(c, d, conBase)
      BY <2>1
    <3>2. PICK t : tx' = [tx EXCEPT ![c] = t] /\ t.op = IF conBase THEN "conteoConBase" ELSE "conteo"
      BY <3>1, AbrirPone DEF EmpezarConteo
    <3>3. CASE x = c
      <4>1. t.op = "conteoConBase"
        BY <1>1, <3>2, <3>3
      <4>2. conBase = TRUE
        BY <3>2, <4>1
      <4> QED
        BY <3>1, <3>3, <4>2
    <3>4. CASE x # c
      BY <1>1, <3>2, <3>4
    <3> QED
      BY <3>3, <3>4
  <2>2. CASE ~ \E conBase \in BOOLEAN : EmpezarConteo(c, d, conBase)
    <3>1. PICK t : tx' = [tx EXCEPT ![c] = t] /\ t.op # "conteoConBase"
      <4>1. \E op, fase, lineas, leido, plan :
                Abrir(c, op, d, fase, lineas, leido, plan) /\ op # "conteoConBase"
        BY <1>3, <2>2 DEF Empieza, RegistrarMovimiento, CrearCompra, ConfirmarProduccion, Crear,
              ConfirmarRecepcion, AnularCompra, AnularProduccion, AnularConteo,
              Cobrar, CancelarConMerma, AnularVenta, Sobre
      <4> QED
        BY <4>1, AbrirPone
    <3> QED
      BY <1>1, <3>1
  <2> QED
    BY <2>1, <2>2
<1>4. ASSUME NEW c \in Conexiones, tx' = [tx EXCEPT ![c] = Libre]
      PROVE  tx'[x] = tx[x]
  BY <1>1, <1>4, LibreTipo
<1>5. ASSUME NEW c \in Conexiones, Sigue(c) \/ EnviarConteo(c) \/ Abortar(c)
      PROVE  Misma(tx'[x], tx[x])
  <2>1. CASE RechazarCabecera(c) \/ Rechazar(c) \/ Abortar(c) \/ Escribir(c)
    BY <1>4, <2>1 DEF RechazarCabecera, Rechazar, Abortar, Escribir, Misma
  <2>2. CASE TomarCabecera(c)
    <3>1. tx[c].fase = "cabecera" /\ tx[c] # Libre
      BY <2>2 DEF TomarCabecera, Libre
    <3>2. ~Crea(tx[c].op)
      BY <3>1 DEF Inv, Buena, Sana
    <3>3. PICK t : tx' = [tx EXCEPT ![c] = t] /\ t.op = tx[c].op
      <4>0. PICK lineas :
                tx' = [tx EXCEPT ![c].fase = "inventario", ![c].lineas = lineas,
                           ![c].plan = Plan(tx[c].op, lineas, stock, tx[c].doc),
                           ![c].filas = Filas(tx[c].op, lineas,
                                              Plan(tx[c].op, lineas, stock, tx[c].doc))]
        BY <2>2 DEF TomarCabecera
      <4>1. PICK plan, filas :
                tx' = [tx EXCEPT ![c].fase = "inventario", ![c].lineas = lineas,
                                 ![c].plan = plan, ![c].filas = filas]
        BY <4>0
      <4>2. PICK t : t = [tx[c] EXCEPT !.fase = "inventario", !.lineas = lineas, !.plan = plan,
                                       !.filas = filas]
        OBVIOUS
      <4>3. tx[c] \in TipoTx
        BY <1>1
      <4>4. t.op = tx[c].op
        BY <4>2, <4>3 DEF TipoTx
      <4> QED
        BY <1>1, <4>1, <4>2, <4>4
    <3> QED
      BY <1>1, <3>2, <3>3 DEF Crea, Misma
  <2>3. CASE TomarInventario(c) \/ EnviarConteo(c)
    <3>1. tx[c] \in TipoTx
      BY <1>1
    <3>2. PICK t : tx' = [tx EXCEPT ![c] = t] /\ Misma(t, tx[c])
      <4>1. CASE TomarInventario(c)
        <5>1. PICK p, n :
                tx' = [tx EXCEPT ![c].candados = @ \cup {p}, ![c].lectura[p] = n]
          BY <4>1 DEF TomarInventario
        <5>2. PICK t : t = [tx[c] EXCEPT !.candados = @ \cup {p}, !.lectura = [@ EXCEPT ![p] = n]]
          OBVIOUS
        <5>3. Misma(t, tx[c])
          BY <3>1, <5>2 DEF TipoTx, Misma
        <5> QED
          BY <1>1, <5>1, <5>2, <5>3
      <4>2. CASE EnviarConteo(c)
        <5>1. tx' = [tx EXCEPT ![c].fase = "inventario"]
          BY <4>2 DEF EnviarConteo
        <5>2. PICK t : t = [tx[c] EXCEPT !.fase = "inventario"]
          OBVIOUS
        <5>3. Misma(t, tx[c])
          BY <3>1, <5>2 DEF TipoTx, Misma
        <5> QED
          BY <1>1, <5>1, <5>2, <5>3
      <4> QED
        BY <2>3, <4>1, <4>2
    <3> QED
      BY <1>1, <3>2 DEF Misma
  <2> QED
    BY <1>5, <2>1, <2>2, <2>3 DEF Sigue
<1>6. CASE UNCHANGED vars
  BY <1>2, <1>6 DEF vars
<1>7. CASE \E d \in Documentos : CrearPedido(d)
  BY <1>2, <1>7 DEF CrearPedido
<1> QED
  BY <1>2, <1>3, <1>5, <1>6, <1>7 DEF Next
\* A count with base that begins, when nobody has counted, finds on the shelf
\* what the stock says and what is off.
LEMMA EmpiezaConBase ==
    ASSUME Inv, NEW x \in Conexiones, NEW d \in Documentos, EmpezarConteo(x, d, TRUE),
           UnicoConteo(d)
    PROVE  ConBase(tx'[x]) /\ tx'[x].doc = d
<1>1. ClaseDe[d] = "conteo" /\ Nuevo(d)
  BY DEF EmpezarConteo
<1>2. PICK lineas \in Peticiones[d] :
          Abrir(x, "conteoConBase", d, "contando", Contadas(lineas), stock, <<>>)
  BY DEF EmpezarConteo, Contadas
<1>3. tx'[x].lineas = Contadas(lineas) /\ tx'[x].leido = stock /\ tx'[x].doc = d
  BY <1>2 DEF Abrir, Inv, Tipos
<1>4. lineas \in Seq(TipoLinea) /\ ListaDeConteo(lineas)
  BY <1>1, PeticionesAssumption DEF ListaDeConteo
<1>5. kardex[d] = <<>>
  BY <1>1 DEF Nuevo, Inv, Papel
<1>6. ASSUME NEW i \in DOMAIN Contadas(lineas)
      PROVE  Contadas(lineas)[i].cantidad - stock[Contadas(lineas)[i].producto]
               = Desfase[Contadas(lineas)[i].producto]
  <2>1. i \in DOMAIN lineas /\ Contadas(lineas)[i].producto = lineas[i].producto
        /\ Contadas(lineas)[i].cantidad = EnAnaquel(lineas[i].producto)
    BY <1>4, ContadasTipo
  <2>2. PICK p : p = lineas[i].producto
    OBVIOUS
  <2>3. p \in Productos
    BY <1>4, <2>1, <2>2 DEF ListaDeConteo
  <2>4. EnAnaquel(p) = stock[p] + Desfase[p] - Suma(kardex[d])[p]
    BY <1>1, <2>3, SoloCuentaUno
  <2>5. Suma(kardex[d])[p] = 0
    BY <1>5, <2>3, SumaNinguno DEF Nada
  <2>6. stock[p] \in Int /\ Desfase[p] \in Int
    BY <2>3, InicialAssumption DEF Inv, Tipos, Entero
  <2>7. EnAnaquel(p) - stock[p] = Desfase[p]
    BY <2>4, <2>5, <2>6
  <2> QED
    BY <2>1, <2>2, <2>7
<1> QED
  BY <1>3, <1>6 DEF ConBase

\* What was read at the beginning stays with the request.
LEMMA ConBasePaso ==
    ASSUME Inv, ConteoInv, [Next]_vars, NEW x \in Conexiones, NEW u, u = tx'[x],
           u.op = "conteoConBase", NEW d, d = u.doc, UnicoConteo(d)'
    PROVE  ConBase(u)
<1>1. UnicoConteo(d)
  BY UnicoAntes
<1>2. CASE Misma(u, tx[x])
  <2>1. PICK v : v = tx[x]
    OBVIOUS
  <2>2. v.op = "conteoConBase" /\ v.doc = d /\ v.lineas = u.lineas /\ v.leido = u.leido
    BY <1>2, <2>1 DEF Misma
  <2>3. ConBase(v)
    BY <1>1, <2>1, <2>2 DEF ConteoInv
  <2> QED
    BY <2>2, <2>3 DEF ConBase
<1>3. ASSUME NEW e \in Documentos, EmpezarConteo(x, e, TRUE)
      PROVE  ConBase(u)
  <2>1. tx'[x].doc = e
    <3>1. PICK lineas : Abrir(x, "conteoConBase", e, "contando", lineas, stock, <<>>)
      BY <1>3 DEF EmpezarConteo
    <3> QED
      BY <3>1 DEF Abrir, Inv, Tipos
  <2>2. UnicoConteo(e)
    BY <1>1, <2>1
  <2> QED
    BY <1>3, <2>2, EmpiezaConBase
<1> QED
  BY <1>2, <1>3, ConteoSigue

\* A count that is committed corrects what was off, product by product.
LEMMA EscribirContado ==
    ASSUME Inv, ConteoInv, [Next]_vars, NEW c \in Conexiones, Escribir(c), NEW d, d = tx[c].doc
    PROVE  Contado(d)'
<1> DEFINE t == tx[c]
<1>1. Buena(c, t) /\ t.fase = "inventario"
  BY EscribirMueve
<1>2. d \in Documentos /\ Sana(t) /\ t \in TipoTx
  BY <1>1 DEF Buena, Sana
<1>3. SUFFICES ASSUME docs'[d].op = "conteoConBase", docs'[d].estado = "vigente", UnicoConteo(d)'
               PROVE  /\ ClaseDe[d] = "conteo"
                      /\ ListaDeConteo(docs'[d].lineas)
                      /\ \A p \in ProductosDe(docs'[d].lineas) : Suma(kardex'[d])[p] = Desfase[p]
  BY DEF Contado
<1>4. ~Anula(t.op)
  <2>1. docs'[d].estado = Deja(t.op)
    BY EscribirPapel
  <2> QED
    BY <1>3, <2>1 DEF Deja
<1>5. docs'[d] = [estado |-> Deja(t.op), lineas |-> t.lineas, op |-> t.op]
  BY <1>2, <1>4 DEF Escribir, Inv, Tipos
<1>6. t.op = "conteoConBase" /\ docs'[d].lineas = t.lineas
  BY <1>3, <1>5
<1>7. ClaseDe[d] = "conteo" /\ ListaDeConteo(t.lineas) /\ Cuenta(t.op)
  BY <1>2, <1>6 DEF Sana, Clase, Cuenta
<1>8. ConBase(t)
  BY <1>3, <1>6, UnicoAntes DEF ConteoInv
<1>9. kardex[d] = <<>>
  BY <1>1, <1>4, AntesNada
<1>10. Asientos(t) = <<Asiento("alta", "AJUSTE", Variacion(t))>>
  BY <1>7 DEF Asientos
<1>11. Breve(Asientos(t)) /\ Len(Asientos(t)) = 1 /\ Asientos(t)[1].delta = Variacion(t)
  BY <1>1, <1>10, AsientosBreves DEF Asiento
<1>12. kardex'[d] = Asientos(t)
  <2>1. kardex'[d] = <<>> \o Asientos(t)
    BY <1>2, <1>9 DEF Escribir, Inv, Tipos
  <2> QED
    BY <1>11, <2>1 DEF Breve
<1>13. ASSUME NEW i \in DOMAIN t.lineas
       PROVE  Suma(Asientos(t))[t.lineas[i].producto] = Desfase[t.lineas[i].producto]
  <2>1. PICK p : p = t.lineas[i].producto
    OBVIOUS
  <2>2. p \in Productos /\ p \in t.filas
    BY <1>1, <1>2, <1>7, <2>1 DEF ListaDeConteo, Sana, Filas, ProductosDe
  <2>3. CantidadDe(t.lineas, p) = t.lineas[i].cantidad
    BY <1>2, <1>7, <2>1, CantidadUnica DEF ListaDeConteo, TipoTx
  <2>4. Variacion(t)[p] = CantidadDe(t.lineas, p) - t.leido[p]
    BY <1>6, <2>2 DEF Variacion
  <2>5. Suma(Asientos(t))[p] = Variacion(t)[p]
    BY <1>11, <2>2, SumaBreve
  <2>6. t.lineas[i].cantidad - t.leido[p] = Desfase[p]
    BY <1>8, <2>1 DEF ConBase
  <2> QED
    BY <2>1, <2>3, <2>4, <2>5, <2>6
<1> QED
  BY <1>6, <1>7, <1>12, <1>13 DEF ProductosDe

\* So every step keeps what counts rest on.
LEMMA ConteoPaso == Inv /\ ConteoInv /\ [Next]_vars => ConteoInv'
<1> SUFFICES ASSUME Inv, ConteoInv, [Next]_vars PROVE ConteoInv'
  OBVIOUS
<1>1. ASSUME NEW x \in Conexiones, tx'[x].op = "conteoConBase", UnicoConteo(tx[x].doc)'
      PROVE  ConBase(tx'[x])
  <2>1. PICK u, d : u = tx'[x] /\ d = u.doc
    OBVIOUS
  <2>2. UnicoConteo(d)'
    BY <1>1, <2>1 DEF UnicoConteo
  <2> QED
    BY <1>1, <2>1, <2>2, ConBasePaso
<1>2. ASSUME NEW d \in Documentos
      PROVE  Contado(d)'
  <2>0. Contado(d)
    BY DEF ConteoInv
  <2>1. CASE docs'[d] = docs[d] /\ kardex'[d] = kardex[d]
    <3>1. UnicoConteo(d)' => UnicoConteo(d)
      BY UnicoAntes
    <3> QED
      BY <2>0, <2>1, <3>1 DEF Contado
  <2>2. ASSUME NEW c \in Conexiones, Escribir(c)
        PROVE  Contado(d)'
    <3>1. CASE d = tx[c].doc
      BY <2>2, <3>1, EscribirContado
    <3>2. CASE d # tx[c].doc
      <4>1. docs'[d] = docs[d] /\ kardex'[d] = kardex[d]
        BY <2>2, <3>2 DEF Escribir, Inv, Tipos
      <4> QED
        BY <2>1, <4>1
    <3> QED
      BY <3>1, <3>2
  <2>3. ASSUME NEW e \in Documentos, CrearPedido(e)
        PROVE  Contado(d)'
    <3>1. CASE d = e
      <4>1. docs'[d].estado = "pedido"
        BY <2>3, <3>1 DEF CrearPedido, Inv, Tipos
      <4> QED
        BY <4>1 DEF Contado
    <3>2. CASE d # e
      <4>1. docs'[d] = docs[d] /\ kardex'[d] = kardex[d]
        BY <2>3, <3>2 DEF CrearPedido, Inv, Tipos
      <4> QED
        BY <2>1, <4>1
    <3> QED
      BY <3>1, <3>2
  <2>4. CASE UNCHANGED <<stock, docs, kardex>>
    BY <2>1, <2>4
  <2> QED
    BY <2>2, <2>3, <2>4, SoloEscribir
<1> QED
  BY <1>1, <1>2 DEF ConteoInv

\* At the start there is no count.
LEMMA EmpiezaConteo == Init => ConteoInv
<1> SUFFICES ASSUME Init PROVE ConteoInv
  OBVIOUS
<1>1. \A c \in Conexiones : tx[c].op = "libre"
  BY LibreTipo DEF Init
<1>2. \A d \in Documentos : docs[d].estado = "ausente"
  BY DEF Init, SinDocumento
<1> QED
  BY <1>1, <1>2 DEF ConteoInv, Contado

\* A count sent with the stock of when it began leaves the stock as it really
\* is, whatever was sold, bought or produced meanwhile (ConteoCorrige: the
\* stock_teorico_base of conteo.repository.js), as long as nobody else counts.
THEOREM ConteosCorrigen == Spec => []ConteoCorrige
BY EmpiezaConteo, EmpiezaInv, PasoInv, ConteoPaso, ConteoInvCorrige, PTL DEF Spec
=============================================================================
