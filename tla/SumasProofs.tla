---------------------------- MODULE SumasProofs ----------------------------
(***************************************************************************)
(* What SumaDe does, for every finite set and every function of integers:  *)
(* it is a number, it depends on nothing outside the set, and it moves by  *)
(* what one key moves.                                                     *)
(*                                                                         *)
(* SumaDe is a fold, that is, a recursive function over the subsets of S.  *)
(* Its value is reached without an induction rule (whose predicate would   *)
(* be an operator): the subsets for which a fact fails are a family of     *)
(* sets, a family that is not empty has a smallest member (Minimo), and    *)
(* that member is refuted from the smaller ones.  The same goes, with the   *)
(* first place where it fails, for what a recursion over a list does.      *)
(***************************************************************************)
EXTENDS Sumas, FiniteSetTheorems, TLAPS

\* A family of subsets of a finite set that is not empty has a member none
\* of whose proper subsets is in it.
LEMMA Minimo ==
    ASSUME NEW S, IsFiniteSet(S), NEW F \in SUBSET (SUBSET S), F # {}
    PROVE  \E T \in F : \A U \in F : U \subseteq T => U = T
<1>1. IsWellFoundedOn(StrictSubsetOrdering(S), FiniteSubsetsOf(S))
  BY FS_StrictSubsetOrderingWellFounded
<1>2. FiniteSubsetsOf(S) = SUBSET S
  BY FS_FiniteSubsetsOfFinite
<1>3. PICK T \in F : \A U \in F : <<U, T>> \notin StrictSubsetOrdering(S)
  BY <1>1, <1>2, WFMin
<1>4. \A U \in F : U \subseteq T => U = T
  BY <1>3 DEF StrictSubsetOrdering
<1> QED
  BY <1>4

\* The key the fold takes next.
Elegido(s) == CHOOSE x \in s : TRUE

\* The sum over s, when g has the sums over the smaller sets.
PasoSuma(f, g, s) == IF s = {} THEN 0 ELSE f[Elegido(s)] + g[s \ {Elegido(s)}]

\* g has the sum of f over each subset of S.
Acumula(f, g, S) == g = [s \in SUBSET S |-> PasoSuma(f, g, s)]

\* The key taken from a set that is not empty is one of its own.
LEMMA ElegidoEsta == \A s : s # {} => Elegido(s) \in s
BY DEF Elegido

\* SumaDe, with the definitions of the library expanded: the last value of
\* the function that has all the sums.
LEMMA SumaDeEs == \A f, S : SumaDe(f, S) = (CHOOSE g : Acumula(f, g, S))[S]
BY DEF SumaDe, FoldFunctionOnSet, MapThenFoldSet, Acumula, PasoSuma, Elegido

\* Two functions that have the sums of f agree wherever both are defined.
LEMMA AcumulaUnica ==
    ASSUME NEW f, NEW g, NEW h, NEW U, NEW V, Acumula(f, g, U), Acumula(f, h, V),
           NEW s, IsFiniteSet(s), s \subseteq U, s \subseteq V
    PROVE  g[s] = h[s]
<1> DEFINE F == {t \in SUBSET s : g[t] # h[t]}
<1> SUFFICES ASSUME F # {} PROVE FALSE
  OBVIOUS
<1>1. PICK t \in F : \A u \in F : u \subseteq t => u = t
  <2>1. F \in SUBSET (SUBSET s)
    OBVIOUS
  <2> HIDE DEF F
  <2> QED
    BY <2>1, Minimo
<1>2. g[t] = PasoSuma(f, g, t) /\ h[t] = PasoSuma(f, h, t)
  BY DEF Acumula
<1>3. t # {}
  BY <1>2 DEF PasoSuma
<1>4. Elegido(t) \in t
  BY <1>3, ElegidoEsta
<1>5. g[t \ {Elegido(t)}] = h[t \ {Elegido(t)}]
  BY <1>1, <1>4
<1> QED
  BY <1>2, <1>3, <1>5 DEF PasoSuma

\* There is a function that has the sums of f over the subsets of a finite
\* set: without it CHOOSE would say nothing.
LEMMA AcumulaExiste ==
    ASSUME NEW S, IsFiniteSet(S), NEW f
    PROVE  \E g : Acumula(f, g, S)
<1> DEFINE F == {T \in SUBSET S : ~ \E g : Acumula(f, g, T)}
<1> SUFFICES ASSUME F # {} PROVE FALSE
  OBVIOUS
<1>1. PICK T \in F : \A U \in F : U \subseteq T => U = T
  <2>1. F \in SUBSET (SUBSET S)
    OBVIOUS
  <2> HIDE DEF F
  <2> QED
    BY <2>1, Minimo
<1> DEFINE G(U) == CHOOSE g : Acumula(f, g, U)
           h == [s \in SUBSET T |->
                   IF s # T THEN G(s)[s]
                   ELSE IF T = {} THEN 0
                   ELSE f[Elegido(T)] + G(T \ {Elegido(T)})[T \ {Elegido(T)}]]
<1>2. ASSUME NEW U \in SUBSET T, U # T
      PROVE  Acumula(f, G(U), U)
  <2>1. \E g : Acumula(f, g, U)
    BY <1>1, <1>2
  <2> QED
    BY <2>1
<1>3. ASSUME NEW s \in SUBSET T
      PROVE  h[s] = PasoSuma(f, h, s)
  <2>1. CASE s = {}
    <3>1. CASE T = {}
      BY <2>1, <3>1 DEF PasoSuma
    <3>2. CASE T # {}
      <4>1. Acumula(f, G(s), s)
        BY <1>2, <2>1, <3>2
      <4>2. G(s)[s] = PasoSuma(f, G(s), s)
        BY <4>1 DEF Acumula
      <4> QED
        BY <2>1, <3>2, <4>2 DEF PasoSuma
    <3> QED
      BY <3>1, <3>2
  <2>2. CASE s # {}
    <3> DEFINE e == Elegido(s)
               r == s \ {e}
    <3>1. e \in s
      BY <2>2, ElegidoEsta
    <3>2. r \in SUBSET T /\ r # T /\ r \subseteq s /\ r # s
      BY <3>1
    <3>3. h[r] = G(r)[r]
      BY <3>2
    <3>4. h[s] = f[e] + G(r)[r]
      <4>1. CASE s = T
        BY <2>2, <4>1
      <4>2. CASE s # T
        <5>1. Acumula(f, G(s), s) /\ Acumula(f, G(r), r)
          BY <1>2, <3>2, <4>2
        <5>2. G(s)[s] = f[e] + G(s)[r]
          BY <2>2, <5>1 DEF Acumula, PasoSuma
        <5>3. IsFiniteSet(r)
          BY <3>2, FS_Subset
        <5>4. G(s)[r] = G(r)[r]
          BY <3>2, <5>1, <5>3, AcumulaUnica
        <5> QED
          BY <4>2, <5>2, <5>4
      <4> QED
        BY <4>1, <4>2
    <3> QED
      BY <2>2, <3>3, <3>4 DEF PasoSuma
  <2> QED
    BY <2>1, <2>2
<1>4. Acumula(f, h, T)
  <2>1. h = [s \in SUBSET T |-> h[s]]
    OBVIOUS
  <2> HIDE DEF h
  <2> QED
    BY <1>3, <2>1 DEF Acumula
<1> QED
  BY <1>1, <1>4

\* The recursion: nothing adds up to 0, and one key is added to the rest.
LEMMA SumaPaso ==
    ASSUME NEW S, IsFiniteSet(S), NEW f
    PROVE  SumaDe(f, S) = IF S = {} THEN 0
                          ELSE f[Elegido(S)] + SumaDe(f, S \ {Elegido(S)})
<1> DEFINE G(U) == CHOOSE g : Acumula(f, g, U)
           r == S \ {Elegido(S)}
<1>1. IsFiniteSet(r) /\ r \subseteq S
  BY FS_Subset
<1>2. Acumula(f, G(S), S) /\ Acumula(f, G(r), r)
  BY <1>1, AcumulaExiste
<1>3. G(S)[S] = PasoSuma(f, G(S), S)
  BY <1>2 DEF Acumula
<1>4. G(S)[r] = G(r)[r]
  BY <1>1, <1>2, AcumulaUnica
<1>5. SumaDe(f, S) = G(S)[S] /\ SumaDe(f, r) = G(r)[r]
  BY SumaDeEs
<1> QED
  BY <1>3, <1>4, <1>5 DEF PasoSuma

\* The sum over no rows is 0, as the code has it with COALESCE(SUM(..), 0).
THEOREM SumaVacia == \A f : SumaDe(f, {}) = 0
BY SumaPaso, FS_EmptySet

\* A sum of integers is an integer.
THEOREM SumaEntera ==
    ASSUME NEW S, IsFiniteSet(S), NEW f, \A x \in S : f[x] \in Int
    PROVE  SumaDe(f, S) \in Int
<1> DEFINE F == {T \in SUBSET S : SumaDe(f, T) \notin Int}
<1> SUFFICES ASSUME F # {} PROVE FALSE
  OBVIOUS
<1>1. PICK T \in F : \A U \in F : U \subseteq T => U = T
  <2>1. F \in SUBSET (SUBSET S)
    OBVIOUS
  <2> HIDE DEF F
  <2> QED
    BY <2>1, Minimo
<1>2. SumaDe(f, T) = IF T = {} THEN 0 ELSE f[Elegido(T)] + SumaDe(f, T \ {Elegido(T)})
  BY SumaPaso, FS_Subset
<1>3. CASE T # {}
  <2>1. Elegido(T) \in T
    BY <1>3, ElegidoEsta
  <2>2. SumaDe(f, T \ {Elegido(T)}) \in Int
    BY <1>1, <2>1
  <2> QED
    BY <1>1, <1>2, <1>3, <2>1, <2>2
<1> QED
  BY <1>1, <1>2, <1>3

\* A sum of amounts that are not negative is not negative.
THEOREM SumaNatural ==
    ASSUME NEW S, IsFiniteSet(S), NEW f, \A x \in S : f[x] \in Nat
    PROVE  SumaDe(f, S) \in Nat
<1> DEFINE F == {T \in SUBSET S : SumaDe(f, T) \notin Nat}
<1> SUFFICES ASSUME F # {} PROVE FALSE
  OBVIOUS
<1>1. PICK T \in F : \A U \in F : U \subseteq T => U = T
  <2>1. F \in SUBSET (SUBSET S)
    OBVIOUS
  <2> HIDE DEF F
  <2> QED
    BY <2>1, Minimo
<1>2. SumaDe(f, T) = IF T = {} THEN 0 ELSE f[Elegido(T)] + SumaDe(f, T \ {Elegido(T)})
  BY SumaPaso, FS_Subset
<1>3. CASE T # {}
  <2>1. Elegido(T) \in T
    BY <1>3, ElegidoEsta
  <2>2. SumaDe(f, T \ {Elegido(T)}) \in Nat
    BY <1>1, <2>1
  <2> QED
    BY <1>1, <1>2, <1>3, <2>1, <2>2
<1> QED
  BY <1>1, <1>2, <1>3

\* The sum depends on the values of f in the set and on nothing else.
THEOREM SumaIgual ==
    ASSUME NEW S, IsFiniteSet(S), NEW f, NEW g, \A x \in S : f[x] = g[x]
    PROVE  SumaDe(f, S) = SumaDe(g, S)
<1> DEFINE F == {T \in SUBSET S : SumaDe(f, T) # SumaDe(g, T)}
<1> SUFFICES ASSUME F # {} PROVE FALSE
  OBVIOUS
<1>1. PICK T \in F : \A U \in F : U \subseteq T => U = T
  <2>1. F \in SUBSET (SUBSET S)
    OBVIOUS
  <2> HIDE DEF F
  <2> QED
    BY <2>1, Minimo
<1>2. /\ SumaDe(f, T) = IF T = {} THEN 0 ELSE f[Elegido(T)] + SumaDe(f, T \ {Elegido(T)})
      /\ SumaDe(g, T) = IF T = {} THEN 0 ELSE g[Elegido(T)] + SumaDe(g, T \ {Elegido(T)})
  BY SumaPaso, FS_Subset
<1>3. CASE T # {}
  <2>1. Elegido(T) \in T
    BY <1>3, ElegidoEsta
  <2>2. SumaDe(f, T \ {Elegido(T)}) = SumaDe(g, T \ {Elegido(T)})
    BY <1>1, <2>1
  <2> QED
    BY <1>1, <1>2, <1>3, <2>1, <2>2
<1> QED
  BY <1>1, <1>2, <1>3

\* Any row may be taken out first: the order of a SUM does not matter.
THEOREM SumaSin ==
    ASSUME NEW S, IsFiniteSet(S), NEW f, \A x \in S : f[x] \in Int, NEW x \in S
    PROVE  SumaDe(f, S) = f[x] + SumaDe(f, S \ {x})
<1> DEFINE Bien(T) == \A y \in T : SumaDe(f, T) = f[y] + SumaDe(f, T \ {y})
           F == {T \in SUBSET S : ~Bien(T)}
<1> SUFFICES ASSUME F # {} PROVE FALSE
  OBVIOUS
<1>1. PICK T \in F : \A U \in F : U \subseteq T => U = T
  <2>1. F \in SUBSET (SUBSET S)
    OBVIOUS
  <2> HIDE DEF F
  <2> QED
    BY <2>1, Minimo
<1>2. PICK y \in T : SumaDe(f, T) # f[y] + SumaDe(f, T \ {y})
  BY <1>1
<1> DEFINE e == Elegido(T)
           r == (T \ {e}) \ {y}
<1>3. e \in T /\ SumaDe(f, T) = f[e] + SumaDe(f, T \ {e})
  BY <1>2, SumaPaso, FS_Subset, ElegidoEsta
<1>4. e # y
  BY <1>2, <1>3
<1>5. Bien(T \ {e}) /\ Bien(T \ {y})
  BY <1>1, <1>2, <1>3
<1>6. SumaDe(f, T \ {e}) = f[y] + SumaDe(f, r)
  BY <1>2, <1>4, <1>5
<1>7. SumaDe(f, T \ {y}) = f[e] + SumaDe(f, r)
  <2>1. (T \ {y}) \ {e} = r
    OBVIOUS
  <2> QED
    BY <1>3, <1>4, <1>5, <2>1
<1>8. SumaDe(f, r) \in Int
  BY SumaEntera, FS_Subset
<1>9. f[e] \in Int /\ f[y] \in Int
  BY <1>2, <1>3
<1> QED
  BY <1>2, <1>3, <1>6, <1>7, <1>8, <1>9

\* A row that enters adds its own value.
THEOREM SumaCon ==
    ASSUME NEW S, IsFiniteSet(S), NEW x, x \notin S, NEW f, \A y \in S \cup {x} : f[y] \in Int
    PROVE  SumaDe(f, S \cup {x}) = f[x] + SumaDe(f, S)
<1>1. IsFiniteSet(S \cup {x})
  BY FS_AddElement
<1>2. (S \cup {x}) \ {x} = S
  OBVIOUS
<1> QED
  BY <1>1, <1>2, SumaSin

\* A row that changes moves the sum by what it changed.
THEOREM SumaUno ==
    ASSUME NEW S, IsFiniteSet(S), NEW x \in S, NEW f, NEW g,
           \A y \in S : f[y] \in Int /\ g[y] \in Int, \A y \in S \ {x} : g[y] = f[y]
    PROVE  SumaDe(g, S) = SumaDe(f, S) + g[x] - f[x]
<1>1. SumaDe(f, S) = f[x] + SumaDe(f, S \ {x}) /\ SumaDe(g, S) = g[x] + SumaDe(g, S \ {x})
  BY SumaSin
<1>2. IsFiniteSet(S \ {x})
  BY FS_Subset
<1>3. SumaDe(f, S \ {x}) = SumaDe(g, S \ {x}) /\ SumaDe(f, S \ {x}) \in Int
  BY <1>2, SumaIgual, SumaEntera
<1> QED
  BY <1>1, <1>3

\* When only the row x changes, in its value or in being added up at all, the
\* sum moves by what x adds now less what it added before: the form in which
\* the transactions of a module move the totals its queries compute.
THEOREM SumaCambia ==
    ASSUME NEW S, NEW T, IsFiniteSet(S), IsFiniteSet(T), NEW x, S \ {x} = T \ {x},
           NEW f, NEW g, \A y \in S : f[y] \in Int, \A y \in T : g[y] \in Int,
           \A y \in S \ {x} : g[y] = f[y]
    PROVE  SumaDe(g, T) = SumaDe(f, S) + (IF x \in T THEN g[x] ELSE 0)
                                       - (IF x \in S THEN f[x] ELSE 0)
<1> DEFINE R == S \ {x}
<1>1. IsFiniteSet(R)
  BY FS_Subset
<1>2. SumaDe(f, R) \in Int /\ SumaDe(g, R) \in Int /\ SumaDe(f, R) = SumaDe(g, R)
  BY <1>1, SumaEntera, SumaIgual
<1>3. SumaDe(f, S) = (IF x \in S THEN f[x] ELSE 0) + SumaDe(f, R)
  <2>1. CASE x \in S
    BY <2>1, SumaSin
  <2>2. CASE x \notin S
    <3>1. R = S
      BY <2>2
    <3> QED
      BY <1>2, <2>2, <3>1
  <2> QED
    BY <2>1, <2>2
<1>4. SumaDe(g, T) = (IF x \in T THEN g[x] ELSE 0) + SumaDe(g, R)
  <2>1. CASE x \in T
    BY <2>1, SumaSin
  <2>2. CASE x \notin T
    <3>1. R = T
      BY <2>2
    <3> HIDE DEF R
    <3> QED
      BY <1>2, <2>2, <3>1
  <2> QED
    BY <2>1, <2>2
<1> QED
  BY <1>2, <1>3, <1>4

\* Two sets that share nothing: their sums add up.
THEOREM SumaUnion ==
    ASSUME NEW S, NEW T, IsFiniteSet(S), IsFiniteSet(T), S \cap T = {},
           NEW f, \A x \in S \cup T : f[x] \in Int
    PROVE  SumaDe(f, S \cup T) = SumaDe(f, S) + SumaDe(f, T)
<1> DEFINE F == {U \in SUBSET T : SumaDe(f, S \cup U) # SumaDe(f, S) + SumaDe(f, U)}
<1> SUFFICES ASSUME F # {} PROVE FALSE
  OBVIOUS
<1>1. PICK U \in F : \A V \in F : V \subseteq U => V = U
  <2>1. F \in SUBSET (SUBSET T)
    OBVIOUS
  <2> HIDE DEF F
  <2> QED
    BY <2>1, Minimo
<1>2. SumaDe(f, S) \in Int
  BY SumaEntera
<1>3. CASE U = {}
  <2>1. S \cup U = S
    BY <1>3
  <2> QED
    BY <1>1, <1>2, <1>3, <2>1, SumaVacia
<1>4. CASE U # {}
  <2>1. PICK x \in U : TRUE
    BY <1>4
  <2> DEFINE V == U \ {x}
  <2>2. IsFiniteSet(U) /\ IsFiniteSet(V) /\ IsFiniteSet(S \cup V)
    BY FS_Subset, FS_Union
  <2>3. SumaDe(f, S \cup V) = SumaDe(f, S) + SumaDe(f, V)
    BY <1>1, <2>1
  <2>4. SumaDe(f, U) = f[x] + SumaDe(f, V)
    BY <2>1, <2>2, SumaSin
  <2>5. SumaDe(f, S \cup U) = f[x] + SumaDe(f, S \cup V)
    <3>1. S \cup U = (S \cup V) \cup {x} /\ x \notin S \cup V
      BY <2>1
    <3>2. \A y \in (S \cup V) \cup {x} : f[y] \in Int
      BY <2>1
    <3> QED
      BY <2>2, <3>1, <3>2, SumaCon
  <2>6. SumaDe(f, V) \in Int /\ f[x] \in Int
    BY <2>1, <2>2, SumaEntera
  <2> QED
    BY <1>1, <1>2, <2>3, <2>4, <2>5, <2>6
<1> QED
  BY <1>3, <1>4

\* What each x of P holds is shared out between x and a key of its own,
\* nuevo[x], that was not in S: the sum does not change.
THEOREM SumaReparte ==
    ASSUME NEW R, IsFiniteSet(R), NEW S \in SUBSET R, NEW P \in SUBSET S,
           NEW nuevo \in [P -> R \ S], \A x, y \in P : nuevo[x] = nuevo[y] => x = y,
           NEW f, NEW g, \A x \in R : f[x] \in Int /\ g[x] \in Int,
           \A x \in S \ P : g[x] = f[x],
           \A x \in P : g[nuevo[x]] + g[x] = f[x]
    PROVE  SumaDe(g, S \cup {nuevo[x] : x \in P}) = SumaDe(f, S)
<1> DEFINE Con(U) == U \cup {nuevo[x] : x \in P \cap U}
           F == {U \in SUBSET S : SumaDe(g, Con(U)) # SumaDe(f, U)}
<1>1. ASSUME F # {}
      PROVE  FALSE
  <2>1. PICK U \in F : \A V \in F : V \subseteq U => V = U
    <3>1. F \in SUBSET (SUBSET S) /\ IsFiniteSet(S)
      BY FS_Subset
    <3> HIDE DEF F
    <3> QED
      BY <1>1, <3>1, Minimo
  <2>2. CASE U = {}
    <3>1. Con(U) = {}
      BY <2>2
    <3> QED
      BY <2>1, <2>2, <3>1, SumaVacia
  <2>3. CASE U # {}
    <3>1. PICK x \in U : TRUE
      BY <2>3
    <3> DEFINE V == U \ {x}
    <3>2. V \subseteq U /\ V # U /\ V \in SUBSET S /\ x \in S
      BY <3>1
    <3>3. SumaDe(g, Con(V)) = SumaDe(f, V)
      BY <2>1, <3>2
    <3>4. U \subseteq R /\ V \subseteq R /\ Con(V) \subseteq R
      BY <3>2
    <3>5. IsFiniteSet(U) /\ IsFiniteSet(V) /\ IsFiniteSet(Con(V))
      BY <3>4, FS_Subset
    <3>6. SumaDe(f, U) = f[x] + SumaDe(f, V)
      BY <3>1, <3>4, <3>5, SumaSin
    <3>7. x \notin Con(V)
      BY <3>2
    <3>8. SumaDe(g, Con(V)) \in Int /\ f[x] \in Int /\ g[x] \in Int
      BY <3>2, <3>4, <3>5, SumaEntera
    <3>9. SumaDe(g, Con(V) \cup {x}) = g[x] + SumaDe(g, Con(V))
      <4>1. \A y \in Con(V) \cup {x} : g[y] \in Int
        BY <3>2, <3>4
      <4> HIDE DEF Con
      <4> QED
        BY <3>5, <3>7, <4>1, SumaCon
    <3>10. CASE x \notin P
      <4>1. Con(U) = Con(V) \cup {x}
        BY <3>1, <3>10
      <4>2. g[x] = f[x]
        BY <3>2, <3>10
      <4> QED
        BY <2>1, <3>3, <3>6, <3>9, <4>1, <4>2
    <3>11. CASE x \in P
      <4> DEFINE W == Con(V) \cup {x}
      <4>1. Con(U) = W \cup {nuevo[x]}
        BY <3>1, <3>11
      <4>2. nuevo[x] \in R \ S /\ nuevo[x] \notin W
        BY <3>2, <3>11
      <4>3. W \subseteq R
        BY <3>2, <3>4
      <4>4. SumaDe(g, W \cup {nuevo[x]}) = g[nuevo[x]] + SumaDe(g, W)
        <5>1. \A y \in W \cup {nuevo[x]} : g[y] \in Int
          BY <4>2, <4>3
        <5>2. IsFiniteSet(W)
          BY <4>3, FS_Subset
        <5> HIDE DEF W
        <5> QED
          BY <4>2, <5>1, <5>2, SumaCon
      <4>5. g[nuevo[x]] \in Int /\ g[nuevo[x]] + g[x] = f[x]
        BY <3>11, <4>2
      <4>6. SumaDe(g, Con(U)) = g[nuevo[x]] + (g[x] + SumaDe(g, Con(V)))
        BY <3>9, <4>1, <4>4
      <4>7. SumaDe(g, Con(U)) = f[x] + SumaDe(g, Con(V))
        <5> HIDE DEF Con, W, F, V
        <5> QED
          BY <3>8, <4>5, <4>6
      <4> QED
        BY <2>1, <3>3, <3>6, <4>7
    <3> QED
      BY <3>10, <3>11
  <2> QED
    BY <2>2, <2>3
<1>2. S \notin F
  <2> HIDE DEF F
  <2> QED
    BY <1>1
<1>3. Con(S) = S \cup {nuevo[x] : x \in P}
  OBVIOUS
<1> QED
  BY <1>2, <1>3
\* What adds nothing adds up to nothing.
THEOREM SumaCero ==
    ASSUME NEW S, IsFiniteSet(S), NEW f, \A x \in S : f[x] = 0
    PROVE  SumaDe(f, S) = 0
<1> DEFINE F == {T \in SUBSET S : SumaDe(f, T) # 0}
<1> SUFFICES ASSUME F # {} PROVE FALSE
  OBVIOUS
<1>1. PICK T \in F : \A U \in F : U \subseteq T => U = T
  <2>1. F \in SUBSET (SUBSET S)
    OBVIOUS
  <2> HIDE DEF F
  <2> QED
    BY <2>1, Minimo
<1>2. CASE T = {}
  BY <1>1, <1>2, SumaVacia
<1>3. CASE T # {}
  <2>1. PICK x \in T : TRUE
    BY <1>3
  <2>2. SumaDe(f, T \ {x}) = 0
    BY <1>1, <2>1
  <2>3. IsFiniteSet(T) /\ \A y \in T : f[y] \in Int
    BY FS_Subset
  <2>4. SumaDe(f, T) = f[x] + SumaDe(f, T \ {x})
    BY <2>1, <2>3, SumaSin
  <2> QED
    BY <1>1, <2>1, <2>2, <2>4
<1> QED
  BY <1>2, <1>3

\* What adds up to the opposite, row by row, adds up to the opposite.
THEOREM SumaOpuesta ==
    ASSUME NEW S, IsFiniteSet(S), NEW f, NEW g, \A x \in S : f[x] \in Int /\ g[x] = -f[x]
    PROVE  SumaDe(g, S) = -SumaDe(f, S)
<1> DEFINE F == {T \in SUBSET S : SumaDe(g, T) # -SumaDe(f, T)}
<1> SUFFICES ASSUME F # {} PROVE FALSE
  OBVIOUS
<1>1. PICK T \in F : \A U \in F : U \subseteq T => U = T
  <2>1. F \in SUBSET (SUBSET S)
    OBVIOUS
  <2> HIDE DEF F
  <2> QED
    BY <2>1, Minimo
<1>2. CASE T = {}
  BY <1>1, <1>2, SumaVacia
<1>3. CASE T # {}
  <2>1. PICK x \in T : TRUE
    BY <1>3
  <2>2. SumaDe(g, T \ {x}) = -SumaDe(f, T \ {x})
    BY <1>1, <2>1
  <2>3. /\ IsFiniteSet(T) /\ IsFiniteSet(T \ {x})
        /\ \A y \in T : f[y] \in Int /\ g[y] \in Int
    BY FS_Subset
  <2>4. SumaDe(f, T) = f[x] + SumaDe(f, T \ {x}) /\ SumaDe(g, T) = g[x] + SumaDe(g, T \ {x})
    BY <2>1, <2>3, SumaSin
  <2>5. SumaDe(f, T \ {x}) \in Int /\ f[x] \in Int /\ g[x] = -f[x]
    BY <2>1, <2>3, SumaEntera
  <2> QED
    BY <1>1, <2>2, <2>4, <2>5
<1> QED
  BY <1>2, <1>3

\* The same amounts under other keys add up to the same.
THEOREM SumaTraslada ==
    ASSUME NEW S, IsFiniteSet(S), NEW R, IsFiniteSet(R), NEW h \in [S -> R],
           \A x, y \in S : h[x] = h[y] => x = y,
           NEW f, NEW g, \A x \in S : f[x] \in Int /\ g[h[x]] = f[x]
    PROVE  SumaDe(g, {h[x] : x \in S}) = SumaDe(f, S)
<1> DEFINE Im(T) == {h[x] : x \in T}
           F == {T \in SUBSET S : SumaDe(g, Im(T)) # SumaDe(f, T)}
<1> SUFFICES ASSUME F # {} PROVE FALSE
  OBVIOUS
<1>1. PICK T \in F : \A U \in F : U \subseteq T => U = T
  <2>1. F \in SUBSET (SUBSET S)
    OBVIOUS
  <2> HIDE DEF F
  <2> QED
    BY <2>1, Minimo
<1>2. CASE T = {}
  <2>1. Im(T) = {}
    BY <1>2
  <2> QED
    BY <1>1, <1>2, <2>1, SumaVacia
<1>3. CASE T # {}
  <2>1. PICK x \in T : TRUE
    BY <1>3
  <2> DEFINE V == T \ {x}
  <2>2. SumaDe(g, Im(V)) = SumaDe(f, V)
    BY <1>1, <2>1
  <2>3. IsFiniteSet(T) /\ \A y \in T : f[y] \in Int
    BY FS_Subset
  <2>4. SumaDe(f, T) = f[x] + SumaDe(f, V)
    BY <2>1, <2>3, SumaSin
  <2>5. IsFiniteSet(Im(V))
    <3>1. Im(V) \in SUBSET R
      OBVIOUS
    <3> HIDE DEF Im
    <3> QED
      BY <3>1, FS_Subset
  <2>6. Im(T) = Im(V) \cup {h[x]} /\ h[x] \notin Im(V)
    BY <2>1
  <2>7. \A y \in Im(V) \cup {h[x]} : g[y] \in Int
    BY <2>1
  <2>8. SumaDe(g, Im(V) \cup {h[x]}) = g[h[x]] + SumaDe(g, Im(V))
    <3> HIDE DEF Im
    <3> QED
      BY <2>5, <2>6, <2>7, SumaCon
  <2> QED
    BY <1>1, <2>1, <2>2, <2>4, <2>6, <2>8
<1> QED
  BY <1>2, <1>3

\* Some of the amounts, none of them negative, add up to no more than all.
THEOREM SumaMenor ==
    ASSUME NEW T, IsFiniteSet(T), NEW S \in SUBSET T, NEW f, \A x \in T : f[x] \in Nat
    PROVE  SumaDe(f, S) <= SumaDe(f, T) /\ SumaDe(f, S) \in Nat /\ SumaDe(f, T) \in Nat
<1>1. IsFiniteSet(S) /\ IsFiniteSet(T \ S)
  BY FS_Subset
<1>2. SumaDe(f, S \cup (T \ S)) = SumaDe(f, S) + SumaDe(f, T \ S)
  <2>1. S \cap (T \ S) = {} /\ \A x \in S \cup (T \ S) : f[x] \in Int
    OBVIOUS
  <2> QED
    BY <1>1, <2>1, SumaUnion
<1>3. S \cup (T \ S) = T
  OBVIOUS
<1>4. SumaDe(f, S) \in Nat /\ SumaDe(f, T \ S) \in Nat
  <2>1. \A x \in S : f[x] \in Nat
    OBVIOUS
  <2>2. \A x \in T \ S : f[x] \in Nat
    OBVIOUS
  <2> QED
    BY <1>1, <2>1, <2>2, SumaNatural
<1>5. SumaDe(f, T) = SumaDe(f, S) + SumaDe(f, T \ S)
  BY <1>2, <1>3
<1>6. \A a, b \in Nat : a <= a + b /\ a + b \in Nat
  OBVIOUS
<1> QED
  BY <1>4, <1>5, <1>6

-----------------------------------------------------------------------------
(* Numbers, and the smallest or greatest of them.                          *)

\* A set of naturals that is not empty has a least one.
LEMMA Menor ==
    ASSUME NEW S \in SUBSET Nat, S # {}
    PROVE  \E x \in S : \A y \in S : x <= y
<1> DEFINE R == OpToRel(<, Nat)
<1>0. \A x, y \in Nat : y < x => <<y, x>> \in R
  BY DEF OpToRel
<1>1. IsWellFoundedOn(R, Nat)
  BY NatLessThanWellFounded
<1> HIDE DEF R
<1>2. PICK x \in S : \A y \in S : <<y, x>> \notin R
  BY <1>1, WFMin
<1>3. \A y \in S : x <= y
  <2>1. ASSUME NEW y \in S
        PROVE  x <= y
    <3>1. x \in Nat /\ y \in Nat
      OBVIOUS
    <3>2. <<y, x>> \notin R
      BY <1>2
    <3> QED
      BY <1>0, <3>1, <3>2
  <2> QED
    BY <2>1
<1> QED
  BY <1>3

\* A member of the family F has no other one inside.
ConMinimo(F) == \E T \in F : \A U \in F : U \subseteq T => U = T

\* A family of subsets of a finite set that is not empty has one.
LEMMA MinimoHay ==
    ASSUME NEW S, IsFiniteSet(S), NEW F, \A T \in F : T \subseteq S, F # {}
    PROVE  ConMinimo(F)
<1>1. F \in SUBSET (SUBSET S)
  OBVIOUS
<1> QED
  BY <1>1, Minimo DEF ConMinimo

\* A finite set of naturals that is not empty has a greatest one.
LEMMA Mayor ==
    ASSUME NEW S \in SUBSET Nat, IsFiniteSet(S), S # {}
    PROVE  \E x \in S : \A y \in S : y <= x
<1> DEFINE Desde(x) == {z \in S : x <= z}
           F == {Desde(x) : x \in S}
<1>1. PICK T \in F : \A U \in F : U \subseteq T => U = T
  <2>1. \A T \in F : T \subseteq S
    OBVIOUS
  <2>2. F # {}
    OBVIOUS
  <2> HIDE DEF Desde, F
  <2>3. ConMinimo(F)
    BY <2>1, <2>2, MinimoHay
  <2> QED
    BY <2>3 DEF ConMinimo
<1>2. PICK x \in S : T = Desde(x)
  BY <1>1
<1>4. \A y \in S : Desde(y) \subseteq Desde(x) => Desde(y) = Desde(x)
  BY <1>1, <1>2
<1>3. ASSUME NEW y \in S, ~(y <= x)
      PROVE  FALSE
  <2>1. \A z \in S : z \in Nat
    OBVIOUS
  <2>2. \A z \in S : y <= z => x <= z
    BY <1>3, <2>1
  <2>3. Desde(y) \subseteq Desde(x)
    BY <2>2
  <2>4. x \in Desde(x)
    BY <2>1
  <2>5. x \notin Desde(y)
    BY <1>3
  <2> HIDE DEF Desde
  <2> QED
    BY <1>4, <2>3, <2>4, <2>5
<1> QED
  BY <1>3

-----------------------------------------------------------------------------
(* Recursion over the places of a list: there is a function that does it,  *)
(* and its values stay where each step keeps them.                         *)

\* One step at a time: G[i][v] is what place i makes of v.
Recorre(h, n, b, G) == \A i \in 0..n : h[i] = IF i = 0 THEN b ELSE G[i][h[i-1]]

\* There is such a function.
LEMMA RecorreExiste ==
    ASSUME NEW n \in Nat, NEW V, NEW b \in V, NEW G,
           \A i \in 1..n : \A v \in V : G[i][v] \in V
    PROVE  \E h \in [0..n -> V] : Recorre(h, n, b, G)
<1> DEFINE F == {m \in 0..n : ~ \E h \in [0..m -> V] : Recorre(h, m, b, G)}
<1>1. ASSUME F # {}
      PROVE  FALSE
  <2>1. F \in SUBSET Nat
    OBVIOUS
  <2>2. PICK m \in F : \A k \in F : m <= k
    <3> HIDE DEF F
    <3> QED
      BY <1>1, <2>1, Menor
  <2>3. CASE m = 0
    <3>1. [i \in 0..0 |-> b] \in [0..m -> V] /\ Recorre([i \in 0..0 |-> b], m, b, G)
      BY <2>3 DEF Recorre
    <3> QED
      BY <2>2, <3>1
  <2>4. CASE m # 0
    <3>1. m \in 1..n /\ m-1 \in 0..n /\ ~(m <= m-1)
      BY <2>2, <2>4
    <3>2. PICK h \in [0..m-1 -> V] : Recorre(h, m-1, b, G)
      BY <2>2, <3>1
    <3> DEFINE g == [i \in 0..m |-> IF i = m THEN G[m][h[m-1]] ELSE h[i]]
    <3>3. h[m-1] \in V
      BY <3>1
    <3>4. \A i \in 0..m : i = m \/ i \in 0..m-1
      BY <3>1
    <3>5. g \in [0..m -> V]
      BY <3>1, <3>3, <3>4
    <3>6. ASSUME NEW i \in 0..m
          PROVE  g[i] = IF i = 0 THEN b ELSE G[i][g[i-1]]
      <4>1. CASE i = m
        <5>1. g[m-1] = h[m-1] /\ g[m] = G[m][h[m-1]]
          BY <3>1
        <5> QED
          BY <2>4, <4>1, <5>1
      <4>2. CASE i # m
        <5>1. i \in 0..m-1 /\ (i # 0 => i-1 \in 0..m-1)
          BY <3>1, <4>2
        <5>2. g[i] = h[i] /\ (i # 0 => g[i-1] = h[i-1])
          BY <3>1, <4>2, <5>1
        <5>3. h[i] = IF i = 0 THEN b ELSE G[i][h[i-1]]
          BY <3>2, <5>1 DEF Recorre
        <5> QED
          BY <5>2, <5>3
      <4> QED
        BY <4>1, <4>2
    <3>7. Recorre(g, m, b, G)
      BY <3>6 DEF Recorre
    <3> QED
      BY <2>2, <3>5, <3>7
  <2> QED
    BY <2>3, <2>4
<1>2. n \notin F
  <2> HIDE DEF F
  <2> QED
    BY <1>1
<1> QED
  BY <1>2

\* What holds at the start and at each step holds at the end.
LEMMA RecorreTipo ==
    ASSUME NEW n \in Nat, NEW V, NEW h, h[0] \in V,
           \A i \in 1..n : h[i-1] \in V => h[i] \in V
    PROVE  h[n] \in V
<1> DEFINE F == {i \in 0..n : h[i] \notin V}
<1>1. ASSUME F # {}
      PROVE  FALSE
  <2>1. F \in SUBSET Nat
    OBVIOUS
  <2>2. PICK m \in F : \A k \in F : m <= k
    <3> HIDE DEF F
    <3> QED
      BY <1>1, <2>1, Menor
  <2>3. m \in 1..n /\ m-1 \in 0..n /\ ~(m <= m-1)
    BY <2>2
  <2>4. h[m-1] \in V
    BY <2>2, <2>3
  <2> QED
    BY <2>2, <2>3, <2>4
<1> QED
  BY <1>1
=============================================================================
