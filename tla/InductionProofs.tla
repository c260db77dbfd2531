-------------------------- MODULE InductionProofs ---------------------------
(***************************************************************************)
(* The properties of sealed batches and of workflows, for batches and      *)
(* trees of every size.  Both rest on functions defined by recursion, the  *)
(* layers of a Merkle tree and the turns of a walk; what they compute is   *)
(* shown by induction, in the form that a set of numbers that holds 0 and  *)
(* with each number the next one holds them all.                           *)
(***************************************************************************)
EXTENDS Workflow, Sealing, FiniteSetTheorems, WellFoundedInduction, TLAPS

(***************************************************************************)
(* Induction.                                                              *)
(***************************************************************************)
(* Every nonempty set of numbers has a least element.                      *)
LEMMA LeastNumber ==
    ASSUME NEW T, T \subseteq Nat, T # {}
    PROVE  \E x \in T : \A y \in T : x <= y
PROOF
<1>1. \E x \in T : \A y \in T : ~(<<y, x>> \in OpToRel(<, Nat))
  BY NatLessThanWellFounded, WFMin
<1>2. ASSUME NEW x \in Nat, NEW y \in Nat, ~(<<y, x>> \in OpToRel(<, Nat))
      PROVE  x <= y
  BY <1>2 DEF OpToRel
<1> QED
  BY <1>1, <1>2

(* Induction, with the property as a set.                                  *)
LEMMA Inductive ==
    ASSUME NEW T, 0 \in T, \A k \in Nat : k \in T => k + 1 \in T
    PROVE  \A k \in Nat : k \in T
PROOF
<1> SUFFICES ASSUME Nat \ T # {} PROVE FALSE
  OBVIOUS
<1>1. PICK x \in Nat \ T : \A y \in Nat \ T : x <= y
  BY LeastNumber
<1>2. x - 1 \in Nat /\ ~(x <= x - 1) /\ (x - 1) + 1 = x
  BY <1>1
<1> QED
  BY <1>1, <1>2

(***************************************************************************)
(* One layer of a Merkle tree.                                             *)
(***************************************************************************)
(* A layer is a sequence of at least one node.                             *)
IsLayer(t) == Len(t) \in Nat \ {0} /\ DOMAIN t = 1 .. Len(t) /\ t = [i \in 1 .. Len(t) |-> t[i]]

Distinct(t) == \A i, j \in 1 .. Len(t) : t[i] = t[j] => i = j

(* Half of a number, rounded up.                                           *)
LEMMA HalfUp ==
    ASSUME NEW m \in Nat \ {0, 1}
    PROVE  /\ (m + 1) \div 2 \in Nat \ {0} /\ (m + 1) \div 2 < m
           /\ m = 2 * ((m + 1) \div 2) \/ m = 2 * ((m + 1) \div 2) - 1
PROOF
  OBVIOUS

(* A layer has one node or several.                                        *)
LEMMA LayerLength ==
    ASSUME NEW t, IsLayer(t)
    PROVE  Len(t) \in Nat \ {0} /\ (Len(t) = 1 \/ Len(t) > 1)
PROOF
  BY DEF IsLayer

(* A layer of several nodes.                                               *)
LEMMA LongLayer ==
    ASSUME NEW t, IsLayer(t), Len(t) > 1
    PROVE  Len(t) \in Nat \ {0, 1}
PROOF
  BY DEF IsLayer

(* Layers are equal when their lengths and nodes are.                      *)
LEMMA LayersEqual ==
    ASSUME NEW s, NEW t, IsLayer(s), IsLayer(t), Len(s) = Len(t),
           \A i \in 1 .. Len(s) : s[i] = t[i]
    PROVE  s = t
PROOF
<1>1. s = [i \in 1 .. Len(s) |-> s[i]] /\ t = [i \in 1 .. Len(s) |-> t[i]]
  BY DEF IsLayer
<1>2. [i \in 1 .. Len(s) |-> s[i]] = [i \in 1 .. Len(s) |-> t[i]]
  OBVIOUS
<1> QED
  BY <1>1, <1>2

(* The layer above a layer of several nodes is a shorter layer of their    *)
(* pairs.                                                                  *)
LEMMA PairsLayer ==
    ASSUME NEW t, IsLayer(t), Len(t) > 1
    PROVE  /\ IsLayer(Pairs(t)) /\ Len(Pairs(t)) = (Len(t) + 1) \div 2 /\ Len(Pairs(t)) < Len(t)
           /\ \A i \in 1 .. Len(Pairs(t)) :
                 Pairs(t)[i] = <<"node", t[2 * i - 1],
                                 IF 2 * i <= Len(t) THEN t[2 * i] ELSE t[2 * i - 1]>>
PROOF
<1> DEFINE q == (Len(t) + 1) \div 2
           N(i) == <<"node", t[2 * i - 1], IF 2 * i <= Len(t) THEN t[2 * i] ELSE t[2 * i - 1]>>
<1>1. Len(t) \in Nat \ {0, 1}
  BY LongLayer
<1>2. q \in Nat \ {0} /\ q < Len(t)
  BY <1>1, HalfUp
<1>3. Pairs(t) = [i \in 1 .. q |-> N(i)]
  BY <1>1 DEF Pairs
<1> HIDE DEF q, N
<1>4. DOMAIN Pairs(t) = 1 .. q /\ \A i \in 1 .. q : Pairs(t)[i] = N(i)
  BY <1>3
<1>5. Pairs(t) \in Seq({N(i) : i \in 1 .. q})
  BY <1>2, <1>3
<1>6. Len(Pairs(t)) = q
  BY <1>2, <1>4, <1>5
<1>7. IsLayer(Pairs(t))
  BY <1>2, <1>3, <1>4, <1>6 DEF IsLayer
<1> QED
  BY <1>2, <1>4, <1>6, <1>7 DEF q, N

(* The layer above is never longer, and is a layer.                        *)
LEMMA PairsIsLayer ==
    ASSUME NEW t, IsLayer(t)
    PROVE  IsLayer(Pairs(t)) /\ (Len(t) = 1 => Pairs(t) = t)
PROOF
<1>1. CASE Len(t) = 1
  BY <1>1 DEF Pairs
<1>2. CASE Len(t) > 1
  BY <1>2, PairsLayer
<1> QED
  BY <1>1, <1>2 DEF IsLayer

(* Distinct nodes pair to distinct nodes: their first children differ.     *)
LEMMA PairsDistinct ==
    ASSUME NEW t, IsLayer(t), Distinct(t)
    PROVE  Distinct(Pairs(t))
PROOF
<1>1. CASE Len(t) = 1
  BY <1>1, PairsIsLayer
<1>2. CASE Len(t) > 1
  <2>1. Len(t) \in Nat \ {0, 1}
    BY <1>2, LongLayer
  <2>2. SUFFICES ASSUME NEW i \in 1 .. Len(Pairs(t)), NEW j \in 1 .. Len(Pairs(t)),
                        Pairs(t)[i] = Pairs(t)[j]
                 PROVE  i = j
    BY DEF Distinct
  <2>3. Len(Pairs(t)) = (Len(t) + 1) \div 2 /\ t[2 * i - 1] = t[2 * j - 1]
    BY <1>2, <2>2, PairsLayer
  <2>4. 2 * i - 1 \in 1 .. Len(t) /\ 2 * j - 1 \in 1 .. Len(t)
    BY <2>1, <2>3, HalfUp
  <2>5. 2 * i - 1 = 2 * j - 1
    BY <2>3, <2>4 DEF Distinct
  <2> QED
    BY <2>5
<1> QED
  BY <1>1, <1>2 DEF IsLayer

(* Layers of one length are told apart by the layer above.                 *)
LEMMA PairsInjective ==
    ASSUME NEW s, NEW t, IsLayer(s), IsLayer(t), Len(s) = Len(t), Pairs(s) = Pairs(t)
    PROVE  s = t
PROOF
<1>1. CASE Len(s) = 1
  BY <1>1, PairsIsLayer
<1>2. CASE Len(s) > 1
  <2>1. Len(s) \in Nat \ {0, 1}
    BY <1>2, LongLayer
  <2> SUFFICES ASSUME NEW j \in 1 .. Len(s) PROVE s[j] = t[j]
    BY LayersEqual
  <2>2. PICK i \in 1 .. (Len(s) + 1) \div 2 : j = 2 * i - 1 \/ j = 2 * i
    <3>1. CASE \E x \in Nat : j = 2 * x
      BY <2>1, <3>1
    <3>2. CASE \E x \in Nat : j = 2 * x + 1
      <4>1. PICK x \in Nat : j = 2 * x + 1
        BY <3>2
      <4>2. x + 1 \in 1 .. (Len(s) + 1) \div 2 /\ j = 2 * (x + 1) - 1
        BY <2>1, <4>1
      <4> QED
        BY <4>2
    <3>3. j \in Nat /\ j = 2 * (j \div 2) + (j % 2) /\ j % 2 \in {0, 1} /\ j \div 2 \in Nat
      BY <2>1
    <3> QED
      BY <3>1, <3>2, <3>3
  <2>3. i \in 1 .. Len(Pairs(s)) /\ i \in 1 .. Len(Pairs(t))
    BY <1>2, PairsLayer
  <2>4. Pairs(s)[i] = <<"node", s[2 * i - 1],
                         IF 2 * i <= Len(s) THEN s[2 * i] ELSE s[2 * i - 1]>>
    BY <1>2, <2>3, PairsLayer
  <2>5. Pairs(t)[i] = <<"node", t[2 * i - 1],
                         IF 2 * i <= Len(t) THEN t[2 * i] ELSE t[2 * i - 1]>>
    BY <1>2, <2>3, PairsLayer
  <2>6. s[2 * i - 1] = t[2 * i - 1]
        /\ (IF 2 * i <= Len(s) THEN s[2 * i] ELSE s[2 * i - 1])
            = (IF 2 * i <= Len(s) THEN t[2 * i] ELSE t[2 * i - 1])
    BY <2>4, <2>5
  <2>7. j = 2 * i => 2 * i <= Len(s)
    BY <2>1
  <2> QED
    BY <2>2, <2>6, <2>7
<1> QED
  BY <1>1, <1>2 DEF IsLayer

(* Layers of several distinct nodes are told apart by the layer above,     *)
(* whatever their lengths: the layer that pairs its last node with itself  *)
(* shows it, for no two distinct nodes make that pair.                     *)
LEMMA DistinctPairsInjective ==
    ASSUME NEW s, NEW t, IsLayer(s), IsLayer(t), Len(s) > 1, Len(t) > 1,
           Distinct(s), Distinct(t), Pairs(s) = Pairs(t)
    PROVE  s = t
PROOF
<1> DEFINE q == Len(Pairs(s))
<1>1. /\ Len(s) \in Nat \ {0, 1} /\ Len(t) \in Nat \ {0, 1}
      /\ q = (Len(s) + 1) \div 2 /\ q = (Len(t) + 1) \div 2 /\ q \in Nat \ {0}
  <2>1. Len(s) \in Nat \ {0, 1} /\ Len(t) \in Nat \ {0, 1}
    BY LongLayer
  <2>2. q = (Len(s) + 1) \div 2 /\ q = (Len(t) + 1) \div 2
    BY PairsLayer
  <2> QED
    BY <2>1, <2>2, HalfUp
<1>2. Len(s) \in {2 * q - 1, 2 * q} /\ Len(t) \in {2 * q - 1, 2 * q}
  BY <1>1, HalfUp
<1>3. ASSUME NEW x, NEW y, IsLayer(x), IsLayer(y), Distinct(y), Len(x) > 1, Len(y) > 1,
             Pairs(x) = Pairs(y), Len(Pairs(x)) = q, Len(x) = 2 * q - 1, Len(y) = 2 * q
      PROVE  FALSE
  <2>1. q \in 1 .. Len(Pairs(x)) /\ q \in 1 .. Len(Pairs(y))
    BY <1>1, <1>3
  <2> HIDE DEF q
  <2>2. /\ Pairs(x)[q] = <<"node", x[2 * q - 1],
                           IF 2 * q <= Len(x) THEN x[2 * q] ELSE x[2 * q - 1]>>
        /\ Pairs(y)[q] = <<"node", y[2 * q - 1],
                           IF 2 * q <= Len(y) THEN y[2 * q] ELSE y[2 * q - 1]>>
    BY <1>3, <2>1, PairsLayer
  <2>3. ~(2 * q <= Len(x)) /\ 2 * q <= Len(y)
    BY <1>1, <1>3
  <2>4. <<"node", x[2 * q - 1], x[2 * q - 1]>> = <<"node", y[2 * q - 1], y[2 * q]>>
    BY <1>3, <2>2, <2>3
  <2>5. y[2 * q - 1] = y[2 * q]
    BY <2>4
  <2>6. 2 * q - 1 \in 1 .. Len(y) /\ 2 * q \in 1 .. Len(y) /\ 2 * q - 1 # 2 * q
    BY <1>1, <1>3
  <2> QED
    BY <1>3, <2>5, <2>6 DEF Distinct
<1>4. ~(Len(s) = 2 * q - 1 /\ Len(t) = 2 * q)
  BY <1>3
<1>5. ~(Len(t) = 2 * q - 1 /\ Len(s) = 2 * q)
  BY <1>3
<1>6. Len(s) = Len(t)
  BY <1>2, <1>4, <1>5
<1> QED
  BY <1>6, PairsInjective

(***************************************************************************)
(* The layers of a tree.                                                   *)
(***************************************************************************)
(* The recursion that defines Layers has a solution.                       *)
LEMMA LayersDefined ==
    ASSUME NEW leaves, IsLayer(leaves)
    PROVE  /\ Layers(leaves)[0] = leaves
           /\ \A k \in 0 .. Len(leaves) - 1 : Layers(leaves)[k + 1] = Pairs(Layers(leaves)[k])
PROOF
<1> DEFINE F(u, m) == u = [k \in 0 .. m |-> IF k = 0 THEN leaves ELSE Pairs(u[k - 1])]
           T == {m \in Nat : \E u : F(u, m)}
<1>1. 0 \in T
  <2> DEFINE u == [k \in 0 .. 0 |-> leaves]
  <2>1. u = [k \in 0 .. 0 |-> IF k = 0 THEN leaves ELSE Pairs(u[k - 1])]
    OBVIOUS
  <2> QED
    BY <2>1
<1>2. ASSUME NEW m \in Nat, m \in T
      PROVE  m + 1 \in T
  <2>1. PICK u : F(u, m)
    BY <1>2
  <2>2. DOMAIN u = 0 .. m /\ \A k \in 0 .. m : u[k] = IF k = 0 THEN leaves ELSE Pairs(u[k - 1])
    BY <2>1
  <2> DEFINE v == [k \in 0 .. m + 1 |-> IF k = m + 1 THEN Pairs(u[m]) ELSE u[k]]
             V(k) == IF k = 0 THEN leaves ELSE Pairs(v[k - 1])
  <2>3. ASSUME NEW k \in 0 .. m + 1
        PROVE  v[k] = V(k)
    <3>1. CASE k = m + 1
      <4>1. v[k] = Pairs(u[m]) /\ v[m] = u[m] /\ k # 0 /\ k - 1 = m
        BY <3>1
      <4> QED
        BY <4>1
    <3>2. CASE k = 0
      BY <2>2, <3>2
    <3>3. CASE k \in 1 .. m
      <4>1. v[k] = u[k] /\ v[k - 1] = u[k - 1] /\ u[k] = Pairs(u[k - 1]) /\ k # 0
        BY <2>2, <3>3
      <4> QED
        BY <4>1
    <3> QED
      BY <3>1, <3>2, <3>3
  <2>4. v = [k \in 0 .. m + 1 |-> v[k]]
    OBVIOUS
  <2> HIDE DEF v
  <2>5. v = [k \in 0 .. m + 1 |-> IF k = 0 THEN leaves ELSE Pairs(v[k - 1])]
    BY <2>3, <2>4
  <2> QED
    BY <2>5
<1> HIDE DEF T
<1>3. \A m \in Nat : m \in T
  BY <1>1, <1>2, Inductive
<1>4. Len(leaves) \in Nat
  BY DEF IsLayer
<1>5. \E u : F(u, Len(leaves))
  BY <1>3, <1>4 DEF T
<1>6. Layers(leaves) = CHOOSE u : F(u, Len(leaves))
  BY DEF Layers
<1> DEFINE U == Layers(leaves)
<1>7. F(U, Len(leaves))
  BY <1>5, <1>6
<1> HIDE DEF U
<1>8. \A k \in 0 .. Len(leaves) : U[k] = IF k = 0 THEN leaves ELSE Pairs(U[k - 1])
  BY <1>7
<1>9. U[0] = leaves
  BY <1>4, <1>8
<1>10. ASSUME NEW k \in 0 .. Len(leaves) - 1
       PROVE  U[k + 1] = Pairs(U[k])
  <2>1. k + 1 \in 0 .. Len(leaves) /\ k + 1 # 0 /\ (k + 1) - 1 = k
    BY <1>4
  <2> QED
    BY <1>8, <2>1
<1> QED
  BY <1>9, <1>10 DEF U

(* A stack of layers, each made of the one below, up to a single node.     *)
Tower(u, m) ==
    /\ m \in Nat
    /\ \A k \in 0 .. m : IsLayer(u[k])
    /\ \A k \in 0 .. m - 1 : u[k + 1] = Pairs(u[k])
    /\ Len(u[m]) = 1

(* Every layer above several nodes is shorter, so as many layers as there  *)
(* are leaves end in a single node.                                        *)
LEMMA LayersTower ==
    ASSUME NEW leaves, IsLayer(leaves)
    PROVE  Tower(Layers(leaves), Len(leaves)) /\ Layers(leaves)[0] = leaves
PROOF
<1> DEFINE U == Layers(leaves)
           m == Len(leaves)
           T == {k \in Nat : k <= m => IsLayer(U[k]) /\ (Len(U[k]) = 1 \/ Len(U[k]) <= m - k)}
<1>1. U[0] = leaves /\ \A k \in 0 .. m - 1 : U[k + 1] = Pairs(U[k])
  BY LayersDefined
<1>2. m \in Nat \ {0}
  BY DEF IsLayer
<1> HIDE DEF U, m
<1>3. 0 \in T
  BY <1>1, <1>2 DEF m
<1>4. ASSUME NEW k \in Nat, k \in T
      PROVE  k + 1 \in T
  <2> SUFFICES ASSUME k + 1 <= m
               PROVE  IsLayer(U[k + 1])
                      /\ (Len(U[k + 1]) = 1 \/ Len(U[k + 1]) <= m - (k + 1))
    OBVIOUS
  <2>1. U[k + 1] = Pairs(U[k]) /\ IsLayer(U[k]) /\ (Len(U[k]) = 1 \/ Len(U[k]) <= m - k)
    BY <1>1, <1>2, <1>4
  <2>2. IsLayer(Pairs(U[k])) /\ (Len(U[k]) = 1 => Pairs(U[k]) = U[k])
    BY <2>1, PairsIsLayer
  <2>3. Len(U[k]) \in Nat \ {0} /\ Len(U[k + 1]) \in Nat
    BY <2>1, <2>2 DEF IsLayer
  <2>4. CASE Len(U[k]) = 1
    BY <2>1, <2>2, <2>4
  <2>5. CASE Len(U[k]) > 1
    <3>1. Len(Pairs(U[k])) < Len(U[k])
      BY <2>1, <2>5, PairsLayer
    <3>2. ASSUME NEW a \in Nat, NEW b \in Nat, NEW c \in Nat, a < b, b > 1,
                 b = 1 \/ b <= c - k
          PROVE  a <= c - (k + 1)
      BY <3>2
    <3>3. Len(U[k + 1]) <= m - (k + 1)
      BY <1>2, <2>1, <2>3, <2>5, <3>1, <3>2
    <3> QED
      BY <2>1, <2>2, <3>3
  <2>6. Len(U[k]) = 1 \/ Len(U[k]) > 1
    BY <2>1, LayerLength
  <2> QED
    BY <2>4, <2>5, <2>6
<1> HIDE DEF T
<1>5. \A k \in Nat : k \in T
  BY <1>3, <1>4, Inductive
<1>6. \A k \in 0 .. m : IsLayer(U[k]) /\ (Len(U[k]) = 1 \/ Len(U[k]) <= m - k)
  BY <1>2, <1>5 DEF T
<1>7. IsLayer(U[m]) /\ (Len(U[m]) = 1 \/ Len(U[m]) <= m - m)
  BY <1>2, <1>6
<1>8. Len(U[m]) = 1
  <2>1. Len(U[m]) \in Nat \ {0}
    BY <1>7 DEF IsLayer
  <2> QED
    BY <1>2, <1>7, <2>1
<1>9. Tower(U, m)
  BY <1>1, <1>2, <1>6, <1>8 DEF Tower
<1> QED
  BY <1>1, <1>9 DEF U, m

(* Lists of one length under one root are the same list.                   *)
LEMMA SameHeightSameBase ==
    ASSUME NEW u, NEW v, NEW m, Tower(u, m), Tower(v, m),
           Len(u[0]) = Len(v[0]), u[m][1] = v[m][1]
    PROVE  u[0] = v[0]
PROOF
<1> DEFINE T == {k \in Nat : k <= m => Len(u[k]) = Len(v[k])}
           S == {k \in Nat : k <= m => u[m - k] = v[m - k]}
<1>0. m \in Nat
  BY DEF Tower
<1>1. \A k \in 0 .. m : IsLayer(u[k]) /\ IsLayer(v[k])
  BY DEF Tower
<1>2. \A k \in 0 .. m - 1 : u[k + 1] = Pairs(u[k]) /\ v[k + 1] = Pairs(v[k])
  BY DEF Tower
<1>3. 0 \in T
  OBVIOUS
<1>4. ASSUME NEW k \in Nat, k \in T
      PROVE  k + 1 \in T
  <2> SUFFICES ASSUME k + 1 <= m PROVE Len(u[k + 1]) = Len(v[k + 1])
    OBVIOUS
  <2>1. k \in 0 .. m - 1 /\ k \in 0 .. m /\ Len(u[k]) = Len(v[k])
    BY <1>0, <1>4
  <2>2. IsLayer(u[k]) /\ IsLayer(v[k]) /\ u[k + 1] = Pairs(u[k]) /\ v[k + 1] = Pairs(v[k])
    BY <1>1, <1>2, <2>1
  <2>3. CASE Len(u[k]) = 1
    BY <2>1, <2>2, <2>3, PairsIsLayer
  <2>4. CASE Len(u[k]) > 1
    BY <2>1, <2>2, <2>4, PairsLayer
  <2>5. Len(u[k]) = 1 \/ Len(u[k]) > 1
    BY <2>2, LayerLength
  <2> QED
    BY <2>3, <2>4, <2>5
<1> HIDE DEF T
<1>5. \A k \in Nat : k \in T
  BY <1>3, <1>4, Inductive
<1>6. \A k \in 0 .. m : Len(u[k]) = Len(v[k])
  BY <1>0, <1>5 DEF T
<1>7. 0 \in S
  <2>1. m - 0 = m /\ m \in 0 .. m
    BY <1>0
  <2>2. IsLayer(u[m]) /\ IsLayer(v[m]) /\ Len(u[m]) = 1 /\ Len(v[m]) = 1
    BY <1>1, <2>1 DEF Tower
  <2>3. \A i \in 1 .. 1 : u[m][i] = v[m][i]
    OBVIOUS
  <2>4. u[m] = v[m]
    BY <2>2, <2>3, LayersEqual
  <2> QED
    BY <2>1, <2>4
<1>8. ASSUME NEW k \in Nat, k \in S
      PROVE  k + 1 \in S
  <2> SUFFICES ASSUME k + 1 <= m PROVE u[m - (k + 1)] = v[m - (k + 1)]
    OBVIOUS
  <2> DEFINE d == m - (k + 1)
  <2>1. d \in 0 .. m - 1 /\ d \in 0 .. m /\ d + 1 = m - k /\ u[m - k] = v[m - k]
    BY <1>0, <1>8
  <2> HIDE DEF d
  <2>2. IsLayer(u[d]) /\ IsLayer(v[d]) /\ Len(u[d]) = Len(v[d])
    BY <1>1, <1>6, <2>1
  <2>3. Pairs(u[d]) = Pairs(v[d])
    BY <1>2, <2>1
  <2>4. u[d] = v[d]
    BY <2>2, <2>3, PairsInjective
  <2> QED
    BY <2>4 DEF d
<1> HIDE DEF S
<1>9. \A k \in Nat : k \in S
  BY <1>7, <1>8, Inductive
<1>10. m - m = 0 /\ m <= m
  BY <1>0
<1> QED
  BY <1>0, <1>9, <1>10 DEF S

(* Up to the first layer of one node, layers of distinct nodes are what    *)
(* they are however many there are.                                        *)
LEMMA TowerCut ==
    ASSUME NEW u, NEW m, Tower(u, m), Distinct(u[0])
    PROVE  \E d \in 0 .. m :
              /\ Tower(u, d) /\ u[d] = u[m]
              /\ \A k \in 0 .. d - 1 : Len(u[k]) > 1
              /\ \A k \in 0 .. d : Distinct(u[k])
PROOF
<1> DEFINE O == {k \in 0 .. m : Len(u[k]) = 1}
           T == {k \in Nat : k <= m => Distinct(u[k])}
<1>0. m \in Nat /\ m \in O
  BY DEF Tower
<1>1. \A k \in 0 .. m : IsLayer(u[k])
  BY DEF Tower
<1>2. \A k \in 0 .. m - 1 : u[k + 1] = Pairs(u[k])
  BY DEF Tower
<1>3. O \subseteq Nat /\ O # {}
  BY <1>0
<1>4. PICK d \in O : \A k \in O : d <= k
  BY <1>3, LeastNumber
<1>5. d \in 0 .. m /\ Len(u[d]) = 1 /\ d \in Nat
  BY <1>0
<1>6. ASSUME NEW k \in 0 .. d - 1
      PROVE  Len(u[k]) > 1
  <2>1. k \in 0 .. m /\ ~(d <= k)
    BY <1>0, <1>5
  <2>2. Len(u[k]) # 1
    BY <1>4, <2>1
  <2>3. IsLayer(u[k])
    BY <1>1, <2>1
  <2> QED
    BY <2>2, <2>3, LayerLength
<1>7. 0 \in T
  OBVIOUS
<1>8. ASSUME NEW k \in Nat, k \in T
      PROVE  k + 1 \in T
  <2> SUFFICES ASSUME k + 1 <= m PROVE Distinct(u[k + 1])
    OBVIOUS
  <2>1. k \in 0 .. m - 1 /\ k \in 0 .. m /\ Distinct(u[k])
    BY <1>0, <1>8
  <2> QED
    BY <1>1, <1>2, <2>1, PairsDistinct
<1> DEFINE S == {k \in Nat : d + k <= m => u[d + k] = u[d]}
<1>9. 0 \in S
  BY <1>5
<1>10. ASSUME NEW k \in Nat, k \in S
       PROVE  k + 1 \in S
  <2> SUFFICES ASSUME d + (k + 1) <= m PROVE u[d + (k + 1)] = u[d]
    OBVIOUS
  <2>1. d + k \in 0 .. m - 1 /\ d + (k + 1) = (d + k) + 1 /\ u[d + k] = u[d]
    BY <1>0, <1>5, <1>10
  <2>2. u[(d + k) + 1] = Pairs(u[d])
    BY <1>2, <2>1
  <2> QED
    BY <1>1, <1>5, <2>1, <2>2, PairsIsLayer
<1> HIDE DEF T, S, O
<1>11. \A k \in Nat : k \in T
  BY <1>7, <1>8, Inductive
<1>12. \A k \in Nat : k \in S
  BY <1>9, <1>10, Inductive
<1>13. u[d] = u[m]
  <2>1. m - d \in Nat /\ d + (m - d) = m /\ d + (m - d) <= m
    BY <1>0, <1>5
  <2> QED
    BY <1>12, <2>1 DEF S
<1>14. \A k \in 0 .. d : Distinct(u[k])
  BY <1>0, <1>5, <1>11 DEF T
<1>15. Tower(u, d)
  BY <1>0, <1>1, <1>2, <1>5 DEF Tower
<1> QED
  BY <1>5, <1>6, <1>13, <1>14, <1>15

(* A stack cut at its first single node, over distinct nodes.              *)
CutTower(u, d) ==
    /\ Tower(u, d)
    /\ \A k \in 0 .. d - 1 : Len(u[k]) > 1
    /\ \A k \in 0 .. d : Distinct(u[k])

(* Two such stacks with one top agree all the way down from it; a leaf is  *)
(* not a pair, so neither stack ends before the other.                     *)
LEMMA CutTowersAgree ==
    ASSUME NEW u, NEW v, NEW d, NEW e, CutTower(u, d), CutTower(v, e), d <= e,
           u[d] = v[e], \E c : u[0][1] = Leaf(c)
    PROVE  u[0] = v[0]
PROOF
<1> DEFINE S == {k \in Nat : k <= d => u[d - k] = v[e - k]}
<1>0. d \in Nat /\ e \in Nat
  BY DEF CutTower, Tower
<1>1. \A k \in 0 .. d : IsLayer(u[k]) /\ Distinct(u[k])
  BY DEF CutTower, Tower
<1>2. \A k \in 0 .. e : IsLayer(v[k]) /\ Distinct(v[k])
  BY DEF CutTower, Tower
<1>3. \A k \in 0 .. d - 1 : u[k + 1] = Pairs(u[k]) /\ Len(u[k]) > 1
  BY DEF CutTower, Tower
<1>4. \A k \in 0 .. e - 1 : v[k + 1] = Pairs(v[k]) /\ Len(v[k]) > 1
  BY DEF CutTower, Tower
<1>5. 0 \in S
  BY <1>0
<1>6. ASSUME NEW k \in Nat, k \in S
      PROVE  k + 1 \in S
  <2> SUFFICES ASSUME k + 1 <= d PROVE u[d - (k + 1)] = v[e - (k + 1)]
    OBVIOUS
  <2> DEFINE x == d - (k + 1)
             y == e - (k + 1)
  <2>1. /\ x \in 0 .. d - 1 /\ x \in 0 .. d /\ x + 1 = d - k
        /\ y \in 0 .. e - 1 /\ y \in 0 .. e /\ y + 1 = e - k
        /\ u[d - k] = v[e - k]
    BY <1>0, <1>6
  <2> HIDE DEF x, y
  <2>2. IsLayer(u[x]) /\ IsLayer(v[y]) /\ Distinct(u[x]) /\ Distinct(v[y])
    BY <1>1, <1>2, <2>1
  <2>3. Len(u[x]) > 1 /\ Len(v[y]) > 1 /\ Pairs(u[x]) = Pairs(v[y])
    BY <1>3, <1>4, <2>1
  <2>4. u[x] = v[y]
    BY <2>2, <2>3, DistinctPairsInjective
  <2> QED
    BY <2>4 DEF x, y
<1> HIDE DEF S
<1>7. \A k \in Nat : k \in S
  BY <1>5, <1>6, Inductive
<1>8. u[0] = v[e - d]
  <2>1. d - d = 0 /\ d <= d
    BY <1>0
  <2> QED
    BY <1>0, <1>7, <2>1 DEF S
<1>9. CASE d = e
  <2>1. e - d = 0
    BY <1>0, <1>9
  <2> QED
    BY <1>8, <2>1
<1>10. CASE d < e
  <2> DEFINE y == e - d - 1
  <2>1. y \in 0 .. e - 1 /\ y \in 0 .. e /\ y + 1 = e - d
    BY <1>0, <1>10
  <2> HIDE DEF y
  <2>2. u[0] = Pairs(v[y]) /\ Len(v[y]) > 1 /\ IsLayer(v[y])
    BY <1>2, <1>4, <1>8, <2>1
  <2>3. IsLayer(Pairs(v[y]))
    BY <2>2, PairsLayer
  <2>4. 1 \in 1 .. Len(Pairs(v[y]))
    BY <2>3, LayerLength
  <2>5. PICK a, b : Pairs(v[y])[1] = <<"node", a, b>>
    BY <2>2, <2>4, PairsLayer
  <2>6. PICK c : u[0][1] = <<"leaf", c>>
    BY DEF Leaf
  <2>7. <<"leaf", c>> # <<"node", a, b>>
    OBVIOUS
  <2> QED
    BY <2>2, <2>5, <2>6, <2>7
<1> QED
  BY <1>0, <1>9, <1>10

(* Lists of distinct leaves under one root are the same list.              *)
LEMMA DistinctLeavesBound ==
    ASSUME NEW s, NEW t, IsLayer(s), IsLayer(t), Distinct(s), Distinct(t),
           \E c : s[1] = Leaf(c), \E c : t[1] = Leaf(c), Merkle(s) = Merkle(t)
    PROVE  s = t
PROOF
<1> DEFINE U == Layers(s)
           V == Layers(t)
<1>1. Tower(U, Len(s)) /\ U[0] = s /\ Tower(V, Len(t)) /\ V[0] = t
  BY LayersTower
<1>2. U[Len(s)][1] = V[Len(t)][1]
  BY DEF Merkle
<1> HIDE DEF U, V
<1>3. ASSUME NEW x, NEW m, Tower(x, m), Distinct(x[0])
      PROVE  \E d \in Nat : CutTower(x, d) /\ x[d] = x[m]
  <2>1. PICK d \in 0 .. m :
              /\ Tower(x, d) /\ x[d] = x[m]
              /\ \A k \in 0 .. d - 1 : Len(x[k]) > 1
              /\ \A k \in 0 .. d : Distinct(x[k])
    BY <1>3, TowerCut
  <2>2. d \in Nat
    BY <1>3 DEF Tower
  <2> QED
    BY <2>1, <2>2 DEF CutTower
<1>4. PICK d \in Nat : CutTower(U, d) /\ U[d] = U[Len(s)]
  BY <1>1, <1>3
<1>5. PICK e \in Nat : CutTower(V, e) /\ V[e] = V[Len(t)]
  BY <1>1, <1>3
<1>6. U[d] = V[e]
  <2>1. Tower(U, d) /\ Tower(V, e)
    BY <1>4, <1>5 DEF CutTower
  <2>2. IsLayer(U[d]) /\ IsLayer(V[e]) /\ Len(U[d]) = 1 /\ Len(V[e]) = 1
    BY <2>1 DEF Tower
  <2>3. \A i \in 1 .. 1 : U[d][i] = V[e][i]
    BY <1>2, <1>4, <1>5
  <2> QED
    BY <2>2, <2>3, LayersEqual
<1>7. CASE d <= e
  BY <1>1, <1>4, <1>5, <1>6, <1>7, CutTowersAgree
<1>8. CASE e <= d
  BY <1>1, <1>4, <1>5, <1>6, <1>8, CutTowersAgree
<1> QED
  BY <1>7, <1>8

(***************************************************************************)
(* The roots.                                                              *)
(***************************************************************************)
LeavesOf(cs) == [i \in DOMAIN cs |-> Leaf(cs[i])]

(* The leaves of a list that is not empty are a layer as long as the list. *)
LEMMA LeavesLayer ==
    ASSUME NEW cs \in Seq(Commitment), cs # <<>>
    PROVE  /\ IsLayer(LeavesOf(cs)) /\ Len(LeavesOf(cs)) = Len(cs)
           /\ \A i \in 1 .. Len(cs) : LeavesOf(cs)[i] = Leaf(cs[i])
           /\ \E c : LeavesOf(cs)[1] = Leaf(c)
PROOF
<1>1. Len(cs) \in Nat \ {0} /\ DOMAIN cs = 1 .. Len(cs)
  OBVIOUS
<1> DEFINE m == Len(cs)
           N(i) == Leaf(cs[i])
<1>2. LeavesOf(cs) = [i \in 1 .. m |-> N(i)]
  BY <1>1 DEF LeavesOf
<1>3. m \in Nat \ {0}
  BY <1>1
<1> HIDE DEF m, N
<1>4. DOMAIN LeavesOf(cs) = 1 .. m /\ \A i \in 1 .. m : LeavesOf(cs)[i] = N(i)
  BY <1>2
<1>5. LeavesOf(cs) \in Seq({N(i) : i \in 1 .. m})
  BY <1>2, <1>3
<1>6. Len(LeavesOf(cs)) = m
  BY <1>3, <1>4, <1>5
<1>7. IsLayer(LeavesOf(cs))
  BY <1>2, <1>3, <1>4, <1>6 DEF IsLayer
<1>8. LeavesOf(cs)[1] = N(1)
  BY <1>3, <1>4
<1> QED
  BY <1>4, <1>6, <1>7, <1>8 DEF m, N

(* Lists are equal when their leaves are.                                  *)
LEMMA LeavesInjective ==
    ASSUME NEW cs \in Seq(Commitment), NEW ds \in Seq(Commitment), cs # <<>>, ds # <<>>,
           LeavesOf(cs) = LeavesOf(ds)
    PROVE  cs = ds
PROOF
<1>1. Len(cs) = Len(ds)
  BY LeavesLayer
<1>2. ASSUME NEW i \in 1 .. Len(cs)
      PROVE  cs[i] = ds[i]
  <2>1. Leaf(cs[i]) = Leaf(ds[i])
    BY <1>1, LeavesLayer
  <2> QED
    BY <2>1 DEF Leaf
<1> QED
  BY <1>1, <1>2

(* Numbers that increase from each to the next increase over any distance. *)
LEMMA StepsIncrease ==
    ASSUME NEW m \in Nat, NEW q \in [1 .. m -> Int], \A i \in 1 .. m - 1 : q[i] < q[i + 1]
    PROVE  \A i, j \in 1 .. m : i < j => q[i] < q[j]
PROOF
<1> DEFINE T == {k \in Nat : \A i \in 1 .. m : i + (k + 1) <= m => q[i] < q[i + (k + 1)]}
<1>1. 0 \in T
  OBVIOUS
<1>2. ASSUME NEW k \in Nat, k \in T
      PROVE  k + 1 \in T
  <2>1. SUFFICES ASSUME NEW i \in 1 .. m, i + ((k + 1) + 1) <= m
                 PROVE  q[i] < q[i + ((k + 1) + 1)]
    OBVIOUS
  <2> DEFINE j == i + (k + 1)
  <2>2. /\ j \in 1 .. m - 1 /\ j \in 1 .. m /\ j + 1 \in 1 .. m
        /\ i + ((k + 1) + 1) = j + 1 /\ i + (k + 1) <= m
    BY <2>1
  <2>3. q[i] < q[j]
    BY <1>2, <2>2
  <2> HIDE DEF j
  <2>4. q[j] < q[j + 1]
    BY <2>2
  <2>5. q[i] \in Int /\ q[j] \in Int /\ q[j + 1] \in Int
    BY <2>2
  <2>6. q[i] < q[j + 1]
    BY <2>3, <2>4, <2>5
  <2> QED
    BY <2>2, <2>6
<1> HIDE DEF T
<1>3. \A k \in Nat : k \in T
  BY <1>1, <1>2, Inductive
<1>4. SUFFICES ASSUME NEW i \in 1 .. m, NEW j \in 1 .. m, i < j
               PROVE  q[i] < q[j]
  OBVIOUS
<1>5. j - i - 1 \in Nat /\ i + ((j - i - 1) + 1) = j /\ j <= m
  BY <1>4
<1> QED
  BY <1>3, <1>5 DEF T

(* The sequence numbers of a list that may be rooted increase.             *)
LEMMA SeqIncreases ==
    ASSUME NEW cs \in Seq(Commitment), CanRoot(cs)
    PROVE  \A i, j \in 1 .. Len(cs) : i < j => cs[i].seq < cs[j].seq
PROOF
<1> DEFINE q == [i \in 1 .. Len(cs) |-> cs[i].seq]
<1>1. Len(cs) \in Nat /\ DOMAIN cs = 1 .. Len(cs) /\ \A i \in 1 .. Len(cs) : cs[i] \in Commitment
  OBVIOUS
<1>2. q \in [1 .. Len(cs) -> Int]
  BY <1>1, JobsAssumption
<1>3. \A l \in DOMAIN cs : cs[l].seq > (IF l = 1 THEN 0 ELSE cs[l - 1].seq)
  BY DEF CanRoot
<1>4. ASSUME NEW i \in 1 .. Len(cs) - 1
      PROVE  q[i] < q[i + 1]
  <2>1. i + 1 \in DOMAIN cs /\ i + 1 # 1 /\ (i + 1) - 1 = i /\ i \in 1 .. Len(cs)
    BY <1>1
  <2>2. cs[i + 1].seq > cs[i].seq
    BY <1>3, <2>1
  <2>3. q[i + 1] = cs[i + 1].seq /\ q[i] = cs[i].seq
    BY <1>1, <2>1
  <2>4. q[i] \in Int /\ q[i + 1] \in Int
    BY <1>1, <1>2, <2>1
  <2> HIDE DEF q
  <2> QED
    BY <2>2, <2>3, <2>4
<1>5. \A i \in 1 .. Len(cs) : q[i] = cs[i].seq
  OBVIOUS
<1> HIDE DEF q
<1>6. \A i, j \in 1 .. Len(cs) : i < j => q[i] < q[j]
  BY <1>1, <1>2, <1>4, StepsIncrease
<1> QED
  BY <1>5, <1>6

(* So a list that may be rooted has distinct leaves.                       *)
LEMMA RootableDistinct ==
    ASSUME NEW cs \in Seq(Commitment), CanRoot(cs)
    PROVE  cs # <<>> /\ Distinct(LeavesOf(cs))
PROOF
<1>1. cs # <<>>
  BY DEF CanRoot
<1>2. Len(cs) \in Nat /\ \A i \in 1 .. Len(cs) : cs[i] \in Commitment
  OBVIOUS
<1>3. SUFFICES ASSUME NEW i \in 1 .. Len(cs), NEW j \in 1 .. Len(cs),
                      LeavesOf(cs)[i] = LeavesOf(cs)[j]
               PROVE  i = j
  BY <1>1, LeavesLayer DEF Distinct
<1>4. Leaf(cs[i]) = Leaf(cs[j])
  BY <1>1, <1>3, LeavesLayer
<1>5. cs[i].seq = cs[j].seq /\ cs[i].seq \in Int
  BY <1>2, <1>4, JobsAssumption DEF Leaf
<1>6. ~(i < j) /\ ~(j < i)
  <2>1. ~(cs[i].seq < cs[j].seq) /\ ~(cs[j].seq < cs[i].seq)
    BY <1>5
  <2> QED
    BY <2>1, SeqIncreases
<1> QED
  BY <1>2, <1>6

(* No two lists of receipts that may be sealed have one root.              *)
LEMMA ReceiptRootBinds ==
    ASSUME NEW cs \in Seq(Commitment), NEW ds \in Seq(Commitment), CanRoot(cs), CanRoot(ds),
           ReceiptRoot(cs) = ReceiptRoot(ds)
    PROVE  cs = ds
PROOF
<1>1. cs # <<>> /\ ds # <<>> /\ Distinct(LeavesOf(cs)) /\ Distinct(LeavesOf(ds))
  BY RootableDistinct
<1>2. Merkle(LeavesOf(cs)) = Merkle(LeavesOf(ds))
  BY DEF ReceiptRoot, LeavesOf
<1>3. LeavesOf(cs) = LeavesOf(ds)
  BY <1>1, <1>2, LeavesLayer, DistinctLeavesBound
<1> QED
  BY <1>1, <1>3, LeavesInjective

(* A list that is not empty is a layer.                                    *)
LEMMA SeqIsLayer ==
    ASSUME NEW S, NEW s \in Seq(S), s # <<>>
    PROVE  IsLayer(s)
PROOF
BY DEF IsLayer

(* No two lists of one length have one settlement root.                    *)
LEMMA SettleRootBinds ==
    ASSUME NEW cs \in Seq(Commitment), NEW ds \in Seq(Commitment), Len(cs) = Len(ds),
           SettleRoot(cs) = SettleRoot(ds)
    PROVE  cs = ds
PROOF
<1>1. CASE cs = <<>>
  BY <1>1
<1>2. CASE cs # <<>>
  <2>1. ds # <<>>
    BY <1>2
  <2>2. Merkle(cs) = Merkle(ds)
    BY <1>2, <2>1 DEF SettleRoot
  <2> DEFINE U == Layers(cs)
             V == Layers(ds)
             m == Len(cs)
  <2>3. IsLayer(cs) /\ IsLayer(ds) /\ m = Len(ds)
    BY <1>2, <2>1, SeqIsLayer
  <2>4. Tower(U, m) /\ Tower(V, m) /\ U[0] = cs /\ V[0] = ds
    BY <2>3, LayersTower
  <2>5. U[m][1] = V[m][1]
    BY <2>2, <2>3 DEF Merkle
  <2>6. Len(U[0]) = Len(V[0])
    BY <2>3, <2>4
  <2> HIDE DEF U, V, m
  <2>7. U[0] = V[0]
    BY <2>4, <2>5, <2>6, SameHeightSameBase
  <2> QED
    BY <2>4, <2>7
<1> QED
  BY <1>1, <1>2

(***************************************************************************)
(* The search.                                                             *)
(***************************************************************************)
LiveType == [Agreements -> [terms : {0, 1}, tail : 1 .. MaxTail]]
Labels == {"poll", "test", "store", "flag", "returned"}

(* The root as it was taken.                                               *)
RootTaken ==
    IF job.kind = "receipts" THEN ReceiptRoot(job.input) ELSE Folded(job.input, rooted)

(* The call was accepted, and what was rooted is remembered.               *)
Started == Accepts /\ job.kind \in {"receipts", "agreements"} /\ rooted \in LiveType

(* A worker about to publish its nonce holds a solution, and the published *)
(* nonce is one from the moment a worker is about to raise the flag: other *)
(* workers only overwrite it with another solution.  No worker returns     *)
(* before the flag is up.                                                  *)
Searching ==
    /\ Started
    /\ header = [parent |-> job.parent, root |-> RootTaken, bits |-> job.bits]
    /\ pc \in [0 .. job.workers - 1 -> Labels]
    /\ n \in [0 .. job.workers - 1 -> 0 .. Nonces - 1]
    /\ \A w \in 0 .. job.workers - 1 : pc[w] \in {"store", "flag"} => zeros[n[w]] >= job.bits
    /\ ok = TRUE \/ (\E w \in 0 .. job.workers - 1 : pc[w] = "flag") =>
          found \in 0 .. Nonces - 1 /\ zeros[found] >= job.bits
    /\ \A w \in 0 .. job.workers - 1 : pc[w] = "returned" => ok = TRUE

HeaderWith(k) == [parent |-> job.parent, root |-> RootTaken, bits |-> job.bits, nonce |-> k]

Sealed ==
    /\ Started
    /\ \E k \in 0 .. Nonces - 1 :
          zeros[k] >= job.bits /\ batch = [input |-> job.input, header |-> HeaderWith(k)]
    /\ \A w \in DOMAIN pc : pc[w] = "returned"

Settled == pc = <<>> /\ batch.root = SettleRoot(job.input)

(* The inductive invariant.                                                *)
SealInv ==
    /\ job \in Jobs
    /\ zeros \in [0 .. Nonces - 1 -> 0 .. MaxZeros]
    /\ live \in LiveType
    /\ ok \in BOOLEAN
    /\ phase \in {"called", "refused", "searching", "done"}
    /\ phase = "called" => ok = FALSE
    /\ phase \in {"called", "refused"} => pc = <<>>
    /\ phase = "searching" => Searching
    /\ phase = "done" => IF job.kind = "settle" THEN Settled ELSE Sealed

(* What acceptance leaves of the call.                                     *)
LEMMA AcceptFacts ==
    ASSUME job \in Jobs, Accepts, job.kind \in {"receipts", "agreements"}
    PROVE  /\ job.bits \in Int /\ job.bits >= 0
           /\ job.kind = "receipts" =>
                 CanRoot(job.input) /\ job.bits >= 1 /\ job.input \in Seq(Commitment)
           /\ job.kind = "agreements" =>
                 CanFold(job.input) /\ job.input \in Seq(Agreements \cup {Nil})
PROOF
<1>1. job.bits \in Int
  BY JobsAssumption
<1>2. job.bits >= 0
  BY <1>1 DEF Accepts
<1>3. ASSUME job.kind = "receipts"
      PROVE  CanRoot(job.input) /\ job.bits >= 1 /\ job.input \in Seq(Commitment)
  <2>1. CanRoot(job.input) /\ job.bits \in 1 .. 24
    BY <1>3 DEF Accepts
  <2>2. job.bits >= 1
    BY <1>1, <2>1
  <2>3. job.input \in Seq(Commitment)
    BY <1>3, JobsAssumption
  <2> QED
    BY <2>1, <2>2, <2>3
<1>4. ASSUME job.kind = "agreements"
      PROVE  CanFold(job.input) /\ job.input \in Seq(Agreements \cup {Nil})
  BY <1>4, JobsAssumption DEF Accepts
<1> QED
  BY <1>1, <1>2, <1>3, <1>4

(* At the call nothing has been found.                                     *)
LEMMA SealInitKeeps == SealInit => SealInv
PROOF
<1> SUFFICES ASSUME SealInit PROVE SealInv
  OBVIOUS
<1>1. live \in LiveType
  BY SealingAssumption DEF SealInit, LiveType
<1> QED
  BY <1>1 DEF SealInit, SealInv

(* What was accepted stays accepted, with the root it had.                 *)
LEMMA StartedStays ==
    ASSUME job' = job, rooted' = rooted
    PROVE  Started' = Started /\ RootTaken' = RootTaken
PROOF
  BY DEF Started, Accepts, RootTaken

(* Starting the search.                                                    *)
LEMMA StartSealKeeps ==
    ASSUME SealInv, StartSeal
    PROVE  SealInv'
PROOF
<1>1. job' = job /\ live' = live /\ zeros' = zeros /\ batch' = batch
  BY DEF StartSeal
<1>2. phase = "called" /\ job.kind \in {"receipts", "agreements"} /\ pc = <<>> /\ ok = FALSE
  BY DEF StartSeal, SealInv
<1>3. CASE Accepts
  <2>1. /\ phase' = "searching" /\ rooted' = live /\ ok' = FALSE
        /\ header' = [parent |-> job.parent, root |-> Root, bits |-> job.bits]
        /\ pc' = [w \in 0 .. job.workers - 1 |-> "poll"]
        /\ n' = [w \in 0 .. job.workers - 1 |-> w]
    BY <1>2, <1>3 DEF StartSeal
  <2>2. Started'
    BY <1>1, <1>2, <1>3, <2>1 DEF Started, Accepts, SealInv
  <2>3. RootTaken' = Root
    BY <1>1, <2>1 DEF RootTaken, Root
  <2>4. pc' \in [0 .. job.workers - 1 -> Labels] /\ \A w \in 0 .. job.workers - 1 : pc'[w] = "poll"
    BY <2>1 DEF Labels
  <2>5. n' \in [0 .. job.workers - 1 -> 0 .. Nonces - 1]
    <3>1. job.workers \in 1 .. Nonces /\ Nonces \in Nat
      BY JobsAssumption, SealingAssumption DEF SealInv
    <3> QED
      BY <2>1, <3>1
  <2>6. Searching'
    BY <1>1, <2>1, <2>2, <2>3, <2>4, <2>5 DEF Searching
  <2> QED
    BY <1>1, <2>1, <2>6 DEF SealInv
<1>4. CASE ~Accepts
  <2>1. phase' = "refused" /\ pc' = pc /\ ok' = ok
    BY <1>2, <1>4 DEF StartSeal, searchVars
  <2> QED
    BY <1>1, <1>2, <2>1 DEF SealInv
<1> QED
  BY <1>3, <1>4

(* A settlement batch is built in one step.                                *)
LEMMA CommitKeeps ==
    ASSUME SealInv, Commit
    PROVE  SealInv'
PROOF
<1>1. /\ job' = job /\ live' = live /\ zeros' = zeros /\ pc' = pc /\ ok' = ok /\ phase' = "done"
      /\ job.kind = "settle" /\ phase = "called" /\ pc = <<>>
  BY DEF Commit, searchVars, SealInv
<1>2. batch'.root = SettleRoot(job.input)
  BY DEF Commit
<1>3. Settled'
  BY <1>1, <1>2 DEF Settled
<1> QED
  BY <1>1, <1>3 DEF SealInv

(* An agreement that moves leaves what was rooted alone.                   *)
LEMMA MoveKeeps ==
    ASSUME SealInv, NEW a \in Agreements, Move(a)
    PROVE  SealInv'
PROOF
<1>1. /\ job' = job /\ zeros' = zeros /\ phase' = phase /\ header' = header /\ pc' = pc
      /\ n' = n /\ found' = found /\ ok' = ok /\ batch' = batch /\ rooted' = rooted
  BY DEF Move, searchVars
<1>2. PICK terms \in {live[a].terms, 1}, tail \in {live[a].tail, live[a].tail + 1} :
          tail <= MaxTail /\ live' = [live EXCEPT ![a] = [terms |-> terms, tail |-> tail]]
  BY DEF Move
<1>3. live[a] \in [terms : {0, 1}, tail : 1 .. MaxTail]
  BY DEF SealInv, LiveType
<1>4. terms \in {0, 1} /\ tail \in 1 .. MaxTail
  BY <1>2, <1>3, SealingAssumption
<1>5. live' \in LiveType
  BY <1>2, <1>4 DEF SealInv, LiveType
<1>6. Searching' = Searching /\ Sealed' = Sealed /\ Settled' = Settled
  BY <1>1, StartedStays DEF Searching, Sealed, Settled, HeaderWith
<1> QED
  BY <1>1, <1>5, <1>6 DEF SealInv

(* A step of a worker.                                                     *)
LEMMA WorkerKeeps ==
    ASSUME SealInv, NEW w \in DOMAIN pc, Worker(w)
    PROVE  SealInv'
PROOF
<1> DEFINE W == 0 .. job.workers - 1
<1>1. /\ job' = job /\ zeros' = zeros /\ live' = live /\ phase' = phase /\ header' = header
      /\ batch' = batch /\ rooted' = rooted
  BY DEF Worker, Poll, Test, StoreFound, StoreFlag
<1>2. pc[w] \in {"poll", "test", "store", "flag"}
  BY DEF Worker, Poll, Test, StoreFound, StoreFlag
<1>3. phase = "searching"
  <2>1. ~(phase \in {"called", "refused"})
    BY DEF SealInv
  <2>2. ~(phase = "done")
    <3>1. ~Settled /\ ~Sealed
      BY <1>2 DEF Settled, Sealed
    <3> QED
      BY <3>1 DEF SealInv
  <2> QED
    BY <2>1, <2>2 DEF SealInv
<1>4. /\ Started /\ header = [parent |-> job.parent, root |-> RootTaken, bits |-> job.bits]
      /\ pc \in [W -> Labels] /\ n \in [W -> 0 .. Nonces - 1]
      /\ \A x \in W : pc[x] \in {"store", "flag"} => zeros[n[x]] >= job.bits
      /\ ok = TRUE \/ (\E x \in W : pc[x] = "flag") =>
            found \in 0 .. Nonces - 1 /\ zeros[found] >= job.bits
      /\ \A x \in W : pc[x] = "returned" => ok = TRUE
  BY <1>3 DEF SealInv, Searching
<1>5. w \in W /\ ok \in BOOLEAN
  BY <1>4 DEF SealInv
<1>6. job.workers \in Nat /\ Nonces \in Nat \ {0}
  BY JobsAssumption, SealingAssumption DEF SealInv
<1> HIDE DEF W
<1>7. /\ Started' /\ header' = [parent |-> job'.parent, root |-> RootTaken', bits |-> job'.bits]
  BY <1>1, <1>4, StartedStays
<1>8. SUFFICES /\ pc' \in [W -> Labels] /\ n' \in [W -> 0 .. Nonces - 1] /\ ok' \in BOOLEAN
               /\ \A x \in W : pc'[x] \in {"store", "flag"} => zeros[n'[x]] >= job.bits
               /\ ok' = TRUE \/ (\E x \in W : pc'[x] = "flag") =>
                     found' \in 0 .. Nonces - 1 /\ zeros[found'] >= job.bits
               /\ \A x \in W : pc'[x] = "returned" => ok' = TRUE
  <2>1. Searching'
    BY <1>1, <1>7, <1>8 DEF Searching, W
  <2> QED
    BY <1>1, <1>3, <1>8, <2>1 DEF SealInv
<1>9. CASE Poll(w)
  <2>1. n' = n /\ found' = found /\ ok' = ok
    BY <1>9 DEF Poll
  <2>2. CASE ok = TRUE
    <3>1. pc' = [pc EXCEPT ![w] = "returned"]
      BY <1>9, <2>2 DEF Poll, Goto
    <3> QED
      BY <1>4, <1>5, <2>1, <2>2, <3>1 DEF Labels
  <2>3. CASE ok = FALSE
    <3>1. pc' = [pc EXCEPT ![w] = "test"]
      BY <1>9, <2>3 DEF Poll, Goto
    <3> QED
      BY <1>4, <1>5, <2>1, <2>3, <3>1 DEF Labels
  <2> QED
    BY <1>5, <2>2, <2>3
<1>10. CASE Test(w)
  <2>1. found' = found /\ ok' = ok
    BY <1>10 DEF Test
  <2>2. CASE zeros[n[w]] >= job.bits
    <3>1. pc' = [pc EXCEPT ![w] = "store"] /\ n' = n
      BY <1>10, <2>2 DEF Test, Goto
    <3> QED
      BY <1>4, <1>5, <2>1, <2>2, <3>1 DEF Labels
  <2>3. CASE ~(zeros[n[w]] >= job.bits)
    <3>1. /\ pc' = [pc EXCEPT ![w] = "poll"]
          /\ n' = [n EXCEPT ![w] = (n[w] + job.workers) % Nonces]
      BY <1>10, <2>3 DEF Test, Goto
    <3>2. n[w] \in Nat
      BY <1>4, <1>5
    <3>3. (n[w] + job.workers) % Nonces \in 0 .. Nonces - 1
      BY <1>6, <3>2
    <3> QED
      BY <1>4, <1>5, <2>1, <3>1, <3>3 DEF Labels
  <2> QED
    BY <2>2, <2>3
<1>11. CASE StoreFound(w)
  <2>1. pc[w] = "store" /\ pc' = [pc EXCEPT ![w] = "flag"] /\ found' = n[w] /\ n' = n /\ ok' = ok
    BY <1>11 DEF StoreFound, Goto
  <2>2. zeros[n[w]] >= job.bits /\ n[w] \in 0 .. Nonces - 1
    BY <1>4, <1>5, <2>1
  <2> QED
    BY <1>4, <1>5, <2>1, <2>2 DEF Labels
<1>12. CASE StoreFlag(w)
  <2>1. /\ pc[w] = "flag" /\ pc' = [pc EXCEPT ![w] = "returned"] /\ n' = n /\ found' = found
        /\ ok' = TRUE
    BY <1>12 DEF StoreFlag, Goto
  <2> QED
    BY <1>4, <1>5, <2>1 DEF Labels
<1> QED
  BY <1>9, <1>10, <1>11, <1>12 DEF Worker

(* All workers have returned, so the flag is up and the nonce a solution:  *)
(* the last test cannot fail.                                              *)
LEMMA FinishKeeps ==
    ASSUME SealInv, Finish
    PROVE  SealInv'
PROOF
<1>1. /\ job' = job /\ zeros' = zeros /\ live' = live /\ header' = header /\ pc' = pc /\ n' = n
      /\ found' = found /\ ok' = ok /\ rooted' = rooted /\ phase = "searching"
      /\ \A w \in DOMAIN pc : pc[w] = "returned"
  BY DEF Finish, searchVars
<1>2. Searching /\ job \in Jobs
  BY <1>1 DEF SealInv
<1>3. Started /\ job.kind \in {"receipts", "agreements"}
  BY <1>2 DEF Searching, Started
<1>4. 0 \in DOMAIN pc /\ 0 \in 0 .. job.workers - 1
  BY <1>2, JobsAssumption, SealingAssumption DEF Searching
<1>5. found \in 0 .. Nonces - 1 /\ zeros[found] >= job.bits
  BY <1>1, <1>2, <1>4 DEF Searching
<1> DEFINE h == [parent |-> header.parent, root |-> header.root, bits |-> header.bits,
                 nonce |-> found]
<1>6. h = HeaderWith(found) /\ h.bits = job.bits /\ h.nonce = found
  BY <1>2 DEF Searching, HeaderWith
<1>7. job.bits >= 0
  BY <1>2, <1>3, AcceptFacts DEF Started
<1>8. Valid(h)
  BY <1>5, <1>6, <1>7 DEF Valid
<1>9. phase' = "done" /\ batch' = [input |-> job.input, header |-> h]
  BY <1>8 DEF Finish
<1> HIDE DEF h
<1>10. HeaderWith(found)' = HeaderWith(found) /\ Started'
  BY <1>1, <1>3, StartedStays DEF HeaderWith
<1>11. batch' = [input |-> job'.input, header |-> HeaderWith(found)']
  BY <1>1, <1>6, <1>9, <1>10
<1>12. Sealed'
  BY <1>1, <1>5, <1>10, <1>11 DEF Sealed, HeaderWith
<1> QED
  BY <1>1, <1>3, <1>9, <1>12 DEF SealInv

(* Every step keeps the invariant.                                         *)
LEMMA SealStepKeeps ==
    ASSUME SealInv, [SealNext]_sealVars
    PROVE  SealInv'
PROOF
<1>1. CASE UNCHANGED sealVars
  <2>1. /\ job' = job /\ zeros' = zeros /\ phase' = phase /\ header' = header /\ pc' = pc
        /\ n' = n /\ found' = found /\ ok' = ok /\ batch' = batch /\ rooted' = rooted
        /\ live' = live
    BY <1>1 DEF sealVars
  <2>2. Searching' = Searching /\ Sealed' = Sealed /\ Settled' = Settled
    BY <2>1, StartedStays DEF Searching, Sealed, Settled, HeaderWith
  <2> QED
    BY <2>1, <2>2 DEF SealInv
<1>2. CASE SealNext
  BY <1>2, StartSealKeeps, CommitKeeps, WorkerKeeps, FinishKeeps, MoveKeeps DEF SealNext
<1> QED
  BY <1>1, <1>2

(* The inductive invariant of sealing.                                     *)
LEMMA SealInvariant == SealSpec => []SealInv
PROOF
<1>1. SealInit => SealInv
  BY SealInitKeeps
<1>2. SealInv /\ [SealNext]_sealVars => SealInv'
  BY SealStepKeeps
<1> QED
  BY <1>1, <1>2, PTL DEF SealSpec

(* The batch of a search that is done.                                     *)
LEMMA SealedBatch ==
    ASSUME SealInv, phase = "done", job.kind \in {"receipts", "agreements"}
    PROVE  /\ Accepts /\ rooted \in LiveType
           /\ \E k \in 0 .. Nonces - 1 :
                 /\ batch = [input |-> job.input, header |-> HeaderWith(k)]
                 /\ zeros[k] >= job.bits
                 /\ Valid(HeaderWith(k))
PROOF
<1>1. Sealed /\ job \in Jobs
  BY DEF SealInv
<1>2. Accepts /\ rooted \in LiveType
  BY <1>1 DEF Sealed, Started
<1>3. PICK k \in 0 .. Nonces - 1 :
          zeros[k] >= job.bits /\ batch = [input |-> job.input, header |-> HeaderWith(k)]
  BY <1>1 DEF Sealed
<1>4. job.bits >= 0
  BY <1>1, <1>2, AcceptFacts
<1>5. Valid(HeaderWith(k))
  BY <1>3, <1>4 DEF Valid, HeaderWith
<1> QED
  BY <1>2, <1>3, <1>5

(* SealVerifies holds: whatever the interleaving of the workers of         *)
(* pow.Search, the search does not fail, and what SealReceipts and Seal    *)
(* return passes VerifyReceiptBatch and Verify for its own parent and the  *)
(* floors up to its difficulty only.                                       *)
THEOREM SealsVerify == SealSpec => []SealVerifies
PROOF
<1>1. SealInv => SealVerifies
  <2> SUFFICES ASSUME SealInv PROVE SealVerifies
    OBVIOUS
  <2>1. phase # "failed" /\ job \in Jobs
    BY DEF SealInv
  <2>2. ASSUME phase = "done", job.kind = "receipts",
               NEW parent, NEW floor \in 0 .. MaxZeros + 1
        PROVE  VerifyReceiptBatch(batch, parent, floor)
                  <=> parent = job.parent /\ floor \in 1 .. job.bits
    <3>1. PICK k \in 0 .. Nonces - 1 :
              /\ batch = [input |-> job.input, header |-> HeaderWith(k)]
              /\ zeros[k] >= job.bits /\ Valid(HeaderWith(k))
      BY <2>2, SealedBatch
    <3>2. job.bits \in Int /\ CanRoot(job.input)
      BY <2>1, <2>2, SealedBatch, AcceptFacts
    <3>3. /\ batch.input = job.input /\ batch.header = HeaderWith(k)
          /\ HeaderWith(k).bits = job.bits /\ HeaderWith(k).parent = job.parent
          /\ HeaderWith(k).root = ReceiptRoot(job.input)
      BY <2>2, <3>1 DEF HeaderWith, RootTaken
    <3>4. floor \in Int
      BY SealingAssumption
    <3>5. floor >= 1 /\ job.bits >= floor <=> floor \in 1 .. job.bits
      BY <3>2, <3>4
    <3> QED
      BY <3>1, <3>2, <3>3, <3>5 DEF VerifyReceiptBatch
  <2>3. ASSUME phase = "done", job.kind = "agreements", NEW floor \in 0 .. MaxZeros + 1
        PROVE  Verify(batch.input, rooted, batch.header, floor) <=> floor <= job.bits
    <3>1. PICK k \in 0 .. Nonces - 1 :
              /\ batch = [input |-> job.input, header |-> HeaderWith(k)]
              /\ zeros[k] >= job.bits /\ Valid(HeaderWith(k))
      BY <2>3, SealedBatch
    <3>2. job.bits \in Int /\ CanFold(job.input)
      BY <2>1, <2>3, SealedBatch, AcceptFacts
    <3>3. /\ batch.input = job.input /\ batch.header = HeaderWith(k)
          /\ HeaderWith(k).bits = job.bits
          /\ HeaderWith(k).root = Folded(job.input, rooted)
      BY <2>3, <3>1 DEF HeaderWith, RootTaken
    <3>4. floor \in Int
      BY SealingAssumption
    <3>5. job.bits >= floor <=> floor <= job.bits
      BY <3>2, <3>4
    <3> QED
      BY <3>1, <3>2, <3>3, <3>5 DEF Verify
  <2> QED
    BY <2>1, <2>2, <2>3 DEF SealVerifies
<1> QED
  BY <1>1, SealInvariant, PTL

(* The lists a batch is compared with are sequences.                       *)
LEMMA ListsAreSeqs ==
    ASSUME NEW S, NEW m \in Nat, NEW cs \in UNION {[1 .. len -> S] : len \in 0 .. m}
    PROVE  cs \in Seq(S)
PROOF
<1>1. PICK len \in 0 .. m : cs \in [1 .. len -> S]
  OBVIOUS
<1>2. len \in Nat
  OBVIOUS
<1> QED
  BY <1>1, <1>2

(* The elements of a sequence.                                             *)
LEMMA SeqFacts ==
    ASSUME NEW S, NEW s \in Seq(S)
    PROVE  Len(s) \in Nat /\ DOMAIN s = 1 .. Len(s) /\ \A i \in 1 .. Len(s) : s[i] \in S
PROOF
  OBVIOUS

(* Sequences are equal when their lengths and elements are.                *)
LEMMA SameSeq ==
    ASSUME NEW S, NEW s \in Seq(S), NEW t \in Seq(S), Len(s) = Len(t),
           \A i \in 1 .. Len(s) : s[i] = t[i]
    PROVE  s = t
PROOF
  OBVIOUS

(* Intervals from 1 are told apart by their ends.                          *)
LEMMA IntervalsEqual ==
    ASSUME NEW a \in Nat, NEW b \in Nat, 1 .. a = 1 .. b
    PROVE  a = b
PROOF
<1>1. a <= b
  <2>1. CASE a = 0
    BY <2>1
  <2>2. CASE a # 0
    <3>1. a \in 1 .. a
      BY <2>2
    <3> QED
      BY <3>1
  <2> QED
    BY <2>1, <2>2
<1>2. b <= a
  <2>1. CASE b = 0
    BY <2>1
  <2>2. CASE b # 0
    <3>1. b \in 1 .. b
      BY <2>2
    <3> QED
      BY <3>1
  <2> QED
    BY <2>1, <2>2
<1> QED
  BY <1>1, <1>2

(* What l2.Root folds of a list of agreements tells the list, and the      *)
(* terms and the last receipt of each agreement.                           *)
LEMMA FoldedBinds ==
    ASSUME NEW as \in Seq(Agreements \cup {Nil}), NEW bs \in Seq(Agreements \cup {Nil}),
           CanFold(as), CanFold(bs), NEW f \in LiveType, NEW g \in LiveType
    PROVE  Folded(as, f) = Folded(bs, g) <=> as = bs /\ \A i \in DOMAIN as : f[as[i]] = g[as[i]]
PROOF
<1> DEFINE A(i) == <<as[i], f[as[i]].terms, f[as[i]].tail>>
           B(i) == <<bs[i], g[bs[i]].terms, g[bs[i]].tail>>
<1>1. Folded(as, f) = [i \in DOMAIN as |-> A(i)] /\ Folded(bs, g) = [i \in DOMAIN bs |-> B(i)]
  BY DEF Folded
<1>2. \A i \in DOMAIN as : as[i] \in Agreements
  <2>1. DOMAIN as = 1 .. Len(as) /\ \A i \in 1 .. Len(as) : as[i] \in Agreements \cup {Nil}
    BY SeqFacts
  <2> QED
    BY <2>1 DEF CanFold
<1>3. ASSUME Folded(as, f) = Folded(bs, g)
      PROVE  as = bs /\ \A i \in DOMAIN as : f[as[i]] = g[as[i]]
  <2>1. DOMAIN as = DOMAIN bs /\ \A i \in DOMAIN as : A(i) = B(i)
    <3> HIDE DEF A, B
    <3> QED
      BY <1>1, <1>3
  <2>2. \A i \in DOMAIN as : as[i] = bs[i]
    BY <2>1
  <2>3. as = bs
    <3>1. DOMAIN as = 1 .. Len(as) /\ DOMAIN bs = 1 .. Len(bs) /\ Len(as) \in Nat /\ Len(bs) \in Nat
      BY SeqFacts
    <3>2. Len(as) = Len(bs)
      BY <2>1, <3>1, IntervalsEqual
    <3>3. \A i \in 1 .. Len(as) : as[i] = bs[i]
      BY <2>2, <3>1
    <3> QED
      BY <3>2, <3>3, SameSeq
  <2>4. ASSUME NEW i \in DOMAIN as
        PROVE  f[as[i]] = g[as[i]]
    <3>1. /\ f[as[i]] \in [terms : {0, 1}, tail : 1 .. MaxTail]
          /\ g[as[i]] \in [terms : {0, 1}, tail : 1 .. MaxTail]
      BY <1>2 DEF LiveType
    <3>2. f[as[i]].terms = g[as[i]].terms /\ f[as[i]].tail = g[as[i]].tail
      BY <2>1, <2>2
    <3>3. ASSUME NEW x \in [terms : {0, 1}, tail : 1 .. MaxTail],
                 NEW y \in [terms : {0, 1}, tail : 1 .. MaxTail],
                 x.terms = y.terms, x.tail = y.tail
          PROVE  x = y
      BY <3>3
    <3> HIDE DEF A, B
    <3> QED
      BY <3>1, <3>2, <3>3
  <2> QED
    BY <2>3, <2>4
<1>4. ASSUME as = bs, \A i \in DOMAIN as : f[as[i]] = g[as[i]]
      PROVE  Folded(as, f) = Folded(bs, g)
  <2>1. \A i \in DOMAIN as : A(i) = B(i)
    BY <1>4
  <2> HIDE DEF A, B
  <2> QED
    BY <1>1, <1>4, <2>1
<1> QED
  BY <1>3, <1>4

(* BatchBinds holds: no other receipts verify under the seal of            *)
(* SealReceipts, no other list of that length has the root of              *)
(* settle.Commit, and what Seal returns verifies for the same agreements   *)
(* as long as none has moved.                                              *)
THEOREM BatchesBind == SealSpec => []BatchBinds
PROOF
<1>1. SealInv => BatchBinds
  <2> SUFFICES ASSUME SealInv, phase = "done" PROVE BatchBinds
    BY DEF BatchBinds
  <2>1. /\ job \in Jobs /\ live \in LiveType
        /\ job.kind \in {"receipts", "agreements", "settle"}
    BY JobsAssumption DEF SealInv
  <2>2. ASSUME job.kind = "receipts", NEW cs \in Lists
        PROVE  VerifyReceiptBatch([batch EXCEPT !.input = cs], job.parent, 1) <=> cs = job.input
    <3>1. PICK k \in 0 .. Nonces - 1 :
              /\ batch = [input |-> job.input, header |-> HeaderWith(k)]
              /\ zeros[k] >= job.bits /\ Valid(HeaderWith(k))
      BY <2>2, SealedBatch
    <3>2. job.bits >= 1 /\ CanRoot(job.input) /\ job.input \in Seq(Commitment)
      BY <2>1, <2>2, SealedBatch, AcceptFacts
    <3>3. cs \in Seq(Commitment)
      BY ListsAreSeqs, SealingAssumption DEF Lists
    <3> DEFINE b == [batch EXCEPT !.input = cs]
    <3>4. /\ b.input = cs /\ b.header = HeaderWith(k)
          /\ HeaderWith(k).bits = job.bits /\ HeaderWith(k).parent = job.parent
          /\ HeaderWith(k).root = ReceiptRoot(job.input)
      BY <2>2, <3>1 DEF HeaderWith, RootTaken
    <3> HIDE DEF b
    <3>5. VerifyReceiptBatch(b, job.parent, 1)
              <=> CanRoot(cs) /\ ReceiptRoot(job.input) = ReceiptRoot(cs)
      BY <3>1, <3>2, <3>4 DEF VerifyReceiptBatch
    <3>6. CanRoot(cs) /\ ReceiptRoot(job.input) = ReceiptRoot(cs) <=> cs = job.input
      BY <3>2, <3>3, ReceiptRootBinds
    <3> QED
      BY <3>5, <3>6 DEF b
  <2>3. ASSUME job.kind = "agreements",
               NEW as \in UNION {[1 .. len -> Agreements \cup {Nil}] : len \in 0 .. MaxLen}
        PROVE  Verify(as, live, batch.header, 0)
                  <=> as = job.input /\ \A i \in DOMAIN as : live[as[i]] = rooted[as[i]]
    <3>1. PICK k \in 0 .. Nonces - 1 :
              /\ batch = [input |-> job.input, header |-> HeaderWith(k)]
              /\ zeros[k] >= job.bits /\ Valid(HeaderWith(k))
      BY <2>3, SealedBatch
    <3>2. /\ job.bits \in Int /\ job.bits >= 0 /\ CanFold(job.input)
          /\ job.input \in Seq(Agreements \cup {Nil}) /\ rooted \in LiveType
      BY <2>1, <2>3, SealedBatch, AcceptFacts
    <3>3. as \in Seq(Agreements \cup {Nil})
      BY ListsAreSeqs, SealingAssumption
    <3>4. /\ batch.header = HeaderWith(k) /\ HeaderWith(k).bits = job.bits
          /\ HeaderWith(k).root = Folded(job.input, rooted)
      BY <2>3, <3>1 DEF HeaderWith, RootTaken
    <3>5. Verify(as, live, batch.header, 0)
              <=> CanFold(as) /\ Folded(as, live) = Folded(job.input, rooted)
      BY <3>1, <3>2, <3>4 DEF Verify
    <3>6. ASSUME CanFold(as)
          PROVE  Folded(as, live) = Folded(job.input, rooted)
                    <=> as = job.input /\ \A i \in DOMAIN as : live[as[i]] = rooted[as[i]]
      <4> DEFINE Q == Seq(Agreements \cup {Nil})
             Same(x, f, g) == \A i \in DOMAIN x : f[x[i]] = g[x[i]]
      <4>1. \A x, y \in Q, f, g \in LiveType : CanFold(x) /\ CanFold(y) =>
                (Folded(x, f) = Folded(y, g) <=> x = y /\ Same(x, f, g))
        BY FoldedBinds
      <4>2. as \in Q /\ job.input \in Q /\ live \in LiveType /\ rooted \in LiveType
        BY <2>1, <3>2, <3>3
      <4>3. CanFold(as) /\ CanFold(job.input)
        BY <3>2, <3>6
      <4> HIDE DEF Q, Same
      <4>4. Folded(as, live) = Folded(job.input, rooted)
                <=> as = job.input /\ Same(as, live, rooted)
        BY <4>1, <4>2, <4>3
      <4> QED
        BY <4>4 DEF Same
    <3>7. as = job.input => CanFold(as)
      BY <3>2
    <3> QED
      BY <3>5, <3>6, <3>7
  <2>4. ASSUME job.kind = "settle", NEW cs \in Lists, Len(cs) = Len(job.input)
        PROVE  batch.root = SettleRoot(cs) <=> cs = job.input
    <3>1. batch.root = SettleRoot(job.input)
      BY <2>4 DEF SealInv, Settled
    <3>2. cs \in Seq(Commitment) /\ job.input \in Seq(Commitment)
      BY <2>1, <2>4, ListsAreSeqs, JobsAssumption, SealingAssumption DEF Lists
    <3> QED
      BY <2>4, <3>1, <3>2, SettleRootBinds
  <2>5. CASE job.kind = "receipts"
    BY <2>2, <2>5 DEF BatchBinds
  <2>6. CASE job.kind = "agreements"
    BY <2>3, <2>6 DEF BatchBinds
  <2>7. CASE job.kind = "settle"
    BY <2>4, <2>7 DEF BatchBinds
  <2> QED
    BY <2>1, <2>5, <2>6, <2>7
<1> QED
  BY <1>1, SealInvariant, PTL

(***************************************************************************)
(* The turns of a walk.                                                    *)
(***************************************************************************)
(* A cleaned nodes map.                                                    *)
GoodNodes(nodes) ==
    /\ IsFiniteSet(DOMAIN nodes) /\ DOMAIN nodes \subseteq Key
    /\ \A k \in DOMAIN nodes : nodes[k] \in Node

AtRoot(root) == [path |-> <<>>, cur |-> root, verdict |-> "walking"]

(* The recursion that defines Turns has a solution.                        *)
LEMMA TurnsDefined ==
    ASSUME NEW nodes, NEW root, NEW facts, GoodNodes(nodes)
    PROVE  /\ Cardinality(DOMAIN nodes) \in Nat
           /\ Turns(nodes, root, facts)[0] = AtRoot(root)
           /\ \A k \in 0 .. MostTurns(nodes) - 1 :
                 Turns(nodes, root, facts)[k + 1] = Turn(nodes, facts, Turns(nodes, root, facts)[k])
PROOF
<1> DEFINE F(u, m) == u = [t \in 0 .. m |-> IF t = 0 THEN AtRoot(root)
                                            ELSE Turn(nodes, facts, u[t - 1])]
           T == {m \in Nat : \E u : F(u, m)}
           M == MostTurns(nodes)
<1>0. Cardinality(DOMAIN nodes) \in Nat /\ M \in Nat
  BY FS_CardinalityType DEF GoodNodes, MostTurns
<1>1. 0 \in T
  <2> DEFINE u == [t \in 0 .. 0 |-> AtRoot(root)]
  <2>1. u = [t \in 0 .. 0 |-> IF t = 0 THEN AtRoot(root) ELSE Turn(nodes, facts, u[t - 1])]
    OBVIOUS
  <2> QED
    BY <2>1
<1>2. ASSUME NEW m \in Nat, m \in T
      PROVE  m + 1 \in T
  <2>1. PICK u : F(u, m)
    BY <1>2
  <2>2. \A k \in 0 .. m : u[k] = IF k = 0 THEN AtRoot(root) ELSE Turn(nodes, facts, u[k - 1])
    BY <2>1
  <2> DEFINE v == [t \in 0 .. m + 1 |-> IF t = m + 1 THEN Turn(nodes, facts, u[m]) ELSE u[t]]
             V(t) == IF t = 0 THEN AtRoot(root) ELSE Turn(nodes, facts, v[t - 1])
  <2>3. ASSUME NEW k \in 0 .. m + 1
        PROVE  v[k] = V(k)
    <3>1. CASE k = m + 1
      <4>1. v[k] = Turn(nodes, facts, u[m]) /\ v[m] = u[m] /\ k # 0 /\ k - 1 = m
        BY <3>1
      <4> QED
        BY <4>1
    <3>2. CASE k = 0
      BY <2>2, <3>2
    <3>3. CASE k \in 1 .. m
      <4>1. v[k] = u[k] /\ v[k - 1] = u[k - 1] /\ u[k] = Turn(nodes, facts, u[k - 1]) /\ k # 0
        BY <2>2, <3>3
      <4> QED
        BY <4>1
    <3> QED
      BY <3>1, <3>2, <3>3
  <2>4. v = [t \in 0 .. m + 1 |-> v[t]]
    OBVIOUS
  <2> HIDE DEF v
  <2>5. v = [t \in 0 .. m + 1 |-> IF t = 0 THEN AtRoot(root) ELSE Turn(nodes, facts, v[t - 1])]
    BY <2>3, <2>4
  <2> QED
    BY <2>5
<1> HIDE DEF T
<1>3. \A m \in Nat : m \in T
  BY <1>1, <1>2, Inductive
<1>4. \E u : F(u, M)
  BY <1>0, <1>3 DEF T
<1>5. Turns(nodes, root, facts) = CHOOSE u : F(u, M)
  BY DEF Turns, AtRoot
<1> DEFINE U == Turns(nodes, root, facts)
<1>6. F(U, M)
  BY <1>4, <1>5
<1> HIDE DEF U, M
<1>7. \A k \in 0 .. M : U[k] = IF k = 0 THEN AtRoot(root) ELSE Turn(nodes, facts, U[k - 1])
  BY <1>6
<1>8. U[0] = AtRoot(root)
  BY <1>0, <1>7
<1>9. ASSUME NEW k \in 0 .. M - 1
      PROVE  U[k + 1] = Turn(nodes, facts, U[k])
  <2>1. k + 1 \in 0 .. M /\ k + 1 # 0 /\ (k + 1) - 1 = k
    BY <1>0
  <2> QED
    BY <1>7, <2>1
<1> QED
  BY <1>0, <1>8, <1>9 DEF U, M

(* A path that visits no node twice is no longer than the tree.            *)
LEMMA InjectiveShort ==
    ASSUME NEW S, IsFiniteSet(S), NEW path \in Seq(S), IsInjective(path)
    PROVE  Len(path) \in Nat /\ Cardinality(S) \in Nat /\ Len(path) <= Cardinality(S)
PROOF
<1>1. Len(path) \in Nat /\ path \in [1 .. Len(path) -> S] /\ DOMAIN path = 1 .. Len(path)
  OBVIOUS
<1>2. Cardinality(S) \in Nat
  BY FS_CardinalityType
<1>3. IsFiniteSet(1 .. Len(path)) /\ Cardinality(1 .. Len(path)) = Len(path)
  <2>1. Cardinality(1 .. Len(path)) = IF 1 > Len(path) THEN 0 ELSE Len(path) - 1 + 1
    BY <1>1, FS_Interval
  <2>2. IsFiniteSet(1 .. Len(path))
    BY <1>1, FS_Interval
  <2> QED
    BY <1>1, <2>1, <2>2
<1>4. ~(Cardinality(S) < Len(path))
  <2> SUFFICES ASSUME Cardinality(S) < Len(path) PROVE FALSE
    OBVIOUS
  <2>1. \E x, y \in 1 .. Len(path) : x # y /\ path[x] = path[y]
    BY <1>1, <1>3, FS_PigeonHole
  <2> QED
    BY <1>1, <2>1 DEF IsInjective
<1> QED
  BY <1>1, <1>2, <1>4

(* The gate k is left for l: its first open child.                         *)
Leads(nodes, facts, k, l) ==
    \E j \in DOMAIN nodes[k].next :
        /\ nodes[k].next[j] = l
        /\ \A m \in 1 .. j - 1 : ~Open(nodes, facts, nodes[k].next[m])

(* A member of FirstChild is one of the children, and none before it is    *)
(* open.                                                                   *)
LEMMA FirstChildLeads ==
    ASSUME NEW nodes, NEW facts, NEW k \in DOMAIN nodes, GoodNodes(nodes),
           NEW l \in FirstChild(nodes, facts, nodes[k].next)
    PROVE  Leads(nodes, facts, k, l) /\ l \in Key
PROOF
<1> DEFINE next == nodes[k].next
<1>1. next \in Seq(Key)
  BY DEF GoodNodes, Node
<1>2. Len(next) \in Nat /\ DOMAIN next = 1 .. Len(next) /\ \A i \in 1 .. Len(next) : next[i] \in Key
  BY <1>1, SeqFacts
<1> HIDE DEF next
<1>3. PICK j \in DOMAIN next :
          /\ l = next[j]
          /\ \A m \in DOMAIN next : Open(nodes, facts, next[m]) => j <= m
  BY DEF FirstChild, next
<1>4. ASSUME NEW m \in 1 .. j - 1
      PROVE  ~Open(nodes, facts, next[m])
  <2>1. m \in DOMAIN next /\ ~(j <= m)
    BY <1>2
  <2> QED
    BY <1>3, <2>1
<1>5. l \in Key
  BY <1>2, <1>3
<1> QED
  BY <1>3, <1>4, <1>5 DEF Leads, next

(* An open child with no open child before it is the only member.          *)
LEMMA FirstChildIs ==
    ASSUME NEW nodes, NEW facts, NEW k \in DOMAIN nodes, GoodNodes(nodes),
           NEW l, Leads(nodes, facts, k, l), Open(nodes, facts, l)
    PROVE  FirstChild(nodes, facts, nodes[k].next) = {l}
PROOF
<1> DEFINE next == nodes[k].next
           J == {j \in DOMAIN next :
                    /\ Open(nodes, facts, next[j])
                    /\ \A m \in DOMAIN next : Open(nodes, facts, next[m]) => j <= m}
<1>1. next \in Seq(Key)
  BY DEF GoodNodes, Node
<1>2. Len(next) \in Nat /\ DOMAIN next = 1 .. Len(next)
  BY <1>1, SeqFacts
<1>3. PICK j \in DOMAIN next :
          next[j] = l /\ \A m \in 1 .. j - 1 : ~Open(nodes, facts, next[m])
  BY DEF Leads
<1>4. FirstChild(nodes, facts, next) = {next[i] : i \in J}
  BY DEF FirstChild
<1> HIDE DEF next
<1>5. ASSUME NEW m \in DOMAIN next, Open(nodes, facts, next[m])
      PROVE  j <= m
  <2>1. m \notin 1 .. j - 1
    BY <1>3, <1>5
  <2> QED
    BY <1>2, <2>1
<1>6. j \in J
  BY <1>3, <1>5
<1>7. ASSUME NEW i \in J
      PROVE  i = j
  <2>1. i \in Nat /\ j \in Nat /\ i <= j /\ j <= i
    BY <1>2, <1>3, <1>5, <1>7
  <2> QED
    BY <2>1
<1> HIDE DEF J
<1>8. J = {j}
  BY <1>6, <1>7
<1>9. {next[i] : i \in J} = {l}
  BY <1>3, <1>8
<1> QED
  BY <1>4, <1>9 DEF next

Verdicts == {"walking", "done", "no path", "loop", "missing"}

(* The walk so far: it starts at the root, no node comes twice, every      *)
(* requirement is met, and each node but the last is a gate left by its    *)
(* first open child.                                                       *)
Trail(nodes, root, facts, path) ==
    /\ path \in Seq(DOMAIN nodes) /\ IsInjective(path)
    /\ path # <<>> => path[1] = root
    /\ \A i \in 1 .. Len(path) : ReqsMet(nodes[path[i]], facts)
    /\ \A i \in 1 .. Len(path) - 1 :
          nodes[path[i]].kind # "action" /\ Leads(nodes, facts, path[i], path[i + 1])

(* The invariant of the loop after k turns.                                *)
WalkState(nodes, root, facts, w, k) ==
    /\ w \in [path : Seq(DOMAIN nodes), cur : Key, verdict : Verdicts]
    /\ Trail(nodes, root, facts, w.path)
    /\ w.verdict = "walking" =>
          /\ Len(w.path) = k
          /\ IF k = 0 THEN w.cur = root
             ELSE nodes[w.path[k]].kind # "action" /\ Leads(nodes, facts, w.path[k], w.cur)
    /\ w.verdict = "done" =>
          /\ w.path # <<>> /\ w.cur = w.path[Len(w.path)]
          /\ nodes[w.cur].kind = "action"

(* One more node on the path.                                              *)
LEMMA TrailGrows ==
    ASSUME NEW nodes, NEW root, NEW facts, NEW path, NEW cur \in DOMAIN nodes, NEW k \in Nat,
           Trail(nodes, root, facts, path), cur \notin ToSet(path), Len(path) = k,
           IF k = 0 THEN cur = root
           ELSE nodes[path[k]].kind # "action" /\ Leads(nodes, facts, path[k], cur),
           ReqsMet(nodes[cur], facts)
    PROVE  /\ Trail(nodes, root, facts, Append(path, cur))
           /\ Len(Append(path, cur)) = k + 1
           /\ Append(path, cur)[k + 1] = cur
           /\ \A i \in 1 .. k : Append(path, cur)[i] = path[i]
PROOF
<1> DEFINE p == Append(path, cur)
<1>1. path \in Seq(DOMAIN nodes) /\ IsInjective(path)
  BY DEF Trail
<1>2. DOMAIN path = 1 .. k
  BY <1>1
<1>3. /\ p \in Seq(DOMAIN nodes) /\ Len(p) = k + 1 /\ DOMAIN p = 1 .. k + 1 /\ p[k + 1] = cur
      /\ \A i \in 1 .. k : p[i] = path[i]
  BY <1>1
<1> HIDE DEF p
<1>4. \A i \in 1 .. k : path[i] # cur
  BY <1>2 DEF ToSet
<1>5. IsInjective(p)
  <2> SUFFICES ASSUME NEW i \in 1 .. k + 1, NEW j \in 1 .. k + 1, p[i] = p[j] PROVE i = j
    BY <1>3 DEF IsInjective
  <2>1. CASE i = k + 1 \/ j = k + 1
    BY <1>3, <1>4, <2>1
  <2>2. CASE i \in 1 .. k /\ j \in 1 .. k
    BY <1>1, <1>2, <1>3, <2>2 DEF IsInjective
  <2> QED
    BY <2>1, <2>2
<1>6. p[1] = root
  <2>1. CASE k = 0
    BY <1>3, <2>1
  <2>2. CASE k # 0
    <3>1. path # <<>> /\ 1 \in 1 .. k
      BY <1>1, <2>2
    <3> QED
      BY <1>3, <3>1 DEF Trail
  <2> QED
    BY <2>1, <2>2
<1>7. ASSUME NEW i \in 1 .. k + 1
      PROVE  ReqsMet(nodes[p[i]], facts)
  <2>1. CASE i = k + 1
    BY <1>3, <2>1
  <2>2. CASE i \in 1 .. k
    BY <1>3, <2>2 DEF Trail
  <2> QED
    BY <2>1, <2>2
<1>8. ASSUME NEW i \in 1 .. k
      PROVE  nodes[p[i]].kind # "action" /\ Leads(nodes, facts, p[i], p[i + 1])
  <2>1. CASE i = k
    <3>1. k # 0 /\ p[i] = path[k] /\ p[i + 1] = cur
      BY <1>3, <2>1
    <3> QED
      BY <3>1
  <2>2. CASE i \in 1 .. k - 1
    <3>1. i \in 1 .. k /\ i + 1 \in 1 .. k
      BY <2>2
    <3>2. p[i] = path[i] /\ p[i + 1] = path[i + 1]
      BY <1>3, <3>1
    <3>3. nodes[path[i]].kind # "action" /\ Leads(nodes, facts, path[i], path[i + 1])
      BY <2>2 DEF Trail
    <3> QED
      BY <3>2, <3>3
  <2> QED
    BY <2>1, <2>2
<1>9. (k + 1) - 1 = k
  OBVIOUS
<1>10. Trail(nodes, root, facts, p)
  BY <1>3, <1>5, <1>6, <1>7, <1>8, <1>9 DEF Trail
<1> QED
  BY <1>3, <1>10 DEF p

(* What a turn makes of a walk that goes on.                               *)
LEMMA TurnWalking ==
    ASSUME NEW nodes, NEW facts, NEW w, w.verdict = "walking"
    PROVE  LET path == Append(w.path, w.cur)
               next == FirstChild(nodes, facts, nodes[w.cur].next)
               t == Turn(nodes, facts, w)
           IN  \/ w.cur \in ToSet(w.path) /\ t = Failed(w, "loop")
               \/ w.cur \notin DOMAIN nodes /\ t = Failed(w, "missing")
               \/ t = Failed(w, "no path")
               \/ /\ w.cur \notin ToSet(w.path) /\ w.cur \in DOMAIN nodes
                  /\ ReqsMet(nodes[w.cur], facts)
                  /\ \/ /\ nodes[w.cur].kind = "action"
                        /\ t = [path |-> path, cur |-> w.cur, verdict |-> "done"]
                     \/ Len(path) > Cardinality(DOMAIN nodes) + 1
                     \/ /\ nodes[w.cur].kind # "action" /\ next # {}
                        /\ t = [path |-> path, cur |-> CHOOSE k \in next : TRUE,
                                verdict |-> "walking"]
PROOF
<1>1. CASE w.cur \in ToSet(w.path)
  BY <1>1 DEF Turn
<1>2. CASE w.cur \notin ToSet(w.path) /\ w.cur \notin DOMAIN nodes
  BY <1>2 DEF Turn
<1>3. CASE w.cur \notin ToSet(w.path) /\ w.cur \in DOMAIN nodes /\ ~ReqsMet(nodes[w.cur], facts)
  BY <1>3 DEF Turn
<1>4. CASE w.cur \notin ToSet(w.path) /\ w.cur \in DOMAIN nodes /\ ReqsMet(nodes[w.cur], facts)
  <2>1. Turn(nodes, facts, w) = Advance(nodes, facts, w)
    BY <1>4 DEF Turn
  <2> QED
    BY <1>4, <2>1 DEF Advance
<1> QED
  BY <1>1, <1>2, <1>3, <1>4

(* A turn keeps the invariant of the loop; the length bound is never       *)
(* reached.                                                                *)
LEMMA TurnKeeps ==
    ASSUME NEW nodes, NEW root \in Key, NEW facts, NEW w, NEW k \in Nat, GoodNodes(nodes),
           WalkState(nodes, root, facts, w, k)
    PROVE  WalkState(nodes, root, facts, Turn(nodes, facts, w), k + 1)
PROOF
<1> DEFINE t == Turn(nodes, facts, w)
           W == [path : Seq(DOMAIN nodes), cur : Key, verdict : Verdicts]
           p == Append(w.path, w.cur)
           next == FirstChild(nodes, facts, nodes[w.cur].next)
           c == CHOOSE l \in next : TRUE
<1>1. w \in W /\ Trail(nodes, root, facts, w.path)
  BY DEF WalkState
<1>2. CASE w.verdict # "walking"
  <2>1. t = w
    BY <1>2 DEF Turn
  <2> QED
    BY <1>2, <2>1 DEF WalkState
<1>3. CASE w.verdict = "walking"
  <2>1. Len(w.path) = k
        /\ IF k = 0 THEN w.cur = root
           ELSE nodes[w.path[k]].kind # "action" /\ Leads(nodes, facts, w.path[k], w.cur)
    BY <1>3 DEF WalkState
  <2>2. ASSUME NEW v \in {"no path", "loop", "missing"}, t = Failed(w, v)
        PROVE  WalkState(nodes, root, facts, t, k + 1)
    <3>1. t = [w EXCEPT !.verdict = v] /\ v \in Verdicts
      BY <2>2 DEF Failed, Verdicts
    <3> HIDE DEF t
    <3>2. t \in W /\ t.path = w.path /\ t.verdict = v
      BY <1>1, <3>1
    <3> QED
      BY <1>1, <2>2, <3>2 DEF WalkState
  <2>3. ASSUME w.cur \notin ToSet(w.path), w.cur \in DOMAIN nodes, ReqsMet(nodes[w.cur], facts)
        PROVE  /\ Trail(nodes, root, facts, p) /\ Len(p) = k + 1 /\ p[k + 1] = w.cur
               /\ ~(Len(p) > Cardinality(DOMAIN nodes) + 1)
    <3>1. Trail(nodes, root, facts, p) /\ Len(p) = k + 1 /\ p[k + 1] = w.cur
      BY <1>1, <2>1, <2>3, TrailGrows
    <3>2. p \in Seq(DOMAIN nodes) /\ IsInjective(p) /\ IsFiniteSet(DOMAIN nodes)
      BY <3>1 DEF Trail, GoodNodes
    <3>3. Len(p) \in Nat /\ Cardinality(DOMAIN nodes) \in Nat /\ Len(p) <= Cardinality(DOMAIN nodes)
      BY <3>2, InjectiveShort
    <3> QED
      BY <3>1, <3>3
  <2>4. ASSUME w.cur \notin ToSet(w.path), w.cur \in DOMAIN nodes, ReqsMet(nodes[w.cur], facts),
               nodes[w.cur].kind = "action",
               t = [path |-> p, cur |-> w.cur, verdict |-> "done"]
        PROVE  WalkState(nodes, root, facts, t, k + 1)
    <3>1. Trail(nodes, root, facts, p) /\ Len(p) = k + 1 /\ p[k + 1] = w.cur
      BY <2>3, <2>4
    <3>2. p \in Seq(DOMAIN nodes) /\ w.cur \in Key
      BY <1>1, <3>1 DEF Trail
    <3> HIDE DEF t, p
    <3>4. p # <<>>
      BY <3>1, <3>2
    <3>3. t \in W /\ t.path = p /\ t.cur = w.cur /\ t.verdict = "done"
      BY <2>4, <3>2 DEF Verdicts
    <3> QED
      BY <2>4, <3>1, <3>2, <3>3, <3>4 DEF WalkState
  <2>5. ASSUME w.cur \notin ToSet(w.path), w.cur \in DOMAIN nodes, ReqsMet(nodes[w.cur], facts),
               nodes[w.cur].kind # "action", next # {},
               t = [path |-> p, cur |-> c, verdict |-> "walking"]
        PROVE  WalkState(nodes, root, facts, t, k + 1)
    <3>1. Trail(nodes, root, facts, p) /\ Len(p) = k + 1 /\ p[k + 1] = w.cur
      BY <2>3, <2>5
    <3>2. c \in next
      <4> HIDE DEF next
      <4> QED
        BY <2>5
    <3>3. Leads(nodes, facts, w.cur, c) /\ c \in Key
      <4> HIDE DEF c
      <4> QED
        BY <2>5, <3>2, FirstChildLeads
    <3>4. p \in Seq(DOMAIN nodes) /\ k + 1 # 0
      BY <3>1 DEF Trail
    <3> HIDE DEF t, p, c, next
    <3>5. t \in W /\ t.path = p /\ t.cur = c /\ t.verdict = "walking"
      BY <2>5, <3>3, <3>4 DEF Verdicts
    <3> QED
      BY <2>5, <3>1, <3>3, <3>4, <3>5 DEF WalkState
  <2> QED
    BY <1>3, <2>2, <2>3, <2>4, <2>5, TurnWalking
<1> QED
  BY <1>2, <1>3

(* Every turn of a walk satisfies the invariant of the loop.               *)
LEMMA TurnsKeep ==
    ASSUME NEW nodes, NEW root \in Key, NEW facts, GoodNodes(nodes)
    PROVE  \A k \in 0 .. MostTurns(nodes) :
              WalkState(nodes, root, facts, Turns(nodes, root, facts)[k], k)
PROOF
<1> DEFINE U == Turns(nodes, root, facts)
           M == MostTurns(nodes)
           T == {k \in Nat : k <= M => WalkState(nodes, root, facts, U[k], k)}
<1>1. M \in Nat
  BY TurnsDefined DEF MostTurns
<1>2. U[0] = AtRoot(root) /\ \A k \in 0 .. M - 1 : U[k + 1] = Turn(nodes, facts, U[k])
  BY TurnsDefined
<1> HIDE DEF U, M
<1>3. WalkState(nodes, root, facts, U[0], 0)
  <2> DEFINE w == AtRoot(root)
             e == <<>>
  <2>1. e \in Seq(DOMAIN nodes) /\ Len(e) = 0 /\ DOMAIN e = {}
    OBVIOUS
  <2>2. w \in [path : Seq(DOMAIN nodes), cur : Key, verdict : Verdicts]
        /\ w.path = e /\ w.cur = root /\ w.verdict = "walking"
    BY <2>1 DEF AtRoot, Verdicts
  <2> HIDE DEF w
  <2>3. Trail(nodes, root, facts, e)
    BY <2>1 DEF Trail, IsInjective
  <2> HIDE DEF e
  <2>4. WalkState(nodes, root, facts, w, 0)
    BY <2>1, <2>2, <2>3 DEF WalkState
  <2> QED
    BY <1>2, <2>4 DEF w
<1>4. 0 \in T
  BY <1>3
<1>5. ASSUME NEW k \in Nat, k \in T
      PROVE  k + 1 \in T
  <2> SUFFICES ASSUME k + 1 <= M PROVE WalkState(nodes, root, facts, U[k + 1], k + 1)
    OBVIOUS
  <2>1. k \in 0 .. M - 1 /\ k <= M
    BY <1>1
  <2>2. WalkState(nodes, root, facts, U[k], k) /\ U[k + 1] = Turn(nodes, facts, U[k])
    BY <1>2, <1>5, <2>1
  <2> QED
    BY <2>2, TurnKeeps
<1> HIDE DEF T
<1>6. \A k \in Nat : k \in T
  BY <1>4, <1>5, Inductive
<1> QED
  BY <1>1, <1>6 DEF T, U, M

(* A walk ends: one that still went on would have visited more nodes than  *)
(* there are.  When it ends with an action, its path is the prescribed one.*)
LEMMA WalkEnds ==
    ASSUME NEW nodes, NEW root \in Key, NEW facts, GoodNodes(nodes)
    PROVE  LET walk == Walk(nodes, root, facts)
           IN  /\ walk \in [path : Seq(DOMAIN nodes), cur : Key, verdict : Verdicts]
               /\ walk.verdict \in {"done", "no path", "loop", "missing"}
               /\ walk.verdict = "done" =>
                     Prescribed(nodes, root, facts, walk.path) /\ walk.cur = Last(walk.path)
PROOF
<1> DEFINE w == Walk(nodes, root, facts)
           M == MostTurns(nodes)
<1>1. M \in Nat /\ M = Cardinality(DOMAIN nodes) + 3 /\ Cardinality(DOMAIN nodes) \in Nat
  BY TurnsDefined DEF MostTurns
<1>2. M \in 0 .. M
  BY <1>1
<1>3. WalkState(nodes, root, facts, w, M)
  BY <1>2, TurnsKeep DEF Walk
<1> HIDE DEF w, M
<1>4. /\ w \in [path : Seq(DOMAIN nodes), cur : Key, verdict : Verdicts]
      /\ Trail(nodes, root, facts, w.path)
  BY <1>3 DEF WalkState
<1>5. w.verdict # "walking"
  <2> SUFFICES ASSUME w.verdict = "walking" PROVE FALSE
    OBVIOUS
  <2>1. Len(w.path) = M
    BY <1>3 DEF WalkState
  <2>2. w.path \in Seq(DOMAIN nodes) /\ IsInjective(w.path) /\ IsFiniteSet(DOMAIN nodes)
    BY <1>4 DEF Trail, GoodNodes
  <2>3. Len(w.path) <= Cardinality(DOMAIN nodes)
    BY <2>2, InjectiveShort
  <2> QED
    BY <1>1, <2>1, <2>3
<1>6. ASSUME w.verdict = "done"
      PROVE  Prescribed(nodes, root, facts, w.path) /\ w.cur = Last(w.path)
  <2> DEFINE p == w.path
  <2>1. p # <<>> /\ w.cur = p[Len(p)] /\ nodes[w.cur].kind = "action"
    BY <1>3, <1>6 DEF WalkState
  <2>2. p \in Seq(DOMAIN nodes) /\ IsInjective(p) /\ p[1] = root
    BY <1>4, <2>1 DEF Trail
  <2>3. \A i \in 1 .. Len(p) : ReqsMet(nodes[p[i]], facts)
    BY <1>4 DEF Trail
  <2>4. \A i \in 1 .. Len(p) - 1 :
            nodes[p[i]].kind # "action" /\ Leads(nodes, facts, p[i], p[i + 1])
    BY <1>4 DEF Trail
  <2> HIDE DEF p
  <2>5. Len(p) \in Nat /\ DOMAIN p = 1 .. Len(p) /\ \A i \in 1 .. Len(p) : p[i] \in DOMAIN nodes
    BY <2>2, SeqFacts
  <2>6. ASSUME NEW i \in DOMAIN p
        PROVE  /\ p[i] \in DOMAIN nodes /\ ReqsMet(nodes[p[i]], facts)
               /\ nodes[p[i]].kind = "action" <=> i = Len(p)
    <3>1. i \in 1 .. Len(p) - 1 \/ i = Len(p)
      BY <2>5
    <3>2. i \in 1 .. Len(p) - 1 => i # Len(p)
      BY <2>5
    <3> QED
      BY <2>1, <2>3, <2>4, <2>5, <3>1, <3>2
  <2>7. ASSUME NEW i \in 1 .. Len(p) - 1
        PROVE  \E j \in DOMAIN nodes[p[i]].next :
                  /\ nodes[p[i]].next[j] = p[i + 1]
                  /\ \A l \in 1 .. j - 1 : ~Open(nodes, facts, nodes[p[i]].next[l])
    BY <2>4 DEF Leads
  <2>8. Prescribed(nodes, root, facts, p)
    BY <2>1, <2>2, <2>6, <2>7 DEF Prescribed
  <2> QED
    BY <2>1, <2>8 DEF Last, p
<1> QED
  BY <1>4, <1>5, <1>6 DEF w, Verdicts

(* A sequence that is not empty has a positive length.                     *)
LEMMA NonEmptyLength ==
    ASSUME NEW S, NEW s \in Seq(S), s # <<>>
    PROVE  Len(s) \in Nat /\ Len(s) # 0
PROOF
OBVIOUS

(* Where a path is prescribed that avoids the empty key the walk follows   *)
(* it, node by node.                                                       *)
LEMMA PrescribedIsWalked ==
    ASSUME NEW nodes, NEW root \in Key, NEW facts, GoodNodes(nodes),
           NEW p \in Seq(DOMAIN nodes), Prescribed(nodes, root, facts, p),
           \A i \in 1 .. Len(p) : p[i] # NoKey
    PROVE  Walk(nodes, root, facts).verdict = "done"
PROOF
<1> DEFINE U == Turns(nodes, root, facts)
           M == MostTurns(nodes)
           Follows(k) ==
               /\ U[k].verdict = "walking" /\ U[k].cur = p[k + 1]
               /\ \A i \in 1 .. k : U[k].path[i] = p[i]
<1>0. PICK z \in Nat : z = Len(p)
  BY SeqFacts
<1>1. /\ DOMAIN p = 1 .. z /\ IsInjective(p) /\ p[1] = root
      /\ \A i \in 1 .. z : p[i] \in DOMAIN nodes /\ ReqsMet(nodes[p[i]], facts)
      /\ \A i \in 1 .. z : nodes[p[i]].kind = "action" <=> i = z
  <2>1. DOMAIN p = 1 .. z
    BY <1>0, SeqFacts
  <2> QED
    BY <1>0, <2>1 DEF Prescribed
<1>2. \A i \in 1 .. z - 1 : Leads(nodes, facts, p[i], p[i + 1])
  BY <1>0 DEF Prescribed, Leads
<1>3. M \in Nat /\ z # 0 /\ z < M
  <2>1. Cardinality(DOMAIN nodes) \in Nat /\ M = Cardinality(DOMAIN nodes) + 3
    BY TurnsDefined DEF MostTurns
  <2>2. p # <<>>
    BY DEF Prescribed
  <2>3. z # 0
    BY <1>0, <2>2, NonEmptyLength
  <2>4. IsFiniteSet(DOMAIN nodes)
    BY DEF GoodNodes
  <2>5. z <= Cardinality(DOMAIN nodes)
    BY <1>0, <1>1, <2>4, InjectiveShort
  <2> HIDE DEF M
  <2> QED
    BY <2>1, <2>3, <2>5
<1>4. Cardinality(DOMAIN nodes) \in Nat /\ z <= Cardinality(DOMAIN nodes)
  <2>1. Cardinality(DOMAIN nodes) \in Nat
    BY TurnsDefined
  <2>2. IsFiniteSet(DOMAIN nodes)
    BY DEF GoodNodes
  <2> QED
    BY <1>0, <1>1, <2>1, <2>2, InjectiveShort
<1> DEFINE T == {k \in Nat : k < z => Follows(k)}
           S == {k \in Nat : z + k <= M => U[z + k].verdict = "done"}
<1>5. U[0] = AtRoot(root) /\ \A k \in 0 .. M - 1 : U[k + 1] = Turn(nodes, facts, U[k])
  BY TurnsDefined
<1>6. \A k \in 0 .. M : WalkState(nodes, root, facts, U[k], k)
  BY TurnsKeep
<1> HIDE DEF U, M
<1>7. 0 \in T
  <2>1. U[0].verdict = "walking" /\ U[0].cur = root
    BY <1>5 DEF AtRoot
  <2>2. p[0 + 1] = root
    BY <1>1
  <2>3. Follows(0)
    BY <2>1, <2>2
  <2> QED
    BY <2>3
<1>8. ASSUME NEW k \in Nat, k < z, Follows(k)
      PROVE  /\ U[k].cur \in DOMAIN nodes
             /\ U[k + 1] = Advance(nodes, facts, U[k])
             /\ Len(Append(U[k].path, U[k].cur)) = k + 1
             /\ \A i \in 1 .. k + 1 : Append(U[k].path, U[k].cur)[i] = p[i]
  <2>1. k \in 0 .. M - 1 /\ k \in 0 .. M /\ k + 1 \in 1 .. z
    BY <1>3, <1>8
  <2> DEFINE w == U[k]
  <2>2. /\ w.path \in Seq(DOMAIN nodes) /\ Len(w.path) = k
    BY <1>6, <1>8, <2>1 DEF WalkState
  <2>3. DOMAIN w.path = 1 .. k
    BY <2>2
  <2>4. w.cur \notin ToSet(w.path)
    <3> SUFFICES ASSUME NEW i \in 1 .. k, w.path[i] = w.cur PROVE FALSE
      BY <2>3 DEF ToSet
    <3>1. p[i] = p[k + 1]
      BY <1>8
    <3>2. i \in 1 .. z /\ i # k + 1
      BY <2>1
    <3> QED
      BY <1>1, <2>1, <3>1, <3>2 DEF IsInjective
  <2>5. w.cur \in DOMAIN nodes /\ ReqsMet(nodes[w.cur], facts) /\ w.verdict = "walking"
    BY <1>1, <1>8, <2>1
  <2>6. U[k + 1] = Advance(nodes, facts, w)
    <3>1. U[k + 1] = Turn(nodes, facts, w)
      BY <1>5, <2>1
    <3> HIDE DEF w
    <3> QED
      BY <2>4, <2>5, <3>1 DEF Turn
  <2> DEFINE q == Append(w.path, w.cur)
  <2>7. /\ Len(q) = k + 1 /\ q[k + 1] = w.cur /\ \A i \in 1 .. k : q[i] = w.path[i]
    <3> HIDE DEF w
    <3> QED
      BY <2>2, <2>5
  <2> HIDE DEF q
  <2>8. ASSUME NEW i \in 1 .. k + 1
        PROVE  q[i] = p[i]
    <3>1. CASE i = k + 1
      BY <1>8, <2>7, <3>1
    <3>2. CASE i \in 1 .. k
      BY <1>8, <2>7, <3>2
    <3> QED
      BY <3>1, <3>2
  <2> QED
    BY <2>5, <2>6, <2>7, <2>8 DEF q
<1>9. ASSUME NEW k \in Nat, k \in T
      PROVE  k + 1 \in T
  <2> SUFFICES ASSUME k + 1 < z PROVE Follows(k + 1)
    OBVIOUS
  <2>1. Follows(k) /\ k < z
    <3>1. k < z
      OBVIOUS
    <3> HIDE DEF Follows
    <3> QED
      BY <1>9, <3>1
  <2> HIDE DEF Follows
  <2> DEFINE w == U[k]
             q == Append(w.path, w.cur)
             next == FirstChild(nodes, facts, nodes[w.cur].next)
             l == p[(k + 1) + 1]
  <2>2. /\ w.cur \in DOMAIN nodes /\ U[k + 1] = Advance(nodes, facts, w)
        /\ Len(q) = k + 1 /\ \A i \in 1 .. k + 1 : q[i] = p[i]
    BY <1>8, <2>1
  <2>3. w.cur = p[k + 1]
    BY <2>1 DEF Follows
  <2>4. k + 1 \in 1 .. z - 1 /\ k + 1 \in 1 .. z /\ (k + 1) + 1 \in 1 .. z
        /\ k + 1 # z
    OBVIOUS
  <2>5. nodes[w.cur].kind # "action" /\ Leads(nodes, facts, w.cur, l)
    BY <1>1, <1>2, <2>3, <2>4
  <2>6. Open(nodes, facts, l) /\ l # NoKey
    BY <1>0, <1>1, <2>4 DEF Open
  <2> HIDE DEF w, l
  <2>7. next = {l}
    BY <2>2, <2>5, <2>6, FirstChildIs
  <2>8. ~(Len(q) > Cardinality(DOMAIN nodes) + 1)
    <3>1. k + 1 <= Cardinality(DOMAIN nodes) /\ Len(q) = k + 1
      BY <1>4, <2>2, <2>4
    <3> HIDE DEF q
    <3> QED
      BY <1>4, <3>1
  <2> HIDE DEF q, next
  <2>9. U[k + 1] = [path |-> q, cur |-> CHOOSE x \in next : TRUE, verdict |-> "walking"]
    <3>1. ~(next \subseteq {NoKey})
      BY <2>6, <2>7
    <3> QED
      BY <2>2, <2>5, <2>8, <3>1 DEF Advance, q, next
  <2>10. (CHOOSE x \in next : TRUE) = l
    BY <2>7
  <2>11. U[k + 1].path = q /\ U[k + 1].cur = l /\ U[k + 1].verdict = "walking"
    BY <2>9, <2>10
  <2> QED
    BY <2>2, <2>11 DEF Follows, l
<1> HIDE DEF T
<1>10. \A k \in Nat : k \in T
  BY <1>7, <1>9, Inductive
<1>11. U[z].verdict = "done"
  <2> DEFINE k == z - 1
  <2>1. k \in Nat /\ k < z /\ k + 1 = z /\ k + 1 \in 1 .. z
    BY <1>3
  <2> HIDE DEF k
  <2>2. Follows(k)
    BY <1>10, <2>1 DEF T
  <2>3. U[k + 1] = Advance(nodes, facts, U[k]) /\ U[k].cur = p[k + 1]
    BY <1>8, <2>1, <2>2
  <2>4. nodes[U[k].cur].kind = "action"
    BY <1>1, <2>1, <2>3
  <2>5. U[k + 1].verdict = "done"
    BY <2>3, <2>4 DEF Advance
  <2> QED
    BY <2>1, <2>5
<1>12. 0 \in S
  <2>1. z + 0 = z
    OBVIOUS
  <2> QED
    BY <1>11, <2>1
<1>13. ASSUME NEW k \in Nat, k \in S
       PROVE  k + 1 \in S
  <2> SUFFICES ASSUME z + (k + 1) <= M PROVE U[z + (k + 1)].verdict = "done"
    OBVIOUS
  <2> DEFINE m == z + k
  <2>1. m \in 0 .. M - 1 /\ m + 1 = z + (k + 1) /\ z + k <= M
    BY <1>3
  <2>2. U[m].verdict = "done"
    BY <1>13, <2>1
  <2> HIDE DEF m
  <2>3. U[m + 1] = U[m]
    BY <1>5, <2>1, <2>2 DEF Turn
  <2> QED
    BY <2>1, <2>2, <2>3
<1> HIDE DEF S
<1>14. \A k \in Nat : k \in S
  BY <1>12, <1>13, Inductive
<1>15. M - z \in Nat /\ z + (M - z) = M /\ M <= M
  BY <1>3
<1>16. U[M].verdict = "done"
  BY <1>14, <1>15 DEF S
<1> QED
  BY <1>16 DEF Walk, U, M

(* There is at most one first open child.                                  *)
LEMMA FirstChildOne ==
    ASSUME NEW nodes, NEW facts, NEW k \in DOMAIN nodes, GoodNodes(nodes),
           NEW x \in FirstChild(nodes, facts, nodes[k].next),
           NEW y \in FirstChild(nodes, facts, nodes[k].next)
    PROVE  x = y
PROOF
<1> DEFINE next == nodes[k].next
           First(j) == /\ Open(nodes, facts, next[j])
                       /\ \A m \in DOMAIN next : Open(nodes, facts, next[m]) => j <= m
<1>1. next \in Seq(Key)
  BY DEF GoodNodes, Node
<1>2. Len(next) \in Nat /\ DOMAIN next = 1 .. Len(next)
  BY <1>1, SeqFacts
<1>3. PICK i \in DOMAIN next : x = next[i] /\ First(i)
  BY DEF FirstChild
<1>4. PICK j \in DOMAIN next : y = next[j] /\ First(j)
  BY DEF FirstChild
<1> HIDE DEF next
<1>5. i \in Nat /\ j \in Nat
  BY <1>2, <1>3, <1>4
<1>6. i <= j /\ j <= i
  BY <1>3, <1>4
<1>7. i = j
  BY <1>5, <1>6
<1> QED
  BY <1>3, <1>4, <1>7

(* Neither the path nor the node a walk stands at is the empty key.        *)
Avoids(w) == w.cur # NoKey /\ \A i \in 1 .. Len(w.path) : w.path[i] # NoKey

(* A turn never moves to the empty key, which it takes for no child.       *)
LEMMA TurnAvoids ==
    ASSUME NEW nodes, NEW root, NEW facts, NEW w, NEW k \in Nat, GoodNodes(nodes),
           WalkState(nodes, root, facts, w, k), Avoids(w)
    PROVE  Avoids(Turn(nodes, facts, w))
PROOF
<1> DEFINE t == Turn(nodes, facts, w)
           p == Append(w.path, w.cur)
           next == FirstChild(nodes, facts, nodes[w.cur].next)
           c == CHOOSE l \in next : TRUE
<1>1. w \in [path : Seq(DOMAIN nodes), cur : Key, verdict : Verdicts]
  BY DEF WalkState
<1>2. CASE w.verdict # "walking"
  BY <1>2 DEF Turn
<1>3. ASSUME NEW v, t = Failed(w, v)
      PROVE  Avoids(t)
  <2>1. t.cur = w.cur /\ t.path = w.path
    BY <1>1, <1>3 DEF Failed
  <2> QED
    BY <2>1 DEF Avoids
<1>4. ASSUME w.cur \in DOMAIN nodes
      PROVE  \A i \in 1 .. Len(p) : p[i] # NoKey
  <2>1. PICK z \in Nat : z = Len(w.path)
    BY <1>1
  <2>2. Len(p) = z + 1 /\ p[z + 1] = w.cur /\ \A i \in 1 .. z : p[i] = w.path[i]
    BY <1>1, <1>4, <2>1
  <2> HIDE DEF p
  <2>3. ASSUME NEW i \in 1 .. z + 1
        PROVE  p[i] # NoKey
    <3>1. CASE i = z + 1
      BY <2>2, <3>1 DEF Avoids
    <3>2. CASE i \in 1 .. z
      BY <2>1, <2>2, <3>2 DEF Avoids
    <3> QED
      BY <3>1, <3>2
  <2> QED
    BY <2>2, <2>3
<1>5. ASSUME w.cur \in DOMAIN nodes, t = [path |-> p, cur |-> w.cur, verdict |-> "done"]
      PROVE  Avoids(t)
  <2>1. t.cur = w.cur /\ t.path = p
    BY <1>5
  <2> HIDE DEF t, p
  <2> QED
    BY <1>4, <1>5, <2>1 DEF Avoids
<1>6. ASSUME w.cur \in DOMAIN nodes, ~(next \subseteq {NoKey}),
             t = [path |-> p, cur |-> c, verdict |-> "walking"]
      PROVE  Avoids(t)
  <2>1. \A x, y \in next : x = y
    BY <1>6, FirstChildOne
  <2>2. t.cur = c /\ t.path = p
    BY <1>6
  <2> HIDE DEF t, p, next
  <2>3. PICK l \in next : l # NoKey
    BY <1>6
  <2>4. c \in next
    BY <2>3
  <2>5. c # NoKey
    BY <2>1, <2>3, <2>4
  <2> HIDE DEF c
  <2> QED
    BY <1>4, <1>6, <2>2, <2>5 DEF Avoids
<1>7. CASE w.verdict = "walking"
  <2>1. \/ t = Failed(w, "loop") \/ t = Failed(w, "missing") \/ t = Failed(w, "no path")
        \/ t = Failed(w, "overrun")
        \/ /\ w.cur \in DOMAIN nodes
           /\ \/ t = [path |-> p, cur |-> w.cur, verdict |-> "done"]
              \/ /\ ~(next \subseteq {NoKey})
                 /\ t = [path |-> p, cur |-> c, verdict |-> "walking"]
    BY <1>7 DEF Turn, Advance
  <2>2. CASE \E v : t = Failed(w, v)
    BY <1>3, <2>2
  <2>3. CASE w.cur \in DOMAIN nodes /\ t = [path |-> p, cur |-> w.cur, verdict |-> "done"]
    BY <1>5, <2>3
  <2>4. CASE /\ w.cur \in DOMAIN nodes /\ ~(next \subseteq {NoKey})
             /\ t = [path |-> p, cur |-> c, verdict |-> "walking"]
    BY <1>6, <2>4
  <2> HIDE DEF t, p, next, c
  <2> QED
    BY <2>1, <2>2, <2>3, <2>4
<1> QED
  BY <1>2, <1>7

(* A walk that starts at a named root never comes to the empty key.        *)
LEMMA WalkAvoids ==
    ASSUME NEW nodes, NEW root \in Key, NEW facts, GoodNodes(nodes), root # NoKey
    PROVE  Avoids(Walk(nodes, root, facts))
PROOF
<1> DEFINE U == Turns(nodes, root, facts)
           M == MostTurns(nodes)
           T == {k \in Nat : k <= M => Avoids(U[k])}
<1>1. M \in Nat
  <2>1. Cardinality(DOMAIN nodes) \in Nat
    BY TurnsDefined
  <2> QED
    BY <2>1 DEF MostTurns
<1>2. U[0] = AtRoot(root) /\ \A k \in 0 .. M - 1 : U[k + 1] = Turn(nodes, facts, U[k])
  BY TurnsDefined
<1>3. \A k \in 0 .. M : WalkState(nodes, root, facts, U[k], k)
  BY TurnsKeep
<1> HIDE DEF U, M
<1>4. 0 \in T
  <2>1. U[0].cur = root /\ U[0].path = <<>> /\ Len(<<>>) = 0
    BY <1>2 DEF AtRoot
  <2>2. Avoids(U[0])
    BY <2>1 DEF Avoids
  <2> QED
    BY <2>2
<1>5. ASSUME NEW k \in Nat, k \in T
      PROVE  k + 1 \in T
  <2> SUFFICES ASSUME k + 1 <= M PROVE Avoids(U[k + 1])
    OBVIOUS
  <2>1. k \in 0 .. M - 1 /\ k \in 0 .. M /\ k <= M
    BY <1>1
  <2>2. U[k + 1] = Turn(nodes, facts, U[k]) /\ Avoids(U[k]) /\ WalkState(nodes, root, facts, U[k], k)
    BY <1>2, <1>3, <1>5, <2>1
  <2> QED
    BY <2>2, TurnAvoids
<1> HIDE DEF T
<1>6. \A k \in Nat : k \in T
  BY <1>4, <1>5, Inductive
<1>7. Avoids(U[M])
  BY <1>1, <1>6 DEF T
<1> QED
  BY <1>7 DEF Walk, U, M

(* When every child is a node and the root is one, no walk comes to a      *)
(* node that is missing.                                                   *)
LEMMA WalkFinds ==
    ASSUME NEW nodes, NEW root \in Key, NEW facts, GoodNodes(nodes), root \in DOMAIN nodes,
           \A k \in DOMAIN nodes : ToSet(nodes[k].next) \subseteq DOMAIN nodes
    PROVE  Walk(nodes, root, facts).verdict # "missing"
PROOF
<1> DEFINE U == Turns(nodes, root, facts)
           M == MostTurns(nodes)
           T == {k \in Nat : k <= M => U[k].verdict # "missing"}
<1>1. M \in Nat
  <2>1. Cardinality(DOMAIN nodes) \in Nat
    BY TurnsDefined
  <2> QED
    BY <2>1 DEF MostTurns
<1>2. U[0] = AtRoot(root) /\ \A k \in 0 .. M - 1 : U[k + 1] = Turn(nodes, facts, U[k])
  BY TurnsDefined
<1>3. \A k \in 0 .. M : WalkState(nodes, root, facts, U[k], k)
  BY TurnsKeep
<1> HIDE DEF U, M
<1>4. 0 \in T
  BY <1>2 DEF AtRoot
<1>5. ASSUME NEW k \in Nat, k \in T
      PROVE  k + 1 \in T
  <2> SUFFICES ASSUME k + 1 <= M PROVE U[k + 1].verdict # "missing"
    OBVIOUS
  <2>1. k \in 0 .. M - 1 /\ k \in 0 .. M /\ k <= M
    BY <1>1
  <2> DEFINE w == U[k]
  <2>2. U[k + 1] = Turn(nodes, facts, w) /\ w.verdict # "missing"
    BY <1>2, <1>5, <2>1
  <2>3. WalkState(nodes, root, facts, w, k)
    BY <1>3, <2>1
  <2> HIDE DEF w
  <2>4. CASE w.verdict # "walking"
    BY <2>2, <2>4 DEF Turn
  <2>5. CASE w.verdict = "walking"
    <3>1. w \in [path : Seq(DOMAIN nodes), cur : Key, verdict : Verdicts] /\ Len(w.path) = k
          /\ IF k = 0 THEN w.cur = root ELSE Leads(nodes, facts, w.path[k], w.cur)
      BY <2>3, <2>5 DEF WalkState
    <3>2. w.cur \in DOMAIN nodes
      <4>1. CASE k = 0
        BY <3>1, <4>1
      <4>2. CASE k # 0
        <5>1. k \in 1 .. Len(w.path) /\ w.path \in Seq(DOMAIN nodes)
          BY <3>1, <4>2
        <5>2. w.path[k] \in DOMAIN nodes
          BY <5>1, SeqFacts
        <5>3. w.cur \in ToSet(nodes[w.path[k]].next)
          BY <3>1, <4>2 DEF Leads, ToSet
        <5> QED
          BY <5>2, <5>3
      <4> QED
        BY <4>1, <4>2
    <3>3. /\ Failed(w, "loop").verdict = "loop" /\ Failed(w, "no path").verdict = "no path"
          /\ Failed(w, "overrun").verdict = "overrun"
      BY <3>1 DEF Failed
    <3> DEFINE path == Append(w.path, w.cur)
               c == CHOOSE l \in FirstChild(nodes, facts, nodes[w.cur].next) : TRUE
               t == Turn(nodes, facts, w)
    <3>4. \/ t = Failed(w, "loop") \/ t = Failed(w, "no path")
          \/ t = [path |-> path, cur |-> w.cur, verdict |-> "done"]
          \/ t = Failed(w, "overrun")
          \/ t = [path |-> path, cur |-> c, verdict |-> "walking"]
      BY <2>5, <3>2 DEF Turn, Advance
    <3> HIDE DEF path, c, t
    <3>5. t.verdict \in {"loop", "no path", "done", "overrun", "walking"}
      <4>1. CASE t = [path |-> path, cur |-> w.cur, verdict |-> "done"]
        BY <4>1
      <4>2. CASE t = [path |-> path, cur |-> c, verdict |-> "walking"]
        BY <4>2
      <4>3. CASE t = Failed(w, "loop") \/ t = Failed(w, "no path") \/ t = Failed(w, "overrun")
        BY <3>3, <4>3
      <4> QED
        BY <3>4, <4>1, <4>2, <4>3
    <3>6. t.verdict # "missing"
      BY <3>5
    <3> QED
      BY <2>2, <3>6 DEF t
  <2> QED
    BY <2>4, <2>5
<1> HIDE DEF T
<1>6. \A k \in Nat : k \in T
  BY <1>4, <1>5, Inductive
<1>7. U[M].verdict # "missing"
  BY <1>1, <1>6 DEF T
<1> QED
  BY <1>7 DEF Walk, U, M

(* What OpenWorkflow files is a finite map of nodes that has the root,     *)
(* whichever node stays under a shared ID.                                 *)
LEMMA CleanedGood ==
    ASSUME NEW t \in Trees, WellFormed(t.nodes, t.root), NEW nodes \in Cleaned(t.nodes)
    PROVE  GoodNodes(nodes) /\ t.root \in Key /\ t.root # NoKey /\ t.root \in DOMAIN nodes
PROOF
<1> DEFINE D == DOMAIN t.nodes
           I == IDs(t.nodes)
           IdAt(k) == IDOf(t.nodes, k)
<1>1. D \subseteq Key /\ IsFiniteSet(D) /\ \A k \in D : t.nodes[k] \in Node
  BY TreesAssumption
<1>2. \A k \in D : IdAt(k) \in Key
  BY <1>1 DEF IDOf, Node
<1>3. I = {IdAt(k) : k \in D}
  BY DEF IDs
<1>4. PICK f \in [I -> D] : nodes = [i \in I |-> t.nodes[f[i]]]
  BY DEF Cleaned
<1>5. t.root \in I /\ t.root # NoKey
  BY DEF WellFormed
<1>6. IsFiniteSet(I)
  <2> DEFINE g == [k \in D |-> IdAt(k)]
  <2>1. g \in Surjection(D, I)
    <3>1. g \in [D -> I] /\ \A i \in I : \E k \in D : g[k] = i
      <4> HIDE DEF IdAt, D, I
      <4> QED
        BY <1>3
    <3> HIDE DEF g, D, I
    <3> QED
      BY <3>1 DEF Surjection
  <2> HIDE DEF g, D, I
  <2> QED
    BY <1>1, <2>1, FS_Surjection
<1> HIDE DEF I, D, IdAt
<1>7. I \subseteq Key
  BY <1>2, <1>3
<1>8. DOMAIN nodes = I /\ \A i \in I : nodes[i] \in Node
  BY <1>1, <1>4
<1> QED
  BY <1>5, <1>6, <1>7, <1>8 DEF GoodNodes

(* When every node is filed under its own key, what is filed is the tree.  *)
LEMMA CleanedSame ==
    ASSUME NEW t \in Trees, \A k \in DOMAIN t.nodes : IDOf(t.nodes, k) = k,
           NEW nodes \in Cleaned(t.nodes)
    PROVE  nodes = t.nodes
PROOF
<1> DEFINE D == DOMAIN t.nodes
           I == IDs(t.nodes)
<1>1. I = D
  BY DEF IDs
<1>2. PICK f \in [I -> D] : /\ nodes = [i \in I |-> t.nodes[f[i]]]
                            /\ \A i \in I : IDOf(t.nodes, f[i]) = i
  BY DEF Cleaned
<1>3. \A i \in I : f[i] = i
  BY <1>2
<1>4. t.nodes \in [D -> Node]
  BY TreesAssumption
<1> HIDE DEF I
<1>5. nodes = [i \in D |-> t.nodes[i]]
  BY <1>1, <1>2, <1>3
<1> QED
  BY <1>4, <1>5

(***************************************************************************)
(* The hosts.  FlowInv is the inductive invariant: a host that opened the  *)
(* tree holds one of the maps OpenWorkflow may file, and one that executed *)
(* holds, with its receipt, what the walk found.                           *)
(***************************************************************************)
FlowReceipt == [action : {"open", "execute"}, actor : {Actor}, note : {NoText} \cup (Seq(Key) \X Key)]

FlowLedger == [receipts : Seq(FlowReceipt), steps : Int, over : BOOLEAN]

FlowRecord == [status : {"none", "open", "executed"}, nodes : Cleaned(tree.nodes) \cup {<<>>},
               path : Seq(Key), action : Key \cup {NoKey}, facts : SUBSET Fact, led : FlowLedger]

FlowHolds(r) ==
    /\ r.status # "none" =>
          WellFormed(tree.nodes, tree.root) /\ r.nodes \in Cleaned(tree.nodes)
    /\ r.status = "executed" =>
          /\ Prescribed(r.nodes, tree.root, r.facts, r.path)
          /\ r.action = Last(r.path)
          /\ Last(r.led.receipts).note = <<r.path, r.action>>

FlowInv ==
    /\ tree \in Trees
    /\ flow \in [Host -> FlowRecord]
    /\ \A h \in Host : FlowHolds(flow[h])

(* A refused attempt keeps the receipts.                                   *)
LEMMA ChargeKeeps ==
    ASSUME NEW led \in FlowLedger
    PROVE  Charge(led) \in FlowLedger /\ Charge(led).receipts = led.receipts
PROOF
<1> DEFINE s == IF led.steps > MaxSteps THEN led.steps ELSE led.steps + 1
<1>1. s \in Int
  BY MeterAssumption DEF FlowLedger
<1> HIDE DEF s
<1>2. Charge(led) = [led EXCEPT !.steps = s]
  BY DEF Charge, s
<1> QED
  BY <1>1, <1>2 DEF FlowLedger

(* An admitted attempt ends the ledger with its receipt.                   *)
LEMMA RecordKeeps ==
    ASSUME NEW led \in FlowLedger, NEW path \in Seq(Key), NEW action \in Key
    PROVE  LET new == Record(led, Actor, "execute", <<path, action>>)
           IN  new \in FlowLedger /\ Last(new.receipts).note = <<path, action>>
PROOF
<1> DEFINE r == [action |-> "execute", actor |-> Actor, note |-> <<path, action>>]
           c == Charge(led)
           new == Record(led, Actor, "execute", <<path, action>>)
           rs == Append(c.receipts, r)
<1>1. r \in FlowReceipt /\ r.note = <<path, action>>
  BY DEF FlowReceipt
<1>2. c \in FlowLedger
  BY ChargeKeeps
<1>3. new = [c EXCEPT !.receipts = rs]
  BY DEF Record
<1> HIDE DEF r, c, new
<1>4. c.receipts \in Seq(FlowReceipt)
  BY <1>2 DEF FlowLedger
<1>5. rs \in Seq(FlowReceipt) /\ Last(rs) = r
  BY <1>1, <1>4 DEF Last
<1> HIDE DEF rs
<1>6. new \in FlowLedger /\ new.receipts = rs
  BY <1>2, <1>3, <1>5 DEF FlowLedger
<1> QED
  BY <1>1, <1>5, <1>6 DEF new

(* Initially no host has opened the tree.                                  *)
LEMMA FlowInitKeeps == WInit => FlowInv
PROOF
<1> SUFFICES ASSUME WInit PROVE FlowInv
  OBVIOUS
<1> DEFINE o == Opened(Actor, "open")
           r == [action |-> "open", actor |-> Actor, note |-> NoText]
<1>1. r \in FlowReceipt
  BY DEF FlowReceipt
<1>2. o = [receipts |-> <<r>>, steps |-> 1, over |-> FALSE]
  BY DEF Opened
<1> HIDE DEF r, o
<1>3. <<r>> \in Seq(FlowReceipt)
  BY <1>1
<1>4. o \in FlowLedger
  BY <1>2, <1>3 DEF FlowLedger
<1>5. <<>> \in Seq(Key)
  OBVIOUS
<1>6. Unopened \in FlowRecord /\ Unopened.status = "none"
  BY <1>4, <1>5 DEF Unopened, FlowRecord, o
<1> QED
  BY <1>6 DEF WInit, FlowInv, FlowHolds

(* OpenWorkflow files one of the maps of a tree that passed its checks.    *)
LEMMA OpenKeeps ==
    ASSUME FlowInv, NEW h \in Host, OpenWorkflow(h)
    PROVE  FlowInv'
PROOF
<1>1. PICK cleaned \in Cleaned(tree.nodes) :
          flow' = [flow EXCEPT ![h] = [flow[h] EXCEPT !.status = "open", !.nodes = cleaned]]
  BY DEF OpenWorkflow
<1> DEFINE r == [flow[h] EXCEPT !.status = "open", !.nodes = cleaned]
<1>2. tree' = tree /\ WellFormed(tree.nodes, tree.root)
  BY DEF OpenWorkflow
<1>3. flow \in [Host -> FlowRecord] /\ flow[h] \in FlowRecord
  BY DEF FlowInv
<1>4. r \in FlowRecord /\ r.status = "open" /\ r.nodes = cleaned
  BY <1>3 DEF FlowRecord
<1>5. flow' = [flow EXCEPT ![h] = r]
  BY <1>1
<1> HIDE DEF r
<1>6. FlowHolds(r)
  BY <1>2, <1>4 DEF FlowHolds
<1>7. flow' \in [Host -> FlowRecord] /\ \A g \in Host : FlowHolds(flow'[g])
  BY <1>3, <1>4, <1>5, <1>6 DEF FlowInv
<1>8. FlowRecord' = FlowRecord /\ \A g \in Host : FlowHolds(flow[g])' <=> FlowHolds(flow'[g])
  BY <1>2 DEF FlowRecord, FlowHolds
<1> QED
  BY <1>2, <1>7, <1>8 DEF FlowInv

(* Execute records what a finished walk found, or uses up a step.          *)
LEMMA ExecuteKeeps ==
    ASSUME FlowInv, NEW h \in Host, NEW actor \in Party, NEW facts \in SUBSET Fact,
           Execute(h, actor, facts)
    PROVE  FlowInv'
PROOF
<1> DEFINE f == flow[h]
           walk == Walk(f.nodes, tree.root, facts)
           new == Record(f.led, Actor, "execute", <<walk.path, walk.cur>>)
           done == [f EXCEPT !.status = "executed", !.path = walk.path, !.facts = facts,
                             !.action = walk.cur, !.led = new]
           paid == [f EXCEPT !.led = Charge(f.led)]
           r == IF Admits(f.led) THEN done ELSE paid
<1>1. /\ tree' = tree /\ actor = Actor /\ f.status = "open" /\ walk.verdict = "done"
      /\ flow' = [flow EXCEPT ![h] = r]
  BY DEF Execute
<1>2. flow \in [Host -> FlowRecord] /\ f \in FlowRecord /\ FlowHolds(f) /\ tree \in Trees
  BY DEF FlowInv
<1>3. WellFormed(tree.nodes, tree.root) /\ f.nodes \in Cleaned(tree.nodes)
  BY <1>1, <1>2 DEF FlowHolds
<1>4. GoodNodes(f.nodes) /\ tree.root \in Key
  BY <1>2, <1>3, CleanedGood
<1>5. /\ walk.path \in Seq(DOMAIN f.nodes) /\ walk.cur \in Key
      /\ Prescribed(f.nodes, tree.root, facts, walk.path) /\ walk.cur = Last(walk.path)
  BY <1>1, <1>4, WalkEnds
<1>6. walk.path \in Seq(Key)
  <2>1. DOMAIN f.nodes \subseteq Key
    BY <1>4 DEF GoodNodes
  <2> HIDE DEF f, walk
  <2> QED
    BY <1>5, <2>1
<1> HIDE DEF walk
<1>7. f.led \in FlowLedger
  BY <1>2 DEF FlowRecord
<1>8. new \in FlowLedger /\ Last(new.receipts).note = <<walk.path, walk.cur>>
  BY <1>5, <1>6, <1>7, RecordKeeps
<1>9. Charge(f.led) \in FlowLedger
  BY <1>7, ChargeKeeps
<1> HIDE DEF f, new
<1>10. done \in FlowRecord /\ FlowHolds(done)
  <2>1. /\ done \in FlowRecord /\ done.status = "executed" /\ done.nodes = f.nodes
        /\ done.path = walk.path /\ done.facts = facts /\ done.action = walk.cur /\ done.led = new
    BY <1>2, <1>5, <1>6, <1>8 DEF FlowRecord
  <2> HIDE DEF done
  <2> QED
    BY <1>3, <1>5, <1>8, <2>1 DEF FlowHolds
<1>11. paid \in FlowRecord /\ FlowHolds(paid)
  <2> DEFINE l == Charge(f.led)
  <2> HIDE DEF l
  <2>1. paid \in FlowRecord /\ paid.status = "open" /\ paid.nodes = f.nodes
    BY <1>1, <1>2, <1>9 DEF FlowRecord, l
  <2> HIDE DEF paid
  <2> QED
    BY <1>3, <2>1 DEF FlowHolds
<1> HIDE DEF done, paid
<1>12. r \in FlowRecord /\ FlowHolds(r)
  BY <1>10, <1>11
<1> HIDE DEF r
<1>13. flow' \in [Host -> FlowRecord] /\ \A g \in Host : FlowHolds(flow'[g])
  BY <1>1, <1>2, <1>12 DEF FlowInv
<1>14. FlowRecord' = FlowRecord /\ \A g \in Host : FlowHolds(flow[g])' <=> FlowHolds(flow'[g])
  BY <1>1 DEF FlowRecord, FlowHolds
<1> QED
  BY <1>1, <1>2, <1>13, <1>14 DEF FlowInv

(* Every step keeps the invariant.                                         *)
LEMMA FlowStepKeeps == FlowInv /\ [WNext]_wvars => FlowInv'
PROOF
<1> SUFFICES ASSUME FlowInv, [WNext]_wvars PROVE FlowInv'
  OBVIOUS
<1>1. CASE UNCHANGED wvars
  BY <1>1 DEF wvars, FlowInv, FlowRecord, FlowHolds
<1>2. ASSUME NEW h \in Host, OpenWorkflow(h)
      PROVE  FlowInv'
  BY <1>2, OpenKeeps
<1>3. ASSUME NEW h \in Host, NEW actor \in Party, NEW facts \in SUBSET Fact, Execute(h, actor, facts)
      PROVE  FlowInv'
  BY <1>3, ExecuteKeeps
<1> QED
  BY <1>1, <1>2, <1>3 DEF WNext

(* FlowInv holds in every reachable state.                                 *)
LEMMA FlowInvariant == WSpec => []FlowInv
PROOF
<1> QED
  BY FlowInitKeeps, FlowStepKeeps, PTL DEF WSpec

(* For every set of trees, hosts and facts, what Execute records is the    *)
(* path the tree prescribes for the facts, its last node and that receipt. *)
THEOREM PathsPrescribed == WSpec => []PathPrescribed
PROOF
<1>1. FlowInv => PathPrescribed
  BY DEF FlowInv, FlowHolds, PathPrescribed
<1> QED
  BY <1>1, FlowInvariant, PTL

(* For every tree that OpenWorkflow takes, whatever its size, cycles,      *)
(* shared IDs and empty key, Walk returns with an action or one of its     *)
(* errors, its loop check fires before its length bound can, and it        *)
(* returns with an action exactly when a path is prescribed that does not  *)
(* pass the node under the empty key.                                      *)
THEOREM WalksSettle == WSpec => []WalkSettles
PROOF
<1>1. FlowInv => WalkSettles
  <2> SUFFICES ASSUME FlowInv, NEW h \in Host, NEW facts \in SUBSET Fact, flow[h].status # "none"
               PROVE  LET nodes == flow[h].nodes
                          walk == Walk(nodes, tree.root, facts)
                      IN  /\ walk.verdict \in {"done", "no path", "loop", "missing"}
                          /\ walk.verdict = "done" <=>
                                \E path \in SeqOf(DOMAIN nodes \ {NoKey}, Cardinality(DOMAIN nodes)) :
                                    Prescribed(nodes, tree.root, facts, path)
    BY DEF WalkSettles
  <2> DEFINE nodes == flow[h].nodes
             walk == Walk(nodes, tree.root, facts)
             D == DOMAIN nodes
             E == D \ {NoKey}
             N == Cardinality(D)
  <2>1. GoodNodes(nodes) /\ tree.root \in Key /\ tree.root # NoKey
    BY CleanedGood DEF FlowInv, FlowHolds
  <2> HIDE DEF nodes
  <2>2. walk.verdict \in {"done", "no path", "loop", "missing"}
    BY <2>1, WalkEnds
  <2>3. N \in Nat
    BY <2>1, TurnsDefined
  <2> HIDE DEF N
  <2>4. \A path : path \in SeqOf(E, N) <=> path \in UNION {[1 .. m -> E] : m \in 0 .. N}
    BY DEF SeqOf
  <2>5. ASSUME NEW path \in SeqOf(E, N), Prescribed(nodes, tree.root, facts, path)
        PROVE  walk.verdict = "done"
    <3>1. path \in Seq(E)
      BY <2>3, <2>4, ListsAreSeqs
    <3>2. path \in Seq(D) /\ \A i \in 1 .. Len(path) : path[i] # NoKey
      BY <3>1
    <3> QED
      BY <2>1, <2>5, <3>2, PrescribedIsWalked
  <2>6. ASSUME walk.verdict = "done"
        PROVE  \E path \in SeqOf(E, N) : Prescribed(nodes, tree.root, facts, path)
    <3> DEFINE p == walk.path
    <3>1. p \in Seq(D) /\ Prescribed(nodes, tree.root, facts, p)
      BY <2>1, <2>6, WalkEnds
    <3>2. \A i \in 1 .. Len(p) : p[i] # NoKey
      BY <2>1, WalkAvoids DEF Avoids
    <3> HIDE DEF p
    <3>3. PICK z \in Nat : z = Len(p)
      BY <3>1, SeqFacts
    <3>4. z <= N
      <4>1. IsInjective(p) /\ IsFiniteSet(D)
        BY <2>1, <3>1 DEF Prescribed, GoodNodes
      <4> QED
        BY <3>1, <3>3, <4>1, InjectiveShort DEF N
    <3>5. p \in [1 .. z -> E]
      BY <3>1, <3>2, <3>3
    <3>6. p \in SeqOf(E, N)
      <4>1. z \in 0 .. N
        BY <2>3, <3>3, <3>4
      <4> HIDE DEF E
      <4>2. p \in UNION {[1 .. m -> E] : m \in 0 .. N}
        BY <3>5, <4>1
      <4> QED
        BY <2>4, <4>2
    <3> QED
      BY <3>1, <3>6
  <2> QED
    BY <2>2, <2>5, <2>6 DEF nodes, N
<1> QED
  BY <1>1, FlowInvariant, PTL

(* OpenWorkflow's look-up of the children suffices for every tree whose    *)
(* nodes are filed under their own keys: Walk never misses a node.         *)
THEOREM ValidatedTreesWalk == WSpec => []ValidatedTreeWalks
PROOF
<1>1. FlowInv => ValidatedTreeWalks
  <2> SUFFICES ASSUME FlowInv, NEW h \in Host, NEW facts \in SUBSET Fact, flow[h].status # "none",
                      \A k \in DOMAIN tree.nodes : IDOf(tree.nodes, k) = k
               PROVE  Walk(flow[h].nodes, tree.root, facts).verdict # "missing"
    BY DEF ValidatedTreeWalks
  <2> DEFINE nodes == flow[h].nodes
  <2>1. tree \in Trees /\ WellFormed(tree.nodes, tree.root) /\ nodes \in Cleaned(tree.nodes)
    BY DEF FlowInv, FlowHolds
  <2> HIDE DEF nodes
  <2>2. GoodNodes(nodes) /\ tree.root \in Key /\ tree.root \in DOMAIN nodes
    BY <2>1, CleanedGood
  <2>3. nodes = tree.nodes
    BY <2>1, CleanedSame
  <2>4. \A k \in DOMAIN nodes : ToSet(nodes[k].next) \subseteq DOMAIN nodes
    BY <2>1, <2>3 DEF WellFormed
  <2>5. Walk(nodes, tree.root, facts).verdict # "missing"
    BY <2>2, <2>4, WalkFinds
  <2> QED
    BY <2>5 DEF nodes
<1> QED
  BY <1>1, FlowInvariant, PTL
=============================================================================
