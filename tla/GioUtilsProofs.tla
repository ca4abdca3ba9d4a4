---- MODULE GioUtilsProofs ----
(* Proofs about GioUtils and FrExtractHere, for any trees, operations, names, and bounds on links
   and on what other programs do. *)
EXTENDS FrExtractHere, FiniteSetTheorems, WellFoundedInduction, TLAPS

----
(* Sequences. *)

LEMMA SmallestOf ==
    ASSUME NEW T \in SUBSET Nat, T # {}
    PROVE  \E x \in T : \A y \in T : ~(y < x)
<1>1. PICK x \in T : \A y \in T : ~(<<y, x>> \in OpToRel(<, Nat)) BY NatLessThanWellFounded, WFMin
<1>2. \A y \in T : y < x => <<y, x>> \in OpToRel(<, Nat) BY DEF OpToRel
<1> QED BY <1>1, <1>2

LEMMA Elements ==
    ASSUME NEW T, NEW s \in Seq(T)
    PROVE  /\ DOMAIN s = 1 .. Len(s) /\ Len(s) \in Nat
           /\ \A i \in 1 .. Len(s) : s[i] \in T /\ s[i] \in ToSet(s)
           /\ \A x : x \in ToSet(s) <=> \E i \in 1 .. Len(s) : x = s[i]
           /\ ToSet(s) \subseteq T
  BY DEF ToSet

LEMMA Concatenated ==
    ASSUME NEW T, NEW s \in Seq(T), NEW t \in Seq(T)
    PROVE  /\ s \o t \in Seq(T) /\ Len(s \o t) = Len(s) + Len(t)
           /\ \A i \in 1 .. Len(s) : (s \o t)[i] = s[i]
           /\ \A i \in 1 .. Len(t) : (s \o t)[Len(s) + i] = t[i]
           /\ ToSet(s \o t) = ToSet(s) \cup ToSet(t)
           /\ (IsInjective(s) /\ IsInjective(t) /\ ToSet(s) \cap ToSet(t) = {}) => IsInjective(s \o t)
<1>1. /\ s \o t \in Seq(T) /\ Len(s \o t) = Len(s) + Len(t)
      /\ \A i \in 1 .. Len(s) : (s \o t)[i] = s[i]
      /\ \A i \in 1 .. Len(t) : (s \o t)[Len(s) + i] = t[i]
 OBVIOUS
<1> DEFINE u == s \o t
<1>2. u \in Seq(T) /\ Len(u) = Len(s) + Len(t)
      /\ (\A i \in 1 .. Len(s) : u[i] = s[i]) /\ (\A i \in 1 .. Len(t) : u[Len(s) + i] = t[i])
 BY <1>1
<1>f. \A i \in 1 .. Len(s) : u[i] = s[i] BY <1>1
<1> HIDE DEF u
<1>s. DOMAIN s = 1 .. Len(s) /\ Len(s) \in Nat /\ \A x : x \in ToSet(s) <=> \E i \in 1 .. Len(s) : x = s[i]
  BY Elements
<1>t. DOMAIN t = 1 .. Len(t) /\ Len(t) \in Nat /\ \A x : x \in ToSet(t) <=> \E i \in 1 .. Len(t) : x = t[i]
  BY Elements
<1>u. DOMAIN u = 1 .. Len(u) /\ Len(u) \in Nat /\ \A x : x \in ToSet(u) <=> \E i \in 1 .. Len(u) : x = u[i]
  BY <1>2, Elements
<1>3. \A i \in 1 .. Len(u) :
         \/ i \in 1 .. Len(s) /\ u[i] = s[i]
         \/ i - Len(s) \in 1 .. Len(t) /\ u[i] = t[i - Len(s)]
 <2> TAKE i \in 1 .. Len(u)
 <2>1. i \in 1 .. Len(s) \/ (i - Len(s) \in 1 .. Len(t) /\ i = Len(s) + (i - Len(s)))
  BY <1>2, <1>s, <1>t
 <2>2. CASE i - Len(s) \in 1 .. Len(t) /\ i = Len(s) + (i - Len(s))
  <3>1. u[Len(s) + (i - Len(s))] = t[i - Len(s)] BY <2>2, <1>2
  <3>2. u[i] = t[i - Len(s)] BY <3>1, <2>2
  <3> QED BY <3>2, <2>2
 <2>3. CASE i \in 1 .. Len(s)
  <3>1. u[i] = s[i] BY <2>3, <1>f
  <3> QED BY <3>1, <2>3
 <2> QED BY <2>1, <2>2, <2>3
<1>4. ToSet(u) \subseteq ToSet(s) \cup ToSet(t) BY <1>3, <1>s, <1>t, <1>u
<1>5. ToSet(s) \subseteq ToSet(u)
 <2>1. \A i \in 1 .. Len(s) : i \in 1 .. Len(u) BY <1>2, <1>s, <1>t
 <2> QED BY <2>1, <1>2, <1>s, <1>u
<1>6. ToSet(t) \subseteq ToSet(u)
 <2>1. \A i \in 1 .. Len(t) : Len(s) + i \in 1 .. Len(u) BY <1>2, <1>s, <1>t
 <2> QED BY <2>1, <1>2, <1>t, <1>u
<1>7. ASSUME IsInjective(s), IsInjective(t), ToSet(s) \cap ToSet(t) = {},
             NEW i \in 1 .. Len(u), NEW j \in 1 .. Len(u), u[i] = u[j]
      PROVE  i = j
 <2>1. CASE i \in 1 .. Len(s) /\ u[i] = s[i] /\ j \in 1 .. Len(s) /\ u[j] = s[j]
  BY <2>1, <1>7, <1>s DEF IsInjective
 <2>2. CASE /\ i - Len(s) \in 1 .. Len(t) /\ u[i] = t[i - Len(s)]
            /\ j - Len(s) \in 1 .. Len(t) /\ u[j] = t[j - Len(s)]
  <3>1. i - Len(s) = j - Len(s) BY <2>2, <1>7, <1>t DEF IsInjective
  <3> QED BY <3>1, <1>s, <1>2
 <2>3. CASE i \in 1 .. Len(s) /\ u[i] = s[i] /\ j - Len(s) \in 1 .. Len(t) /\ u[j] = t[j - Len(s)]
  BY <2>3, <1>7, <1>s, <1>t
 <2>4. CASE j \in 1 .. Len(s) /\ u[j] = s[j] /\ i - Len(s) \in 1 .. Len(t) /\ u[i] = t[i - Len(s)]
  BY <2>4, <1>7, <1>s, <1>t
 <2> QED BY <2>1, <2>2, <2>3, <2>4, <1>3
<1>8. (IsInjective(s) /\ IsInjective(t) /\ ToSet(s) \cap ToSet(t) = {}) => IsInjective(u)
 BY <1>7, <1>u DEF IsInjective
<1> QED BY <1>1, <1>4, <1>5, <1>6, <1>8 DEF u

LEMMA Reversed ==
    ASSUME NEW T, NEW s \in Seq(T)
    PROVE  /\ Reverse(s) \in Seq(T) /\ Len(Reverse(s)) = Len(s) /\ ToSet(Reverse(s)) = ToSet(s)
           /\ \A i \in 1 .. Len(s) : Reverse(s)[i] = s[Len(s) + 1 - i]
           /\ IsInjective(s) => IsInjective(Reverse(s))
<1> DEFINE u == Reverse(s)
<1>1. u = [i \in 1 .. Len(s) |-> s[(Len(s) - i) + 1]] BY DEF Reverse
<1>2. \A i \in 1 .. Len(s) : (Len(s) - i) + 1 \in 1 .. Len(s) /\ (Len(s) - ((Len(s) - i) + 1)) + 1 = i
 OBVIOUS
<1>3. u \in Seq(T) /\ Len(u) = Len(s) /\ \A i \in 1 .. Len(s) : u[i] = s[(Len(s) - i) + 1]
 BY <1>1, <1>2
<1>4. \A i \in 1 .. Len(s) : u[i] = s[Len(s) + 1 - i]
 <2> TAKE i \in 1 .. Len(s)
 <2>1. (Len(s) - i) + 1 = Len(s) + 1 - i OBVIOUS
 <2> QED BY <2>1, <1>3
<1> HIDE DEF u
<1>5. ToSet(u) \subseteq ToSet(s)
 <2>1. \A i \in 1 .. Len(s) : u[i] \in ToSet(s)
  <3> TAKE i \in 1 .. Len(s)
  <3>1. u[i] = s[(Len(s) - i) + 1] /\ (Len(s) - i) + 1 \in 1 .. Len(s) BY <1>2, <1>3
  <3>2. \A j \in 1 .. Len(s) : s[j] \in ToSet(s) BY Elements
  <3> QED BY <3>1, <3>2
 <2> QED BY <2>1, <1>3, Elements
<1>6. ToSet(s) \subseteq ToSet(u)
 <2> SUFFICES ASSUME NEW i \in 1 .. Len(s) PROVE s[i] \in ToSet(u) BY Elements
 <2>1. u[(Len(s) - i) + 1] = s[i] BY <1>2, <1>3
 <2> QED BY <2>1, <1>2, <1>3, Elements
<1>7. ASSUME IsInjective(s) PROVE IsInjective(u)
 <2> SUFFICES ASSUME NEW i \in 1 .. Len(s), NEW j \in 1 .. Len(s), u[i] = u[j] PROVE i = j
  BY <1>3 DEF IsInjective
 <2>1. s[(Len(s) - i) + 1] = s[(Len(s) - j) + 1] /\ DOMAIN s = 1 .. Len(s) BY <1>3
 <2> QED BY <1>2, <1>7, <2>1 DEF IsInjective
<1> QED BY <1>3, <1>4, <1>5, <1>6, <1>7 DEF u

\* What Joined computes: every element of the lists, once if it is once in one of them.
LEMMA JoinedIs ==
    ASSUME NEW T, NEW L \in Nat, NEW lists \in [1 .. L -> Seq(T)]
    PROVE  /\ Joined(lists, L) \in Seq(T)
           /\ ToSet(Joined(lists, L)) = UNION {ToSet(lists[n]) : n \in 1 .. L}
           /\ (/\ \A n \in 1 .. L : IsInjective(lists[n])
               /\ \A m, n \in 1 .. L : m # n => ToSet(lists[m]) \cap ToSet(lists[n]) = {})
              => IsInjective(Joined(lists, L))
<1> DEFINE body(f, n) == IF n = 0 THEN <<>> ELSE f[n - 1] \o lists[n]
           recursive(f, m) == f = [n \in 0 .. m |-> body(f, n)]
           bad == {m \in 0 .. L : ~\E f : recursive(f, m)}
           all == CHOOSE f : recursive(f, L)
<1>1. bad = {}
 <2> SUFFICES ASSUME bad # {} PROVE FALSE OBVIOUS
 <2>0. bad \in SUBSET Nat
  <3> HIDE DEF recursive
  <3> QED OBVIOUS
 <2> HIDE DEF bad
 <2>1. PICK m \in bad : \A y \in bad : ~(y < m) BY <2>0, SmallestOf
 <2> USE DEF bad
 <2>2. m # 0
  <3>1. recursive([n \in 0 .. 0 |-> <<>>], 0) OBVIOUS
  <3> QED BY <3>1, <2>1
 <2>4. m \in Nat /\ m # 0 /\ m - 1 \in 0 .. L /\ m - 1 < m /\ ~(m <= m - 1) BY <2>1, <2>2
 <2>5. m - 1 \notin bad BY <2>1, <2>4
 <2>3. PICK f : recursive(f, m - 1) BY <2>4, <2>5
 <2> DEFINE g == [n \in 0 .. m |-> IF n = m THEN f[m - 1] \o lists[m] ELSE f[n]]
 <2>6. \A n \in 0 .. m : g[n] = body(g, n)
  <3> TAKE n \in 0 .. m
  <3>1. CASE n = m
   <4>1. m - 1 \in 0 .. m /\ g[m - 1] = f[m - 1] /\ g[m] = f[m - 1] \o lists[m] BY <2>4
   <4> HIDE DEF g
   <4> QED BY <3>1, <2>4, <4>1
  <3>2. CASE n # m
   <4>1. n \in 0 .. m - 1 /\ g[n] = f[n] /\ (n # 0 => n - 1 \in 0 .. m - 1 /\ n - 1 # m /\ g[n - 1] = f[n - 1])
    BY <3>2, <2>4
   <4>2. f[n] = body(f, n) BY <4>1, <2>3
   <4> HIDE DEF g
   <4> QED BY <4>1, <4>2
  <3> QED BY <3>1, <3>2
 <2>7. recursive(g, m)
  <3>1. g = [n \in 0 .. m |-> g[n]] OBVIOUS
  <3> HIDE DEF g
  <3>2. [n \in 0 .. m |-> g[n]] = [n \in 0 .. m |-> body(g, n)] BY <2>6
  <3> QED BY <3>1, <3>2
 <2> HIDE DEF recursive
 <2> QED BY <2>7, <2>1
<1>2. recursive(all, L)
 <2> HIDE DEF recursive
 <2>0. L \in 0 .. L OBVIOUS
 <2> QED BY <1>1, <2>0
<1>3. Joined(lists, L) = all[L] BY DEF Joined
<1> HIDE DEF all
<1>4. /\ all[0] = <<>>
      /\ \A n \in 1 .. L : all[n] = all[n - 1] \o lists[n]
 <2>1. \A n \in 0 .. L : all[n] = body(all, n) BY <1>2
 <2>2. all[0] = <<>> BY <2>1
 <2>3. \A n \in 1 .. L : n \in 0 .. L /\ n # 0 OBVIOUS
 <2> QED BY <2>1, <2>2, <2>3
<1> HIDE DEF recursive, body, bad
<1> DEFINE upto(n) == UNION {ToSet(lists[i]) : i \in 1 .. n}
           apart == /\ \A n \in 1 .. L : IsInjective(lists[n])
                    /\ \A m, n \in 1 .. L : m # n => ToSet(lists[m]) \cap ToSet(lists[n]) = {}
           right(n) == /\ all[n] \in Seq(T) /\ ToSet(all[n]) = upto(n)
                       /\ apart => IsInjective(all[n])
           wrong == {n \in 0 .. L : ~right(n)}
<1>5. wrong = {}
 <2> SUFFICES ASSUME wrong # {} PROVE FALSE OBVIOUS
 <2>0. wrong \in SUBSET Nat OBVIOUS
 <2> HIDE DEF wrong
 <2>1. PICK m \in wrong : \A y \in wrong : ~(y < m) BY <2>0, SmallestOf
 <2> USE DEF wrong
 <2>2. m # 0
  <3>1. all[0] \in Seq(T) /\ DOMAIN all[0] = {} /\ upto(0) = {} BY <1>4
  <3>2. right(0) BY <3>1 DEF ToSet, IsInjective
  <3> QED BY <2>1, <3>2
 <2>3. m \in 1 .. L /\ m - 1 \in 0 .. L /\ m - 1 < m /\ m \in Nat BY <2>1, <2>2
 <2>4. right(m - 1)
  <3>1. m - 1 \notin wrong BY <2>1, <2>3
  <3> HIDE DEF right
  <3> QED BY <2>3, <3>1
 <2>5. upto(m) = upto(m - 1) \cup ToSet(lists[m])
  <3> QED BY <2>3
 <2>6. all[m] = all[m - 1] \o lists[m] /\ lists[m] \in Seq(T) BY <2>3, <1>4
 <2>7. all[m] \in Seq(T) /\ ToSet(all[m]) = upto(m)
  <3>1. all[m] \in Seq(T) /\ ToSet(all[m]) = ToSet(all[m - 1]) \cup ToSet(lists[m])
   BY <2>4, <2>6, Concatenated
  <3> HIDE DEF upto
  <3> QED BY <3>1, <2>4, <2>5
 <2>8. ASSUME apart PROVE IsInjective(all[m])
  <3>1. upto(m - 1) \cap ToSet(lists[m]) = {}
   <4>1. \A i \in 1 .. m - 1 : i \in 1 .. L /\ i # m BY <2>3
   <4> QED BY <4>1, <2>3, <2>8
  <3>2. IsInjective(all[m - 1]) /\ IsInjective(lists[m]) BY <2>3, <2>4, <2>8
  <3> HIDE DEF upto
  <3> QED BY <3>1, <3>2, <2>4, <2>6, Concatenated
 <2> QED BY <2>7, <2>8, <2>1
<1>6. right(L)
 <2> HIDE DEF right
 <2>0. L \in 0 .. L OBVIOUS
 <2>1. L \notin wrong BY <1>5
 <2> QED BY <2>0, <2>1
<1> QED BY <1>3, <1>6

\* Only keeps what is in the set, as often as it is in the list.
LEMMA OnlyIs ==
    ASSUME NEW T, NEW paths \in Seq(T), NEW set
    PROVE  /\ Only(paths, set) \in Seq(T)
           /\ ToSet(Only(paths, set)) = ToSet(paths) \cap set
           /\ IsInjective(paths) => IsInjective(Only(paths, set))
<1> DEFINE L == Len(paths)
           one(n) == IF paths[n] \in set THEN <<paths[n]>> ELSE <<>>
           lists == [n \in 1 .. L |-> one(n)]
<1>p. DOMAIN paths = 1 .. L /\ L \in Nat /\ \A x : x \in ToSet(paths) <=> \E i \in 1 .. L : x = paths[i]
  BY Elements
<1>o. \A n \in 1 .. L : one(n) \in Seq(T) /\ ToSet(one(n)) = {paths[n]} \cap set /\ IsInjective(one(n))
 <2> TAKE n \in 1 .. L
 <2>0. paths[n] \in T BY <1>p
 <2>1. CASE paths[n] \in set
  <3>1. one(n) = <<paths[n]>> /\ one(n) \in Seq(T) /\ DOMAIN one(n) = {1} /\ one(n)[1] = paths[n]
   BY <2>0, <2>1
  <3> HIDE DEF one
  <3> QED BY <2>1, <3>1 DEF ToSet, IsInjective
 <2>2. CASE paths[n] \notin set
  <3>1. one(n) = <<>> /\ one(n) \in Seq(T) /\ DOMAIN one(n) = {} BY <2>2
  <3> HIDE DEF one
  <3> QED BY <2>2, <3>1 DEF ToSet, IsInjective
 <2> QED BY <2>1, <2>2
<1>1. Only(paths, set) = Joined(lists, L) BY DEF Only
<1> HIDE DEF one
<1>2. lists \in [1 .. L -> Seq(T)] /\ \A n \in 1 .. L : lists[n] = one(n) BY <1>o
<1> HIDE DEF lists, L
<1>3. /\ Joined(lists, L) \in Seq(T)
      /\ ToSet(Joined(lists, L)) = UNION {ToSet(lists[n]) : n \in 1 .. L}
      /\ (/\ \A n \in 1 .. L : IsInjective(lists[n])
          /\ \A m, n \in 1 .. L : m # n => ToSet(lists[m]) \cap ToSet(lists[n]) = {})
         => IsInjective(Joined(lists, L))
 BY <1>2, <1>p, JoinedIs
<1>4. UNION {ToSet(lists[n]) : n \in 1 .. L} = ToSet(paths) \cap set
 <2> QED BY <1>2, <1>o, <1>p
<1>5. ASSUME IsInjective(paths) PROVE IsInjective(Joined(lists, L))
 <2>1. \A n \in 1 .. L : IsInjective(lists[n]) BY <1>2, <1>o
 <2>2. ASSUME NEW m \in 1 .. L, NEW n \in 1 .. L, m # n
       PROVE  ToSet(lists[m]) \cap ToSet(lists[n]) = {}
  <3>1. paths[m] # paths[n] BY <2>2, <1>5, <1>p DEF IsInjective
  <3>2. ToSet(lists[m]) = {paths[m]} \cap set /\ ToSet(lists[n]) = {paths[n]} \cap set
   BY <1>2, <1>o
  <3> QED BY <3>1, <3>2
 <2> QED BY <2>1, <2>2, <1>3
<1> QED BY <1>1, <1>3, <1>4, <1>5

LEMMA UpwardIs ==
    ASSUME NEW T, NEW path \in Seq(T)
    PROVE  Upward(path) \in Seq(Seq(T)) /\ ToSet(Upward(path)) = Above(path) /\ IsInjective(Upward(path))
<1>1. CASE path = <<>>
 <2>1. Upward(path) = <<>> /\ Len(path) = 0 /\ DOMAIN Upward(path) = {} BY <1>1 DEF Upward
 <2>2. Above(path) = {} BY <2>1 DEF Above
 <2> QED BY <2>1, <2>2 DEF ToSet, IsInjective
<1>2. CASE path # <<>>
 <2> DEFINE L == Len(path)
 <2>1. L \in Nat /\ L >= 1 BY <1>2
 <2>2. Upward(path) = [n \in 1 .. L - 1 |-> SubSeq(path, 1, L - n)] BY <1>2 DEF Upward
 <2>3. Above(path) = {SubSeq(path, 1, n) : n \in 1 .. L - 1} BY DEF Above
 <2>4. \A n \in 1 .. L - 1 : SubSeq(path, 1, n) \in Seq(T) /\ Len(SubSeq(path, 1, n)) = n BY <2>1
 <2>5. \A n \in 1 .. L - 1 : L - n \in 1 .. L - 1 /\ L - (L - n) = n BY <2>1
 <2> HIDE DEF L
 <2>7. Upward(path) \in Seq(Seq(T))
  <3>1. L - 1 \in Nat /\ \A n \in 1 .. L - 1 : SubSeq(path, 1, L - n) \in Seq(T)
   BY <2>1, <2>4, <2>5
  <3>2. [n \in 1 .. L - 1 |-> SubSeq(path, 1, L - n)] \in [1 .. L - 1 -> Seq(T)] BY <3>1
  <3>3. \A f \in [1 .. L - 1 -> Seq(T)] : f \in Seq(Seq(T)) BY <3>1
  <3> QED BY <3>2, <3>3, <2>2
 <2>8. ToSet(Upward(path)) = Above(path)
  <3>1. ToSet(Upward(path)) = {SubSeq(path, 1, L - n) : n \in 1 .. L - 1} BY <2>2 DEF ToSet
  <3> QED BY <3>1, <2>3, <2>5
 <2>9. IsInjective(Upward(path))
  <3> SUFFICES ASSUME NEW m \in 1 .. L - 1, NEW n \in 1 .. L - 1,
                      Upward(path)[m] = Upward(path)[n]
               PROVE  m = n
   <4> QED BY <2>2 DEF IsInjective
  <3>2. SubSeq(path, 1, L - m) = SubSeq(path, 1, L - n) BY <2>2
  <3>1. L - m = L - n BY <2>4, <2>5, <3>2
  <3> QED BY <3>1, <2>1
 <2> QED BY <2>7, <2>8, <2>9
<1> QED BY <1>1, <1>2

\* ParentsOf finds the folders above the paths that are not known, each once.
LEMMA ParentsOfIs ==
    ASSUME NEW T, NEW h_dirs, NEW paths \in Seq(Seq(T))
    PROVE  /\ ParentsOf(h_dirs, paths) \in Seq(Seq(T))
           /\ ToSet(ParentsOf(h_dirs, paths)) = (UNION {Above(p) : p \in ToSet(paths)}) \ h_dirs
           /\ IsInjective(ParentsOf(h_dirs, paths))
<1> DEFINE L == Len(paths)
           new(n) == NewAbove(h_dirs, paths, n)
           lists == [n \in 1 .. L |-> Only(Upward(paths[n]), new(n))]
           added == Joined(lists, L)
<1>p. L \in Nat /\ (\A i \in 1 .. L : paths[i] \in Seq(T)) /\ \A x : x \in ToSet(paths) <=> \E i \in 1 .. L : x = paths[i]
  BY Elements
<1>1. \A n \in 1 .. L : new(n) = {d \in Above(paths[n]) : d \notin h_dirs /\ \A i \in 1 .. n - 1 : d \notin Above(paths[i])}
 <2> TAKE n \in 1 .. L
 <2>1. \A i \in 1 .. n : ToSet(Upward(paths[i])) = Above(paths[i])
  <3> QED BY <1>p, UpwardIs
 <2>2. n \in 1 .. n /\ \A i \in 1 .. n - 1 : i \in 1 .. n BY <1>p
 <2> QED BY <2>1, <2>2 DEF NewAbove
<1>2. ParentsOf(h_dirs, paths) = Reverse(added) BY DEF ParentsOf
<1> HIDE DEF new
<1>3. \A n \in 1 .. L : lists[n] \in Seq(Seq(T)) /\ ToSet(lists[n]) = new(n) /\ IsInjective(lists[n])
 <2> TAKE n \in 1 .. L
 <2>1. Upward(paths[n]) \in Seq(Seq(T)) /\ ToSet(Upward(paths[n])) = Above(paths[n]) /\ IsInjective(Upward(paths[n]))
  BY <1>p, UpwardIs
 <2>2. /\ lists[n] \in Seq(Seq(T)) /\ ToSet(lists[n]) = ToSet(Upward(paths[n])) \cap new(n)
       /\ IsInjective(lists[n])
  BY <2>1, OnlyIs
 <2>3. new(n) \subseteq Above(paths[n]) BY <1>1
 <2> HIDE DEF lists
 <2> QED BY <2>1, <2>2, <2>3
<1>4. lists \in [1 .. L -> Seq(Seq(T))] BY <1>3
<1> HIDE DEF lists, L
<1>5. \A m, n \in 1 .. L : m # n => ToSet(lists[m]) \cap ToSet(lists[n]) = {}
 <2>1. ASSUME NEW m \in 1 .. L, NEW n \in 1 .. L, m < n PROVE new(m) \cap new(n) = {}
  <3>1. m \in 1 .. n - 1 BY <2>1, <1>p
  <3> QED BY <3>1, <1>1
 <2>2. \A m, n \in 1 .. L : m # n => m < n \/ n < m BY <1>p
 <2> QED BY <2>1, <2>2, <1>3
<1>6. added \in Seq(Seq(T)) /\ ToSet(added) = UNION {ToSet(lists[n]) : n \in 1 .. L} /\ IsInjective(added)
 <2> DEFINE U == Seq(T)
 <2>1. L \in Nat /\ lists \in [1 .. L -> Seq(U)] BY <1>4, <1>p
 <2> HIDE DEF U
 <2>2. /\ Joined(lists, L) \in Seq(U)
       /\ ToSet(Joined(lists, L)) = UNION {ToSet(lists[n]) : n \in 1 .. L}
       /\ (/\ \A n \in 1 .. L : IsInjective(lists[n])
           /\ \A m, n \in 1 .. L : m # n => ToSet(lists[m]) \cap ToSet(lists[n]) = {})
          => IsInjective(Joined(lists, L))
  BY <2>1, JoinedIs
 <2> QED BY <2>2, <1>3, <1>5 DEF U
<1>7. UNION {ToSet(lists[n]) : n \in 1 .. L} = UNION {new(n) : n \in 1 .. L} BY <1>3
<1> HIDE DEF added
<1>8. ToSet(added) = (UNION {Above(p) : p \in ToSet(paths)}) \ h_dirs
 <2>1. ToSet(added) \subseteq (UNION {Above(p) : p \in ToSet(paths)}) \ h_dirs
  <3>1. \A n \in 1 .. L : new(n) \subseteq Above(paths[n]) \ h_dirs /\ paths[n] \in ToSet(paths)
   BY <1>1, <1>p
  <3> QED BY <3>1, <1>6, <1>7
 <2>2. ASSUME NEW j \in 1 .. L, NEW d \in Above(paths[j]), d \notin h_dirs PROVE d \in ToSet(added)
  <3> DEFINE there == {i \in 1 .. L : d \in Above(paths[i])}
  <3>1. j \in there /\ there \in SUBSET Nat BY <2>2
  <3> HIDE DEF there
  <3>2. PICK n \in there : \A y \in there : ~(y < n) BY <3>1, SmallestOf
  <3> USE DEF there
  <3>3. \A i \in 1 .. n - 1 : i \in 1 .. L /\ i < n BY <1>p, <3>2
  <3>4. n \in 1 .. L /\ d \in new(n) BY <1>1, <2>2, <3>2, <3>3
  <3> HIDE DEF there
  <3>5. ToSet(added) = UNION {new(i) : i \in 1 .. L} BY <1>6, <1>7
  <3> QED BY <3>4, <3>5
 <2>3. \A p \in ToSet(paths) : \A d \in Above(p) : d \in h_dirs \cup ToSet(added)
  BY <2>2, <1>p
 <2> DEFINE all == UNION {Above(p) : p \in ToSet(paths)}
 <2>4. \A d \in all : d \in h_dirs \cup ToSet(added) BY <2>3
 <2>5. ToSet(added) \subseteq all \ h_dirs BY <2>1
 <2> HIDE DEF all
 <2> QED BY <2>4, <2>5 DEF all
<1> DEFINE U == Seq(T)
<1>9. added \in Seq(U) BY <1>6
<1> HIDE DEF U
<1>10. Reverse(added) \in Seq(U) /\ ToSet(Reverse(added)) = ToSet(added) /\ IsInjective(Reverse(added))
 BY <1>6, <1>9, Reversed
<1> QED BY <1>2, <1>8, <1>10 DEF U

----
(* The file system. *)

Inodes == DOMAIN tree.kind
Paths == Seq(Inodes)

\* What is asked for is never changed.
Asked ==
    /\ tree \in Trees /\ op \in Operations
    /\ \/ op.directory = <<>>
       \/ \E n \in ToSet(tree.children.base) : op.directory = <<n>> /\ tree.kind[n] = "dir"

LEMMA TreeIs ==
    ASSUME Asked
    PROVE  /\ IsFiniteSet(Inodes) /\ "base" \notin Inodes /\ None \notin Inodes
           /\ \A n \in Inodes : tree.kind[n] \in {"dir", "file", "link", "special"}
           /\ DOMAIN tree.children = {"base"} \cup {n \in Inodes : tree.kind[n] = "dir"}
           /\ \A f \in DOMAIN tree.children : tree.children[f] \in Seq(Inodes) /\ IsInjective(tree.children[f])
           /\ \A n \in Inodes : tree.kind[n] = "link" =>
                 tree.target[n] = None \/ (tree.target[n] \in Inodes /\ tree.kind[tree.target[n]] # "link")
           /\ \E depth \in [DOMAIN tree.children -> 0..Cardinality(Inodes)] :
                 \A f, g \in DOMAIN tree.children : g \in ToSet(tree.children[f]) => depth[g] > depth[f]
           /\ op.name \in {"copy", "list", "items"} /\ (op.name = "copy" => op.directory = <<>>)
           /\ MaxLinks \in Nat
           /\ tree.children.base = tree.children["base"]
<1>1. IsTree(tree) BY GioAssumption DEF Asked
<1>2. \A n \in Inodes : tree.kind[n] \in {"dir", "file", "link", "special"}
 BY <1>1 DEF IsTree, Inodes
<1>3. \A n \in Inodes : tree.kind[n] = "link" =>
        tree.target[n] = None \/ (tree.target[n] \in Inodes /\ tree.kind[tree.target[n]] # "link")
 BY <1>1 DEF IsTree, Inodes
<1>4. \E depth \in [DOMAIN tree.children -> 0..Cardinality(Inodes)] :
        \A f, g \in DOMAIN tree.children : g \in ToSet(tree.children[f]) => depth[g] > depth[f]
 BY <1>1 DEF IsTree, Inodes
<1>5. IsFiniteSet(Inodes) /\ "base" \notin Inodes /\ None \notin Inodes BY <1>1 DEF IsTree, Inodes
<1>6. /\ DOMAIN tree.children = {"base"} \cup {n \in Inodes : tree.kind[n] = "dir"}
      /\ \A f \in DOMAIN tree.children : tree.children[f] \in Seq(Inodes) /\ IsInjective(tree.children[f])
 BY <1>1 DEF IsTree, Inodes
<1>7. op.name \in {"copy", "list", "items"} /\ (op.name = "copy" => op.directory = <<>>) /\ MaxLinks \in Nat
 BY GioAssumption DEF Asked
<1> QED BY <1>2, <1>3, <1>4, <1>5, <1>6, <1>7

LEMMA BaseIs ==
    ASSUME Asked
    PROVE  <<>> \in Paths /\ IsFolder(<<>>) /\ Behind(<<>>) = "base" /\ Links(<<>>) = 0
<1>1. DOMAIN <<>> = {} OBVIOUS
<1> QED BY <1>1, FS_EmptySet DEF Links, Paths, IsFolder, TypeOf, Behind

\* What is said of a folder that is not the base: it is one, or a link that can be followed.
LEMMA FolderIs ==
    ASSUME Asked, NEW p \in Paths, IsFolder(p)
    PROVE  /\ Behind(p) \in DOMAIN tree.children
           /\ tree.children[Behind(p)] \in Seq(Inodes) /\ IsInjective(tree.children[Behind(p)])
           /\ p # <<>> => \/ tree.kind[Last(p)] = "dir" /\ Behind(p) = Last(p)
                          \/ tree.kind[Last(p)] = "link" /\ ~(Links(p) > MaxLinks)
<1>1. CASE p = <<>>
 <2>1. Behind(p) = "base" BY <1>1 DEF Behind
 <2> QED BY <1>1, <2>1, TreeIs
<1>2. CASE p # <<>>
 <2>1. Last(p) \in Inodes BY <1>2 DEF Paths, Last
 <2>2. CASE tree.kind[Last(p)] # "link"
  <3>1. Behind(p) = Last(p) /\ tree.kind[Last(p)] = "dir"
   BY <1>2, <2>2 DEF Behind, IsFolder, TypeOf
  <3> QED BY <2>1, <3>1, TreeIs
 <2>3. CASE tree.kind[Last(p)] = "link"
  <3>1. Behind(p) = tree.target[Last(p)] BY <1>2, <2>3 DEF Behind
  <3>2. Behind(p) # None /\ ~(Links(p) > MaxLinks) /\ tree.kind[Behind(p)] = "dir"
   BY <1>2, <2>3 DEF IsFolder, TypeOf
  <3>3. Behind(p) \in Inodes BY <2>1, <2>3, <3>1, <3>2, TreeIs
  <3> QED BY <2>3, <3>2, <3>3, TreeIs
 <2> QED BY <2>2, <2>3
<1> QED BY <1>1, <1>2

LEMMA AppendIs ==
    ASSUME NEW T, NEW p \in Seq(T), NEW x \in T
    PROVE  /\ Append(p, x) \in Seq(T) /\ Len(Append(p, x)) = Len(p) + 1 /\ Append(p, x) # <<>>
           /\ Front(Append(p, x)) = p /\ Last(Append(p, x)) = x
           /\ \A i \in 1..Len(p) : Append(p, x)[i] = p[i]
<1> DEFINE c == Append(p, x)
<1>1. /\ c \in Seq(T) /\ Len(c) = Len(p) + 1 /\ c # <<>> /\ (\A i \in 1..Len(p) : c[i] = p[i])
      /\ c[Len(p) + 1] = x
 OBVIOUS
<1> HIDE DEF c
<1>2. Last(c) = x BY <1>1 DEF Last
<1>3. Front(c) = SubSeq(c, 1, Len(p)) BY <1>1 DEF Front
<1>4. SubSeq(c, 1, Len(p)) = p
 <2>1. Len(p) \in Nat /\ p = [i \in 1..Len(p) |-> p[i]] OBVIOUS
 <2>2. SubSeq(c, 1, Len(p)) = [i \in 1..Len(p) |-> c[i]] BY <1>1
 <2> QED BY <1>1, <2>1, <2>2
<1> QED BY <1>1, <1>2, <1>3, <1>4 DEF c

LEMMA ChildrenAre ==
    ASSUME Asked, NEW p \in Paths, IsFolder(p)
    PROVE  /\ Children(p) \in Seq(Paths) /\ IsInjective(Children(p))
           /\ \A c \in ToSet(Children(p)) :
                /\ c \in Paths /\ c # <<>> /\ Len(c) = Len(p) + 1 /\ Front(c) = p
                /\ Last(c) \in ToSet(tree.children[Behind(p)]) /\ c = Append(p, Last(c))
                /\ Last(c) \in Inodes /\ \A i \in 1..Len(p) : c[i] = p[i]
<1> DEFINE names == tree.children[Behind(p)]
<1>1. names \in Seq(Inodes) /\ IsInjective(names) BY FolderIs
<1>2. Children(p) = [i \in DOMAIN names |-> Append(p, names[i])] BY DEF Children
<1> HIDE DEF names
<1>3. /\ DOMAIN names = 1..Len(names) /\ Len(names) \in Nat
      /\ \A i \in 1..Len(names) : names[i] \in Inodes /\ names[i] \in ToSet(names)
 BY <1>1, Elements
<1>4. \A i \in 1..Len(names) :
        LET c == Append(p, names[i])
        IN /\ c \in Paths /\ c # <<>> /\ Len(c) = Len(p) + 1 /\ Front(c) = p /\ Last(c) = names[i]
           /\ \A j \in 1..Len(p) : c[j] = p[j]
 BY <1>3, AppendIs DEF Paths
<1>5. Children(p) \in Seq(Paths)
 <2>1. Children(p) \in [1..Len(names) -> Paths] BY <1>2, <1>3, <1>4
 <2> HIDE DEF Paths
 <2> QED BY <2>1, <1>3
<1>6. IsInjective(Children(p))
 <2>1. DOMAIN Children(p) = 1..Len(names) BY <1>2, <1>3
 <2> SUFFICES ASSUME NEW i \in 1..Len(names), NEW j \in 1..Len(names), Children(p)[i] = Children(p)[j]
              PROVE  i = j
  BY <2>1 DEF IsInjective
 <2>2. Append(p, names[i]) = Append(p, names[j]) BY <1>2, <1>3
 <2>3. names[i] = names[j] BY <2>2, <1>4
 <2> QED BY <2>3, <1>1, <1>3 DEF IsInjective
<1>7. ASSUME NEW c \in ToSet(Children(p))
      PROVE  /\ c \in Paths /\ c # <<>> /\ Len(c) = Len(p) + 1 /\ Front(c) = p
             /\ Last(c) \in ToSet(names) /\ c = Append(p, Last(c))
             /\ Last(c) \in Inodes /\ \A i \in 1..Len(p) : c[i] = p[i]
 <2>1. PICK i \in 1..Len(names) : c = Append(p, names[i]) BY <1>2, <1>3 DEF ToSet
 <2> QED BY <2>1, <1>3, <1>4
<1> QED BY <1>5, <1>6, <1>7 DEF names

LEMMA LinksOf ==
    ASSUME NEW p \in Paths, NEW n \in Inodes, Links(p) \in Nat
    PROVE  Links(Append(p, n)) = Links(p) + (IF tree.kind[n] = "link" THEN 1 ELSE 0)
<1> DEFINE c == Append(p, n)
           at(q) == {i \in DOMAIN q : tree.kind[q[i]] = "link"}
<1>1. /\ Len(p) \in Nat /\ DOMAIN p = 1..Len(p) /\ DOMAIN c = 1..Len(p) + 1
      /\ (\A i \in 1..Len(p) : c[i] = p[i]) /\ c[Len(p) + 1] = n
 BY DEF Paths
<1> HIDE DEF c
<1>2. \A i : i \in 1..Len(p) + 1 <=> (i \in 1..Len(p) \/ i = Len(p) + 1) BY <1>1
<1>3. at(c) = at(p) \cup (IF tree.kind[n] = "link" THEN {Len(p) + 1} ELSE {}) BY <1>1, <1>2
<1>4. IsFiniteSet(at(p)) /\ Len(p) + 1 \notin at(p)
 <2>1. IsFiniteSet(1..Len(p)) /\ at(p) \subseteq 1..Len(p) BY <1>1, FS_Interval
 <2> QED BY <2>1, <1>1, FS_Subset
<1>5. Links(c) = Cardinality(at(c)) /\ Links(p) = Cardinality(at(p)) BY DEF Links
<1> HIDE DEF at
<1>6. CASE tree.kind[n] = "link"
 <2> DEFINE P == at(p)
            k == Len(p) + 1
 <2>1. IsFiniteSet(P) /\ k \notin P /\ at(c) = P \cup {k} BY <1>3, <1>4, <1>6
 <2> HIDE DEF P, k
 <2>2. Cardinality(P \cup {k}) = Cardinality(P) + 1 BY <2>1, FS_AddElement
 <2>3. Links(c) = Links(p) + 1 BY <2>1, <2>2, <1>5 DEF P
 <2> QED BY <2>3, <1>6 DEF c
<1>7. CASE tree.kind[n] # "link" BY <1>3, <1>5, <1>7 DEF c
<1> QED BY <1>6, <1>7

\* How deep a folder may be: between two links on its path the folders are in one another,
\* and there are no more links than the system follows.
Bounded(depth, p) ==
    /\ Links(p) \in 0..MaxLinks
    /\ Len(p) <= Links(p) * (Cardinality(Inodes) + 1) + depth[Behind(p)]

Depths ==
    {depth \in [DOMAIN tree.children -> 0..Cardinality(Inodes)] :
       \A f, g \in DOMAIN tree.children : g \in ToSet(tree.children[f]) => depth[g] > depth[f]}

LEMMA Deeper ==
    ASSUME Asked, NEW depth \in Depths, NEW p \in Paths, IsFolder(p), Bounded(depth, p),
           NEW c \in ToSet(Children(p)), IsFolder(c)
    PROVE  Bounded(depth, c)
<1> DEFINE K == Cardinality(Inodes)
           n == Last(c)
<1>1. /\ c \in Paths /\ c # <<>> /\ Len(c) = Len(p) + 1 /\ n \in ToSet(tree.children[Behind(p)])
      /\ c = Append(p, n) /\ n \in Inodes
 BY ChildrenAre
<1>2. K \in Nat /\ MaxLinks \in Nat /\ Links(p) \in Nat /\ Links(p) <= MaxLinks /\ Len(p) \in Nat
 BY TreeIs, FS_CardinalityType DEF Bounded, Paths
<1>3. Behind(p) \in DOMAIN tree.children /\ Behind(c) \in DOMAIN tree.children BY <1>1, FolderIs
<1>4. depth[Behind(p)] \in 0..K /\ depth[Behind(c)] \in 0..K BY <1>3 DEF Depths
<1>5. Links(c) = Links(p) + (IF tree.kind[n] = "link" THEN 1 ELSE 0) BY <1>1, <1>2, LinksOf
<1>6. \/ tree.kind[n] = "dir" /\ Behind(c) = n
      \/ tree.kind[n] = "link" /\ ~(Links(c) > MaxLinks)
 BY <1>1, FolderIs
<1> DEFINE d == depth[Behind(p)]
           e == depth[Behind(c)]
           l == Links(p)
<1>7. Len(p) <= l * (K + 1) + d BY DEF Bounded
<1>8. CASE tree.kind[n] = "dir" /\ Behind(c) = n
 <2>1. Links(c) = l BY <1>2, <1>5, <1>8
 <2>2. e > d BY <1>1, <1>3, <1>8 DEF Depths
 <2> DEFINE m == l * (K + 1)
 <2>3. m \in Nat BY <1>2
 <2>4. d \in Nat /\ e \in Nat BY <1>2, <1>4
 <2>5. Len(c) <= m + e
  <3> HIDE DEF m, d, e, K, l
  <3> QED BY <1>1, <1>2, <1>7, <2>2, <2>3, <2>4 DEF m
 <2> QED BY <2>1, <2>5, <1>2 DEF Bounded
<1>9. CASE tree.kind[n] = "link" /\ ~(Links(c) > MaxLinks)
 <2>1. Links(c) = l + 1 BY <1>5, <1>9
 <2>2. (l + 1) * (K + 1) = l * (K + 1) + (K + 1) BY <1>2
 <2> DEFINE m == l * (K + 1)
            k == (l + 1) * (K + 1)
 <2>3. m \in Nat /\ k \in Nat /\ k = m + K + 1 BY <1>2, <2>2
 <2>4. d \in Nat /\ e \in Nat /\ d <= K BY <1>2, <1>4
 <2>5. Len(c) <= k + e
  <3> HIDE DEF m, d, e, K, l, k
  <3> QED BY <1>1, <1>2, <1>7, <2>3, <2>4 DEF m
 <2>6. Links(c) \in 0..MaxLinks BY <2>1, <1>2, <1>9
 <2> QED BY <2>1, <2>5, <2>6 DEF Bounded
<1> QED BY <1>6, <1>8, <1>9

LEMMA RootsAre ==
    ASSUME Asked, NEW r \in Roots
    PROVE  /\ r \in Paths /\ IsFolder(r) /\ Len(r) \in {0, 1}
           /\ r # <<>> => r \in ToSet(Children(<<>>)) /\ r = <<r[1]>>
           /\ op.name # "items" => r = op.directory
           /\ op.name = "items" => r # <<>>
           /\ op.name = "copy" => r = <<>>
<1>1. <<>> \in Paths /\ IsFolder(<<>>) /\ Behind(<<>>) = "base" /\ Len(<<>>) = 0 BY BaseIs
<1>2. ASSUME NEW c \in ToSet(Children(<<>>)) PROVE c \in Paths /\ Len(c) = 1 /\ c # <<>> /\ c = <<c[1]>>
 <2> DEFINE base == <<>>
 <2>0. base \in Paths /\ IsFolder(base) /\ Len(base) = 0 /\ c \in ToSet(Children(base)) BY <1>1
 <2> HIDE DEF base
 <2>a. Asked OBVIOUS
 <2>b. \A x \in ToSet(Children(base)) : x \in Paths /\ x # <<>> /\ Len(x) = Len(base) + 1
  BY <2>a, <2>0, ChildrenAre
 <2>1. c \in Paths /\ c # <<>> /\ Len(c) = 1 BY <2>0, <2>b
 <2>2. c \in Seq(Inodes) /\ Len(c) = 1 BY <2>1 DEF Paths
 <2>3. c = [i \in 1..1 |-> c[i]] BY <2>2
 <2>4. <<c[1]>> = [i \in 1..1 |-> c[1]] OBVIOUS
 <2>5. c = <<c[1]>> BY <2>3, <2>4
 <2> QED BY <2>1, <2>5
<1>3. CASE op.name = "items" BY <1>2, <1>3 DEF Roots, Items
<1>4. CASE op.name # "items"
 <2>1. r = op.directory BY <1>4 DEF Roots
 <2>2. CASE r = <<>> BY <1>1, <1>4, <2>1, <2>2
 <2>3. CASE r # <<>>
  <3>1. PICK n \in ToSet(tree.children.base) : r = <<n>> /\ tree.kind[n] = "dir"
   BY <2>1, <2>3 DEF Asked
  <3>2. tree.children["base"] \in Seq(Inodes) /\ tree.children.base = tree.children["base"]
   BY TreeIs
  <3>3. PICK i \in DOMAIN tree.children["base"] : n = tree.children["base"][i]
   BY <3>1, <3>2 DEF ToSet
  <3>4. Children(<<>>)[i] = r /\ i \in DOMAIN Children(<<>>) BY <3>1, <3>3, <1>1 DEF Children
  <3>5. r \in ToSet(Children(<<>>)) BY <3>4 DEF ToSet
  <3>6. Last(r) = n BY <3>1 DEF Last
  <3>7. IsFolder(r) BY <2>3, <3>1, <3>6 DEF IsFolder, TypeOf
  <3> QED BY <1>2, <1>4, <2>1, <2>3, <3>5, <3>7, TreeIs
 <2> QED BY <2>2, <2>3
<1> QED BY <1>3, <1>4

\* Folders is the least set that has the root, if that is entered, and every folder that is
\* entered of those in it.
LEMMA FoldersAre ==
    ASSUME Asked, NEW r \in Roots
    PROVE  /\ Entered(r) => r \in Folders(r)
           /\ \A p \in Folders(r) :
                /\ p \in Paths /\ IsFolder(p) /\ Entered(p) /\ Len(r) <= Len(p)
                /\ r # <<>> => p[1] = r[1]
                /\ p = r \/ (Front(p) \in Folders(r) /\ p \in ToSet(Children(Front(p))))
           /\ \A q \in Folders(r) : \A p \in ToSet(Children(q)) : Entered(p) => p \in Folders(r)
<1> DEFINE D == Deepest
           K == Cardinality(Inodes)
           body(f, n) == {p \in IF n = 0 THEN {r} ELSE UNION {ToSet(Children(p)) : p \in f[n - 1]} : Entered(p)}
           recursive(f, m) == f = [n \in 0..m |-> body(f, n)]
           bad == {m \in 0..D : ~\E f : recursive(f, m)}
           deep == CHOOSE f : recursive(f, D)
<1>d. D \in Nat /\ K \in Nat /\ MaxLinks \in Nat /\ D = (K + 1) * (MaxLinks + 1)
 <2>1. K \in Nat /\ MaxLinks \in Nat /\ Cardinality(DOMAIN tree.kind) = K
  BY TreeIs, FS_CardinalityType DEF Inodes
 <2>2. D = (K + 1) * (MaxLinks + 1) BY <2>1 DEF Deepest
 <2> HIDE DEF D, K
 <2> QED BY <2>1, <2>2
<1> HIDE DEF D
<1>1. bad = {}
 <2> SUFFICES ASSUME bad # {} PROVE FALSE OBVIOUS
 <2>0. bad \in SUBSET Nat
  <3> HIDE DEF recursive
  <3> QED BY <1>d
 <2> HIDE DEF bad
 <2>1. PICK m \in bad : \A y \in bad : ~(y < m) BY <2>0, SmallestOf
 <2> USE DEF bad
 <2>2. m # 0
  <3> DEFINE f == [n \in 0..0 |-> {p \in {r} : Entered(p)}]
  <3>1. \A n \in 0..0 : n = 0 /\ f[n] = body(f, n) OBVIOUS
  <3>2. f = [n \in 0..0 |-> f[n]] OBVIOUS
  <3> HIDE DEF f, body
  <3>3. recursive(f, 0) BY <3>1, <3>2
  <3> HIDE DEF recursive
  <3> QED BY <3>3, <2>1
 <2>4. m \in Nat /\ m # 0 /\ m - 1 \in 0..D /\ m - 1 < m /\ ~(m <= m - 1)
  <3> HIDE DEF recursive
  <3> QED BY <2>1, <2>2, <1>d
 <2>5. m - 1 \notin bad BY <2>1, <2>4
 <2>3. PICK f : recursive(f, m - 1) BY <2>4, <2>5
 <2> DEFINE g == [n \in 0..m |-> IF n = m THEN body(f, m) ELSE f[n]]
 <2>6. \A n \in 0..m : g[n] = body(g, n)
  <3> TAKE n \in 0..m
  <3>1. CASE n = m
   <4>1. m - 1 \in 0..m /\ m \in 0..m /\ m - 1 # m BY <2>4
   <4> HIDE DEF body
   <4>2. g[m - 1] = f[m - 1] /\ g[m] = body(f, m) BY <4>1
   <4> HIDE DEF g
   <4>3. body(f, m) = body(g, m) BY <4>2 DEF body
   <4> QED BY <3>1, <4>2, <4>3
  <3>2. CASE n # m
   <4> HIDE DEF body
   <4>1. n \in 0..m - 1 /\ g[n] = f[n] /\ (n # 0 => n - 1 \in 0..m - 1 /\ n - 1 # m /\ g[n - 1] = f[n - 1])
    BY <3>2, <2>4
   <4>2. f[n] = body(f, n) BY <4>1, <2>3
   <4> HIDE DEF g
   <4>3. body(f, n) = body(g, n) BY <4>1 DEF body
   <4> QED BY <4>1, <4>2, <4>3
  <3> QED BY <3>1, <3>2
 <2>7. recursive(g, m)
  <3>1. g = [n \in 0..m |-> g[n]] OBVIOUS
  <3> HIDE DEF g, body
  <3>2. [n \in 0..m |-> g[n]] = [n \in 0..m |-> body(g, n)] BY <2>6
  <3> QED BY <3>1, <3>2
 <2> HIDE DEF recursive
 <2> QED BY <2>7, <2>1
<1>2. recursive(deep, D)
 <2> HIDE DEF recursive
 <2>0. D \in 0..D BY <1>d
 <2> QED BY <1>1, <2>0
<1>3. Folders(r) = UNION {deep[n] : n \in 0..D} BY DEF Folders, D
<1> HIDE DEF deep
<1>4. \A n \in 0..D : deep[n] = body(deep, n)
 <2> HIDE DEF body
 <2> QED BY <1>2
<1> HIDE DEF recursive, bad
<1>5. /\ deep[0] = {p \in {r} : Entered(p)}
      /\ \A n \in 1..D : deep[n] = {p \in UNION {ToSet(Children(p)) : p \in deep[n - 1]} : Entered(p)}
 <2>1. 0 \in 0..D /\ \A n \in 1..D : n \in 0..D /\ n # 0 BY <1>d
 <2>2. body(deep, 0) = {p \in {r} : Entered(p)} OBVIOUS
 <2>3. \A n \in 1..D : body(deep, n) = {p \in UNION {ToSet(Children(p)) : p \in deep[n - 1]} : Entered(p)}
  BY <2>1
 <2> HIDE DEF body
 <2> QED BY <1>4, <2>1, <2>2, <2>3
<1> HIDE DEF body
<1>6. PICK depth \in Depths : TRUE BY TreeIs DEF Depths
<1> DEFINE good(n, p) ==
             /\ p \in Paths /\ IsFolder(p) /\ Entered(p) /\ Len(p) = Len(r) + n /\ Bounded(depth, p)
             /\ r # <<>> => p[1] = r[1]
             /\ IF n = 0 THEN p = r ELSE Front(p) \in deep[n - 1] /\ p \in ToSet(Children(Front(p)))
           wrong == {n \in 0..D : ~\A p \in deep[n] : good(n, p)}
<1>r. r \in Paths /\ IsFolder(r) /\ Len(r) \in Nat BY RootsAre
<1>7. Bounded(depth, r)
 <2> DEFINE base == <<>>
 <2>0. base \in Paths /\ IsFolder(base) /\ Behind(base) = "base" /\ Links(base) = 0 /\ Len(base) = 0
  BY BaseIs
 <2>1. Bounded(depth, base)
  <3>1. "base" \in DOMAIN tree.children BY TreeIs
  <3>2. depth["base"] \in 0..K BY <3>1 DEF Depths
  <3> HIDE DEF base
  <3>3. Links(base) * (K + 1) = 0 BY <2>0, <1>d
  <3>4. depth["base"] \in Nat BY <3>2, <1>d
  <3> QED BY <2>0, <3>3, <3>4, <1>d DEF Bounded
 <2>2. r = base \/ r \in ToSet(Children(base)) BY RootsAre
 <2> HIDE DEF base
 <2> QED BY <2>0, <2>1, <2>2, <1>r, <1>6, Deeper
<1>8. wrong = {}
 <2> SUFFICES ASSUME wrong # {} PROVE FALSE OBVIOUS
 <2>0. wrong \in SUBSET Nat
  <3> HIDE DEF good
  <3> QED BY <1>d
 <2> HIDE DEF wrong
 <2>1. PICK m \in wrong : \A y \in wrong : ~(y < m) BY <2>0, SmallestOf
 <2> USE DEF wrong
 <2>2. m # 0
  <3>1. \A p \in deep[0] : good(0, p) BY <1>5, <1>7, <1>r
  <3> HIDE DEF good
  <3> QED BY <2>1, <3>1
 <2>3. m \in 1..D /\ m - 1 \in 0..D /\ m - 1 < m /\ m \in Nat
  <3> HIDE DEF good
  <3> QED BY <2>1, <2>2, <1>d
 <2>4. m - 1 \notin wrong BY <2>1, <2>3
 <2>5. \A q \in deep[m - 1] : good(m - 1, q)
  <3> HIDE DEF good
  <3> QED BY <2>3, <2>4
 <2>6. ASSUME NEW p \in deep[m] PROVE good(m, p)
  <3>1. PICK q \in deep[m - 1] : p \in ToSet(Children(q)) /\ Entered(p) BY <2>3, <1>5
  <3>2. /\ q \in Paths /\ IsFolder(q) /\ Len(q) = Len(r) + (m - 1) /\ Bounded(depth, q)
        /\ r # <<>> => q[1] = r[1]
   BY <2>5
  <3>3. /\ p \in Paths /\ Len(p) = Len(q) + 1 /\ Front(p) = q
        /\ \A i \in 1..Len(q) : p[i] = q[i]
   BY <3>1, <3>2, ChildrenAre
  <3>4. IsFolder(p) BY <3>1 DEF Entered
  <3>5. Bounded(depth, p) BY <3>1, <3>2, <3>4, <1>6, Deeper
  <3>6. Len(p) = Len(r) + m BY <3>2, <3>3, <2>3, <1>r
  <3>7. r # <<>> => p[1] = r[1]
   <4> SUFFICES ASSUME r # <<>> PROVE p[1] = r[1] OBVIOUS
   <4>1. Len(r) = 1 BY RootsAre
   <4>2. 1 \in 1..Len(q) BY <4>1, <3>2, <2>3
   <4> QED BY <4>2, <3>2, <3>3
  <3> QED BY <2>3, <3>1, <3>3, <3>4, <3>5, <3>6, <3>7
 <2> HIDE DEF good
 <2> QED BY <2>1, <2>6
<1>9. \A n \in 0..D : \A p \in deep[n] : good(n, p)
 <2> HIDE DEF good
 <2> QED BY <1>8
<1> HIDE DEF wrong
<1>10. Entered(r) => r \in Folders(r)
 <2>1. 0 \in 0..D BY <1>d
 <2> QED BY <2>1, <1>3, <1>5
<1>11. ASSUME NEW p \in Folders(r)
       PROVE  /\ p \in Paths /\ IsFolder(p) /\ Entered(p) /\ Len(r) <= Len(p)
              /\ r # <<>> => p[1] = r[1]
              /\ p = r \/ (Front(p) \in Folders(r) /\ p \in ToSet(Children(Front(p))))
 <2>1. PICK n \in 0..D : p \in deep[n] BY <1>3
 <2>2. good(n, p) BY <2>1, <1>9
 <2>3. Len(r) <= Len(p) BY <2>2, <1>r, <1>d
 <2>4. n # 0 => n - 1 \in 0..D BY <1>d
 <2>5. n # 0 => Front(p) \in Folders(r) /\ p \in ToSet(Children(Front(p))) BY <2>2, <2>4, <1>3
 <2> QED BY <2>2, <2>3, <2>5
<1>12. ASSUME NEW q \in Folders(r), NEW p \in ToSet(Children(q)), Entered(p) PROVE p \in Folders(r)
 <2>1. PICK n \in 0..D : q \in deep[n] BY <1>3
 <2>2. good(n, q) BY <2>1, <1>9
 <2>3. n + 1 \in 1..D
  <3> DEFINE a == Links(q) * (K + 1)
             b == MaxLinks * (K + 1)
  <3>1. Links(q) \in 0..MaxLinks /\ Len(q) <= a + depth[Behind(q)] /\ Len(q) = Len(r) + n
   BY <2>2 DEF Bounded
  <3>2. Behind(q) \in DOMAIN tree.children BY <2>2, FolderIs
  <3>3. depth[Behind(q)] \in 0..K BY <3>2, <1>6 DEF Depths
  <3>4. a <= b /\ a \in Nat /\ b \in Nat
   <4> HIDE DEF K
   <4> QED BY <3>1, <1>d
  <3>5. D = b + (K + 1)
   <4> HIDE DEF K
   <4> QED BY <1>d
  <3> HIDE DEF a, b, K
  <3>6. n <= Len(q) BY <3>1, <1>r, <1>d
  <3>7. Len(q) < D BY <3>1, <3>3, <3>4, <3>5, <1>d, <1>r
  <3> QED BY <3>6, <3>7, <1>d, <3>1, <1>r
 <2>4. p \in deep[n + 1]
  <3>1. (n + 1) - 1 = n BY <1>d
  <3> QED BY <3>1, <2>1, <2>3, <1>5, <1>12
 <2>5. n + 1 \in 0..D BY <2>3
 <2> QED BY <2>4, <2>5, <1>3
<1> QED BY <1>10, <1>11, <1>12

\* A set that has the root, and every folder that is entered of those in it, has all.
LEMMA LeastFolders ==
    ASSUME Asked, NEW r \in Roots, NEW S, Entered(r) => r \in S,
           \A q \in S : \A p \in ToSet(Children(q)) : Entered(p) => p \in S
    PROVE  Folders(r) \subseteq S
<1> DEFINE missed == {n \in Nat : \E p \in Folders(r) \ S : Len(p) = n}
<1> SUFFICES ASSUME NEW m \in Folders(r), m \notin S PROVE FALSE OBVIOUS
<1>1. Len(m) \in missed /\ missed \in SUBSET Nat BY FoldersAre DEF Paths
<1>2. PICK n \in missed : \A y \in missed : ~(y < n)
 <2> HIDE DEF missed
 <2> QED BY <1>1, SmallestOf
<1>3. PICK p \in Folders(r) \ S : Len(p) = n BY <1>2
<1>4. /\ p \in Paths /\ Entered(p)
      /\ p = r \/ (Front(p) \in Folders(r) /\ p \in ToSet(Children(Front(p))))
 BY FoldersAre
<1>5. p # r BY <1>3, <1>4
<1>6. Front(p) \in Folders(r) /\ p \in ToSet(Children(Front(p))) BY <1>4, <1>5
<1>7. Front(p) \in Paths /\ IsFolder(Front(p)) BY <1>6, FoldersAre
<1>8. Len(p) = Len(Front(p)) + 1 /\ Len(Front(p)) \in Nat BY <1>6, <1>7, ChildrenAre DEF Paths
<1>9. Front(p) \notin S BY <1>3, <1>4, <1>6
<1>10. Len(Front(p)) \in missed BY <1>6, <1>8, <1>9
<1> QED BY <1>2, <1>3, <1>8, <1>10

----
(* The inductive invariant of GioUtils.  Its parts take the state as arguments, so that they are
   said of the next state as of this one. *)

Passes(p) ==
    TypeOf(p) = "file" /\ Matches(op.include, p) /\ ~(op.exclude.pattern /\ Matches(op.exclude, p))

FoldersOf(roots) == UNION {Folders(r) : r \in roots}
FilesOf(roots) == {p \in Within(FoldersOf(roots)) : Passes(p)}
Plain == IF op.name = "items" THEN {p \in Items : ~IsFolder(p)} ELSE {}

DirsOf(roots) ==
    IF Filtered THEN UNION {Above(p) : p \in FilesOf(roots)} ELSE FoldersOf(roots) \ {<<>>}

\* Folders and all that is in them.
Reach(folders) == folders \cup Within(folders)

WalkPhases == {"start", "enumerate", "next_files", "close", "walk_done"}

Walkers == [current : Paths, already_visited : SUBSET Paths, to_visit : Seq(Paths), left : Seq(Paths), error : BOOLEAN]
Lists == [files : Seq(Paths), dirs : Seq(Paths), all_dirs : Seq(Paths), items : Seq(Paths), all_files : Seq(Paths)]

Typed(ph, w, l, c, d, t, f, e) ==
    /\ ph \in WalkPhases \cup {"next_item", "copy_files", "copy_child", "copy_done", "over"}
    /\ w \in Walkers /\ l \in Lists
    /\ c \in Seq(Paths) /\ d \subseteq Paths
    /\ t \in {"nothing", "ok", "error"} /\ f \in BOOLEAN /\ e \in BOOLEAN

\* Which callbacks there are for what was asked for; an error is never forgotten.
Controlled(ph, w, t, f, e) ==
    /\ t = "nothing" <=> ph # "over"
    /\ w.error => f \/ e
    /\ w.error => ph \in {"close", "walk_done", "copy_done", "over"} /\ t # "ok"
    /\ op.name = "copy" => ph \notin {"next_item", "copy_files"}
    /\ op.name # "copy" => ph \notin {"copy_child", "copy_done"}
    /\ ph = "next_item" => op.name = "items"
    /\ ph = "copy_files" => op.remote
    /\ t = "error" => f \/ e \/ \E p \in ToBeListed : TypeOf(p) # "file"

\* What was found in the folders that were started.
Found(ph, w, S) == Within(IF ph = "enumerate" THEN S \ {w.current} ELSE S) \ ToSet(w.left)

\* The walk from r, of which the folders in S were started: what was found of folders is known
\* as visited, and each of these is started, not to be entered, or to be visited once.
Walks(ph, w, r, S) ==
    /\ w.already_visited = {p \in Found(ph, w, S) : IsFolder(p)}
    /\ S \subseteq {r} \cup w.already_visited
    /\ IsInjective(w.to_visit) /\ ToSet(w.to_visit) \subseteq w.already_visited \ S
    /\ \A p \in {r} \cup w.already_visited :
         \/ p \in S \/ ~Entered(p) \/ p \in ToSet(w.to_visit)
         \/ ph = "start" /\ p = w.current
    /\ ph = "start" => w.current \in ({r} \cup w.already_visited) \ (S \cup ToSet(w.to_visit))
    /\ ph \in {"enumerate", "next_files", "close"} => w.current \in S
    /\ IsInjective(w.left) /\ ToSet(w.left) \subseteq ToSet(Children(w.current))
    /\ ph # "next_files" => w.left = <<>>
    /\ ph = "walk_done" => w.to_visit = <<>>

\* The list has what was found, each once.
Collects(l, S, found) ==
    /\ OnceEach(l.dirs, S)
    /\ OnceEach(l.files, {p \in found : Passes(p)})

\* What is found is put before the folder it is in.
Queued(c, S, found) ==
    /\ ToSet(c) = S \cup found
    /\ \A i \in 1..Len(c) : c[i] # <<>> => \E j \in i + 1..Len(c) : c[j] = Front(c[i])

\* The lists have what there is in those of the roots that are done.
Got(l, roots) == OnceEach(l.all_files, FilesOf(roots) \cup Plain) /\ OnceEach(l.all_dirs, DirsOf(roots))

WalksFrom(ph, w, l, c, r, S) ==
    /\ Walks(ph, w, r, S)
    /\ op.name # "copy" => Collects(l, S, Found(ph, w, S)) /\ Got(l, Roots \ (ToSet(l.items) \cup {r}))
    /\ op.name = "copy" => Queued(c, S, Found(ph, w, S))

Walking(ph, w, l, c) ==
    ph \in WalkPhases /\ ~w.error =>
        \E r \in Roots \ ToSet(l.items) : \E S \in SUBSET Folders(r) : WalksFrom(ph, w, l, c, r, S)

Listing(ph, t, l) ==
    op.name # "copy" =>
        /\ IsInjective(l.items) /\ ToSet(l.items) \subseteq Roots /\ (op.name # "items" => l.items = <<>>)
        /\ ph = "next_item" => l.files = <<>> /\ l.dirs = <<>> /\ Got(l, Roots \ ToSet(l.items))
        /\ ph = "copy_files" \/ t = "ok" => Got(l, Roots)

\* What is brought to the destination: no links that stay links.
Brought == IF op.name = "copy" THEN AllFolders \cup FilesIn(AllFolders) ELSE ToBeListed \cup FoldersToBeListed

\* Of whatever there is, there is what it is in.
Rooted(d) == \A p \in d : \A n \in 0..Len(p) : SubSeq(p, 1, n) \in d

\* What a remote place is copied from before.
Fetching(ph, t, c, d) ==
    op.name # "copy" /\ op.remote /\ (ph = "copy_files" \/ t = "ok") =>
        /\ ToSet(c) \subseteq Brought
        /\ \A p \in Brought : p \in d \/ p \in ToSet(c)
        /\ \A p \in ToSet(c) : Front(p) \in d
        /\ t = "ok" => c = <<>>

\* Every file comes after its folder, which was made unless this was refused.
Copying(ph, w, t, c, d, e) ==
    op.name = "copy" =>
        /\ d \subseteq {<<>>} \cup Reach(AllFolders) /\ Rooted(d)
        /\ ph = "copy_child" => ToSet(c) \subseteq Reach(AllFolders)
        /\ ph = "copy_child" =>
             /\ \A p \in Brought : p \in d \/ (e /\ IsFolder(p)) \/ p \in ToSet(c)
             /\ \A i \in 1..Len(c) :
                  c[i] # <<>> => e \/ Front(c[i]) \in d \/ \E j \in 1..i - 1 : c[j] = Front(c[i])
        /\ t = "ok" \/ (ph = "copy_done" /\ ~w.error) => \A p \in Brought : p \in d \/ (e /\ IsFolder(p))

Good(ph, w, l, c, d, t, f, e) ==
    /\ Typed(ph, w, l, c, d, t, f, e)
    /\ Controlled(ph, w, t, f, e)
    /\ Walking(ph, w, l, c)
    /\ Listing(ph, t, l)
    /\ Fetching(ph, t, c, d)
    /\ Copying(ph, w, t, c, d, e)

GioInv == Asked /\ Good(phase, walk, list, to_copy, dest, told, faulted, refused)

\* All that is said of the file system and of what is asked for is said of the next state, too.
LEMMA Primed ==
    ASSUME tree' = tree, op' = op
    PROVE  GioInv' <=> (Asked /\ Good(phase', walk', list', to_copy', dest', told', faulted', refused'))
<1>1. Asked' <=> Asked BY DEF Asked
<1>2. \A s : Folders(s)' = Folders(s)
 BY DEF Folders, Deepest, Entered, IsFolder, Excluded, Matches, Children, Behind, TypeOf, Links, Name
<1>3. \A s : Children(s)' = Children(s) /\ TypeOf(s)' = TypeOf(s) /\ Entered(s)' = Entered(s)
 BY DEF Entered, IsFolder, Excluded, Matches, Children, Behind, TypeOf, Links, Name
<1>4. \A s : IsFolder(s)' = IsFolder(s) /\ Passes(s)' = Passes(s) /\ Within(s)' = Within(s)
 BY DEF Passes, Within, Entered, IsFolder, Excluded, Matches, Children, Behind, TypeOf, Links, Name
<1>5. Items' = Items /\ Roots' = Roots /\ Plain' = Plain /\ Filtered' = Filtered
 BY DEF Items, Roots, Plain, Filtered, IsFolder, Children, Behind, TypeOf, Links, Name
<1>6. /\ AllFolders' = AllFolders /\ \A s : FoldersOf(s)' = FoldersOf(s)
 BY <1>2, <1>5 DEF AllFolders, FoldersOf
<1>7. /\ \A s : FilesIn(s)' = FilesIn(s)
      /\ \A s : FilesOf(s)' = FilesOf(s)
 BY <1>3, <1>4, <1>6 DEF FilesIn, FilesOf
<1>8. \A s : DirsOf(s)' = DirsOf(s) BY <1>5, <1>6, <1>7 DEF DirsOf, Above
<1>9. ToBeListed' = ToBeListed BY <1>4, <1>5, <1>6, <1>7 DEF ToBeListed, Matches, Name
<1>10. FoldersToBeListed' = FoldersToBeListed /\ Brought' = Brought
 BY <1>5, <1>6, <1>7, <1>9 DEF FoldersToBeListed, Brought, Above
<1>11. Paths' = Paths BY DEF Paths, Inodes
<1>12. Typed(phase, walk, list, to_copy, dest, told, faulted, refused)'
        <=> Typed(phase', walk', list', to_copy', dest', told', faulted', refused')
 BY <1>11 DEF Typed, WalkPhases, Walkers, Lists
<1>13. Controlled(phase, walk, told, faulted, refused)' <=> Controlled(phase', walk', told', faulted', refused')
 BY <1>3, <1>9 DEF Controlled
<1>14. \A S : Found(phase, walk, S)' = Found(phase', walk', S) BY <1>4 DEF Found
<1>15. \A r, S : Walks(phase, walk, r, S)' <=> Walks(phase', walk', r, S)
 BY <1>3, <1>4, <1>14 DEF Walks
<1>16. \A r : Got(list, r)' <=> Got(list', r) BY <1>5, <1>7, <1>8 DEF Got, OnceEach
<1>17. \A S, s : Collects(list, S, s)' <=> Collects(list', S, s) BY <1>4 DEF Collects, OnceEach
<1>18. \A S, s : Queued(to_copy, S, s)' <=> Queued(to_copy', S, s) BY DEF Queued
<1>19. \A r, S : WalksFrom(phase, walk, list, to_copy, r, S)' <=> WalksFrom(phase', walk', list', to_copy', r, S)
 BY <1>5, <1>14, <1>15, <1>16, <1>17, <1>18 DEF WalksFrom
<1>20. Walking(phase, walk, list, to_copy)' <=> Walking(phase', walk', list', to_copy')
 BY <1>2, <1>5, <1>19 DEF Walking, WalkPhases
<1>21. Listing(phase, told, list)' <=> Listing(phase', told', list') BY <1>5, <1>16 DEF Listing
<1>22. Fetching(phase, told, to_copy, dest)' <=> Fetching(phase', told', to_copy', dest')
 BY <1>10 DEF Fetching
<1>23. Copying(phase, walk, told, to_copy, dest, refused)' <=> Copying(phase', walk', told', to_copy', dest', refused')
 BY <1>4, <1>6, <1>10 DEF Copying, Reach
<1> QED BY <1>1, <1>12, <1>13, <1>20, <1>21, <1>22, <1>23 DEF GioInv, Good

----
(* What there is in the folders that are found from a root. *)

LEMMA WithinAre ==
    ASSUME Asked, NEW r \in Roots, NEW p \in Within(Folders(r))
    PROVE  /\ p \in Paths /\ p # <<>> /\ Front(p) \in Folders(r) /\ p \in ToSet(Children(Front(p)))
           /\ Len(p) = Len(Front(p)) + 1 /\ Len(r) < Len(p) /\ p # r
           /\ r # <<>> => p[1] = r[1]
<1>1. PICK q \in Folders(r) : p \in ToSet(Children(q)) BY DEF Within
<1>2. q \in Paths /\ IsFolder(q) /\ Len(r) <= Len(q) /\ (r # <<>> => q[1] = r[1]) BY FoldersAre
<1>3. /\ p \in Paths /\ p # <<>> /\ Len(p) = Len(q) + 1 /\ Front(p) = q
      /\ \A i \in 1..Len(q) : p[i] = q[i]
 BY <1>1, <1>2, ChildrenAre
<1>4. Len(r) \in {0, 1} /\ (r # <<>> => r = <<r[1]>>) BY RootsAre
<1>5. Len(q) \in Nat BY <1>2 DEF Paths
<1>6. r # <<>> => p[1] = r[1]
 <2> SUFFICES ASSUME r # <<>> PROVE p[1] = r[1] OBVIOUS
 <2>1. Len(r) = 1 BY <1>4
 <2>2. 1 \in 1..Len(q) BY <2>1, <1>2, <1>5
 <2> QED BY <2>2, <1>2, <1>3
<1>7. Len(r) < Len(p) BY <1>2, <1>3, <1>4, <1>5
<1>8. p # r BY <1>7, <1>4
<1> QED BY <1>1, <1>3, <1>6, <1>7, <1>8

LEMMA FrontIs ==
    ASSUME NEW T, NEW p \in Seq(T), p # <<>>
    PROVE  /\ Front(p) = SubSeq(p, 1, Len(p) - 1) /\ Front(p) \in Seq(T) /\ Len(Front(p)) = Len(p) - 1
           /\ \A n \in 0..Len(p) - 1 : SubSeq(Front(p), 1, n) = SubSeq(p, 1, n)
<1>1. Front(p) = SubSeq(p, 1, Len(p) - 1) BY DEF Front
<1>2. Len(p) \in Nat /\ Len(p) >= 1 OBVIOUS
<1>3. /\ SubSeq(p, 1, Len(p) - 1) \in Seq(T) /\ Len(SubSeq(p, 1, Len(p) - 1)) = Len(p) - 1
      /\ \A i \in 1..Len(p) - 1 : SubSeq(p, 1, Len(p) - 1)[i] = p[i]
 <2> DEFINE m == Len(p) - 1
 <2>1. m \in Nat /\ m <= Len(p) /\ \A i \in 1..m : i \in 1..Len(p) BY <1>2
 <2> HIDE DEF m
 <2>2. SubSeq(p, 1, m) = [i \in 1..m |-> p[i]] BY <2>1, <1>2
 <2>3. \A i \in 1..m : p[i] \in T BY <2>1
 <2>4. SubSeq(p, 1, m) \in Seq(T) /\ Len(SubSeq(p, 1, m)) = m BY <2>1, <2>2, <2>3
 <2> QED BY <2>2, <2>4 DEF m
<1>4. ASSUME NEW n \in 0..Len(p) - 1 PROVE SubSeq(Front(p), 1, n) = SubSeq(p, 1, n)
 <2> DEFINE q == Front(p)
 <2>1. q \in Seq(T) /\ Len(q) = Len(p) - 1 /\ \A i \in 1..Len(p) - 1 : q[i] = p[i] BY <1>1, <1>3
 <2> HIDE DEF q
 <2>2. SubSeq(q, 1, n) = [i \in 1..n |-> q[i]] BY <2>1
 <2>3. SubSeq(p, 1, n) = [i \in 1..n |-> p[i]] BY <1>2
 <2>4. \A i \in 1..n : q[i] = p[i] BY <1>2, <2>1
 <2> QED BY <2>2, <2>3, <2>4 DEF q
<1> QED BY <1>1, <1>3, <1>4

LEMMA WholeIs ==
    ASSUME NEW T, NEW p \in Seq(T)
    PROVE  SubSeq(p, 1, Len(p)) = p /\ SubSeq(p, 1, 0) = <<>> /\ Len(p) \in Nat
<1>1. Len(p) \in Nat /\ p = [i \in 1..Len(p) |-> p[i]] OBVIOUS
<1>2. SubSeq(p, 1, Len(p)) = [i \in 1..Len(p) |-> p[i]] BY <1>1
<1> QED BY <1>1, <1>2

LEMMA RootedBase == Rooted({}) /\ Rooted({<<>>})
<1> QED BY DEF Rooted

\* What is put into something that is there has what it is in there.
LEMMA RootedMore ==
    ASSUME NEW d \in SUBSET Paths, Rooted(d), NEW path \in Paths, path = <<>> \/ Front(path) \in d
    PROVE  Rooted(d \cup {path})
<1> SUFFICES ASSUME NEW n \in 0..Len(path) PROVE SubSeq(path, 1, n) \in d \cup {path} BY DEF Rooted
<1>1. SubSeq(path, 1, Len(path)) = path /\ Len(path) \in Nat BY WholeIs DEF Paths
<1>2. CASE n = Len(path) BY <1>1, <1>2
<1>3. CASE n # Len(path)
 <2>0. Len(path) \in Nat BY <1>1
 <2>1. n \in 0..Len(path) - 1 /\ path # <<>>
  <3>1. n \in 0..Len(path) - 1 BY <2>0, <1>3
  <3>2. Len(path) # 0 BY <2>0, <3>1
  <3>3. Len(<<>>) = 0 OBVIOUS
  <3> QED BY <3>1, <3>2, <3>3
 <2>2. Len(Front(path)) = Len(path) - 1 /\ SubSeq(Front(path), 1, n) = SubSeq(path, 1, n)
  BY <2>1, FrontIs DEF Paths
 <2>3. SubSeq(Front(path), 1, n) \in d BY <2>1, <2>2 DEF Rooted
 <2> QED BY <2>2, <2>3
<1> QED BY <1>2, <1>3

\* The folders on the way are found, too.
LEMMA AboveAre ==
    ASSUME Asked, NEW r \in Roots
    PROVE  \A p \in Reach(Folders(r)) : Above(p) \subseteq Folders(r)
<1> DEFINE holds(p) == Above(p) \subseteq Folders(r)
           missed == {n \in Nat : \E p \in Folders(r) : Len(p) = n /\ ~holds(p)}
<1>r. Len(r) \in {0, 1} BY RootsAre
<1>1. ASSUME NEW p \in Paths, p # <<>>, Front(p) \in Folders(r), holds(Front(p)) PROVE holds(p)
 <2> SUFFICES ASSUME NEW n \in 1..Len(p) - 1 PROVE SubSeq(p, 1, n) \in Folders(r) BY DEF Above
 <2>1. /\ Front(p) = SubSeq(p, 1, Len(p) - 1) /\ Len(Front(p)) = Len(p) - 1
       /\ SubSeq(Front(p), 1, n) = SubSeq(p, 1, n) /\ Len(p) \in Nat
  BY <1>1, FrontIs DEF Paths
 <2>2. CASE n = Len(p) - 1 BY <2>1, <2>2, <1>1
 <2>3. CASE n # Len(p) - 1
  <3>1. n \in 1..Len(Front(p)) - 1 BY <2>1, <2>3
  <3>2. SubSeq(Front(p), 1, n) \in Above(Front(p)) BY <3>1 DEF Above
  <3> QED BY <3>2, <2>1, <1>1
 <2> QED BY <2>2, <2>3
<1>2. missed = {}
 <2> SUFFICES ASSUME missed # {} PROVE FALSE OBVIOUS
 <2>0. missed \in SUBSET Nat OBVIOUS
 <2> HIDE DEF missed
 <2>1. PICK n \in missed : \A y \in missed : ~(y < n) BY <2>0, SmallestOf
 <2> USE DEF missed
 <2>2. PICK p \in Folders(r) : Len(p) = n /\ ~holds(p) BY <2>1
 <2>3. p \in Paths /\ (p = r \/ (Front(p) \in Folders(r) /\ p \in ToSet(Children(Front(p)))))
  BY FoldersAre
 <2>4. p # r
  <3> SUFFICES ASSUME p = r PROVE FALSE OBVIOUS
  <3> DEFINE m == Len(p) - 1
  <3>2. m \in {-1, 0} BY <1>r
  <3> HIDE DEF m
  <3>0. \A x : x \notin 1..m BY <3>2
  <3>1. Above(p) = {} BY <3>0 DEF Above, m
  <3> QED BY <3>1, <2>2
 <2>5. Front(p) \in Folders(r) /\ p \in ToSet(Children(Front(p))) BY <2>3, <2>4
 <2>6. p # <<>> /\ Len(p) = Len(Front(p)) + 1 /\ Len(Front(p)) \in Nat
  <3>1. Front(p) \in Paths /\ IsFolder(Front(p)) BY <2>5, FoldersAre
  <3> QED BY <2>5, <3>1, ChildrenAre DEF Paths
 <2>7. Len(Front(p)) \notin missed BY <2>1, <2>2, <2>6
 <2>8. holds(Front(p)) BY <2>5, <2>6, <2>7
 <2> HIDE DEF missed
 <2> QED BY <1>1, <2>2, <2>3, <2>5, <2>6, <2>8
<1>3. \A p \in Folders(r) : holds(p)
 <2> TAKE p \in Folders(r)
 <2>1. Len(p) \in Nat BY FoldersAre DEF Paths
 <2> HIDE DEF holds
 <2> QED BY <2>1, <1>2
<1>4. \A p \in Within(Folders(r)) : holds(p)
 <2> HIDE DEF holds
 <2> QED BY <1>1, <1>3, WithinAre
<1> QED BY <1>3, <1>4 DEF Reach

\* Two roots have nothing in common; and the base, when it is one, is the only one.
LEMMA RootsApart ==
    ASSUME Asked, NEW r \in Roots, NEW s \in Roots, r # s
    PROVE  /\ op.name = "items" /\ r # <<>> /\ s # <<>>
           /\ Reach(Folders(r)) \cap Reach(Folders(s)) = {}
<1>1. op.name = "items" /\ r # <<>> /\ s # <<>> /\ r = <<r[1]>> /\ s = <<s[1]>> BY RootsAre
<1>2. r[1] # s[1] BY <1>1
<1>3. \A p \in Reach(Folders(r)) : p[1] = r[1] BY <1>1, FoldersAre, WithinAre DEF Reach
<1>4. \A p \in Reach(Folders(s)) : p[1] = s[1] BY <1>1, FoldersAre, WithinAre DEF Reach
<1> QED BY <1>1, <1>2, <1>3, <1>4

\* What was chosen and is no folder is in none of them.
LEMMA PlainAre ==
    ASSUME Asked
    PROVE  /\ Plain \subseteq Paths /\ \A p \in Plain : Above(p) = {} /\ p # <<>>
           /\ \A r \in Roots : Plain \cap Reach(Folders(r)) = {}
           /\ \A r \in Roots : op.name = "items" => <<>> \notin Folders(r)
<1>1. ASSUME NEW p \in Plain PROVE p \in Paths /\ Len(p) = 1 /\ p # <<>> /\ Above(p) = {} /\ ~IsFolder(p) /\ op.name = "items"
 <2>1. p \in ToSet(Children(<<>>)) /\ ~IsFolder(p) /\ op.name = "items" BY DEF Plain, Items
 <2> DEFINE base == <<>>
 <2>2. base \in Paths /\ IsFolder(base) /\ Len(base) = 0 /\ p \in ToSet(Children(base))
  BY <2>1, BaseIs
 <2> HIDE DEF base
 <2>a. Asked OBVIOUS
 <2>b. \A x \in ToSet(Children(base)) : x \in Paths /\ x # <<>> /\ Len(x) = Len(base) + 1
  BY <2>a, <2>2, ChildrenAre
 <2>3. p \in Paths /\ Len(p) = 1 /\ p # <<>> BY <2>2, <2>b
 <2>4. 1..Len(p) - 1 = {} BY <2>3
 <2>5. Above(p) = {} BY <2>4 DEF Above
 <2> QED BY <2>1, <2>3, <2>5
<1>2. ASSUME NEW r \in Roots, op.name = "items" PROVE <<>> \notin Folders(r) /\ Plain \cap Reach(Folders(r)) = {}
 <2>1. r # <<>> /\ Len(r) \in {0, 1} /\ r = <<r[1]>> BY <1>2, RootsAre
 <2>2. Len(r) = 1 /\ Len(<<>>) = 0 BY <2>1
 <2>3. <<>> \notin Folders(r) BY <2>2, FoldersAre
 <2>4. \A p \in Folders(r) : IsFolder(p) BY FoldersAre
 <2>5. \A p \in Within(Folders(r)) : Len(p) # 1 BY <2>2, WithinAre DEF Paths
 <2> QED BY <1>1, <2>3, <2>4, <2>5 DEF Reach
<1>3. op.name # "items" => Plain = {} BY DEF Plain
<1> QED BY <1>1, <1>2, <1>3

LEMMA FilesAndDirs ==
    ASSUME Asked, NEW G \in SUBSET Roots
    PROVE  /\ \A p : p \in FoldersOf(G) <=> \E g \in G : p \in Folders(g)
           /\ \A p : p \in FilesOf(G) <=> \E g \in G : p \in Within(Folders(g)) /\ Passes(p)
           /\ FoldersOf(G) \subseteq Paths /\ FilesOf(G) \subseteq Paths /\ DirsOf(G) \subseteq FoldersOf(G)
<1>1. \A p : p \in FoldersOf(G) <=> \E g \in G : p \in Folders(g) BY DEF FoldersOf
<1>2. \A p : p \in Within(FoldersOf(G)) <=> \E g \in G : p \in Within(Folders(g)) BY <1>1 DEF Within
<1>3. \A p : p \in FilesOf(G) <=> \E g \in G : p \in Within(Folders(g)) /\ Passes(p)
 BY <1>2 DEF FilesOf
<1>4. FoldersOf(G) \subseteq Paths BY <1>1, FoldersAre
<1>5. FilesOf(G) \subseteq Paths BY <1>3, WithinAre
<1>6. \A p \in FilesOf(G) : Above(p) \subseteq FoldersOf(G)
 <2> TAKE p \in FilesOf(G)
 <2>1. PICK g \in G : p \in Within(Folders(g)) BY <1>3
 <2>2. Above(p) \subseteq Folders(g) BY <2>1, AboveAre DEF Reach
 <2> QED BY <2>2, <1>1
<1>7. DirsOf(G) \subseteq FoldersOf(G) BY <1>6 DEF DirsOf
<1> QED BY <1>1, <1>3, <1>4, <1>5, <1>7

\* get_file_list_done finds every folder that is to be there, once.
LEMMA ListDoneIs ==
    ASSUME Asked, NEW l, l.files \in Seq(Paths), l.dirs \in Seq(Paths), NEW r \in Roots,
           Collects(l, Folders(r), Within(Folders(r)))
    PROVE  /\ ListDone(l).files = l.files /\ OnceEach(l.files, FilesOf({r}))
           /\ ListDone(l).dirs \in Seq(Paths) /\ OnceEach(ListDone(l).dirs, DirsOf({r}))
<1> DEFINE R == {r}
<1>1. R \in SUBSET Roots /\ \A g : g \in R <=> g = r OBVIOUS
<1> HIDE DEF R
<1>2. FoldersOf(R) = Folders(r) /\ \A p : p \in FilesOf(R) <=> (p \in Within(Folders(r)) /\ Passes(p))
 <2>1. \A p : p \in FoldersOf(R) <=> p \in Folders(r) BY <1>1, FilesAndDirs
 <2>2. \A p : p \in FilesOf(R) <=> (p \in Within(Folders(r)) /\ Passes(p)) BY <1>1, FilesAndDirs
 <2> QED BY <2>1, <2>2
<1>3. /\ ToSet(l.files) = FilesOf(R) /\ IsInjective(l.files)
      /\ ToSet(l.dirs) = Folders(r) /\ IsInjective(l.dirs)
 BY <1>2 DEF Collects, OnceEach
<1> DEFINE named == Only(Reverse(l.dirs), ToSet(l.dirs) \ {<<>>})
           none == <<>>
           started == IF Filtered THEN none ELSE named
           h_dirs == ToSet(started) \cup UNION {ToSet(Upward(p)) : p \in ToSet(l.files)}
           first == ParentsOf(ToSet(started), Reverse(l.files))
           second == IF op.include.pattern THEN none ELSE ParentsOf(h_dirs, started)
           dirs == started \o first \o second
<1>4. ListDone(l) = [files |-> l.files, dirs |-> Reverse(dirs)] BY DEF ListDone
<1>5. none \in Seq(Paths) /\ ToSet(none) = {} /\ IsInjective(none) BY DEF ToSet, IsInjective
<1> HIDE DEF none
<1>6. named \in Seq(Paths) /\ ToSet(named) = Folders(r) \ {<<>>} /\ IsInjective(named)
 <2>1. Reverse(l.dirs) \in Seq(Paths) /\ ToSet(Reverse(l.dirs)) = Folders(r) /\ IsInjective(Reverse(l.dirs))
  BY <1>3, Reversed
 <2>2. ToSet(named) = Folders(r) \cap (Folders(r) \ {<<>>}) BY <1>3, <2>1, OnlyIs
 <2> QED BY <2>1, <2>2, OnlyIs
<1> HIDE DEF named
<1>7. started \in Seq(Paths) /\ ToSet(started) = (IF Filtered THEN {} ELSE Folders(r) \ {<<>>}) /\ IsInjective(started)
 BY <1>5, <1>6
<1>8. op.include.pattern => Filtered BY DEF Filtered
<1> HIDE DEF started
<1> DEFINE above == UNION {Above(p) : p \in FilesOf(R)}
           higher == IF Filtered THEN {} ELSE UNION {Above(p) : p \in Folders(r) \ {<<>>}}
<1>9. first \in Seq(Paths) /\ ToSet(first) = above \ ToSet(started) /\ IsInjective(first)
 <2>1. Reverse(l.files) \in Seq(Seq(Inodes)) /\ ToSet(Reverse(l.files)) = FilesOf(R)
  BY <1>3, Reversed DEF Paths
 <2>2. /\ first \in Seq(Seq(Inodes)) /\ IsInjective(first)
       /\ ToSet(first) = (UNION {Above(p) : p \in FilesOf(R)}) \ ToSet(started)
  BY <2>1, ParentsOfIs
 <2> HIDE DEF first
 <2> QED BY <2>2 DEF Paths, above
<1>10. second \in Seq(Paths) /\ IsInjective(second)
       /\ ToSet(second) \subseteq higher \ (ToSet(started) \cup above)
       /\ higher \subseteq ToSet(second) \cup ToSet(started) \cup above
 <2>1. h_dirs = ToSet(started) \cup above
  <3>1. \A p \in FilesOf(R) : p \in Seq(Inodes) BY <1>1, FilesAndDirs DEF Paths
  <3>2. \A p \in FilesOf(R) : ToSet(Upward(p)) = Above(p) BY <3>1, UpwardIs
  <3> QED BY <1>3, <3>2
 <2>2. started \in Seq(Seq(Inodes)) BY <1>7 DEF Paths
 <2> HIDE DEF h_dirs, above
 <2> DEFINE more == ParentsOf(h_dirs, started)
 <2>3. /\ more \in Seq(Seq(Inodes)) /\ IsInjective(more)
       /\ ToSet(more) = (UNION {Above(p) : p \in ToSet(started)}) \ h_dirs
  BY <2>2, ParentsOfIs
 <2> HIDE DEF more
 <2>4. CASE op.include.pattern
  <3>1. second = none /\ higher = {} BY <2>4, <1>8
  <3> QED BY <3>1, <1>5
 <2>5. CASE ~op.include.pattern
  <3>1. second = more BY <2>5 DEF more
  <3>2. UNION {Above(p) : p \in ToSet(started)} = higher BY <1>7
  <3> HIDE DEF second, higher
  <3>3. second \in Seq(Paths) /\ IsInjective(second) BY <2>3, <3>1 DEF Paths
  <3>4. ToSet(second) = higher \ (ToSet(started) \cup above) BY <2>1, <2>3, <3>1, <3>2
  <3> QED BY <3>3, <3>4
 <2> QED BY <2>4, <2>5
<1> HIDE DEF first, second, above, higher
<1>11. /\ dirs \in Seq(Paths) /\ IsInjective(dirs)
       /\ ToSet(dirs) = ToSet(started) \cup above \cup higher
 <2> DEFINE both == started \o first
 <2>1. /\ both \in Seq(Paths) /\ ToSet(both) = ToSet(started) \cup ToSet(first) /\ IsInjective(both)
  <3>1. ToSet(started) \cap ToSet(first) = {} BY <1>9
  <3> QED BY <3>1, <1>7, <1>9, Concatenated
 <2> HIDE DEF both
 <2>2. ToSet(both) \cap ToSet(second) = {} BY <2>1, <1>9, <1>10
 <2>3. /\ both \o second \in Seq(Paths) /\ ToSet(both \o second) = ToSet(both) \cup ToSet(second)
       /\ IsInjective(both \o second)
  BY <2>1, <2>2, <1>10, Concatenated
 <2>4. ToSet(both) \cup ToSet(second) = ToSet(started) \cup above \cup higher BY <2>1, <1>9, <1>10
 <2> QED BY <2>3, <2>4 DEF both
<1>12. \A p \in Reach(Folders(r)) : Above(p) \subseteq Folders(r) /\ <<>> \notin Above(p)
 <2>1. \A p \in Reach(Folders(r)) : p \in Paths BY FoldersAre, WithinAre DEF Reach
 <2>2. ASSUME NEW p \in Paths PROVE <<>> \notin Above(p)
  <3> SUFFICES ASSUME NEW n \in 1..Len(p) - 1 PROVE SubSeq(p, 1, n) # <<>> BY DEF Above
  <3>1. SubSeq(p, 1, n) = [i \in 1..n |-> p[i]] BY DEF Paths
  <3>2. Len(SubSeq(p, 1, n)) = n /\ n # 0 BY <3>1 DEF Paths
  <3> QED BY <3>2
 <2> QED BY <2>1, <2>2, AboveAre
<1>13. FilesOf(R) \subseteq Reach(Folders(r)) /\ Folders(r) \subseteq Reach(Folders(r))
 BY <1>2 DEF Reach
<1>14. ToSet(dirs) = DirsOf(R)
 <2> HIDE DEF dirs
 <2>1. CASE Filtered
  <3>1. ToSet(dirs) = UNION {Above(p) : p \in FilesOf(R)} BY <2>1, <1>7, <1>11 DEF above, higher
  <3> QED BY <3>1, <2>1 DEF DirsOf
 <2>2. CASE ~Filtered
  <3>1. above \cup higher \subseteq Folders(r) \ {<<>>} BY <1>12, <1>13 DEF above, higher
  <3>2. ToSet(dirs) = Folders(r) \ {<<>>} BY <3>1, <2>2, <1>7, <1>11
  <3> QED BY <3>2, <2>2, <1>2 DEF DirsOf
 <2> QED BY <2>1, <2>2
<1> HIDE DEF dirs
<1>15. /\ Reverse(dirs) \in Seq(Paths) /\ ToSet(Reverse(dirs)) = DirsOf(R) /\ IsInjective(Reverse(dirs))
 BY <1>11, <1>14, Reversed
<1> QED BY <1>3, <1>4, <1>15 DEF OnceEach, R

\* With what was found from one more root the lists have what there is in one more.
LEMMA GotMore ==
    ASSUME Asked, NEW l, l.files \in Seq(Paths), l.dirs \in Seq(Paths),
           l.all_files \in Seq(Paths), l.all_dirs \in Seq(Paths),
           NEW G \in SUBSET Roots, NEW r \in Roots, r \notin G, Got(l, G),
           Collects(l, Folders(r), Within(Folders(r)))
    PROVE  /\ l.all_files \o ListDone(l).files \in Seq(Paths) /\ l.all_dirs \o ListDone(l).dirs \in Seq(Paths)
           /\ OnceEach(l.all_files \o ListDone(l).files, FilesOf(G \cup {r}) \cup Plain)
           /\ OnceEach(l.all_dirs \o ListDone(l).dirs, DirsOf(G \cup {r}))
<1> DEFINE R == {r}
           H == G \cup {r}
<1>1. R \in SUBSET Roots /\ (\A g : g \in R <=> g = r) /\ H \in SUBSET Roots /\ H = G \cup R OBVIOUS
<1> DEFINE files == ListDone(l).files
           dirs == ListDone(l).dirs
<1>2. files \in Seq(Paths) /\ OnceEach(files, FilesOf(R)) /\ dirs \in Seq(Paths) /\ OnceEach(dirs, DirsOf(R))
 BY ListDoneIs
<1> HIDE DEF R, files, dirs, H
<1>3. \A g \in G : Reach(Folders(g)) \cap Reach(Folders(r)) = {} BY RootsApart
<1>4. FilesOf(H) = FilesOf(G) \cup FilesOf(R) BY <1>1, FilesAndDirs
<1>5. FoldersOf(H) = FoldersOf(G) \cup FoldersOf(R) BY <1>1, FilesAndDirs
<1>6. DirsOf(H) = DirsOf(G) \cup DirsOf(R)
 <2>1. CASE Filtered BY <2>1, <1>4 DEF DirsOf
 <2>2. CASE ~Filtered BY <2>2, <1>5 DEF DirsOf
 <2> QED BY <2>1, <2>2
<1>7. FilesOf(R) \subseteq Within(Folders(r)) /\ DirsOf(R) \subseteq Folders(r)
 BY <1>1, FilesAndDirs
<1>8. (FilesOf(G) \cup Plain) \cap FilesOf(R) = {}
 <2>1. FilesOf(G) \cap FilesOf(R) = {}
  <3> SUFFICES ASSUME NEW p \in FilesOf(G), p \in FilesOf(R) PROVE FALSE OBVIOUS
  <3>1. PICK g \in G : p \in Within(Folders(g)) BY FilesAndDirs
  <3> QED BY <3>1, <1>3, <1>7 DEF Reach
 <2>2. Plain \cap Reach(Folders(r)) = {} BY PlainAre
 <2> QED BY <2>1, <2>2, <1>7 DEF Reach
<1>9. DirsOf(G) \cap DirsOf(R) = {}
 <2> SUFFICES ASSUME NEW p \in DirsOf(G), p \in DirsOf(R) PROVE FALSE OBVIOUS
 <2>1. PICK g \in G : p \in Folders(g) BY FilesAndDirs
 <2> QED BY <2>1, <1>3, <1>7 DEF Reach
<1>10. /\ ToSet(l.all_files) = FilesOf(G) \cup Plain /\ IsInjective(l.all_files)
       /\ ToSet(l.all_dirs) = DirsOf(G) /\ IsInjective(l.all_dirs)
 BY DEF Got, OnceEach
<1>11. /\ l.all_files \o files \in Seq(Paths)
       /\ OnceEach(l.all_files \o files, FilesOf(H) \cup Plain)
 <2>1. ToSet(files) = FilesOf(R) /\ IsInjective(files) BY <1>2 DEF OnceEach
 <2>2. /\ l.all_files \o files \in Seq(Paths)
       /\ ToSet(l.all_files \o files) = ToSet(l.all_files) \cup ToSet(files)
       /\ IsInjective(l.all_files \o files)
  BY <1>2, <1>8, <1>10, <2>1, Concatenated
 <2> QED BY <2>1, <2>2, <1>4, <1>10 DEF OnceEach
<1>12. /\ l.all_dirs \o dirs \in Seq(Paths)
       /\ OnceEach(l.all_dirs \o dirs, DirsOf(H))
 <2>1. ToSet(dirs) = DirsOf(R) /\ IsInjective(dirs) BY <1>2 DEF OnceEach
 <2>2. /\ l.all_dirs \o dirs \in Seq(Paths)
       /\ ToSet(l.all_dirs \o dirs) = ToSet(l.all_dirs) \cup ToSet(dirs)
       /\ IsInjective(l.all_dirs \o dirs)
  BY <1>2, <1>9, <1>10, <2>1, Concatenated
 <2> QED BY <2>1, <2>2, <1>6, <1>10 DEF OnceEach
<1> QED BY <1>11, <1>12 DEF files, dirs, H

----
(* The walk. *)

LEMMA Parted ==
    ASSUME NEW T, NEW s \in Seq(T), NEW n \in 0..Len(s)
    PROVE  /\ SubSeq(s, 1, n) \in Seq(T) /\ SubSeq(s, n + 1, Len(s)) \in Seq(T)
           /\ ToSet(s) = ToSet(SubSeq(s, 1, n)) \cup ToSet(SubSeq(s, n + 1, Len(s)))
           /\ IsInjective(s) => /\ IsInjective(SubSeq(s, 1, n)) /\ IsInjective(SubSeq(s, n + 1, Len(s)))
                                /\ ToSet(SubSeq(s, 1, n)) \cap ToSet(SubSeq(s, n + 1, Len(s))) = {}
           /\ n = 0 => SubSeq(s, 1, n) = <<>>
<1> DEFINE u == SubSeq(s, 1, n)
           v == SubSeq(s, n + 1, Len(s))
           L == Len(s)
           m == L - n
<1>1. L \in Nat /\ n \in Nat /\ m \in Nat /\ n <= L /\ n + m = L OBVIOUS
<1>2. u = [i \in 1..n |-> s[i]] BY <1>1
<1>3. v = [i \in 1..m |-> s[n + i]]
 <2>1. L - (n + 1) + 1 = m BY <1>1
 <2>2. v = [i \in 1..(L - (n + 1) + 1) |-> s[n + 1 + i - 1]] BY <1>1
 <2>3. \A i \in 1..m : n + 1 + i - 1 = n + i BY <1>1
 <2> QED BY <2>1, <2>2, <2>3
<1> HIDE DEF m, L
<1>s. \A x : x \in ToSet(s) <=> \E i \in 1..L : x = s[i] BY Elements DEF L
<1>t. DOMAIN s = 1..L /\ \A i \in 1..L : s[i] \in T BY Elements DEF L
<1>4. (\A i \in 1..n : i \in 1..L) /\ (\A i \in 1..m : n + i \in 1..L) BY <1>1
<1>5. u \in Seq(T) /\ v \in Seq(T)
 <2>1. u \in [1..n -> T] /\ v \in [1..m -> T] BY <1>2, <1>3, <1>4, <1>t
 <2> HIDE DEF u, v
 <2> QED BY <2>1, <1>1
<1>6. DOMAIN u = 1..n /\ DOMAIN v = 1..m /\ (\A i \in 1..n : u[i] = s[i]) /\ (\A i \in 1..m : v[i] = s[n + i])
 BY <1>2, <1>3
<1> HIDE DEF u, v
<1>7. /\ \A x : x \in ToSet(u) <=> \E i \in 1..n : x = s[i]
      /\ \A x : x \in ToSet(v) <=> \E i \in 1..m : x = s[n + i]
 BY <1>6 DEF ToSet
<1>8. \A i \in 1..L : i \in 1..n \/ (i - n \in 1..m /\ n + (i - n) = i) BY <1>1
<1>9. ToSet(s) = ToSet(u) \cup ToSet(v)
 <2>1. ToSet(u) \cup ToSet(v) \subseteq ToSet(s) BY <1>4, <1>7, <1>s
 <2>2. ASSUME NEW i \in 1..L PROVE s[i] \in ToSet(u) \cup ToSet(v)
  <3>1. CASE i \in 1..n BY <3>1, <1>7
  <3>2. CASE i - n \in 1..m /\ n + (i - n) = i
   <4>1. s[n + (i - n)] \in ToSet(v) BY <3>2, <1>7
   <4> QED BY <4>1, <3>2
  <3> QED BY <3>1, <3>2, <1>8
 <2> QED BY <2>1, <2>2, <1>s
<1>10. ASSUME IsInjective(s) PROVE IsInjective(u) /\ IsInjective(v) /\ ToSet(u) \cap ToSet(v) = {}
 <2>1. IsInjective(u)
  <3> SUFFICES ASSUME NEW i \in 1..n, NEW j \in 1..n, u[i] = u[j] PROVE i = j
   BY <1>6 DEF IsInjective
  <3>1. s[i] = s[j] BY <1>6
  <3> QED BY <3>1, <1>4, <1>t, <1>10 DEF IsInjective
 <2>2. IsInjective(v)
  <3> SUFFICES ASSUME NEW i \in 1..m, NEW j \in 1..m, v[i] = v[j] PROVE i = j
   BY <1>6 DEF IsInjective
  <3>1. s[n + i] = s[n + j] BY <1>6
  <3>2. n + i = n + j BY <3>1, <1>4, <1>t, <1>10 DEF IsInjective
  <3> QED BY <3>2, <1>1
 <2>3. ASSUME NEW x \in ToSet(u), x \in ToSet(v) PROVE FALSE
  <3>1. PICK i \in 1..n, j \in 1..m : s[i] = s[n + j] BY <2>3, <1>7
  <3>2. i = n + j BY <3>1, <1>4, <1>t, <1>10 DEF IsInjective
  <3> QED BY <3>2, <1>1
 <2> QED BY <2>1, <2>2, <2>3
<1>11. n = 0 => u = <<>> BY <1>5, <1>6
<1> QED BY <1>5, <1>9, <1>10, <1>11 DEF u, v, L

LEMMA HeadTail ==
    ASSUME NEW T, NEW s \in Seq(T), s # <<>>
    PROVE  /\ Head(s) \in T /\ Head(s) = s[1] /\ Tail(s) \in Seq(T) /\ Len(Tail(s)) = Len(s) - 1 /\ Len(s) \in Nat
           /\ 1 <= Len(s) /\ \A i \in 1..Len(s) - 1 : Tail(s)[i] = s[i + 1]
           /\ ToSet(s) = {Head(s)} \cup ToSet(Tail(s))
           /\ IsInjective(s) => Head(s) \notin ToSet(Tail(s)) /\ IsInjective(Tail(s))
<1> DEFINE t == Tail(s)
           L == Len(s)
<1>1. /\ Head(s) \in T /\ Head(s) = s[1] /\ t \in Seq(T) /\ Len(t) = L - 1 /\ L \in Nat /\ 1 <= L
      /\ \A i \in 1..L - 1 : t[i] = s[i + 1]
 OBVIOUS
<1>s. /\ DOMAIN s = 1..L
      /\ \A x : x \in ToSet(s) <=> \E i \in 1..L : x = s[i]
  BY Elements
<1> HIDE DEF t, L
<1>t. /\ DOMAIN t = 1..L - 1
      /\ \A x : x \in ToSet(t) <=> \E i \in 1..L - 1 : x = t[i]
  BY <1>1, Elements
<1>2. (\A i \in 1..L - 1 : i + 1 \in 1..L) /\ (\A i \in 1..L : i = 1 \/ (i - 1 \in 1..L - 1 /\ (i - 1) + 1 = i)) /\ 1 \in 1..L
 BY <1>1
<1>3. ToSet(s) = {Head(s)} \cup ToSet(t)
 <2>1. {Head(s)} \cup ToSet(t) \subseteq ToSet(s) BY <1>1, <1>2, <1>s, <1>t
 <2>2. ASSUME NEW i \in 1..L PROVE s[i] \in {Head(s)} \cup ToSet(t)
  <3>1. CASE i = 1 BY <3>1, <1>1
  <3>2. CASE i - 1 \in 1..L - 1 /\ (i - 1) + 1 = i
   <4>1. t[i - 1] = s[(i - 1) + 1] BY <3>2, <1>1
   <4> QED BY <4>1, <3>2, <1>t
  <3> QED BY <3>1, <3>2, <1>2
 <2> QED BY <2>1, <2>2, <1>s
<1>4. ASSUME IsInjective(s) PROVE Head(s) \notin ToSet(t) /\ IsInjective(t)
 <2>1. ASSUME Head(s) \in ToSet(t) PROVE FALSE
  <3>1. PICK i \in 1..L - 1 : s[1] = s[i + 1] BY <2>1, <1>1, <1>t
  <3> QED BY <3>1, <1>2, <1>s, <1>4 DEF IsInjective
 <2>2. IsInjective(t)
  <3> SUFFICES ASSUME NEW i \in 1..L - 1, NEW j \in 1..L - 1, t[i] = t[j] PROVE i = j
   BY <1>t DEF IsInjective
  <3>1. i + 1 = j + 1 BY <1>1, <1>2, <1>s, <1>4 DEF IsInjective
  <3> QED BY <3>1
 <2> QED BY <2>1, <2>2
<1> QED BY <1>1, <1>3, <1>4 DEF t, L

LEMMA WalkEnters ==
    ASSUME Asked, NEW r \in Roots, NEW S \in SUBSET Folders(r), NEW w \in Walkers,
           Walks("start", w, r, S), Entered(w.current)
    PROVE  /\ S \cup {w.current} \in SUBSET Folders(r) /\ w.current \notin S
           /\ Walks("enumerate", w, r, S \cup {w.current})
           /\ Found("enumerate", w, S \cup {w.current}) = Found("start", w, S)
           /\ w.current = r \/ w.current \in Found("start", w, S)
<1> DEFINE cur == w.current
           U == S \cup {w.current}
<1>1. cur \notin S /\ cur \notin ToSet(w.to_visit) /\ (cur = r \/ cur \in w.already_visited)
 BY DEF Walks
<1>2. w.left = <<>> /\ ToSet(w.left) = {} BY DEF Walks, ToSet
<1>3. U \ {w.current} = S BY <1>1
<1>4. Found("enumerate", w, U) = Found("start", w, S) BY <1>3 DEF Found
<1>5. w.already_visited = {p \in Found("start", w, S) : IsFolder(p)} BY DEF Walks
<1>6. cur \in Folders(r)
 <2>1. CASE cur = r BY <2>1, FoldersAre
 <2>2. CASE cur \in w.already_visited
  <3>1. cur \in Within(S) BY <2>2, <1>5 DEF Found
  <3>2. PICK q \in S : cur \in ToSet(Children(q)) BY <3>1 DEF Within
  <3> QED BY <3>2, FoldersAre
 <2> QED BY <2>1, <2>2, <1>1
<1> HIDE DEF U
<1>7. U \subseteq {r} \cup w.already_visited /\ U \cap ToSet(w.to_visit) = {} BY <1>1 DEF Walks, U
<1>8. \A p \in {r} \cup w.already_visited : p \in U \/ ~Entered(p) \/ p \in ToSet(w.to_visit)
 BY DEF Walks, U
<1>9. Walks("enumerate", w, r, U)
 <2>1. cur \in U BY DEF U
 <2>2. IsInjective(w.to_visit) /\ ToSet(w.to_visit) \subseteq w.already_visited BY DEF Walks
 <2>3. IsInjective(w.left) BY DEF Walks
 <2> QED BY <1>2, <1>4, <1>5, <1>7, <1>8, <2>1, <2>2, <2>3 DEF Walks
<1>10. cur = r \/ cur \in Found("start", w, S) BY <1>1, <1>5
<1> QED BY <1>1, <1>4, <1>6, <1>9, <1>10 DEF U

\* for_each_child_start_next_sub_directory, when the current folder was closed or is skipped.
LEMMA WalkGoesOn ==
    ASSUME Asked, NEW r \in Roots, NEW S \in SUBSET Folders(r), NEW w \in Walkers,
           Walks("close", w, r, S) \/ (Walks("start", w, r, S) /\ ~Entered(w.current)),
           NEW ph \in {"close", "start"}
    PROVE  /\ w.to_visit # <<>> =>
                LET v == [w EXCEPT !.current = Head(w.to_visit), !.to_visit = Tail(@)]
                IN v \in Walkers /\ Walks("start", v, r, S) /\ Found("start", v, S) = Found(ph, w, S)
           /\ w.to_visit = <<>> => Walks("walk_done", w, r, S) /\ Found("walk_done", w, S) = Found(ph, w, S)
<1>1. /\ w.already_visited = {p \in Within(S) \ ToSet(w.left) : IsFolder(p)}
      /\ S \subseteq {r} \cup w.already_visited
      /\ IsInjective(w.to_visit) /\ ToSet(w.to_visit) \subseteq w.already_visited \ S
      /\ \A p \in {r} \cup w.already_visited : p \in S \/ ~Entered(p) \/ p \in ToSet(w.to_visit)
      /\ IsInjective(w.left) /\ w.left = <<>> /\ ToSet(w.left) = {}
 BY DEF Walks, Found, ToSet
<1>2. Found(ph, w, S) = Within(S) \ ToSet(w.left) BY DEF Found
<1>3. ASSUME w.to_visit = <<>>
      PROVE  Walks("walk_done", w, r, S) /\ Found("walk_done", w, S) = Found(ph, w, S)
 BY <1>1, <1>2, <1>3 DEF Walks, Found
<1>4. ASSUME w.to_visit # <<>>,
             NEW v, v = [w EXCEPT !.current = Head(w.to_visit), !.to_visit = Tail(@)]
      PROVE  v \in Walkers /\ Walks("start", v, r, S) /\ Found("start", v, S) = Found(ph, w, S)
 <2>1. w.to_visit \in Seq(Paths) BY DEF Walkers
 <2>2. /\ Head(w.to_visit) \in Paths /\ Tail(w.to_visit) \in Seq(Paths)
       /\ ToSet(w.to_visit) = {Head(w.to_visit)} \cup ToSet(Tail(w.to_visit))
       /\ Head(w.to_visit) \notin ToSet(Tail(w.to_visit)) /\ IsInjective(Tail(w.to_visit))
  BY <1>1, <1>4, <2>1, HeadTail
 <2>3. /\ v.current = Head(w.to_visit) /\ v.to_visit = Tail(w.to_visit) /\ v.left = w.left
       /\ v.already_visited = w.already_visited /\ v \in Walkers
  BY <1>4, <2>2 DEF Walkers
 <2>4. Found("start", v, S) = Within(S) \ ToSet(w.left) BY <2>3 DEF Found
 <2> DEFINE h == Head(w.to_visit)
            tl == Tail(w.to_visit)
 <2>5. h \in w.already_visited /\ h \notin S /\ h \notin ToSet(tl) /\ ToSet(tl) \subseteq w.already_visited \ S
  BY <1>1, <2>2
 <2>6. \A p \in {r} \cup w.already_visited : p \in S \/ ~Entered(p) \/ p \in ToSet(tl) \/ p = h
  BY <1>1, <2>2
 <2> HIDE DEF h, tl
 <2>7. v.current = h /\ v.to_visit = tl /\ IsInjective(tl) BY <2>2, <2>3 DEF h, tl
 <2>8. Walks("start", v, r, S) BY <1>1, <2>3, <2>4, <2>5, <2>6, <2>7 DEF Walks
 <2> QED BY <1>2, <2>3, <2>4, <2>8
<1> QED BY <1>3, <1>4

LEMMA WalkEnumerates ==
    ASSUME Asked, NEW r \in Roots, NEW S \in SUBSET Folders(r), NEW w \in Walkers,
           Walks("enumerate", w, r, S),
           NEW v, v = [w EXCEPT !.left = Children(w.current)]
    PROVE  v \in Walkers /\ Walks("next_files", v, r, S) /\ Found("next_files", v, S) = Found("enumerate", w, S)
<1>1. w.current \in S /\ w.left = <<>> /\ ToSet(w.left) = {} BY DEF Walks, ToSet
<1>2. w.current \in Paths /\ IsFolder(w.current) BY <1>1, FoldersAre
<1>3. Children(w.current) \in Seq(Paths) /\ IsInjective(Children(w.current)) BY <1>2, ChildrenAre
<1>4. /\ v \in Walkers /\ v.current = w.current /\ v.to_visit = w.to_visit
      /\ v.left = Children(w.current) /\ v.already_visited = w.already_visited
 BY <1>3 DEF Walkers
<1>5. Found("next_files", v, S) = Found("enumerate", w, S)
 <2>1. Found("next_files", v, S) = Within(S) \ ToSet(Children(w.current)) BY <1>4 DEF Found
 <2>2. Found("enumerate", w, S) = Within(S \ {w.current}) BY <1>1 DEF Found
 <2>3. Within(S) = Within(S \ {w.current}) \cup ToSet(Children(w.current)) BY <1>1 DEF Within
 <2>4. \A q \in S : \A p \in ToSet(Children(q)) : Front(p) = q BY FoldersAre, ChildrenAre
 <2>5. Within(S \ {w.current}) \cap ToSet(Children(w.current)) = {}
  <3> SUFFICES ASSUME NEW q \in S \ {w.current}, NEW p \in ToSet(Children(q)), p \in ToSet(Children(w.current))
               PROVE  FALSE
   BY DEF Within
  <3> QED BY <2>4, <1>1
 <2> QED BY <2>1, <2>2, <2>3, <2>5
<1>6. Walks("next_files", v, r, S) BY <1>1, <1>3, <1>4, <1>5 DEF Walks
<1> QED BY <1>4, <1>5, <1>6

Read(w, files, n) == [Visit(w, files) EXCEPT !.left = SubSeq(@, n + 1, Len(@)), !.error = FALSE]

HasRead(ph, w, files, n, r, S) ==
    /\ Read(w, files, n) \in Walkers /\ Walks(ph, Read(w, files, n), r, S)
    /\ files \in Seq(Paths) /\ IsInjective(files) /\ w.current \in S
    /\ ToSet(files) \subseteq ToSet(Children(w.current))
    /\ Found(ph, Read(w, files, n), S) = Found("next_files", w, S) \cup ToSet(files)
    /\ \A p \in ToSet(files) : p \notin Found("next_files", w, S)

\* Some of the files that are left are looked at; at the end there are none.
LEMMA WalkReads ==
    ASSUME Asked, NEW r \in Roots, NEW S \in SUBSET Folders(r), NEW w \in Walkers,
           Walks("next_files", w, r, S), NEW n \in 0..Len(w.left), n = 0 <=> w.left = <<>>,
           NEW files, files = SubSeq(w.left, 1, n),
           NEW ph \in {"close", "next_files"}, n = 0 <=> ph = "close"
    PROVE  HasRead(ph, w, files, n, r, S)
<1> DEFINE v == Read(w, files, n)
<1> DEFINE rest == SubSeq(w.left, n + 1, Len(w.left))
           new == {path \in ToSet(files) : IsFolder(path) /\ path \notin w.already_visited}
<1>1. w.left \in Seq(Paths) /\ w.to_visit \in Seq(Paths) /\ w.already_visited \subseteq Paths /\ w.current \in Paths
 BY DEF Walkers
<1>2. /\ w.current \in S /\ IsInjective(w.left) /\ ToSet(w.left) \subseteq ToSet(Children(w.current))
      /\ w.already_visited = {p \in Found("next_files", w, S) : IsFolder(p)}
      /\ S \subseteq {r} \cup w.already_visited
      /\ IsInjective(w.to_visit) /\ ToSet(w.to_visit) \subseteq w.already_visited \ S
      /\ \A p \in {r} \cup w.already_visited : p \in S \/ ~Entered(p) \/ p \in ToSet(w.to_visit)
 BY DEF Walks
<1>3. /\ files \in Seq(Paths) /\ rest \in Seq(Paths) /\ ToSet(w.left) = ToSet(files) \cup ToSet(rest)
      /\ IsInjective(files) /\ IsInjective(rest) /\ ToSet(files) \cap ToSet(rest) = {}
 BY <1>1, <1>2, Parted
<1>4. n = 0 => rest = <<>>
 <2> SUFFICES ASSUME n = 0 PROVE rest = <<>> OBVIOUS
 <2>1. w.left = <<>> /\ Len(w.left) = 0 OBVIOUS
 <2>2. ToSet(rest) = {} /\ rest \in Seq(Paths) BY <2>1, <1>3 DEF ToSet
 <2> HIDE DEF rest
 <2> QED BY <2>2, Elements
<1>5. Only(files, new) \in Seq(Paths) /\ ToSet(Only(files, new)) = new /\ IsInjective(Only(files, new))
 <2>0. new \subseteq ToSet(files) OBVIOUS
 <2> HIDE DEF new
 <2>1. /\ Only(files, new) \in Seq(Paths) /\ ToSet(Only(files, new)) = ToSet(files) \cap new
       /\ IsInjective(Only(files, new))
  <3> QED BY <1>3, OnlyIs
 <2> QED BY <2>0, <2>1
<1> DEFINE visits == w.to_visit \o Only(files, new)
<1> DEFINE u == [w EXCEPT !.already_visited = w.already_visited \cup new, !.to_visit = visits]
<1>6. Visit(w, files) = u
 <2>1. Visit(w, files) = [w EXCEPT !.already_visited = @ \cup new, !.to_visit = @ \o Only(files, new)]
  BY DEF Visit
 <2> DEFINE more == Only(files, new)
 <2> HIDE DEF more, new
 <2>2. [w EXCEPT !.already_visited = @ \cup new, !.to_visit = @ \o more]
         = [w EXCEPT !.already_visited = w.already_visited \cup new, !.to_visit = w.to_visit \o more]
  BY DEF Walkers
 <2> QED BY <2>1, <2>2 DEF more
<1>7. new \subseteq Paths /\ new \cap w.already_visited = {}
 <2>0. files \in Seq(Paths) BY <1>3
 <2> QED BY <2>0, Elements
<1>8. /\ visits \in Seq(Paths) /\ ToSet(visits) = ToSet(w.to_visit) \cup new
      /\ IsInjective(visits)
 <2> HIDE DEF new
 <2>1. ToSet(w.to_visit) \cap new = {} BY <1>2, <1>7
 <2> QED BY <1>1, <1>2, <1>5, <2>1, Concatenated
<1> HIDE DEF visits, rest, v
<1>9. /\ v \in Walkers /\ v.current = w.current /\ v.already_visited = w.already_visited \cup new
      /\ v.to_visit = visits /\ v.left = rest
 <2> HIDE DEF new
 <2>1. /\ u \in Walkers /\ u.current = w.current /\ u.already_visited = w.already_visited \cup new
       /\ u.to_visit = visits /\ u.left = w.left
  BY <1>1, <1>7, <1>8 DEF Walkers
 <2> HIDE DEF u
 <2>2. v = [u EXCEPT !.left = SubSeq(u.left, n + 1, Len(u.left)), !.error = FALSE]
  BY <1>6 DEF Read, v
 <2>3. v = [u EXCEPT !.left = rest, !.error = FALSE] BY <2>1, <2>2 DEF rest
 <2> QED BY <1>3, <2>1, <2>3 DEF Walkers
<1>10. ToSet(w.left) \subseteq Within(S) BY <1>2 DEF Within
<1>11. /\ Found(ph, v, S) = Found("next_files", w, S) \cup ToSet(files)
       /\ \A p \in ToSet(files) : p \notin Found("next_files", w, S)
 <2>1. Found("next_files", w, S) = Within(S) \ ToSet(w.left) BY DEF Found
 <2>2. Found(ph, v, S) = Within(S) \ ToSet(rest) BY <1>9 DEF Found
 <2> QED BY <2>1, <2>2, <1>3, <1>10
<1>12. v.already_visited = {p \in Found(ph, v, S) : IsFolder(p)} BY <1>2, <1>9, <1>11
<1>13. new \cap S = {}
 <2>1. ToSet(files) \subseteq Within(Folders(r)) BY <1>2, <1>3 DEF Within
 <2>2. r \notin ToSet(files) BY <2>1, WithinAre
 <2> QED BY <2>2, <1>2
<1> HIDE DEF new
<1>14. Walks(ph, v, r, S)
 <2>1. ToSet(v.to_visit) \subseteq v.already_visited \ S BY <1>2, <1>8, <1>9, <1>13
 <2>2. \A p \in {r} \cup v.already_visited : p \in S \/ ~Entered(p) \/ p \in ToSet(v.to_visit)
  BY <1>2, <1>8, <1>9
 <2>3. S \subseteq {r} \cup v.already_visited /\ IsInjective(v.to_visit) /\ v.current \in S /\ IsInjective(v.left)
  BY <1>2, <1>3, <1>8, <1>9
 <2>4. ToSet(v.left) \subseteq ToSet(Children(v.current)) BY <1>2, <1>3, <1>9
 <2>5. ph # "next_files" => v.left = <<>> BY <1>4, <1>9
 <2>6. ph # "start" /\ ph # "walk_done" OBVIOUS
 <2> QED BY <1>12, <2>1, <2>2, <2>3, <2>4, <2>5, <2>6 DEF Walks
<1> QED BY <1>2, <1>3, <1>9, <1>11, <1>14 DEF v, HasRead

\* A walk that is done without an error has started every folder there is.
LEMMA WalkIsWhole ==
    ASSUME Asked, NEW r \in Roots, NEW S \in SUBSET Folders(r), NEW w \in Walkers, Walks("walk_done", w, r, S)
    PROVE  S = Folders(r) /\ Found("walk_done", w, S) = Within(Folders(r))
<1>1. w.left = <<>> /\ ToSet(w.left) = {} /\ w.to_visit = <<>> /\ ToSet(w.to_visit) = {}
 BY DEF Walks, ToSet
<1>2. \A p \in {r} \cup w.already_visited : p \in S \/ ~Entered(p) BY <1>1 DEF Walks
<1>3. Found("walk_done", w, S) = Within(S) BY <1>1 DEF Found
<1>4. Entered(r) => r \in S BY <1>2
<1>5. \A q \in S : \A p \in ToSet(Children(q)) : Entered(p) => p \in S
 <2> SUFFICES ASSUME NEW q \in S, NEW p \in ToSet(Children(q)), Entered(p) PROVE p \in S OBVIOUS
 <2>1. p \in Within(S) /\ IsFolder(p) BY DEF Within, Entered
 <2>2. p \in w.already_visited BY <2>1, <1>3 DEF Walks
 <2> QED BY <2>2, <1>2
<1>6. Folders(r) \subseteq S BY <1>4, <1>5, LeastFolders
<1>7. S = Folders(r) BY <1>6
<1> QED BY <1>3, <1>7

----
(* What is put aside in the walk. *)

LEMMA ListFilesIs ==
    ASSUME NEW l \in Lists, NEW files \in Seq(Paths), IsInjective(files)
    PROVE  /\ ListFiles(l, files) \in Lists
           /\ ListFiles(l, files) = [l EXCEPT !.files = ListFiles(l, files).files]
           /\ \A S, found :
                Collects(l, S, found) /\ found \cap ToSet(files) = {}
                  => Collects(ListFiles(l, files), S, found \cup ToSet(files))
<1> DEFINE passed == {path \in ToSet(files) : /\ TypeOf(path) = "file" /\ Matches(op.include, path)
                                              /\ ~(op.exclude.pattern /\ Matches(op.exclude, path))}
           put == Reverse(Only(files, passed))
<1>1. passed = {path \in ToSet(files) : Passes(path)} BY DEF Passes
<1>2. ListFiles(l, files) = [l EXCEPT !.files = put \o @] BY DEF ListFiles
<1> HIDE DEF passed
<1>3. put \in Seq(Paths) /\ ToSet(put) = passed /\ IsInjective(put)
 <2>1. /\ Only(files, passed) \in Seq(Paths) /\ ToSet(Only(files, passed)) = ToSet(files) \cap passed
       /\ IsInjective(Only(files, passed))
  BY OnlyIs
 <2>2. ToSet(files) \cap passed = passed BY <1>1
 <2> QED BY <2>1, <2>2, Reversed
<1> HIDE DEF put
<1>4. l.files \in Seq(Paths) BY DEF Lists
<1>5. /\ put \o l.files \in Seq(Paths) /\ ToSet(put \o l.files) = passed \cup ToSet(l.files)
      /\ IsInjective(l.files) /\ passed \cap ToSet(l.files) = {} => IsInjective(put \o l.files)
 BY <1>3, <1>4, Concatenated
<1> DEFINE m == ListFiles(l, files)
<1>6. m \in Lists /\ m.files = put \o l.files /\ m.dirs = l.dirs /\ m = [l EXCEPT !.files = m.files]
 BY <1>2, <1>5 DEF Lists
<1> HIDE DEF m
<1>7. ASSUME NEW S, NEW found, Collects(l, S, found), found \cap ToSet(files) = {}
      PROVE  Collects(m, S, found \cup ToSet(files))
 <2>1. /\ ToSet(l.dirs) = S /\ IsInjective(l.dirs) /\ IsInjective(l.files)
       /\ ToSet(l.files) = {p \in found : Passes(p)}
  BY <1>7 DEF Collects, OnceEach
 <2>2. passed \cap ToSet(l.files) = {} BY <2>1, <1>1, <1>7
 <2>3. ToSet(m.files) = {p \in found \cup ToSet(files) : Passes(p)} /\ IsInjective(m.files)
  BY <2>1, <2>2, <1>1, <1>5, <1>6
 <2> QED BY <2>1, <2>3, <1>6 DEF Collects, OnceEach
<1> QED BY <1>6, <1>7 DEF m

LEMMA OneMore ==
    ASSUME NEW T, NEW s \in Seq(T), NEW x \in T
    PROVE  /\ <<x>> \o s \in Seq(T) /\ ToSet(<<x>> \o s) = ToSet(s) \cup {x}
           /\ IsInjective(s) /\ x \notin ToSet(s) => IsInjective(<<x>> \o s)
<1> DEFINE one == <<x>>
<1>1. one \in Seq(T) /\ DOMAIN one = {1} /\ one[1] = x OBVIOUS
<1> HIDE DEF one
<1>2. ToSet(one) = {x} /\ IsInjective(one) BY <1>1 DEF ToSet, IsInjective
<1>3. /\ one \o s \in Seq(T) /\ ToSet(one \o s) = ToSet(one) \cup ToSet(s)
      /\ (IsInjective(one) /\ IsInjective(s) /\ ToSet(one) \cap ToSet(s) = {}) => IsInjective(one \o s)
 BY <1>1, Concatenated
<1> QED BY <1>2, <1>3 DEF one

LEMMA DirIsListed ==
    ASSUME NEW l \in Lists, NEW p \in Paths, NEW m, m = [l EXCEPT !.dirs = << p >> \o @]
    PROVE  /\ m \in Lists /\ m = [l EXCEPT !.dirs = m.dirs]
           /\ \A S, found : Collects(l, S, found) /\ p \notin S => Collects(m, S \cup {p}, found)
<1>1. l.dirs \in Seq(Paths) BY DEF Lists
<1> DEFINE put == << p >> \o l.dirs
<1>2. /\ put \in Seq(Paths) /\ ToSet(put) = ToSet(l.dirs) \cup {p}
      /\ IsInjective(l.dirs) /\ p \notin ToSet(l.dirs) => IsInjective(put)
 BY <1>1, OneMore
<1> HIDE DEF put
<1>3. m = [l EXCEPT !.dirs = put] BY DEF put
<1>4. m \in Lists /\ m.dirs = put /\ m.files = l.files /\ m = [l EXCEPT !.dirs = m.dirs]
 BY <1>2, <1>3 DEF Lists
<1> QED BY <1>2, <1>4 DEF Collects, OnceEach

\* What is put before the rest has its folder in the rest.
LEMMA QueuedMore ==
    ASSUME NEW c \in Seq(Paths), NEW put \in Seq(Paths), NEW S, NEW found, NEW U, NEW more,
           Queued(c, S, found), U \cup more = S \cup found \cup ToSet(put),
           \A p \in ToSet(put) : p # <<>> => Front(p) \in S \cup found
    PROVE  put \o c \in Seq(Paths) /\ Queued(put \o c, U, more)
<1> DEFINE d == put \o c
           K == Len(put)
           L == Len(c)
<1>1. d \in Seq(Paths) /\ Len(d) = K + L /\ ToSet(d) = ToSet(put) \cup ToSet(c) BY Concatenated
<1>a. \A i \in 1..K : d[i] = put[i] BY Concatenated
<1>b. \A i \in 1..L : d[K + i] = c[i] BY Concatenated
<1>c. /\ L \in Nat /\ \A i \in 1..L : c[i] \in ToSet(c)
      /\ \A x : x \in ToSet(c) <=> \E i \in 1..L : x = c[i]
  BY Elements
<1>p. K \in Nat /\ \A i \in 1..K : put[i] \in ToSet(put) BY Elements
<1> HIDE DEF d, K, L
<1>2. ToSet(c) = S \cup found /\ \A i \in 1..L : c[i] # <<>> => \E j \in i + 1..L : c[j] = Front(c[i])
 BY DEF Queued, L
<1>3. ToSet(d) = U \cup more BY <1>1, <1>2
<1>4. ASSUME NEW i \in 1..K + L, d[i] # <<>> PROVE \E j \in i + 1..K + L : d[j] = Front(d[i])
 <2>1. CASE i \in 1..K
  <3>1. d[i] \in ToSet(put) /\ d[i] # <<>> BY <2>1, <1>4, <1>a, <1>p
  <3>2. PICK j \in 1..L : c[j] = Front(d[i]) BY <3>1, <1>2, <1>c
  <3>3. K + j \in i + 1..K + L /\ d[K + j] = c[j] BY <2>1, <1>b, <1>c, <1>p
  <3> QED BY <3>2, <3>3
 <2>2. CASE i \notin 1..K
  <3> DEFINE k == i - K
  <3>1. k \in 1..L /\ K + k = i BY <2>2, <1>c, <1>p
  <3> HIDE DEF k
  <3>2. d[i] = c[k] BY <3>1, <1>b
  <3>3. PICK j \in k + 1..L : c[j] = Front(c[k]) BY <3>1, <3>2, <1>4, <1>2
  <3>4. j \in 1..L /\ K + j \in i + 1..K + L BY <3>1, <1>c, <1>p
  <3>5. d[K + j] = Front(d[i]) BY <3>2, <3>3, <3>4, <1>b
  <3> QED BY <3>4, <3>5
 <2> QED BY <2>1, <2>2
<1>5. Queued(d, U, more) BY <1>1, <1>3, <1>4 DEF Queued
<1> QED BY <1>1, <1>5 DEF d

----
(* Every step keeps the invariant. *)

LEMMA NowGood ==
    ASSUME GioInv
    PROVE  /\ Asked
           /\ Typed(phase, walk, list, to_copy, dest, told, faulted, refused)
           /\ Controlled(phase, walk, told, faulted, refused)
           /\ Walking(phase, walk, list, to_copy)
           /\ Listing(phase, told, list)
           /\ Fetching(phase, told, to_copy, dest)
           /\ Copying(phase, walk, told, to_copy, dest, refused)
  BY DEF GioInv, Good

\* A list that was not told of has the same in it when only what was found from one root changes.
LEMMA SameListing ==
    ASSUME NEW l \in Lists, NEW m \in Lists, m.items = l.items, m.all_files = l.all_files, m.all_dirs = l.all_dirs
    PROVE  /\ \A G : Got(l, G) <=> Got(m, G)
           /\ \A ph, t, qh : Listing(ph, t, l) /\ t # "ok" /\ qh \notin {"next_item", "copy_files"} => Listing(qh, t, m)
  BY DEF Got, Listing

LEMMA StartDirectoryKeeps ==
    ASSUME GioInv, StartDirectory
    PROVE  GioInv'
<1>0. tree' = tree /\ op' = op /\ phase = "start"
      /\ UNCHANGED <<dest, told, faulted, refused>>
 BY DEF StartDirectory
<1>n. /\ Asked
      /\ Typed(phase, walk, list, to_copy, dest, told, faulted, refused)
      /\ Controlled(phase, walk, told, faulted, refused)
      /\ Walking(phase, walk, list, to_copy)
      /\ Listing(phase, told, list)
      /\ Copying(phase, walk, told, to_copy, dest, refused)
  BY NowGood
<1>1. /\ walk \in Walkers /\ list \in Lists /\ to_copy \in Seq(Paths) /\ walk.current \in Paths
      /\ dest \subseteq Paths /\ told \in {"nothing", "ok", "error"} /\ faulted \in BOOLEAN /\ refused \in BOOLEAN
 BY <1>n DEF Typed, Walkers
<1>2. told = "nothing" /\ ~walk.error /\ walk.error \in BOOLEAN
 BY <1>0, <1>1, <1>n DEF Controlled, Walkers
<1>r. PICK r \in Roots \ ToSet(list.items) :
        \E S \in SUBSET Folders(r) : WalksFrom(phase, walk, list, to_copy, r, S)
  BY <1>0, <1>2, <1>n DEF Walking, WalkPhases
<1>s. PICK S \in SUBSET Folders(r) : WalksFrom(phase, walk, list, to_copy, r, S) BY <1>r
<1>3. /\ Walks("start", walk, r, S)
      /\ op.name # "copy" => Collects(list, S, Found("start", walk, S)) /\ Got(list, Roots \ (ToSet(list.items) \cup {r}))
      /\ op.name = "copy" => Queued(to_copy, S, Found("start", walk, S))
 BY <1>0, <1>s DEF WalksFrom
<1> SUFFICES Good(phase', walk', list', to_copy', dest', told', faulted', refused')
 BY <1>0, <1>n, Primed
<1>4. walk.current = r \/ walk.current \in Found("start", walk, S) BY <1>3 DEF Walks
<1>5. IsFolder(walk.current)
 <2>1. walk.current = r \/ walk.current \in walk.already_visited BY <1>3 DEF Walks
 <2> QED BY <2>1, <1>n, <1>3, RootsAre DEF Walks
<1>6. CASE op.name # "copy" /\ Excluded(walk.current)
 <2>1. ~Entered(walk.current) BY <1>6 DEF Entered
 <2>2. NextSubDirectory(walk) /\ list' = list /\ to_copy' = to_copy
  BY <1>6, <1>0 DEF StartDirectory, Skip
 <2>3. /\ walk' \in Walkers /\ ~walk'.error /\ phase' \in {"start", "walk_done"}
       /\ Walks(phase', walk', r, S) /\ Found(phase', walk', S) = Found("start", walk, S)
  <3>1. CASE walk.to_visit # <<>>
   <4>1. walk' = [walk EXCEPT !.current = Head(walk.to_visit), !.to_visit = Tail(@)] /\ phase' = "start"
    BY <2>2, <3>1 DEF NextSubDirectory
   <4>2. walk' \in Walkers /\ Walks("start", walk', r, S) /\ Found("start", walk', S) = Found("start", walk, S)
    BY <4>1, <3>1, <2>1, <1>1, <1>3, <1>n, WalkGoesOn
   <4>3. walk'.error = walk.error BY <4>1, <1>1 DEF Walkers
   <4> QED BY <4>1, <4>2, <4>3, <1>2
  <3>2. CASE walk.to_visit = <<>>
   <4>1. walk' = walk /\ phase' = "walk_done" BY <2>2, <3>2 DEF NextSubDirectory, WalkDone
   <4>2. Walks("walk_done", walk, r, S) /\ Found("walk_done", walk, S) = Found("start", walk, S)
    BY <3>2, <2>1, <1>1, <1>3, <1>n, WalkGoesOn
   <4> QED BY <4>1, <4>2, <1>1, <1>2
  <3> QED BY <3>1, <3>2
 <2>4. Walking(phase', walk', list', to_copy')
  <3>1. WalksFrom(phase', walk', list', to_copy', r, S) BY <2>2, <2>3, <1>3, <1>6 DEF WalksFrom
  <3> QED BY <3>1, <2>2, <1>3 DEF Walking
 <2>5. Typed(phase', walk', list', to_copy', dest', told', faulted', refused')
  BY <2>2, <2>3, <1>0, <1>1 DEF Typed, WalkPhases
 <2>6. Controlled(phase', walk', told', faulted', refused') BY <2>3, <1>0, <1>2 DEF Controlled
 <2>7. Listing(phase', told', list') BY <2>2, <2>3, <1>0, <1>1, <1>2, <1>n, SameListing
 <2>8. Fetching(phase', told', to_copy', dest') /\ Copying(phase', walk', told', to_copy', dest', refused')
  BY <2>3, <1>0, <1>2, <1>6 DEF Fetching, Copying
 <2> QED BY <2>4, <2>5, <2>6, <2>7, <2>8 DEF Good
<1>7. CASE ~(op.name # "copy" /\ Excluded(walk.current))
 <2>1. Entered(walk.current) BY <1>5, <1>7 DEF Entered
 <2> DEFINE U == S \cup {walk.current}
 <2>2. /\ U \in SUBSET Folders(r) /\ walk.current \notin S
       /\ Walks("enumerate", walk, r, U)
       /\ Found("enumerate", walk, U) = Found("start", walk, S)
  BY <2>1, <1>1, <1>3, <1>n, WalkEnters
 <2>3. phase' = "enumerate" /\ walk' = walk BY <1>0, <1>7 DEF StartDirectory
 <2>4. CASE op.name = "copy"
  <3>1. to_copy' = << walk.current >> \o to_copy /\ list' = list BY <2>4, <1>0 DEF StartDirectory
  <3> DEFINE put == << walk.current >>
             more == Found("enumerate", walk, U)
             now == Found("start", walk, S)
  <3>2. put \in Seq(Paths) /\ ToSet(put) = {walk.current}
   <4>1. put \in Seq(Paths) /\ DOMAIN put = {1} /\ put[1] = walk.current BY <1>1
   <4> HIDE DEF put
   <4> QED BY <4>1 DEF ToSet
  <3>3. ASSUME walk.current # <<>> PROVE Front(walk.current) \in S
   <4>1. r = <<>> BY <2>4, <1>n, <1>3, RootsAre
   <4>2. walk.current \in Within(S) BY <4>1, <3>3, <1>4 DEF Found
   <4>3. PICK q \in S : walk.current \in ToSet(Children(q)) BY <4>2 DEF Within
   <4>4. q \in Paths /\ IsFolder(q) BY <1>n, <1>3, FoldersAre
   <4> QED BY <4>3, <4>4, <1>n, ChildrenAre
  <3>4. Queued(to_copy, S, now) BY <1>3, <2>4
  <3>5. U \cup more = S \cup now \cup {walk.current} BY <2>2
  <3> HIDE DEF put, more, now, U
  <3>6. put \o to_copy \in Seq(Paths) /\ Queued(put \o to_copy, U, more)
   BY <3>2, <3>3, <3>4, <3>5, <1>1, QueuedMore
  <3>7. to_copy' \in Seq(Paths) /\ Queued(to_copy', U, Found("enumerate", walk, U))
   BY <3>1, <3>6 DEF put, more
  <3>8. Walking(phase', walk', list', to_copy')
   <4>1. WalksFrom(phase', walk', list', to_copy', r, U)
    BY <2>2, <2>3, <2>4, <3>7 DEF WalksFrom, U
   <4>2. U \in SUBSET Folders(r) /\ r \in Roots \ ToSet(list'.items) BY <2>2, <3>1, <1>3 DEF U
   <4> QED BY <4>1, <4>2 DEF Walking
  <3>9. Typed(phase', walk', list', to_copy', dest', told', faulted', refused')
   BY <2>3, <3>1, <3>7, <1>0, <1>1 DEF Typed, WalkPhases
  <3>10. Listing(phase', told', list') /\ Fetching(phase', told', to_copy', dest')
   BY <2>4 DEF Listing, Fetching
  <3>11. Copying(phase', walk', told', to_copy', dest', refused')
   BY <2>3, <2>4, <1>0, <1>2, <1>n DEF Copying
  <3>12. Controlled(phase', walk', told', faulted', refused') BY <2>3, <1>0, <1>2 DEF Controlled
  <3> QED BY <3>8, <3>9, <3>10, <3>11, <3>12 DEF Good
 <2>5. CASE op.name # "copy"
  <3>1. list' = [list EXCEPT !.dirs = << walk.current >> \o @] /\ to_copy' = to_copy
   BY <2>5, <1>0, <1>7 DEF StartDirectory
  <3>2. Collects(list, S, Found("start", walk, S)) /\ Got(list, Roots \ (ToSet(list.items) \cup {r}))
   BY <2>5, <1>3
  <3>3. /\ list' \in Lists /\ list' = [list EXCEPT !.dirs = list'.dirs]
        /\ Collects(list', S \cup {walk.current}, Found("start", walk, S))
   BY <3>1, <3>2, <2>2, <1>1, DirIsListed
  <3>4. list'.items = list.items /\ list'.all_files = list.all_files /\ list'.all_dirs = list.all_dirs
   BY <3>3, <1>1 DEF Lists
  <3>5. Walking(phase', walk', list', to_copy')
   <4>1. Got(list', Roots \ (ToSet(list'.items) \cup {r})) BY <3>2, <3>3, <3>4, <1>1, SameListing
   <4>2. WalksFrom(phase', walk', list', to_copy', r, U)
    BY <4>1, <2>2, <2>3, <2>5, <3>3 DEF WalksFrom
   <4>3. U \in SUBSET Folders(r) /\ r \in Roots \ ToSet(list'.items) BY <2>2, <3>4, <1>3
   <4> QED BY <4>2, <4>3 DEF Walking
  <3>6. Typed(phase', walk', list', to_copy', dest', told', faulted', refused')
   BY <2>3, <3>1, <3>3, <1>0, <1>1 DEF Typed, WalkPhases
  <3>7. Listing(phase', told', list') BY <2>3, <3>3, <3>4, <1>0, <1>1, <1>2, <1>n, SameListing
  <3>8. Fetching(phase', told', to_copy', dest') /\ Copying(phase', walk', told', to_copy', dest', refused')
   BY <2>3, <2>5, <1>0, <1>2 DEF Fetching, Copying
  <3>9. Controlled(phase', walk', told', faulted', refused') BY <2>3, <1>0, <1>2 DEF Controlled
  <3> QED BY <3>5, <3>6, <3>7, <3>8, <3>9 DEF Good
 <2> QED BY <2>4, <2>5
<1> QED BY <1>6, <1>7

\* A walk that failed is over, whatever was found.
LEMMA FailedWalk ==
    ASSUME GioInv, phase \in WalkPhases,
           tree' = tree, op' = op, dest' = dest, told' = told, refused' = refused,
           faulted' \in BOOLEAN, faulted' \/ refused, walk' \in Walkers, walk'.error, phase' \in {"close", "walk_done"},
           list' \in Lists, to_copy' \in Seq(Paths),
           list'.items = list.items, list'.all_files = list.all_files, list'.all_dirs = list.all_dirs
    PROVE  GioInv'
<1>n. /\ Asked
      /\ Typed(phase, walk, list, to_copy, dest, told, faulted, refused)
      /\ Controlled(phase, walk, told, faulted, refused)
      /\ Listing(phase, told, list)
      /\ Copying(phase, walk, told, to_copy, dest, refused)
  BY NowGood
<1> SUFFICES Good(phase', walk', list', to_copy', dest', told', faulted', refused') BY <1>n, Primed
<1>1. /\ told = "nothing" /\ list \in Lists
      /\ dest \subseteq Paths /\ refused \in BOOLEAN
 BY <1>n DEF Typed, Controlled, WalkPhases
<1>2. Typed(phase', walk', list', to_copy', dest', told', faulted', refused')
 BY <1>1 DEF Typed, WalkPhases
<1>3. Controlled(phase', walk', told', faulted', refused') BY <1>1 DEF Controlled
<1>4. Walking(phase', walk', list', to_copy') BY DEF Walking
<1>5. Listing(phase', told', list') BY <1>1, <1>n, SameListing
<1>6. Fetching(phase', told', to_copy', dest') BY <1>1 DEF Fetching
<1>7. Copying(phase', walk', told', to_copy', dest', refused') BY <1>1, <1>n DEF Copying
<1> QED BY <1>2, <1>3, <1>4, <1>5, <1>6, <1>7 DEF Good

\* Nothing else has to be said of a walk that goes on.
LEMMA GoodWalk ==
    ASSUME GioInv, phase \in WalkPhases,
           tree' = tree, op' = op, dest' = dest, told' = told, refused' = refused, faulted' = faulted,
           walk' \in Walkers, ~walk'.error, phase' \in WalkPhases,
           list' \in Lists, to_copy' \in Seq(Paths),
           list'.items = list.items, list'.all_files = list.all_files, list'.all_dirs = list.all_dirs,
           NEW r \in Roots \ ToSet(list.items), NEW S \in SUBSET Folders(r),
           Walks(phase', walk', r, S),
           op.name # "copy" => Collects(list', S, Found(phase', walk', S)) /\ Got(list, Roots \ (ToSet(list.items) \cup {r})),
           op.name = "copy" => Queued(to_copy', S, Found(phase', walk', S))
    PROVE  GioInv'
<1>n. /\ Asked
      /\ Typed(phase, walk, list, to_copy, dest, told, faulted, refused)
      /\ Controlled(phase, walk, told, faulted, refused)
      /\ Listing(phase, told, list)
      /\ Copying(phase, walk, told, to_copy, dest, refused)
  BY NowGood
<1> SUFFICES Good(phase', walk', list', to_copy', dest', told', faulted', refused') BY <1>n, Primed
<1>1. /\ told = "nothing" /\ list \in Lists
      /\ dest \subseteq Paths /\ refused \in BOOLEAN /\ faulted \in BOOLEAN
 BY <1>n DEF Typed, Controlled, WalkPhases
<1>2. Typed(phase', walk', list', to_copy', dest', told', faulted', refused') BY <1>1 DEF Typed
<1>3. Controlled(phase', walk', told', faulted', refused') BY <1>1 DEF Controlled, WalkPhases
<1>4. Walking(phase', walk', list', to_copy')
 <2>1. \A G : Got(list, G) <=> Got(list', G) BY <1>1, SameListing
 <2> QED BY <2>1 DEF WalksFrom, Walking
<1>5. Listing(phase', told', list')
 <2>1. phase' \notin {"next_item", "copy_files"} BY DEF WalkPhases
 <2> QED BY <2>1, <1>1, <1>n, SameListing
<1>6. Fetching(phase', told', to_copy', dest') BY <1>1 DEF Fetching, WalkPhases
<1>7. Copying(phase', walk', told', to_copy', dest', refused') BY <1>1, <1>n DEF Copying, WalkPhases
<1> QED BY <1>2, <1>3, <1>4, <1>5, <1>6, <1>7 DEF Good

LEMMA NowWalking ==
    ASSUME GioInv, phase \in WalkPhases, ~walk.error
    PROVE  \E r \in Roots \ ToSet(list.items) : \E S \in SUBSET Folders(r) :
             /\ Walks(phase, walk, r, S)
             /\ op.name # "copy" => Collects(list, S, Found(phase, walk, S)) /\ Got(list, Roots \ (ToSet(list.items) \cup {r}))
             /\ op.name = "copy" => Queued(to_copy, S, Found(phase, walk, S))
<1>1. PICK r \in Roots \ ToSet(list.items) :
        \E S \in SUBSET Folders(r) : WalksFrom(phase, walk, list, to_copy, r, S)
 BY NowGood DEF Walking
<1>2. PICK S \in SUBSET Folders(r) : WalksFrom(phase, walk, list, to_copy, r, S) BY <1>1
<1> QED BY <1>2 DEF WalksFrom

LEMMA NowTyped ==
    ASSUME GioInv
    PROVE  /\ Asked /\ walk \in Walkers /\ list \in Lists /\ to_copy \in Seq(Paths) /\ dest \subseteq Paths
           /\ told \in {"nothing", "ok", "error"} /\ faulted \in BOOLEAN /\ refused \in BOOLEAN
           /\ walk.error \in BOOLEAN /\ walk.current \in Paths /\ walk.left \in Seq(Paths)
           /\ walk.error => phase \in {"close", "walk_done", "copy_done", "over"} /\ told # "ok"
           /\ told = "nothing" <=> phase # "over"
  BY NowGood DEF Typed, Controlled, Walkers

LEMMA EnumeratedKeeps ==
    ASSUME GioInv, NEW ok \in BOOLEAN, Enumerated(ok)
    PROVE  GioInv'
<1>0. /\ tree' = tree /\ op' = op /\ phase = "enumerate" /\ phase \in WalkPhases
      /\ dest' = dest /\ told' = told /\ refused' = refused /\ list' = list /\ to_copy' = to_copy
      /\ faulted' = (faulted \/ ~ok)
 BY DEF Enumerated, WalkPhases
<1>1. /\ Asked /\ walk \in Walkers /\ list \in Lists /\ to_copy \in Seq(Paths) /\ ~walk.error /\ faulted \in BOOLEAN
 BY <1>0, NowTyped
<1>2. CASE ok
 <2>1. walk' = [walk EXCEPT !.left = Children(walk.current)] /\ phase' = "next_files"
  BY <1>2 DEF Enumerated
 <2>2. PICK r \in Roots \ ToSet(list.items) : \E S \in SUBSET Folders(r) :
            /\ Walks(phase, walk, r, S)
            /\ op.name # "copy" => Collects(list, S, Found(phase, walk, S)) /\ Got(list, Roots \ (ToSet(list.items) \cup {r}))
            /\ op.name = "copy" => Queued(to_copy, S, Found(phase, walk, S))
  BY <1>0, <1>1, NowWalking
 <2>3. PICK S \in SUBSET Folders(r) :
            /\ Walks(phase, walk, r, S)
            /\ op.name # "copy" => Collects(list, S, Found(phase, walk, S)) /\ Got(list, Roots \ (ToSet(list.items) \cup {r}))
            /\ op.name = "copy" => Queued(to_copy, S, Found(phase, walk, S))
  BY <2>2
 <2>4. /\ walk' \in Walkers /\ Walks("next_files", walk', r, S)
       /\ Found("next_files", walk', S) = Found("enumerate", walk, S)
  <3>1. Walks("enumerate", walk, r, S) BY <2>3, <1>0
  <3>2. \A v : v = [walk EXCEPT !.left = Children(walk.current)] =>
           v \in Walkers /\ Walks("next_files", v, r, S) /\ Found("next_files", v, S) = Found("enumerate", walk, S)
   BY <3>1, <1>1, WalkEnumerates
  <3> QED BY <3>2, <2>1
 <2>5. ~walk'.error /\ phase' \in WalkPhases /\ faulted' = faulted
  BY <2>1, <1>0, <1>1, <1>2 DEF Walkers, WalkPhases
 <2>6. Found(phase', walk', S) = Found(phase, walk, S) BY <2>1, <2>4, <1>0
 <2> QED BY <1>0, <1>1, <2>1, <2>3, <2>4, <2>5, <2>6, GoodWalk
<1>3. CASE ~ok
 <2>1. walk' = [walk EXCEPT !.error = TRUE] /\ phase' = "walk_done" /\ faulted' = TRUE
  BY <1>3, <1>0 DEF Enumerated, WalkDone
 <2>2. walk' \in Walkers /\ walk'.error BY <2>1, <1>1 DEF Walkers
 <2> QED BY <1>0, <1>1, <2>1, <2>2, FailedWalk
<1> QED BY <1>2, <1>3

LEMMA ClosedKeeps ==
    ASSUME GioInv, NEW ok \in BOOLEAN, Closed(ok)
    PROVE  GioInv'
<1>0. /\ tree' = tree /\ op' = op /\ phase = "close" /\ phase \in WalkPhases
      /\ dest' = dest /\ told' = told /\ refused' = refused /\ list' = list /\ to_copy' = to_copy
      /\ faulted' = (faulted \/ ~ok)
 BY DEF Closed, WalkPhases
<1>1. /\ Asked /\ walk \in Walkers /\ list \in Lists /\ to_copy \in Seq(Paths) /\ faulted \in BOOLEAN /\ refused \in BOOLEAN
      /\ walk.error \in BOOLEAN /\ told = "nothing" /\ dest \subseteq Paths
 BY <1>0, NowTyped
<1>2. CASE ok /\ ~walk.error
 <2>1. NextSubDirectory(walk) /\ faulted' = faulted BY <1>0, <1>1, <1>2 DEF Closed
 <2>2. PICK r \in Roots \ ToSet(list.items) : \E S \in SUBSET Folders(r) :
            /\ Walks(phase, walk, r, S)
            /\ op.name # "copy" => Collects(list, S, Found(phase, walk, S)) /\ Got(list, Roots \ (ToSet(list.items) \cup {r}))
            /\ op.name = "copy" => Queued(to_copy, S, Found(phase, walk, S))
  BY <1>0, <1>2, NowWalking
 <2>3. PICK S \in SUBSET Folders(r) :
            /\ Walks(phase, walk, r, S)
            /\ op.name # "copy" => Collects(list, S, Found(phase, walk, S)) /\ Got(list, Roots \ (ToSet(list.items) \cup {r}))
            /\ op.name = "copy" => Queued(to_copy, S, Found(phase, walk, S))
  BY <2>2
 <2>4. Walks("close", walk, r, S) BY <2>3, <1>0
 <2>5. /\ walk' \in Walkers /\ ~walk'.error /\ phase' \in WalkPhases
       /\ Walks(phase', walk', r, S) /\ Found(phase', walk', S) = Found("close", walk, S)
  <3>1. CASE walk.to_visit # <<>>
   <4>1. walk' = [walk EXCEPT !.current = Head(walk.to_visit), !.to_visit = Tail(@)] /\ phase' = "start"
    BY <2>1, <3>1 DEF NextSubDirectory
   <4>2. walk' \in Walkers /\ Walks("start", walk', r, S) /\ Found("start", walk', S) = Found("close", walk, S)
    BY <4>1, <3>1, <2>4, <1>1, WalkGoesOn
   <4>3. walk'.error = walk.error BY <4>1, <1>1 DEF Walkers
   <4> QED BY <4>1, <4>2, <4>3, <1>2 DEF WalkPhases
  <3>2. CASE walk.to_visit = <<>>
   <4>1. walk' = walk /\ phase' = "walk_done" BY <2>1, <3>2 DEF NextSubDirectory, WalkDone
   <4>2. Walks("walk_done", walk, r, S) /\ Found("walk_done", walk, S) = Found("close", walk, S)
    BY <3>2, <2>4, <1>1, WalkGoesOn
   <4> QED BY <4>1, <4>2, <1>1, <1>2 DEF WalkPhases
  <3> QED BY <3>1, <3>2
 <2>6. Found(phase', walk', S) = Found(phase, walk, S) BY <2>5, <1>0
 <2> QED BY <1>0, <1>1, <2>1, <2>3, <2>5, <2>6, GoodWalk
<1>3. CASE ~(ok /\ ~walk.error)
 <2>1. walk' = [walk EXCEPT !.error = TRUE] /\ phase' = "walk_done"
  BY <1>0, <1>1, <1>3 DEF Closed, WalkDone
 <2>2. walk' \in Walkers /\ walk'.error BY <2>1, <1>1 DEF Walkers
 <2>3. walk.error => faulted \/ refused BY NowGood DEF Controlled
 <2>4. faulted' \in BOOLEAN /\ (faulted' \/ refused) BY <2>3, <1>0, <1>1, <1>3
 <2> QED BY <1>0, <1>1, <2>1, <2>2, <2>4, FailedWalk
<1> QED BY <1>2, <1>3

LEMMA NextFilesKeeps ==
    ASSUME GioInv, NEW n \in 0..Batch, NEW ok \in BOOLEAN, NextFiles(n, ok)
    PROVE  GioInv'
<1> DEFINE files == SubSeq(walk.left, 1, n)
           v == Visit(walk, files)
<1>0. /\ tree' = tree /\ op' = op /\ phase = "next_files" /\ phase \in WalkPhases
      /\ dest' = dest /\ told' = told /\ refused' = refused /\ faulted' = (faulted \/ ~ok)
      /\ n <= Len(walk.left) /\ (n = 0 <=> ~ok \/ walk.left = <<>>)
      /\ walk' = [v EXCEPT !.left = SubSeq(@, n + 1, Len(@)), !.error = ~ok]
      /\ op.name = "copy" => to_copy' = Reverse(files) \o to_copy /\ list' = list
      /\ op.name # "copy" => list' = ListFiles(list, files) /\ to_copy' = to_copy
      /\ phase' = IF n = 0 THEN "close" ELSE "next_files"
 BY DEF NextFiles, WalkPhases
<1>1. /\ Asked /\ walk \in Walkers /\ list \in Lists /\ to_copy \in Seq(Paths) /\ ~walk.error /\ faulted \in BOOLEAN
      /\ walk.left \in Seq(Paths)
 BY <1>0, NowTyped
<1>2. n \in 0..Len(walk.left) /\ phase' \in {"close", "next_files"} BY <1>0, <1>1, GioAssumption
<1>3. files \in Seq(Paths) BY <1>1, <1>2, Parted
<1>r. PICK r \in Roots \ ToSet(list.items) : \E S \in SUBSET Folders(r) :
             /\ Walks(phase, walk, r, S)
             /\ op.name # "copy" => Collects(list, S, Found(phase, walk, S)) /\ Got(list, Roots \ (ToSet(list.items) \cup {r}))
             /\ op.name = "copy" => Queued(to_copy, S, Found(phase, walk, S))
  BY <1>0, <1>1, NowWalking
<1>s. PICK S \in SUBSET Folders(r) :
             /\ Walks(phase, walk, r, S)
             /\ op.name # "copy" => Collects(list, S, Found(phase, walk, S)) /\ Got(list, Roots \ (ToSet(list.items) \cup {r}))
             /\ op.name = "copy" => Queued(to_copy, S, Found(phase, walk, S))
  BY <1>r
<1>4. Walks("next_files", walk, r, S) BY <1>0, <1>s
<1>5. IsInjective(walk.left) /\ IsInjective(files)
 <2>1. IsInjective(walk.left) BY <1>4 DEF Walks
 <2> QED BY <2>1, <1>1, <1>2, Parted
<1>6. /\ list' \in Lists /\ to_copy' \in Seq(Paths)
      /\ list'.items = list.items /\ list'.all_files = list.all_files /\ list'.all_dirs = list.all_dirs
 <2>1. CASE op.name = "copy"
  <3>1. Reverse(files) \in Seq(Paths) BY <1>3, Reversed
  <3> HIDE DEF files
  <3>2. Reverse(files) \o to_copy \in Seq(Paths) BY <3>1, <1>1, Concatenated
  <3> QED BY <3>2, <2>1, <1>0, <1>1
 <2>2. CASE op.name # "copy"
  <3> HIDE DEF files
  <3>1. list' \in Lists /\ list' = [list EXCEPT !.files = list'.files] /\ to_copy' = to_copy
   BY <2>2, <1>0, <1>1, <1>3, <1>5, ListFilesIs
  <3> QED BY <3>1, <1>1 DEF Lists
 <2> QED BY <2>1, <2>2
<1>7. CASE ok
 <2>1. walk' = [v EXCEPT !.left = SubSeq(@, n + 1, Len(@)), !.error = FALSE] /\ faulted' = faulted
       /\ (n = 0 <=> walk.left = <<>>)
  BY <1>7, <1>0, <1>1
 <2>2. /\ walk' \in Walkers /\ Walks(phase', walk', r, S)
       /\ walk.current \in S /\ ToSet(files) \subseteq ToSet(Children(walk.current))
       /\ Found(phase', walk', S) = Found("next_files", walk, S) \cup ToSet(files)
       /\ \A p \in ToSet(files) : p \notin Found("next_files", walk, S)
  <3>1. walk' = Read(walk, files, n) BY <2>1 DEF Read
  <3>2. files = SubSeq(walk.left, 1, n) /\ phase' \in {"close", "next_files"} /\ (n = 0 <=> phase' = "close")
   BY <1>0
  <3>3. r \in Roots /\ (n = 0 <=> walk.left = <<>>) BY <2>1
  <3> HIDE DEF files, v
  <3>4. HasRead(phase', walk, files, n, r, S) BY <1>1, <1>2, <1>4, <3>2, <3>3, WalkReads
  <3> QED BY <3>1, <3>4 DEF HasRead
 <2>3. ~walk'.error
  <3> HIDE DEF v
  <3>1. "error" \in DOMAIN walk' BY <2>2 DEF Walkers
  <3> QED BY <3>1, <2>1
 <2>4. ASSUME op.name # "copy"
       PROVE  Collects(list', S, Found(phase', walk', S)) /\ Got(list, Roots \ (ToSet(list.items) \cup {r}))
  <3>1. Collects(list, S, Found("next_files", walk, S)) /\ Got(list, Roots \ (ToSet(list.items) \cup {r}))
   BY <2>4, <1>0, <1>s
  <3> HIDE DEF files
  <3>4. Found("next_files", walk, S) \cap ToSet(files) = {} BY <2>2
  <3>2. Collects(ListFiles(list, files), S, Found("next_files", walk, S) \cup ToSet(files))
   BY <3>1, <3>4, <2>2, <1>1, <1>3, <1>5, ListFilesIs
  <3> QED BY <3>1, <3>2, <2>2, <2>4, <1>0
 <2>5. ASSUME op.name = "copy" PROVE Queued(to_copy', S, Found(phase', walk', S))
  <3> DEFINE put == Reverse(files)
             now == Found("next_files", walk, S)
             more == Found(phase', walk', S)
  <3>1. put \in Seq(Paths) /\ ToSet(put) = ToSet(files) BY <1>3, Reversed
  <3>2. Queued(to_copy, S, now) BY <2>5, <1>0, <1>s
  <3>3. \A p \in ToSet(files) : Front(p) \in S
   <4>1. walk.current \in Paths /\ IsFolder(walk.current) BY <2>2, <1>1, FoldersAre
   <4> QED BY <4>1, <2>2, <1>1, ChildrenAre
  <3>4. S \cup more = S \cup now \cup ToSet(put) BY <3>1, <2>2
  <3>5. to_copy' = put \o to_copy BY <2>5, <1>0
  <3> HIDE DEF put, now, more
  <3>6. Queued(put \o to_copy, S, more) BY <3>1, <3>2, <3>3, <3>4, <1>1, QueuedMore
  <3> QED BY <3>5, <3>6 DEF more
 <2>6. phase' \in WalkPhases BY <1>2 DEF WalkPhases
 <2> HIDE DEF files, v
 <2> QED BY <1>0, <1>6, <2>1, <2>2, <2>3, <2>4, <2>5, <2>6, GoodWalk
<1>8. CASE ~ok
 <2>1. n = 0 /\ phase' = "close" /\ faulted' = TRUE BY <1>8, <1>0
 <2>2. v \in Walkers
  <3> DEFINE new == {path \in ToSet(files) : IsFolder(path) /\ path \notin walk.already_visited}
  <3>1. new \subseteq Paths
   <4> QED BY <1>3, Elements
  <3>2. v = [walk EXCEPT !.already_visited = @ \cup new, !.to_visit = @ \o Only(files, new)]
   BY DEF Visit
  <3> HIDE DEF new, files
  <3>3. Only(files, new) \in Seq(Paths) BY <1>3, OnlyIs
  <3> DEFINE more == Only(files, new)
  <3> HIDE DEF more
  <3>4. walk.to_visit \in Seq(Paths) /\ more \in Seq(Paths) BY <1>1, <3>3 DEF Walkers, more
  <3>5. walk.to_visit \o more \in Seq(Paths) BY <3>4, Concatenated
  <3>6. v = [walk EXCEPT !.already_visited = walk.already_visited \cup new, !.to_visit = walk.to_visit \o more]
   BY <3>2, <1>1 DEF Walkers, more
  <3> HIDE DEF v
  <3> QED BY <3>1, <3>5, <3>6, <1>1 DEF Walkers
 <2> HIDE DEF v, files
 <2>3. walk' \in Walkers /\ walk'.error
  <3>1. v.left \in Seq(Paths) BY <2>2 DEF Walkers
  <3>2. SubSeq(v.left, n + 1, Len(v.left)) \in Seq(Paths) BY <3>1, <2>1, Parted
  <3> DEFINE rest == SubSeq(v.left, n + 1, Len(v.left))
  <3>3. walk' = [v EXCEPT !.left = rest, !.error = TRUE] BY <1>0, <1>8
  <3> HIDE DEF rest
  <3> QED BY <3>2, <3>3, <2>2 DEF Walkers, rest
 <2> QED BY <1>0, <1>6, <2>1, <2>3, FailedWalk
<1> QED BY <1>7, <1>8

\* What there is to be listed, put together from the roots.
LEMMA WholeList ==
    ASSUME Asked
    PROVE  /\ FoldersOf(Roots) = AllFolders /\ AllFolders \subseteq Paths
           /\ ToBeListed = FilesOf(Roots) \cup Plain /\ FoldersToBeListed = DirsOf(Roots)
           /\ \A p \in ToBeListed : p \in Paths /\ p # <<>>
           /\ \A p \in FoldersToBeListed : p \in Paths /\ p # <<>> /\ IsFolder(p)
<1>1. FoldersOf(Roots) = AllFolders BY DEF FoldersOf, AllFolders
<1>2. ToBeListed = FilesOf(Roots) \cup Plain
 <2> QED BY <1>1 DEF FilesOf, FilesIn, Passes, ToBeListed, Plain
<1>3. FoldersToBeListed = DirsOf(Roots)
 <2>1. CASE Filtered
  <3>1. \A p \in Plain : Above(p) = {} BY PlainAre
  <3>2. UNION {Above(p) : p \in FilesOf(Roots) \cup Plain} = UNION {Above(p) : p \in FilesOf(Roots)}
   BY <3>1
  <3> QED BY <2>1, <3>2, <1>2 DEF FoldersToBeListed, DirsOf
 <2>2. CASE ~Filtered BY <2>2, <1>1 DEF FoldersToBeListed, DirsOf
 <2> QED BY <2>1, <2>2
<1> DEFINE all == Roots
<1>4. all \in SUBSET Roots OBVIOUS
<1> HIDE DEF all
<1>5. /\ \A p : p \in FoldersOf(all) <=> \E g \in all : p \in Folders(g)
      /\ \A p : p \in FilesOf(all) <=> \E g \in all : p \in Within(Folders(g)) /\ Passes(p)
      /\ DirsOf(all) \subseteq FoldersOf(all)
 BY <1>4, FilesAndDirs
<1>6. \A p \in FilesOf(all) : p \in Paths /\ p # <<>> BY <1>4, <1>5, WithinAre
<1>7. \A p \in FoldersOf(all) : p \in Paths /\ IsFolder(p) BY <1>4, <1>5, FoldersAre
<1>8. \A p \in Plain : p \in Paths /\ p # <<>> BY PlainAre
<1>9. \A p \in DirsOf(all) : p # <<>>
 <2>1. CASE ~Filtered BY <2>1 DEF DirsOf
 <2>2. CASE Filtered
  <3>1. ASSUME NEW p \in FilesOf(all), NEW n \in 1..Len(p) - 1 PROVE SubSeq(p, 1, n) # <<>>
   <4>1. p \in Seq(Inodes) BY <1>6 DEF Paths
   <4>2. SubSeq(p, 1, n) = [i \in 1..n |-> p[i]] BY <4>1
   <4> QED BY <4>1, <4>2
  <3>2. \A p \in FilesOf(all) : <<>> \notin Above(p) BY <3>1 DEF Above
  <3> QED BY <3>2, <2>2 DEF DirsOf
 <2> QED BY <2>1, <2>2
<1> QED BY <1>1, <1>2, <1>3, <1>5, <1>6, <1>7, <1>8, <1>9 DEF all

LEMMA ListedKeeps ==
    ASSUME GioInv, phase \in {"walk_done", "next_item"}, ~walk.error, op.name # "copy",
           tree' = tree, op' = op, walk' = walk, faulted' = faulted, refused' = refused,
           list' \in Lists, list'.items = <<>>, Got(list', Roots), Listed(list'.all_files, list'.all_dirs)
    PROVE  GioInv'
<1>1. /\ Asked /\ walk \in Walkers /\ told = "nothing" /\ dest \subseteq Paths /\ to_copy \in Seq(Paths)
      /\ faulted \in BOOLEAN /\ refused \in BOOLEAN
 BY NowTyped
<1> SUFFICES Good(phase', walk', list', to_copy', dest', told', faulted', refused') BY <1>1, Primed
<1>2. Walking(phase', walk', list', to_copy') BY DEF Walking, WalkPhases, Listed
<1>3. Listing(phase', told', list')
 <2> DEFINE none == <<>>
 <2>1. ToSet(none) = {} /\ IsInjective(none) BY DEF ToSet, IsInjective
 <2>2. list'.items = none OBVIOUS
 <2>3. phase' # "next_item" BY DEF Listed
 <2> HIDE DEF none
 <2>4. ToSet(list'.items) \subseteq Roots /\ IsInjective(list'.items) BY <2>1, <2>2
 <2> QED BY <2>3, <2>4 DEF Listing
<1>4. Copying(phase', walk', told', to_copy', dest', refused') BY DEF Copying
<1>5. CASE ~op.remote
 <2>1. phase' = "over" /\ told' = "ok" /\ to_copy' = to_copy /\ dest' = dest BY <1>5 DEF Listed
 <2>2. Typed(phase', walk', list', to_copy', dest', told', faulted', refused')
  BY <2>1, <1>1 DEF Typed
 <2>3. Controlled(phase', walk', told', faulted', refused') BY <2>1 DEF Controlled
 <2>4. Fetching(phase', told', to_copy', dest') BY <1>5 DEF Fetching
 <2> QED BY <1>2, <1>3, <1>4, <2>2, <2>3, <2>4 DEF Good
<1>6. CASE op.remote
 <2> DEFINE both == list'.all_files \o list'.all_dirs
            before(p) == {SubSeq(p, 1, n) : n \in 0..Len(p) - 1}
 <2>1. /\ phase' = "copy_files" /\ told' = told /\ to_copy' = both
       /\ dest' = {<<>>} \cup UNION {before(p) : p \in ToSet(both)}
  BY <1>6 DEF Listed
 <2>2. list'.all_files \in Seq(Paths) /\ list'.all_dirs \in Seq(Paths) BY DEF Lists
 <2>3. both \in Seq(Paths) /\ ToSet(both) = ToBeListed \cup FoldersToBeListed
  <3>1. ToSet(list'.all_files) = ToBeListed /\ ToSet(list'.all_dirs) = FoldersToBeListed
   BY <1>1, WholeList DEF Got, OnceEach
  <3> QED BY <3>1, <2>2, Concatenated
 <2>4. ToSet(both) = Brought BY <2>3 DEF Brought
 <2> HIDE DEF both
 <2>5. \A p \in Brought : p \in Paths /\ p # <<>> BY <2>3, <2>4, <1>1, WholeList
 <2>6. \A p \in Brought : Front(p) \in before(p) /\ before(p) \subseteq Paths
  <3> SUFFICES ASSUME NEW p \in Paths, p # <<>> PROVE Front(p) \in before(p) /\ before(p) \subseteq Paths
   BY <2>5
  <3>1. p \in Seq(Inodes) /\ Front(p) = SubSeq(p, 1, Len(p) - 1) /\ Len(p) - 1 \in 0..Len(p) - 1
   BY FrontIs DEF Paths
  <3>2. \A n \in 0..Len(p) - 1 : SubSeq(p, 1, n) \in Seq(Inodes)
   <4> TAKE n \in 0..Len(p) - 1
   <4>1. n \in 0..Len(p) BY <3>1
   <4> QED BY <4>1, <3>1, Parted
  <3> QED BY <3>1, <3>2 DEF Paths
 <2>7. dest' \subseteq Paths
  <3>1. <<>> \in Paths BY <1>1, BaseIs
  <3> HIDE DEF before
  <3> QED BY <3>1, <2>1, <2>4, <2>6
 <2>8. \A p \in Brought : Front(p) \in dest'
  <3> HIDE DEF before
  <3> QED BY <2>1, <2>4, <2>6
 <2> HIDE DEF before
 <2>9. Typed(phase', walk', list', to_copy', dest', told', faulted', refused')
  BY <2>1, <2>3, <2>7, <1>1 DEF Typed
 <2>10. Controlled(phase', walk', told', faulted', refused') BY <2>1, <1>1, <1>6 DEF Controlled
 <2>11. Fetching(phase', told', to_copy', dest') BY <2>1, <2>4, <2>8, <1>1 DEF Fetching
 <2> QED BY <1>2, <1>3, <1>4, <2>9, <2>10, <2>11 DEF Good
<1> QED BY <1>5, <1>6

\* A step to the end, or between roots: what is said then of the lists and of the destination.
LEMMA WalkListedKeeps ==
    ASSUME GioInv, WalkListed
    PROVE  GioInv'
<1>0. /\ tree' = tree /\ op' = op /\ phase = "walk_done" /\ phase \in WalkPhases /\ op.name # "copy"
      /\ walk' = walk /\ faulted' = faulted /\ refused' = refused
 BY DEF WalkListed, WalkPhases
<1>1. /\ Asked /\ walk \in Walkers /\ list \in Lists /\ to_copy \in Seq(Paths) /\ dest \subseteq Paths
      /\ faulted \in BOOLEAN /\ refused \in BOOLEAN /\ told = "nothing" /\ walk.error \in BOOLEAN
 BY <1>0, NowTyped
<1>n. Listing(phase, told, list) /\ Controlled(phase, walk, told, faulted, refused) BY NowGood
<1>2. CASE walk.error
 <2> SUFFICES Good(phase', walk', list', to_copy', dest', told', faulted', refused')
  BY <1>0, <1>1, Primed
 <2>1. told' = "error" /\ phase' = "over" /\ list' = list /\ to_copy' = to_copy /\ dest' = dest
  BY <1>0, <1>2 DEF WalkListed
 <2>2. Typed(phase', walk', list', to_copy', dest', told', faulted', refused')
  BY <2>1, <1>0, <1>1 DEF Typed
 <2>3. Controlled(phase', walk', told', faulted', refused')
  BY <2>1, <1>0, <1>2, <1>n DEF Controlled
 <2>4. Walking(phase', walk', list', to_copy') BY <2>1 DEF Walking, WalkPhases
 <2>5. Listing(phase', told', list') BY <2>1, <1>n DEF Listing
 <2>6. Fetching(phase', told', to_copy', dest') /\ Copying(phase', walk', told', to_copy', dest', refused')
  BY <2>1, <1>0 DEF Fetching, Copying
 <2> QED BY <2>2, <2>3, <2>4, <2>5, <2>6 DEF Good
<1>3. CASE ~walk.error
 <2> DEFINE found == ListDone(list)
            files == list.all_files \o found.files
            dirs == list.all_dirs \o found.dirs
            done == [list EXCEPT !.files = <<>>, !.dirs = <<>>, !.all_files = files, !.all_dirs = dirs]
 <2>1. /\ list' = done
       /\ IF op.name = "items" THEN phase' = "next_item" /\ told' = told /\ to_copy' = to_copy /\ dest' = dest
          ELSE Listed(files, dirs)
  BY <1>0, <1>3 DEF WalkListed
 <2>2. PICK r \in Roots \ ToSet(list.items) : \E S \in SUBSET Folders(r) :
            /\ Walks(phase, walk, r, S)
            /\ op.name # "copy" => Collects(list, S, Found(phase, walk, S)) /\ Got(list, Roots \ (ToSet(list.items) \cup {r}))
            /\ op.name = "copy" => Queued(to_copy, S, Found(phase, walk, S))
  BY <1>0, <1>3, NowWalking
 <2>3. PICK S \in SUBSET Folders(r) :
            /\ Walks(phase, walk, r, S)
            /\ op.name # "copy" => Collects(list, S, Found(phase, walk, S)) /\ Got(list, Roots \ (ToSet(list.items) \cup {r}))
            /\ op.name = "copy" => Queued(to_copy, S, Found(phase, walk, S))
  BY <2>2
 <2>4. S = Folders(r) /\ Found("walk_done", walk, S) = Within(Folders(r))
  <3>1. Walks("walk_done", walk, r, S) BY <2>3, <1>0
  <3> QED BY <3>1, <1>1, WalkIsWhole
 <2>5. Collects(list, Folders(r), Within(Folders(r))) BY <2>3, <2>4, <1>0
 <2> DEFINE G == Roots \ (ToSet(list.items) \cup {r})
 <2>6. Got(list, G) /\ G \in SUBSET Roots /\ r \notin G /\ r \in Roots /\ G \cup {r} = Roots \ ToSet(list.items)
  BY <2>3, <1>0
 <2>7. /\ list.files \in Seq(Paths) /\ list.dirs \in Seq(Paths)
       /\ list.all_files \in Seq(Paths) /\ list.all_dirs \in Seq(Paths)
  BY <1>1 DEF Lists
 <2> HIDE DEF G
 <2>8. /\ files \in Seq(Paths) /\ dirs \in Seq(Paths)
       /\ OnceEach(files, FilesOf(G \cup {r}) \cup Plain) /\ OnceEach(dirs, DirsOf(G \cup {r}))
  BY <2>5, <2>6, <2>7, <1>1, GotMore
 <2> HIDE DEF files, dirs, found
 <2>9. /\ list' \in Lists /\ list'.files = <<>> /\ list'.dirs = <<>> /\ list'.items = list.items
       /\ list'.all_files = files /\ list'.all_dirs = dirs
  <3>1. <<>> \in Seq(Paths) OBVIOUS
  <3> DEFINE none == <<>>
  <3>2. none \in Seq(Paths) /\ list' = [list EXCEPT !.files = none, !.dirs = none, !.all_files = files, !.all_dirs = dirs]
   BY <2>1
  <3> HIDE DEF none
  <3> QED BY <3>2, <2>8, <1>1 DEF Lists, none
 <2>10. Got(list', Roots \ ToSet(list'.items)) BY <2>6, <2>8, <2>9 DEF Got
 <2> HIDE DEF done
 <2>11. CASE op.name = "items"
  <3> SUFFICES Good(phase', walk', list', to_copy', dest', told', faulted', refused')
   BY <1>0, <1>1, Primed
  <3>1. phase' = "next_item" /\ told' = told /\ to_copy' = to_copy /\ dest' = dest BY <2>1, <2>11
  <3>2. Typed(phase', walk', list', to_copy', dest', told', faulted', refused')
   BY <3>1, <2>9, <1>0, <1>1 DEF Typed
  <3>3. Controlled(phase', walk', told', faulted', refused')
   BY <3>1, <2>11, <1>0, <1>1, <1>3 DEF Controlled
  <3>4. Walking(phase', walk', list', to_copy') BY <3>1 DEF Walking, WalkPhases
  <3>5. Listing(phase', told', list') BY <3>1, <2>9, <2>10, <1>1, <1>n DEF Listing
  <3>6. Fetching(phase', told', to_copy', dest') /\ Copying(phase', walk', told', to_copy', dest', refused')
   BY <3>1, <1>0, <1>1 DEF Fetching, Copying
  <3> QED BY <3>2, <3>3, <3>4, <3>5, <3>6 DEF Good
 <2>12. CASE op.name # "items"
  <3>1. list.items = <<>> BY <2>12, <1>0, <1>n DEF Listing
  <3>2. ToSet(list'.items) = {} /\ list'.items = <<>> BY <3>1, <2>9 DEF ToSet
  <3>3. Got(list', Roots) BY <3>2, <2>10
  <3>4. Listed(list'.all_files, list'.all_dirs) BY <2>1, <2>9, <2>12
  <3> QED BY <3>2, <3>3, <3>4, <2>9, <1>0, <1>3, ListedKeeps
 <2> QED BY <2>11, <2>12
<1> QED BY <1>1, <1>2, <1>3

LEMMA WalkBegins ==
    ASSUME Asked, NEW r \in Roots
    PROVE  /\ WalkOf(r) \in Walkers /\ ~WalkOf(r).error
           /\ Walks("start", WalkOf(r), r, {}) /\ Found("start", WalkOf(r), {}) = {}
<1> DEFINE w == WalkOf(r)
           none == <<>>
<1>1. none \in Seq(Paths) /\ ToSet(none) = {} /\ IsInjective(none) BY DEF ToSet, IsInjective
<1>2. w = [current |-> r, already_visited |-> {}, to_visit |-> none, left |-> none, error |-> FALSE]
 BY DEF WalkOf
<1>3. r \in Paths BY RootsAre
<1>4. /\ w \in Walkers /\ ~w.error /\ w.current = r /\ w.already_visited = {} /\ w.to_visit = <<>> /\ w.left = <<>>
      /\ ToSet(w.to_visit) = {} /\ IsInjective(w.to_visit) /\ ToSet(w.left) = {} /\ IsInjective(w.left)
 BY <1>1, <1>2, <1>3 DEF Walkers
<1> HIDE DEF w
<1>5. Found("start", w, {}) = {} BY DEF Found, Within
<1>6. Walks("start", w, r, {}) BY <1>4, <1>5 DEF Walks
<1> QED BY <1>4, <1>5, <1>6 DEF w

LEMMA NextItemKeeps ==
    ASSUME GioInv, NextItem
    PROVE  GioInv'
<1>0. /\ tree' = tree /\ op' = op /\ phase = "next_item" /\ faulted' = faulted /\ refused' = refused
 BY DEF NextItem
<1>1. /\ Asked /\ walk \in Walkers /\ list \in Lists /\ to_copy \in Seq(Paths) /\ dest \subseteq Paths
      /\ faulted \in BOOLEAN /\ refused \in BOOLEAN /\ told = "nothing" /\ ~walk.error
 BY <1>0, NowTyped
<1>n. Listing(phase, told, list) /\ Controlled(phase, walk, told, faulted, refused) BY NowGood
<1>2. op.name = "items" /\ op.name # "copy" BY <1>0, <1>n DEF Controlled
<1>3. /\ IsInjective(list.items) /\ ToSet(list.items) \subseteq Roots
      /\ list.files = <<>> /\ list.dirs = <<>> /\ Got(list, Roots \ ToSet(list.items))
 BY <1>0, <1>2, <1>n DEF Listing
<1>4. CASE list.items = <<>>
 <2>1. Listed(list.all_files, list.all_dirs) /\ walk' = walk /\ list' = list
  BY <1>0, <1>4 DEF NextItem
 <2>2. ToSet(list.items) = {} BY <1>4 DEF ToSet
 <2>3. Got(list', Roots) BY <2>1, <2>2, <1>3
 <2> QED BY <2>1, <2>3, <1>0, <1>1, <1>2, <1>4, ListedKeeps
<1>5. CASE list.items # <<>>
 <2> SUFFICES Good(phase', walk', list', to_copy', dest', told', faulted', refused')
  BY <1>0, <1>1, Primed
 <2> DEFINE r == Head(list.items)
            rest == Tail(list.items)
 <2>1. /\ walk' = WalkOf(r) /\ phase' = "start" /\ list' = [list EXCEPT !.items = rest]
       /\ told' = told /\ to_copy' = to_copy /\ dest' = dest
  <3> QED BY <1>0, <1>5 DEF NextItem
 <2>2. list.items \in Seq(Paths) BY <1>1 DEF Lists
 <2>3. /\ rest \in Seq(Paths) /\ ToSet(list.items) = {r} \cup ToSet(rest) /\ r \notin ToSet(rest) /\ IsInjective(rest)
  BY <2>2, <1>3, <1>5, HeadTail
 <2> HIDE DEF r, rest
 <2>4. r \in Roots \ ToSet(rest) BY <2>3, <1>3
 <2>5. /\ list' \in Lists /\ list'.items = rest /\ list'.files = <<>> /\ list'.dirs = <<>>
       /\ list'.all_files = list.all_files /\ list'.all_dirs = list.all_dirs
  BY <2>1, <2>3, <1>1, <1>3 DEF Lists
 <2>6. /\ walk' \in Walkers /\ ~walk'.error /\ Walks("start", walk', r, {}) /\ Found("start", walk', {}) = {}
  BY <2>1, <2>4, <1>1, WalkBegins
 <2>7. Collects(list', {}, {}) BY <2>5 DEF Collects, OnceEach, ToSet, IsInjective
 <2>8. Got(list', Roots \ (ToSet(list'.items) \cup {r}))
  <3>1. Roots \ (ToSet(list'.items) \cup {r}) = Roots \ ToSet(list.items) BY <2>3, <2>5
  <3> QED BY <3>1, <2>5, <1>3 DEF Got
 <2>9. Walking(phase', walk', list', to_copy')
  <3>1. WalksFrom(phase', walk', list', to_copy', r, {})
   BY <2>1, <2>6, <2>7, <2>8, <1>2 DEF WalksFrom
  <3>2. r \in Roots \ ToSet(list'.items) /\ {} \in SUBSET Folders(r) BY <2>4, <2>5
  <3> QED BY <3>1, <3>2 DEF Walking
 <2>10. Typed(phase', walk', list', to_copy', dest', told', faulted', refused')
  BY <2>1, <2>5, <2>6, <1>0, <1>1 DEF Typed, WalkPhases
 <2>11. Controlled(phase', walk', told', faulted', refused') BY <2>1, <2>6, <1>1 DEF Controlled
 <2>12. Listing(phase', told', list')
  <3>1. ToSet(rest) \subseteq Roots BY <2>3, <1>3
  <3> QED BY <3>1, <2>1, <2>3, <2>5, <1>1, <1>2 DEF Listing
 <2>13. Fetching(phase', told', to_copy', dest') /\ Copying(phase', walk', told', to_copy', dest', refused')
  BY <2>1, <1>1, <1>2 DEF Fetching, Copying
 <2> QED BY <2>9, <2>10, <2>11, <2>12, <2>13 DEF Good
<1> QED BY <1>4, <1>5

LEMMA CopyFileKeeps ==
    ASSUME GioInv, NEW ok \in BOOLEAN, CopyFile(ok)
    PROVE  GioInv'
<1>0. /\ tree' = tree /\ op' = op /\ phase = "copy_files" /\ to_copy # <<>>
      /\ walk' = walk /\ list' = list /\ refused' = refused /\ faulted' = (faulted \/ ~ok)
 BY DEF CopyFile
<1>1. /\ Asked /\ walk \in Walkers /\ list \in Lists /\ to_copy \in Seq(Paths) /\ dest \subseteq Paths
      /\ faulted \in BOOLEAN /\ refused \in BOOLEAN /\ told = "nothing" /\ ~walk.error
 BY <1>0, NowTyped
<1>n. Listing(phase, told, list) /\ Controlled(phase, walk, told, faulted, refused) /\ Fetching(phase, told, to_copy, dest)
  BY NowGood
<1>2. op.name # "copy" /\ op.remote /\ Got(list, Roots) BY <1>0, <1>n DEF Controlled, Listing
<1>3. /\ ToSet(to_copy) \subseteq Brought
      /\ \A p \in Brought : p \in dest \/ p \in ToSet(to_copy)
      /\ \A p \in ToSet(to_copy) : Front(p) \in dest
 BY <1>0, <1>2, <1>n DEF Fetching
<1> DEFINE path == Head(to_copy)
           rest == Tail(to_copy)
<1>4. path \in Paths /\ rest \in Seq(Paths) /\ ToSet(to_copy) = {path} \cup ToSet(rest)
 BY <1>0, <1>1, HeadTail
<1>5. \/ dest' = dest \cup {path} /\ to_copy' = rest /\ phase' = phase /\ told' = told
      \/ /\ told' = "error" /\ phase' = "over" /\ dest' = dest /\ to_copy' = to_copy
         /\ ~(ok /\ Front(path) \in dest /\ TypeOf(path) \in {"file", "dir"})
 BY DEF CopyFile
<1> HIDE DEF path, rest
<1> SUFFICES Good(phase', walk', list', to_copy', dest', told', faulted', refused')
 BY <1>0, <1>1, Primed
<1>6. Typed(phase', walk', list', to_copy', dest', told', faulted', refused')
 BY <1>0, <1>1, <1>4, <1>5 DEF Typed
<1>7. Walking(phase', walk', list', to_copy') BY <1>0, <1>5 DEF Walking, WalkPhases
<1>8. Listing(phase', told', list') BY <1>0, <1>1, <1>5, <1>n DEF Listing
<1>9. Copying(phase', walk', told', to_copy', dest', refused') BY <1>2, <1>0 DEF Copying
<1>10. CASE dest' = dest \cup {path} /\ to_copy' = rest /\ phase' = phase /\ told' = told
 <2>1. Fetching(phase', told', to_copy', dest') BY <1>1, <1>3, <1>4, <1>10 DEF Fetching
 <2>2. Controlled(phase', walk', told', faulted', refused')
  BY <1>0, <1>1, <1>2, <1>10 DEF Controlled
 <2> QED BY <1>6, <1>7, <1>8, <1>9, <2>1, <2>2 DEF Good
<1>11. CASE /\ told' = "error" /\ phase' = "over" /\ dest' = dest /\ to_copy' = to_copy
            /\ ~(ok /\ Front(path) \in dest /\ TypeOf(path) \in {"file", "dir"})
 <2>1. Fetching(phase', told', to_copy', dest') BY <1>11 DEF Fetching
 <2>2. ~ok \/ TypeOf(path) \notin {"file", "dir"} BY <1>3, <1>4, <1>11
 <2>3. TypeOf(path) \notin {"file", "dir"} => path \in ToBeListed /\ TypeOf(path) # "file"
  <3>1. path \in Brought /\ Brought = ToBeListed \cup FoldersToBeListed
   BY <1>2, <1>3, <1>4 DEF Brought
  <3>2. \A p \in FoldersToBeListed : IsFolder(p) BY <1>1, WholeList
  <3> QED BY <3>1, <3>2 DEF IsFolder
 <2>4. faulted' \/ \E p \in ToBeListed : TypeOf(p) # "file" BY <2>2, <2>3, <1>0
 <2>5. Controlled(phase', walk', told', faulted', refused')
  BY <2>4, <1>0, <1>1, <1>2, <1>11 DEF Controlled
 <2> QED BY <1>6, <1>7, <1>8, <1>9, <2>1, <2>5 DEF Good
<1> QED BY <1>5, <1>10, <1>11

LEMMA CopyFilesEndKeeps ==
    ASSUME GioInv, CopyFilesEnd
    PROVE  GioInv'
<1>0. /\ tree' = tree /\ op' = op /\ phase = "copy_files" /\ to_copy = <<>> /\ told' = "ok" /\ phase' = "over"
      /\ UNCHANGED <<walk, list, to_copy, dest, faulted, refused>>
 BY DEF CopyFilesEnd
<1>1. /\ Asked /\ walk \in Walkers /\ list \in Lists /\ to_copy \in Seq(Paths) /\ dest \subseteq Paths
      /\ faulted \in BOOLEAN /\ refused \in BOOLEAN /\ told = "nothing" /\ ~walk.error
 BY <1>0, NowTyped
<1>n. Listing(phase, told, list) /\ Controlled(phase, walk, told, faulted, refused) /\ Fetching(phase, told, to_copy, dest)
  BY NowGood
<1>2. op.name # "copy" BY <1>0, <1>n DEF Controlled
<1> SUFFICES Good(phase', walk', list', to_copy', dest', told', faulted', refused')
 BY <1>0, <1>1, Primed
<1>3. Typed(phase', walk', list', to_copy', dest', told', faulted', refused')
 BY <1>0, <1>1 DEF Typed
<1>4. Controlled(phase', walk', told', faulted', refused') BY <1>0, <1>1, <1>2 DEF Controlled
<1>5. Walking(phase', walk', list', to_copy') BY <1>0 DEF Walking, WalkPhases
<1>6. Listing(phase', told', list') BY <1>0, <1>n DEF Listing
<1>7. Fetching(phase', told', to_copy', dest') BY <1>0, <1>n DEF Fetching
<1>8. Copying(phase', walk', told', to_copy', dest', refused') BY <1>2 DEF Copying
<1> QED BY <1>3, <1>4, <1>5, <1>6, <1>7, <1>8 DEF Good

LEMMA CopiedAre ==
    ASSUME Asked, op.name = "copy"
    PROVE  /\ \A r \in Roots : r = <<>> /\ Folders(r) = AllFolders
           /\ AllFolders = Folders(<<>>) /\ Brought = AllFolders \cup FilesIn(AllFolders)
           /\ Brought \subseteq Reach(AllFolders) /\ Reach(AllFolders) \subseteq Paths
           /\ \A p \in AllFolders : IsFolder(p)
           /\ \A p \in Reach(AllFolders) : p # <<>> => Front(p) \in AllFolders
           /\ \A p \in Brought : TypeOf(p) \in {"dir", "file"}
           /\ Copied = Reach(AllFolders) /\ Rooted(Copied)
           /\ \A p \in Copied : TypeOf(p) \in {"dir", "file"} => p \in Brought
<1>1. \A r \in Roots : r = <<>> BY RootsAre
<1>2. Roots = {<<>>} BY <1>1, TreeIs DEF Roots
<1> DEFINE base == <<>>
<1>3. AllFolders = Folders(base) /\ base \in Roots BY <1>2 DEF AllFolders
<1> HIDE DEF base
<1>4. \A p \in Folders(base) :
        /\ p \in Paths /\ IsFolder(p)
        /\ p = base \/ (Front(p) \in Folders(base) /\ p \in ToSet(Children(Front(p))))
 BY <1>3, FoldersAre
<1>5. \A p \in Within(Folders(base)) : p \in Paths /\ Front(p) \in Folders(base) BY <1>3, WithinAre
<1>6. Brought = AllFolders \cup FilesIn(AllFolders) BY DEF Brought
<1>7. \A p \in Reach(Folders(base)) : p \in Paths /\ (p # base => Front(p) \in Folders(base))
 BY <1>4, <1>5 DEF Reach
<1>8. Brought \subseteq Reach(AllFolders) BY <1>6 DEF Reach, FilesIn
<1>9. \A p \in Brought : TypeOf(p) \in {"dir", "file"} BY <1>3, <1>4, <1>6 DEF FilesIn, IsFolder
<1>10. \A r \in Roots : Folders(r) = AllFolders
 <2> SUFFICES ASSUME NEW r \in Roots PROVE Folders(r) = AllFolders OBVIOUS
 <2>1. r = base BY <1>1 DEF base
 <2> QED BY <2>1, <1>3
<1>11. Copied = Reach(AllFolders) BY DEF Copied, Reach
<1>12. \A p \in Copied : TypeOf(p) \in {"dir", "file"} => p \in Brought
 <2> SUFFICES ASSUME NEW p \in Within(AllFolders), TypeOf(p) \in {"dir", "file"} PROVE p \in Brought
  BY <1>6, <1>11 DEF Reach
 <2>1. CASE TypeOf(p) = "file" BY <2>1, <1>6 DEF FilesIn
 <2>2. CASE TypeOf(p) = "dir"
  <3>1. PICK q \in Folders(base) : p \in ToSet(Children(q)) BY <1>3 DEF Within
  <3>2. Entered(p) BY <2>2 DEF Entered, IsFolder
  <3>3. p \in Folders(base) BY <3>1, <3>2, <1>3, FoldersAre
  <3> QED BY <3>3, <1>3, <1>6
 <2> QED BY <2>1, <2>2
<1>13. Rooted(Copied)
 <2> SUFFICES ASSUME NEW p \in Reach(Folders(base)), NEW n \in 0..Len(p) PROVE SubSeq(p, 1, n) \in Reach(Folders(base))
  BY <1>3, <1>11 DEF Rooted
 <2>1. p \in Seq(Inodes) BY <1>7 DEF Paths
 <2>2. SubSeq(p, 1, Len(p)) = p /\ SubSeq(p, 1, 0) = <<>> /\ Len(p) \in Nat BY <2>1, WholeIs
 <2>3. base \in Folders(base)
  <3>1. IsFolder(base) BY BaseIs DEF base
  <3> QED BY <3>1, <1>3, FoldersAre DEF Entered
 <2>4. CASE n = 0 BY <2>2, <2>3, <2>4 DEF Reach, base
 <2>5. CASE n = Len(p) BY <2>2, <2>5
 <2>6. CASE n # 0 /\ n # Len(p)
  <3>0. Len(p) \in Nat BY <2>2
  <3>1. n \in 1..Len(p) - 1 BY <3>0, <2>6
  <3>2. SubSeq(p, 1, n) \in Above(p) BY <3>1 DEF Above
  <3>3. Above(p) \subseteq Folders(base) BY <1>3, AboveAre
  <3> QED BY <3>2, <3>3 DEF Reach
 <2> QED BY <2>4, <2>5, <2>6
<1> QED BY <1>1, <1>3, <1>4, <1>6, <1>7, <1>8, <1>9, <1>10, <1>11, <1>12, <1>13 DEF base

LEMMA WalkCopiedKeeps ==
    ASSUME GioInv, WalkCopied
    PROVE  GioInv'
<1>0. /\ tree' = tree /\ op' = op /\ phase = "walk_done" /\ phase \in WalkPhases /\ op.name = "copy"
      /\ phase' = (IF walk.error THEN "copy_done" ELSE "copy_child") /\ to_copy' = Reverse(to_copy)
      /\ UNCHANGED <<walk, list, dest, told, faulted, refused>>
 BY DEF WalkCopied, InOrder, WalkPhases
<1>1. /\ Asked /\ walk \in Walkers /\ list \in Lists /\ to_copy \in Seq(Paths) /\ dest \subseteq Paths
      /\ faulted \in BOOLEAN /\ refused \in BOOLEAN /\ told = "nothing" /\ walk.error \in BOOLEAN
 BY <1>0, NowTyped
<1>n. Controlled(phase, walk, told, faulted, refused) /\ Copying(phase, walk, told, to_copy, dest, refused)
  BY NowGood
<1> SUFFICES Good(phase', walk', list', to_copy', dest', told', faulted', refused')
 BY <1>0, <1>1, Primed
<1> DEFINE c == to_copy
           u == Reverse(c)
           L == Len(c)
<1>2. /\ u \in Seq(Paths) /\ Len(u) = L /\ ToSet(u) = ToSet(c) /\ L \in Nat
      /\ \A i \in 1..L : u[i] = c[L + 1 - i]
 BY <1>1, Reversed
<1> HIDE DEF u, c, L
<1>3. Typed(phase', walk', list', to_copy', dest', told', faulted', refused')
 BY <1>0, <1>1, <1>2 DEF Typed, u, c
<1>4. Controlled(phase', walk', told', faulted', refused') BY <1>0, <1>1, <1>n DEF Controlled
<1>5. Walking(phase', walk', list', to_copy') BY <1>0 DEF Walking, WalkPhases
<1>6. Listing(phase', told', list') /\ Fetching(phase', told', to_copy', dest')
 BY <1>0 DEF Listing, Fetching
<1>7. dest \subseteq {<<>>} \cup Reach(AllFolders) /\ Rooted(dest) BY <1>0, <1>n DEF Copying
<1>8. CASE walk.error
 <2>1. Copying(phase', walk', told', to_copy', dest', refused')
  BY <1>0, <1>1, <1>7, <1>8 DEF Copying
 <2> QED BY <2>1, <1>3, <1>4, <1>5, <1>6 DEF Good
<1>9. CASE ~walk.error
 <2>1. PICK r \in Roots \ ToSet(list.items) : \E S \in SUBSET Folders(r) :
            /\ Walks(phase, walk, r, S)
            /\ op.name # "copy" => Collects(list, S, Found(phase, walk, S)) /\ Got(list, Roots \ (ToSet(list.items) \cup {r}))
            /\ op.name = "copy" => Queued(to_copy, S, Found(phase, walk, S))
  BY <1>0, <1>9, NowWalking
 <2>2. PICK S \in SUBSET Folders(r) :
            /\ Walks(phase, walk, r, S)
            /\ op.name # "copy" => Collects(list, S, Found(phase, walk, S)) /\ Got(list, Roots \ (ToSet(list.items) \cup {r}))
            /\ op.name = "copy" => Queued(to_copy, S, Found(phase, walk, S))
  BY <2>1
 <2>3. Walks("walk_done", walk, r, S) /\ Queued(c, S, Found("walk_done", walk, S))
  BY <2>2, <1>0 DEF c
 <2>4. S = Folders(r) /\ Found("walk_done", walk, S) = Within(Folders(r)) /\ Folders(r) = AllFolders
  BY <2>3, <1>0, <1>1, WalkIsWhole, CopiedAre
 <2>5. Queued(c, AllFolders, Within(AllFolders)) BY <2>3, <2>4
 <2>6. /\ ToSet(c) = Reach(AllFolders)
       /\ \A i \in 1..L : c[i] # <<>> => \E j \in i + 1..L : c[j] = Front(c[i])
  BY <2>5 DEF Queued, Reach, L
 <2>7. ASSUME NEW i \in 1..L, u[i] # <<>> PROVE \E j \in 1..i - 1 : u[j] = Front(u[i])
  <3> DEFINE k == L + 1 - i
  <3>1. k \in 1..L /\ u[i] = c[k] BY <1>2
  <3> HIDE DEF k
  <3>2. PICK j \in k + 1..L : c[j] = Front(c[k]) BY <3>1, <2>6, <2>7
  <3> DEFINE m == L + 1 - j
  <3>3. m \in 1..L /\ m \in 1..i - 1 /\ L + 1 - m = j BY <3>1, <1>2 DEF k
  <3> HIDE DEF m
  <3>4. u[m] = c[j] BY <3>3, <1>2
  <3> QED BY <3>1, <3>2, <3>3, <3>4
 <2>8. /\ ToSet(u) = Reach(AllFolders) /\ Len(u) = L
       /\ \A p \in Brought : p \in ToSet(u)
  BY <2>6, <1>0, <1>1, <1>2, CopiedAre
 <2>9. to_copy' = u /\ phase' = "copy_child" /\ told' = "nothing" /\ dest' = dest /\ refused' = refused
  BY <1>0, <1>1, <1>9 DEF u, c
 <2>10. Copying("copy_child", walk', "nothing", u, dest, refused) BY <2>7, <2>8, <1>7 DEF Copying
 <2>11. Copying(phase', walk', told', to_copy', dest', refused') BY <2>9, <2>10
 <2> QED BY <2>11, <1>3, <1>4, <1>5, <1>6 DEF Good
<1> QED BY <1>1, <1>8, <1>9

\* What is left to be copied, c, with what is there already in d.
LeftToCopy(c, d, e) ==
    /\ ToSet(c) \subseteq Reach(AllFolders)
    /\ \A p \in Brought : p \in d \/ (e /\ IsFolder(p)) \/ p \in ToSet(c)
    /\ \A i \in 1..Len(c) : c[i] # <<>> => e \/ Front(c[i]) \in d \/ \E j \in 1..i - 1 : c[j] = Front(c[i])

\* One was copied, unless this was refused.
OneCopied(p, d, e) == (p \in Brought => p \in d \/ (e /\ IsFolder(p))) /\ (IsFolder(p) => p \in d \/ e)

LEMMA OneLess ==
    ASSUME Asked, op.name = "copy", NEW c \in Seq(Paths), c # <<>>,
           NEW d, NEW e \in BOOLEAN, NEW d2, NEW e2 \in BOOLEAN, d \subseteq d2, e => e2,
           LeftToCopy(c, d, e), OneCopied(Head(c), d2, e2)
    PROVE  Tail(c) \in Seq(Paths) /\ LeftToCopy(Tail(c), d2, e2)
<1> DEFINE h == Head(c)
           t == Tail(c)
           L == Len(c)
<1>1. /\ h \in Paths /\ h = c[1] /\ t \in Seq(Paths) /\ Len(t) = L - 1 /\ L \in Nat /\ 1 <= L
      /\ \A i \in 1..L - 1 : t[i] = c[i + 1]
      /\ ToSet(c) = {h} \cup ToSet(t)
 BY HeadTail
<1>2. \A i \in 1..L : c[i] \in ToSet(c) BY Elements
<1>a. \A i \in 1..L : c[i] # <<>> => e \/ Front(c[i]) \in d \/ \E j \in 1..i - 1 : c[j] = Front(c[i])
  BY DEF LeftToCopy
<1>b. (h \in Brought => h \in d2 \/ (e2 /\ IsFolder(h))) /\ (IsFolder(h) => h \in d2 \/ e2)
  BY DEF OneCopied
<1>c. ToSet(c) \subseteq Reach(AllFolders) /\ \A p \in Brought : p \in d \/ (e /\ IsFolder(p)) \/ p \in ToSet(c)
  BY DEF LeftToCopy
<1> HIDE DEF h, t, L
<1>3. \A p \in Brought : p \in d2 \/ (e2 /\ IsFolder(p)) \/ p \in ToSet(t) BY <1>1, <1>b, <1>c
<1>4. ASSUME NEW i \in 1..L - 1, t[i] # <<>>
      PROVE  e2 \/ Front(t[i]) \in d2 \/ \E j \in 1..i - 1 : t[j] = Front(t[i])
 <2>1. i + 1 \in 1..L /\ t[i] = c[i + 1] /\ (i + 1) - 1 = i BY <1>1
 <2>2. e \/ Front(c[i + 1]) \in d \/ \E j \in 1..i : c[j] = Front(c[i + 1])
  <3>1. e \/ Front(c[i + 1]) \in d \/ \E j \in 1..(i + 1) - 1 : c[j] = Front(c[i + 1])
   BY <2>1, <1>4, <1>a
  <3> QED BY <3>1, <2>1
 <2>3. ASSUME NEW j \in 1..i, c[j] = Front(c[i + 1])
       PROVE  e2 \/ Front(t[i]) \in d2 \/ \E k \in 1..i - 1 : t[k] = Front(t[i])
  <3>1. CASE j = 1
   <4>1. Front(t[i]) = h BY <3>1, <2>1, <2>3, <1>1
   <4>2. t[i] \in Reach(AllFolders) BY <2>1, <1>2, <1>c
   <4>3. IsFolder(h) BY <4>1, <4>2, <1>4, CopiedAre
   <4> QED BY <4>1, <4>3, <1>b
  <3>2. CASE j # 1
   <4>1. j - 1 \in 1..i - 1 /\ j - 1 \in 1..L - 1 /\ (j - 1) + 1 = j BY <3>2, <1>1
   <4>2. t[j - 1] = c[j] BY <4>1, <1>1
   <4> QED BY <4>1, <4>2, <2>1, <2>3
  <3> QED BY <3>1, <3>2
 <2> QED BY <2>1, <2>2, <2>3
<1>5. ToSet(t) \subseteq Reach(AllFolders) BY <1>1, <1>c
<1>6. \A i \in 1..Len(t) : t[i] # <<>> => e2 \/ Front(t[i]) \in d2 \/ \E j \in 1..i - 1 : t[j] = Front(t[i])
 BY <1>1, <1>4
<1>7. LeftToCopy(t, d2, e2) BY <1>3, <1>5, <1>6 DEF LeftToCopy
<1> QED BY <1>1, <1>7 DEF t

\* What is said while one after the other is copied.
LEMMA NowCopying ==
    ASSUME GioInv, phase = "copy_child"
    PROVE  /\ op.name = "copy" /\ told = "nothing" /\ ~walk.error
           /\ dest \subseteq {<<>>} \cup Reach(AllFolders) /\ Rooted(dest)
           /\ ToSet(to_copy) \subseteq Reach(AllFolders)
           /\ \A p \in Brought : p \in dest \/ (refused /\ IsFolder(p)) \/ p \in ToSet(to_copy)
           /\ \A i \in 1..Len(to_copy) :
                to_copy[i] # <<>> =>
                  refused \/ Front(to_copy[i]) \in dest \/ \E j \in 1..i - 1 : to_copy[j] = Front(to_copy[i])
           /\ to_copy # <<>> /\ Head(to_copy) # <<>> => refused \/ Front(Head(to_copy)) \in dest
<1>1. Controlled(phase, walk, told, faulted, refused) /\ Copying(phase, walk, told, to_copy, dest, refused)
 BY NowGood
<1>2. op.name = "copy" /\ told = "nothing" /\ ~walk.error /\ to_copy \in Seq(Paths)
 BY <1>1, NowTyped DEF Controlled
<1>3. /\ dest \subseteq {<<>>} \cup Reach(AllFolders) /\ Rooted(dest)
      /\ ToSet(to_copy) \subseteq Reach(AllFolders)
      /\ \A p \in Brought : p \in dest \/ (refused /\ IsFolder(p)) \/ p \in ToSet(to_copy)
      /\ \A i \in 1..Len(to_copy) :
           to_copy[i] # <<>> =>
             refused \/ Front(to_copy[i]) \in dest \/ \E j \in 1..i - 1 : to_copy[j] = Front(to_copy[i])
 BY <1>1, <1>2 DEF Copying
<1>4. ASSUME to_copy # <<>>, Head(to_copy) # <<>> PROVE refused \/ Front(Head(to_copy)) \in dest
 <2>1. 1 \in 1..Len(to_copy) /\ to_copy[1] = Head(to_copy) /\ \A j : j \notin 1..1 - 1
  BY <1>2, <1>4
 <2> QED BY <2>1, <1>3, <1>4
<1> QED BY <1>2, <1>3, <1>4

LEMMA CopyingKeeps ==
    ASSUME GioInv, phase = "copy_child", tree' = tree, op' = op, list' = list, told' = told, walk' = walk,
           phase' = "copy_child", faulted' \in BOOLEAN, faulted => faulted', refused' \in BOOLEAN, refused => refused',
           to_copy # <<>>, to_copy' = Tail(to_copy), dest \subseteq dest', dest' \subseteq dest \cup {Head(to_copy)},
           Head(to_copy) \in Brought => Head(to_copy) \in dest' \/ (refused' /\ IsFolder(Head(to_copy))),
           IsFolder(Head(to_copy)) => Head(to_copy) \in dest' \/ refused',
           dest' = dest \/ Head(to_copy) = <<>> \/ Front(Head(to_copy)) \in dest
    PROVE  GioInv'
<1>1. /\ Asked /\ walk \in Walkers /\ list \in Lists /\ to_copy \in Seq(Paths) /\ dest \subseteq Paths
      /\ faulted \in BOOLEAN /\ refused \in BOOLEAN /\ told = "nothing"
 BY NowTyped
<1>2. /\ op.name = "copy" /\ ~walk.error
      /\ dest \subseteq {<<>>} \cup Reach(AllFolders) /\ Rooted(dest)
      /\ ToSet(to_copy) \subseteq Reach(AllFolders)
      /\ \A p \in Brought : p \in dest \/ (refused /\ IsFolder(p)) \/ p \in ToSet(to_copy)
      /\ \A i \in 1..Len(to_copy) :
           to_copy[i] # <<>> =>
             refused \/ Front(to_copy[i]) \in dest \/ \E j \in 1..i - 1 : to_copy[j] = Front(to_copy[i])
 BY NowCopying
<1>3. Tail(to_copy) \in Seq(Paths) /\ LeftToCopy(Tail(to_copy), dest', refused')
 <2> DEFINE d2 == dest'
            e2 == refused'
 <2>1. dest \subseteq d2 /\ e2 \in BOOLEAN /\ (refused => e2) /\ OneCopied(Head(to_copy), d2, e2)
  BY DEF OneCopied
 <2>2. LeftToCopy(to_copy, dest, refused) BY <1>2 DEF LeftToCopy
 <2> HIDE DEF d2, e2
 <2> QED BY <2>1, <2>2, <1>1, <1>2, OneLess DEF d2, e2
<1>4. Head(to_copy) \in Paths /\ Head(to_copy) \in Reach(AllFolders) BY <1>1, <1>2, HeadTail
<1> SUFFICES Good(phase', walk', list', to_copy', dest', told', faulted', refused') BY <1>1, Primed
<1>5. Typed(phase', walk', list', to_copy', dest', told', faulted', refused')
 <2>1. dest' \subseteq Paths BY <1>1, <1>4
 <2> QED BY <2>1, <1>1, <1>3 DEF Typed
<1>6. Controlled(phase', walk', told', faulted', refused') BY <1>1, <1>2 DEF Controlled
<1>7. Walking(phase', walk', list', to_copy') BY DEF Walking, WalkPhases
<1>8. Listing(phase', told', list') /\ Fetching(phase', told', to_copy', dest')
 BY <1>2 DEF Listing, Fetching
<1>9. Copying(phase', walk', told', to_copy', dest', refused')
 <2>1. dest' \subseteq {<<>>} \cup Reach(AllFolders) BY <1>2, <1>4
 <2>3. Rooted(dest')
  <3> DEFINE d2 == dest'
  <3>1. d2 = dest \/ (d2 = dest \cup {Head(to_copy)} /\ (Head(to_copy) = <<>> \/ Front(Head(to_copy)) \in dest)) OBVIOUS
  <3> HIDE DEF d2
  <3> QED BY <3>1, <1>1, <1>2, <1>4, RootedMore DEF d2
 <2>2. told' # "ok" /\ phase' = "copy_child" /\ to_copy' = Tail(to_copy) BY <1>1
 <2> QED BY <2>1, <2>2, <2>3, <1>3 DEF Copying, LeftToCopy
<1> QED BY <1>5, <1>6, <1>7, <1>8, <1>9 DEF Good

\* The copy ends, or is told of.
LEMMA CopyEnds ==
    ASSUME GioInv, op.name = "copy", told = "nothing", tree' = tree, op' = op, list' = list, dest' = dest, refused' = refused,
           to_copy' \in Seq(Paths), walk' \in Walkers, faulted' \in BOOLEAN,
           \/ phase' = "copy_done" /\ told' = told
           \/ phase' = "over" /\ told' = (IF walk'.error THEN "error" ELSE "ok"),
           walk'.error => faulted' \/ refused,
           ~walk'.error => \A p \in Brought : p \in dest \/ (refused /\ IsFolder(p))
    PROVE  GioInv'
<1>1. /\ Asked /\ walk \in Walkers /\ list \in Lists /\ to_copy \in Seq(Paths) /\ dest \subseteq Paths
      /\ faulted \in BOOLEAN /\ refused \in BOOLEAN /\ walk'.error \in BOOLEAN
 BY NowTyped DEF Walkers
<1>n. Copying(phase, walk, told, to_copy, dest, refused) BY NowGood
<1> SUFFICES Good(phase', walk', list', to_copy', dest', told', faulted', refused') BY <1>1, Primed
<1>2. Typed(phase', walk', list', to_copy', dest', told', faulted', refused') BY <1>1 DEF Typed
<1>3. Controlled(phase', walk', told', faulted', refused') BY <1>1 DEF Controlled
<1>4. Walking(phase', walk', list', to_copy') BY DEF Walking, WalkPhases
<1>5. Listing(phase', told', list') /\ Fetching(phase', told', to_copy', dest')
 BY DEF Listing, Fetching
<1>6. Copying(phase', walk', told', to_copy', dest', refused') BY <1>1, <1>n DEF Copying
<1> QED BY <1>2, <1>3, <1>4, <1>5, <1>6 DEF Good

LEMMA MakeDirectoryKeeps ==
    ASSUME GioInv, NEW ok \in BOOLEAN, MakeDirectory(ok)
    PROVE  GioInv'
<1> DEFINE path == Head(to_copy)
           new == path \notin dest /\ (path = <<>> \/ Front(path) \in dest)
<1>0. /\ tree' = tree /\ op' = op /\ phase = "copy_child" /\ phase' = "copy_child" /\ to_copy # <<>> /\ IsFolder(path)
      /\ walk' = walk /\ list' = list /\ told' = told /\ faulted' = faulted /\ to_copy' = Tail(to_copy)
      /\ dest' = (IF new /\ ok THEN dest \cup {path} ELSE dest)
      /\ refused' = (refused \/ (new /\ ~ok))
 BY DEF MakeDirectory
<1>1. faulted \in BOOLEAN /\ refused \in BOOLEAN /\ new \in BOOLEAN BY NowTyped
<1>2. path # <<>> => refused \/ Front(path) \in dest BY <1>0, NowCopying
<1>3. path \in dest' \/ refused' BY <1>0, <1>2
<1>4. /\ refused' \in BOOLEAN /\ (refused => refused') /\ dest \subseteq dest' /\ dest' \subseteq dest \cup {path}
      /\ dest' = dest \/ path = <<>> \/ Front(path) \in dest
 BY <1>0, <1>1
<1> HIDE DEF path, new
<1>5. /\ Head(to_copy) \in Brought => Head(to_copy) \in dest' \/ (refused' /\ IsFolder(Head(to_copy)))
      /\ IsFolder(Head(to_copy)) => Head(to_copy) \in dest' \/ refused'
 BY <1>0, <1>3 DEF path
<1> QED BY <1>0, <1>1, <1>4, <1>5, CopyingKeeps DEF path

LEMMA CopyChildKeeps ==
    ASSUME GioInv, NEW ok \in BOOLEAN, CopyChild(ok)
    PROVE  GioInv'
<1> DEFINE path == Head(to_copy)
<1>0. /\ tree' = tree /\ op' = op /\ phase = "copy_child" /\ to_copy # <<>> /\ TypeOf(path) = "file"
      /\ list' = list /\ told' = told /\ refused' = refused /\ to_copy' = Tail(to_copy) /\ faulted' = (faulted \/ ~ok)
      /\ \/ ok /\ Front(path) \in dest /\ dest' = dest \cup {path} /\ phase' = phase /\ walk' = walk
         \/ /\ ~(ok /\ Front(path) \in dest) /\ phase' = "copy_done" /\ walk' = [walk EXCEPT !.error = TRUE]
            /\ dest' = dest
 BY DEF CopyChild
<1>1. /\ Asked /\ walk \in Walkers /\ faulted \in BOOLEAN /\ refused \in BOOLEAN /\ to_copy \in Seq(Paths)
 BY NowTyped
<1>2. op.name = "copy" /\ told = "nothing" /\ (path # <<>> => refused \/ Front(path) \in dest)
 BY <1>0, NowCopying
<1>3. path # <<>> BY <1>0 DEF TypeOf
<1>4. ~IsFolder(path) BY <1>0 DEF IsFolder
<1>5. Tail(to_copy) \in Seq(Paths) BY <1>0, <1>1, HeadTail
<1>6. CASE ok /\ Front(path) \in dest /\ dest' = dest \cup {path} /\ phase' = phase /\ walk' = walk
 <2>1. /\ Head(to_copy) \in Brought => Head(to_copy) \in dest' \/ (refused' /\ IsFolder(Head(to_copy)))
       /\ IsFolder(Head(to_copy)) => Head(to_copy) \in dest' \/ refused'
       /\ dest \subseteq dest' /\ dest' \subseteq dest \cup {Head(to_copy)} /\ Front(Head(to_copy)) \in dest
  BY <1>4, <1>6
 <2>2. faulted' \in BOOLEAN /\ (faulted => faulted') /\ refused' \in BOOLEAN /\ (refused => refused') /\ phase' = "copy_child"
  BY <1>0, <1>1, <1>6
 <2> HIDE DEF path
 <2> QED BY <1>0, <1>6, <2>1, <2>2, CopyingKeeps
<1>7. CASE /\ ~(ok /\ Front(path) \in dest) /\ phase' = "copy_done" /\ walk' = [walk EXCEPT !.error = TRUE]
           /\ dest' = dest
 <2>1. walk' \in Walkers /\ walk'.error BY <1>1, <1>7 DEF Walkers
 <2>2. faulted' \in BOOLEAN /\ (faulted' \/ refused) BY <1>0, <1>1, <1>2, <1>3, <1>7
 <2> HIDE DEF path
 <2> QED BY <1>0, <1>2, <1>5, <1>7, <2>1, <2>2, CopyEnds
<1> QED BY <1>0, <1>6, <1>7

LEMMA PassOverKeeps ==
    ASSUME GioInv, PassOver
    PROVE  GioInv'
<1>0. /\ tree' = tree /\ op' = op /\ phase = "copy_child" /\ phase' = "copy_child" /\ to_copy # <<>>
      /\ TypeOf(Head(to_copy)) \notin {"dir", "file"} /\ to_copy' = Tail(to_copy)
      /\ walk' = walk /\ list' = list /\ dest' = dest /\ told' = told /\ faulted' = faulted /\ refused' = refused
 BY DEF PassOver
<1>1. Asked /\ faulted \in BOOLEAN /\ refused \in BOOLEAN BY NowTyped
<1>2. op.name = "copy" BY <1>0, NowCopying
<1>3. Head(to_copy) \notin Brought /\ ~IsFolder(Head(to_copy))
 BY <1>0, <1>1, <1>2, CopiedAre DEF IsFolder
<1> QED BY <1>0, <1>1, <1>3, CopyingKeeps

LEMMA NoneLeftKeeps ==
    ASSUME GioInv, NoneLeft
    PROVE  GioInv'
<1>0. /\ tree' = tree /\ op' = op /\ phase = "copy_child" /\ to_copy = <<>> /\ phase' = "copy_done"
      /\ walk' = walk /\ list' = list /\ to_copy' = to_copy /\ dest' = dest /\ told' = told
      /\ faulted' = faulted /\ refused' = refused
 BY DEF NoneLeft
<1>1. walk \in Walkers /\ to_copy \in Seq(Paths) /\ faulted \in BOOLEAN BY NowTyped
<1>2. /\ op.name = "copy" /\ told = "nothing" /\ ~walk.error
      /\ \A p \in Brought : p \in dest \/ (refused /\ IsFolder(p)) \/ p \in ToSet(to_copy)
 BY <1>0, NowCopying
<1>3. ToSet(to_copy) = {} BY <1>0 DEF ToSet
<1>4. \A p \in Brought : p \in dest \/ (refused /\ IsFolder(p)) BY <1>2, <1>3
<1> QED BY <1>0, <1>1, <1>2, <1>4, CopyEnds

LEMMA CopyDoneKeeps ==
    ASSUME GioInv, CopyDone
    PROVE  GioInv'
<1>0. /\ tree' = tree /\ op' = op /\ phase = "copy_done" /\ phase' = "over"
      /\ told' = (IF walk.error THEN "error" ELSE "ok")
      /\ walk' = walk /\ list' = list /\ to_copy' = to_copy /\ dest' = dest
      /\ faulted' = faulted /\ refused' = refused
 BY DEF CopyDone
<1>1. walk \in Walkers /\ to_copy \in Seq(Paths) /\ faulted \in BOOLEAN /\ told = "nothing"
 BY <1>0, NowTyped
<1>n. Controlled(phase, walk, told, faulted, refused) /\ Copying(phase, walk, told, to_copy, dest, refused)
  BY NowGood
<1>2. op.name = "copy" /\ (walk.error => faulted \/ refused) BY <1>0, <1>n DEF Controlled
<1>3. ~walk.error => \A p \in Brought : p \in dest \/ (refused /\ IsFolder(p))
 BY <1>0, <1>2, <1>n DEF Copying
<1> QED BY <1>0, <1>1, <1>2, <1>3, CopyEnds

LEMMA GioStep ==
    ASSUME GioInv, [Next]_vars
    PROVE  GioInv'
<1>1. CASE UNCHANGED vars
 <2> QED BY <1>1, Primed DEF vars, GioInv
<1>2. CASE StartDirectory BY <1>2, StartDirectoryKeeps
<1>3. CASE \E ok \in BOOLEAN : Enumerated(ok) BY <1>3, EnumeratedKeeps
<1>4. CASE \E ok \in BOOLEAN : \E n \in 0..Batch : NextFiles(n, ok) BY <1>4, NextFilesKeeps
<1>5. CASE \E ok \in BOOLEAN : Closed(ok) BY <1>5, ClosedKeeps
<1>6. CASE \E ok \in BOOLEAN : CopyFile(ok) BY <1>6, CopyFileKeeps
<1>7. CASE \E ok \in BOOLEAN : MakeDirectory(ok) BY <1>7, MakeDirectoryKeeps
<1>8. CASE \E ok \in BOOLEAN : CopyChild(ok) BY <1>8, CopyChildKeeps
<1>9. CASE WalkListed BY <1>9, WalkListedKeeps
<1>10. CASE NextItem BY <1>10, NextItemKeeps
<1>11. CASE CopyFilesEnd BY <1>11, CopyFilesEndKeeps
<1>12. CASE WalkCopied BY <1>12, WalkCopiedKeeps
<1>13. CASE PassOver BY <1>13, PassOverKeeps
<1>14. CASE NoneLeft BY <1>14, NoneLeftKeeps
<1>15. CASE CopyDone BY <1>15, CopyDoneKeeps
<1> QED
 BY <1>1, <1>2, <1>3, <1>4, <1>5, <1>6, <1>7, <1>8, <1>9, <1>10, <1>11, <1>12, <1>13, <1>14, <1>15 DEF Next


\* Of no root nothing was found.
LEMMA NothingYet ==
    ASSUME Asked
    PROVE  FilesOf({}) = {} /\ DirsOf({}) = {}
<1>1. FoldersOf({}) = {} BY DEF FoldersOf
<1>2. Within({}) = {} BY DEF Within
<1>3. FilesOf({}) = {} BY <1>1, <1>2 DEF FilesOf
<1> QED BY <1>1, <1>3 DEF DirsOf

LEMMA NoneIsOnce ==
    /\ <<>> \in Seq(Paths) /\ Len(<<>>) = 0 /\ ToSet(<<>>) = {} /\ IsInjective(<<>>)
  BY DEF ToSet, IsInjective

LEMMA GioBegins ==
    ASSUME Init
    PROVE  GioInv
<1> DEFINE empty == <<>>
           items == Children(<<>>)
<1>0. /\ tree \in Trees /\ op \in Operations
      /\ phase = (IF op.name = "items" THEN "next_item" ELSE "start") /\ walk = WalkOf(op.directory)
      /\ list = [files |-> empty, dirs |-> empty, all_dirs |-> empty,
                 items |-> IF op.name = "items" THEN Reverse(Only(items, {p \in ToSet(items) : IsFolder(p)})) ELSE empty,
                 all_files |-> IF op.name = "items"
                               THEN Reverse(Only(items, {p \in ToSet(items) : ~IsFolder(p)})) ELSE empty]
      /\ to_copy = empty /\ dest \subseteq {<<>>} /\ (op.name # "copy" => dest = {})
      /\ told = "nothing" /\ faulted = FALSE /\ refused = FALSE
 BY DEF Init
<1>1. Asked BY <1>0 DEF Init, Asked
<1>2. empty \in Seq(Paths) /\ Len(empty) = 0 /\ ToSet(empty) = {} /\ IsInjective(empty)
 BY NoneIsOnce
<1>3. <<>> \in Paths /\ IsFolder(<<>>) BY <1>1, BaseIs
<1>4. items \in Seq(Paths) /\ IsInjective(items) BY <1>1, <1>3, ChildrenAre
<1>5. op.name \in {"copy", "list", "items"} /\ (op.name = "copy" => op.directory = <<>>)
 BY <1>1, TreeIs
<1>6. op.directory \in Paths
 <2>1. CASE op.directory = <<>> BY <2>1, <1>3
 <2>2. CASE \E n \in ToSet(tree.children.base) : op.directory = <<n>>
  <3>1. PICK n \in ToSet(tree.children.base) : op.directory = <<n>> BY <2>2
  <3>2. tree.children.base \in Seq(Inodes) BY <1>1, TreeIs
  <3>3. n \in Inodes BY <3>1, <3>2, Elements
  <3> QED BY <3>1, <3>3 DEF Paths
 <2> QED BY <2>1, <2>2, <1>1 DEF Asked
<1>7. dest \subseteq Paths BY <1>0, <1>3
<1>8. walk \in Walkers /\ ~walk.error BY <1>0, <1>2, <1>6 DEF WalkOf, Walkers
<1>9. FilesOf({}) = {} /\ DirsOf({}) = {} BY <1>1, NothingYet
<1>10. Items = ToSet(items) BY DEF Items
<1>11. /\ list.files = empty /\ list.dirs = empty /\ list.all_dirs = empty
       /\ list.items = (IF op.name = "items" THEN Reverse(Only(items, {p \in ToSet(items) : IsFolder(p)})) ELSE empty)
       /\ list.all_files = (IF op.name = "items" THEN Reverse(Only(items, {p \in ToSet(items) : ~IsFolder(p)})) ELSE empty)
       /\ list = [files |-> list.files, dirs |-> list.dirs, all_dirs |-> list.all_dirs,
                  items |-> list.items, all_files |-> list.all_files]
 BY <1>0
<1> HIDE DEF empty, items
<1>12. ASSUME NEW set
       PROVE  /\ Reverse(Only(items, set)) \in Seq(Paths) /\ IsInjective(Reverse(Only(items, set)))
              /\ ToSet(Reverse(Only(items, set))) = ToSet(items) \cap set
 <2> DEFINE kept == Only(items, set)
 <2>1. kept \in Seq(Paths) /\ IsInjective(kept) /\ ToSet(kept) = ToSet(items) \cap set
  BY <1>4, OnlyIs
 <2> HIDE DEF kept
 <2>2. Reverse(kept) \in Seq(Paths) /\ IsInjective(Reverse(kept)) /\ ToSet(Reverse(kept)) = ToSet(kept)
  BY <2>1, Reversed
 <2> QED BY <2>1, <2>2 DEF kept
<1>13. /\ list.items \in Seq(Paths) /\ IsInjective(list.items)
       /\ ToSet(list.items) = (IF op.name = "items" THEN Roots ELSE {})
       /\ list.all_files \in Seq(Paths) /\ IsInjective(list.all_files) /\ ToSet(list.all_files) = Plain
 <2>1. CASE op.name = "items"
  <3>1. /\ list.items \in Seq(Paths) /\ IsInjective(list.items)
        /\ ToSet(list.items) = ToSet(items) \cap {p \in ToSet(items) : IsFolder(p)}
   BY <2>1, <1>11, <1>12
  <3>2. /\ list.all_files \in Seq(Paths) /\ IsInjective(list.all_files)
        /\ ToSet(list.all_files) = ToSet(items) \cap {p \in ToSet(items) : ~IsFolder(p)}
   BY <2>1, <1>11, <1>12
  <3> QED BY <2>1, <3>1, <3>2, <1>10 DEF Roots, Plain
 <2>2. CASE op.name # "items" BY <2>2, <1>2, <1>11 DEF Plain
 <2> QED BY <2>1, <2>2
<1>14. list \in Lists BY <1>2, <1>11, <1>13 DEF Lists
<1>15. Got(list, {}) BY <1>2, <1>9, <1>11, <1>13 DEF Got, OnceEach
<1>16. Typed(phase, walk, list, to_copy, dest, told, faulted, refused)
 BY <1>0, <1>2, <1>7, <1>8, <1>14 DEF Typed, WalkPhases
<1>17. Controlled(phase, walk, told, faulted, refused) BY <1>0, <1>5, <1>8 DEF Controlled
<1>18. Walking(phase, walk, list, to_copy)
 <2> SUFFICES ASSUME op.name # "items"
              PROVE  \E r \in Roots \ ToSet(list.items) : \E S \in SUBSET Folders(r) :
                       WalksFrom(phase, walk, list, to_copy, r, S)
  BY <1>0 DEF Walking, WalkPhases
 <2>1. Roots = {op.directory} /\ op.directory \in Roots \ ToSet(list.items) BY <1>13 DEF Roots
 <2>2. Walks("start", walk, op.directory, {}) /\ Found("start", walk, {}) = {}
  BY <1>0, <1>1, <2>1, WalkBegins
 <2>3. phase = "start" BY <1>0
 <2>4. Collects(list, {}, {}) BY <1>2, <1>11 DEF Collects, OnceEach
 <2>5. Roots \ (ToSet(list.items) \cup {op.directory}) = {} BY <2>1
 <2>6. Queued(to_copy, {}, {}) BY <1>0, <1>2 DEF Queued
 <2>7. WalksFrom(phase, walk, list, to_copy, op.directory, {})
  BY <2>2, <2>3, <2>4, <2>5, <2>6, <1>15 DEF WalksFrom
 <2> QED BY <2>1, <2>7
<1>19. Listing(phase, told, list)
 <2>1. phase = "next_item" => op.name = "items" BY <1>0
 <2>2. phase = "next_item" => list.files = <<>> /\ list.dirs = <<>> BY <1>11 DEF empty
 <2>3. phase = "next_item" => Got(list, Roots \ ToSet(list.items))
  <3>1. op.name = "items" => Roots \ ToSet(list.items) = {} BY <1>13
  <3> QED BY <3>1, <2>1, <1>15
 <2>4. op.name # "items" => list.items = <<>> BY <1>11 DEF empty
 <2> QED BY <2>2, <2>3, <2>4, <1>0, <1>13 DEF Listing
<1>20. Fetching(phase, told, to_copy, dest) /\ Copying(phase, walk, told, to_copy, dest, refused)
 <2>1. Rooted({}) /\ Rooted({<<>>}) BY RootedBase
 <2>2. dest = {} \/ dest = {<<>>} BY <1>0
 <2>3. Rooted(dest) BY <2>1, <2>2
 <2> QED BY <1>0, <2>3 DEF Fetching, Copying
<1> QED BY <1>1, <1>16, <1>17, <1>18, <1>19, <1>20 DEF GioInv, Good

LEMMA GioListedWhole ==
    ASSUME GioInv
    PROVE  ListedWhole
<1> SUFFICES ASSUME op.name # "copy", told = "ok"
             PROVE  OnceEach(list.all_files, ToBeListed) /\ OnceEach(list.all_dirs, FoldersToBeListed)
 BY DEF ListedWhole
<1>1. Asked /\ Listing(phase, told, list) BY NowGood
<1>2. Got(list, Roots) BY <1>1 DEF Listing
<1>3. ToBeListed = FilesOf(Roots) \cup Plain /\ FoldersToBeListed = DirsOf(Roots) BY <1>1, WholeList
<1> QED BY <1>2, <1>3 DEF Got

LEMMA GioCopiedOrFailed ==
    ASSUME GioInv
    PROVE  CopiedOrFailedUnless
<1>1. /\ Controlled(phase, walk, told, faulted, refused) /\ Fetching(phase, told, to_copy, dest)
      /\ Copying(phase, walk, told, to_copy, dest, refused) /\ Asked
 BY NowGood
<1>2. told = "error" => faulted \/ refused \/ \E p \in ToBeListed : TypeOf(p) # "file"
 BY <1>1 DEF Controlled
<1>3. ASSUME op.name = "copy" \/ op.remote, told = "ok", NEW p \in Copied
      PROVE  p \in dest \/ LeftOut(p)
 <2>1. CASE op.name = "copy"
  <3>1. Rooted(dest) /\ \A q \in Brought : q \in dest \/ (refused /\ IsFolder(q))
   BY <2>1, <1>1, <1>3 DEF Copying
  <3>2. TypeOf(p) \in {"dir", "file"} => p \in Brought BY <2>1, <1>1, <1>3, CopiedAre
  <3>3. p \in Seq(Inodes) BY <2>1, <1>1, <1>3, CopiedAre DEF Paths
  <3>4. ASSUME NEW q \in dest, IsPrefix(p, q) PROVE p \in dest
   <4>1. Len(p) <= Len(q) /\ SubSeq(p, 1, Len(p)) = SubSeq(q, 1, Len(p)) BY <3>4 DEF IsPrefix
   <4>2. SubSeq(p, 1, Len(p)) = p /\ Len(p) \in Nat BY <3>3, WholeIs
   <4>3. Len(q) \in Nat BY NowTyped DEF Paths
   <4>4. Len(p) \in 0..Len(q) BY <4>1, <4>2, <4>3
   <4>5. SubSeq(q, 1, Len(p)) \in dest BY <3>1, <4>4 DEF Rooted
   <4> QED BY <4>1, <4>2, <4>5
  <3> QED BY <2>1, <3>1, <3>2, <3>4 DEF LeftOut
 <2>2. CASE op.name # "copy"
  <3>1. ToSet(to_copy) = {} BY <2>2, <1>1, <1>3 DEF Fetching, ToSet
  <3>2. Copied = Brought BY <2>2 DEF Copied, Brought
  <3> QED BY <2>2, <3>1, <3>2, <1>1, <1>3 DEF Fetching
 <2> QED BY <2>1, <2>2
<1> QED BY <1>2, <1>3 DEF CopiedOrFailedUnless

----
(* "Extract here": GioUtils at work for it. *)

MoveHere == {"move", "rename", "look", "unwrap"}   \* the steps of move_here

HereControl ==
    /\ GioInv
    /\ job \in {"none", "local", "remote"} /\ step \in {"make", "extract", "copy", "end"} \cup MoveHere
    /\ job # "none" => op.name = "copy"
    /\ job = "none" => step \in {"copy", "end"}
    /\ step \in {"make", "extract"} => phase = "start"
    /\ step \in MoveHere => told = "ok"

\* What was extracted is all in the folder at once; or it was not, and that is told.
LEMMA HereOver ==
    ASSUME GioInv, phase = "start", op.name = "copy", tree' = tree, op' = op, walk' = walk, list' = list,
           to_copy' = to_copy, refused' = refused, phase' = "over",
           \/ told' = "ok" /\ dest' = Copied /\ faulted' = faulted
           \/ told' = "error" /\ dest' = dest /\ faulted' = TRUE
    PROVE  GioInv'
<1>1. /\ Asked /\ walk \in Walkers /\ list \in Lists /\ to_copy \in Seq(Paths) /\ dest \subseteq Paths
      /\ faulted \in BOOLEAN /\ refused \in BOOLEAN /\ ~walk.error
 BY NowTyped
<1>2. Copying(phase, walk, told, to_copy, dest, refused) BY NowGood
<1>3. /\ Copied = Reach(AllFolders) /\ Reach(AllFolders) \subseteq Paths /\ Rooted(Copied)
      /\ Brought \subseteq Copied
 BY <1>1, CopiedAre
<1> SUFFICES Good(phase', walk', list', to_copy', dest', told', faulted', refused') BY <1>1, Primed
<1>4. Typed(phase', walk', list', to_copy', dest', told', faulted', refused')
 BY <1>1, <1>3 DEF Typed
<1>5. Controlled(phase', walk', told', faulted', refused') BY <1>1 DEF Controlled
<1>6. Walking(phase', walk', list', to_copy') BY DEF Walking, WalkPhases
<1>7. Listing(phase', told', list') /\ Fetching(phase', told', to_copy', dest')
 BY DEF Listing, Fetching
<1>8. Copying(phase', walk', told', to_copy', dest', refused') BY <1>2, <1>3 DEF Copying
<1> QED BY <1>4, <1>5, <1>6, <1>7, <1>8 DEF Good

LEMMA MakeFolderKeeps ==
    ASSUME GioInv, phase = "start", op.name = "copy", NEW ok \in BOOLEAN, MakeFolder(ok)
    PROVE  GioInv'
<1>0. /\ tree' = tree /\ op' = op /\ walk' = walk /\ list' = list /\ to_copy' = to_copy /\ refused' = refused
      /\ faulted' = ~ok
      /\ IF ok THEN dest' = {<<>>} /\ phase' = phase /\ told' = told
               ELSE told' = "error" /\ phase' = "over" /\ dest' = dest
 BY DEF MakeFolder
<1>1. CASE ~ok BY <1>0, <1>1, HereOver
<1>2. CASE ok
 <2>1. /\ Asked /\ walk \in Walkers /\ list \in Lists /\ to_copy \in Seq(Paths) /\ refused \in BOOLEAN
       /\ ~walk.error /\ told = "nothing"
  BY NowTyped
 <2>2. /\ Typed(phase, walk, list, to_copy, dest, told, faulted, refused)
       /\ Controlled(phase, walk, told, faulted, refused) /\ Walking(phase, walk, list, to_copy)
       /\ Listing(phase, told, list)
  BY NowGood
 <2>3. {<<>>} \subseteq Paths BY <2>1, BaseIs
 <2>4. Typed(phase', walk', list', to_copy', dest', told', faulted', refused')
  BY <1>0, <1>2, <2>2, <2>3 DEF Typed
 <2>5. Controlled(phase', walk', told', faulted', refused')
  BY <1>0, <1>2, <2>1, <2>2 DEF Controlled
 <2>6. Walking(phase', walk', list', to_copy') /\ Listing(phase', told', list') BY <1>0, <1>2, <2>2
 <2>7. Fetching(phase', told', to_copy', dest') BY DEF Fetching
 <2>8. Copying(phase', walk', told', to_copy', dest', refused')
  BY <1>0, <1>2, <2>1, RootedBase DEF Copying
 <2>9. Good(phase', walk', list', to_copy', dest', told', faulted', refused')
  BY <2>4, <2>5, <2>6, <2>7, <2>8 DEF Good
 <2> QED BY <1>0, <2>1, <2>9, Primed
<1> QED BY <1>1, <1>2

LEMMA HereControlled ==
    ASSUME HereControl, [HereNext]_here_vars
    PROVE  HereControl'
<1>0. /\ GioInv
      /\ job \in {"none", "local", "remote"} /\ step \in {"make", "extract", "copy", "end"} \cup MoveHere
      /\ job # "none" => op.name = "copy"
      /\ job = "none" => step \in {"copy", "end"}
      /\ step \in {"make", "extract"} => phase = "start"
      /\ step \in MoveHere => told = "ok"
 BY DEF HereControl
<1>t. told = "nothing" <=> phase # "over" BY <1>0, NowTyped
<1>1. CASE UNCHANGED here_vars
 <2>1. UNCHANGED vars /\ job' = job /\ step' = step BY <1>1 DEF here_vars
 <2>2. GioInv' BY <1>0, <2>1, GioStep
 <2> QED BY <1>0, <2>1, <2>2 DEF HereControl, vars
<1>2. CASE Extracted
 <2>1. /\ step = "extract" /\ job' = job /\ op' = op /\ tree' = tree /\ walk' = walk /\ list' = list
       /\ to_copy' = to_copy /\ refused' = refused /\ faulted' = faulted
       /\ IF job = "local" THEN dest' = Copied /\ told' = "ok" /\ phase' = "over" /\ step' = "move"
          ELSE phase' = "start" /\ step' = "copy" /\ dest' = dest /\ told' = told
  BY <1>2 DEF Extracted
 <2>2. phase = "start" /\ op.name = "copy" /\ job # "none" BY <1>0, <2>1
 <2>3. GioInv'
  <3>1. CASE job = "local" BY <3>1, <1>0, <2>1, <2>2, HereOver
  <3>2. CASE job # "local"
   <4>1. UNCHANGED vars BY <3>2, <2>1, <2>2 DEF vars
   <4> QED BY <1>0, <4>1, GioStep
  <3> QED BY <3>1, <3>2
 <2> QED BY <1>0, <2>1, <2>2, <2>3 DEF HereControl, MoveHere
<1>3. CASE Copies
 <2>1. /\ step = "copy" /\ Next /\ job' = job
       /\ step' = CASE phase' # "over" -> "copy"
                    [] phase' = "over" /\ (job = "none" \/ told' = "error") -> "end"
                    [] phase' = "over" /\ job # "none" /\ told' = "ok" -> "move"
  BY <1>3 DEF Copies
 <2>2. GioInv' BY <1>0, <2>1, GioStep
 <2>3. op' = op
  BY <2>1 DEF Next, StartDirectory, Enumerated, NextFiles, Closed, CopyFile, MakeDirectory, CopyChild, WalkListed,
              NextItem, CopyFilesEnd, WalkCopied, PassOver, NoneLeft, CopyDone
 <2>4. told' \in {"nothing", "ok", "error"} /\ (told' = "nothing" <=> phase' # "over")
  BY <2>2 DEF GioInv, Good, Typed, Controlled
 <2>5. step' \in {"copy", "end", "move"} /\ (step' = "move" => told' = "ok" /\ job # "none")
  BY <2>1, <2>4
 <2> QED BY <1>0, <2>1, <2>2, <2>3, <2>5 DEF HereControl, MoveHere
<1>4. CASE \E ok \in BOOLEAN : MakeFolder(ok)
 <2>1. PICK ok \in BOOLEAN : MakeFolder(ok) BY <1>4
 <2>2. /\ step = "make" /\ job' = job /\ op' = op
       /\ IF ok THEN step' = "extract" /\ phase' = phase ELSE step' = "end"
  BY <2>1 DEF MakeFolder
 <2>3. phase = "start" /\ op.name = "copy" /\ job # "none" BY <1>0, <2>2
 <2>4. GioInv' BY <1>0, <2>1, <2>3, MakeFolderKeeps
 <2> QED BY <1>0, <2>2, <2>3, <2>4 DEF HereControl, MoveHere
<1>5. CASE \E ok \in BOOLEAN : NotExtracted(ok)
 <2>1. PICK ok \in BOOLEAN : NotExtracted(ok) BY <1>5
 <2>2. /\ step = "extract" /\ step' = "end" /\ job' = job /\ op' = op /\ tree' = tree /\ walk' = walk /\ list' = list
       /\ to_copy' = to_copy /\ refused' = refused /\ phase' = "over" /\ told' = "error" /\ dest' = dest
       /\ faulted' = TRUE
  BY <2>1 DEF NotExtracted
 <2>3. phase = "start" /\ op.name = "copy" /\ job # "none" BY <1>0, <2>2
 <2>4. GioInv' BY <1>0, <2>2, <2>3, HereOver
 <2> QED BY <1>0, <2>2, <2>3, <2>4 DEF HereControl, MoveHere
<1>6. CASE \/ \E ok \in BOOLEAN : Rename(ok) \/ \E removed \in BOOLEAN : Unwrap(ok, removed)
           \/ \E read \in SUBSET TopLevel :
                LookInside(read) \/ \E name \in Names \cup {None} : LookAgain(read, name)
 <2>1. step \in MoveHere /\ step' \in MoveHere \cup {"end"} /\ UNCHANGED vars /\ job' = job
  BY <1>6 DEF LookInside, Rename, LookAgain, Unwrap, MoveHere
 <2>2. GioInv' BY <1>0, <2>1, GioStep
 <2>3. step \notin {"make", "extract", "copy", "end"} /\ step' \notin {"make", "extract"} BY <2>1 DEF MoveHere
 <2> QED BY <1>0, <2>1, <2>2, <2>3 DEF HereControl, vars
<1>7. CASE \E place \in Names \X (1..2) : OthersPut(place)
 <2>1. UNCHANGED vars /\ job' = job /\ step' = step BY <1>7 DEF OthersPut
 <2>2. GioInv' BY <1>0, <2>1, GioStep
 <2> QED BY <1>0, <2>1, <2>2 DEF HereControl, vars
<1> QED BY <1>1, <1>2, <1>3, <1>4, <1>5, <1>6, <1>7 DEF HereNext, HereStep

LEMMA HereBegins ==
    ASSUME HereInit
    PROVE  HereControl
<1>1. Init /\ job \in (IF op.name = "copy" /\ dest = {} THEN {"none", "local", "remote"} ELSE {"none"})
      /\ step = (IF job = "none" THEN "copy" ELSE "make")
 BY DEF HereInit
<1>2. GioInv BY <1>1, GioBegins
<1>3. op.name = "copy" => phase = "start" BY <1>1 DEF Init
<1> QED BY <1>1, <1>2, <1>3 DEF HereControl, MoveHere

\* What is to be added from folders is listed whole and once (g_directory_list_async and
\* g_list_items_async), however folders are read in parts and links lead.
THEOREM ListsWhole == HereSpec => []ListedWhole
<1>1. HereInit => HereControl BY HereBegins
<1>2. HereControl /\ [HereNext]_here_vars => HereControl' BY HereControlled
<1>3. HereControl => ListedWhole BY GioListedWhole DEF HereControl
<1> QED BY <1>1, <1>2, <1>3, PTL DEF HereSpec

\* A copy that is told to be done has all there is to be copied, but links that cannot be
\* followed, what is neither a file nor a folder (g_directory_copy_current_child), and
\* folders that could not be made, below which nothing is there; files that are fetched for
\* an archive (g_copy_files_async) are all there.  A copy fails only when something failed.
THEOREM CopiesOrFails == HereSpec => []CopiedOrFailedUnless
<1>1. HereInit => HereControl BY HereBegins
<1>2. HereControl /\ [HereNext]_here_vars => HereControl' BY HereControlled
<1>3. HereControl => CopiedOrFailedUnless BY GioCopiedOrFailed DEF HereControl
<1> QED BY <1>1, <1>2, <1>3, PTL DEF HereSpec

----
(* "Extract here": what there is beside the archive. *)

Occupied(b) == {place \in Places : b[place] # None}
Foreign(b) == {place \in Places : b[place] = "foreign"}
Ours(b) == {place \in Places : b[place] = "made"}
Top(d) == {path \in d : Len(path) = 1}

\* Until the end, only others put foreign things there.
Placed(b, o) ==
    /\ b \in [Places -> {None, "made", "foreign"}]
    /\ o = Foreign(b) /\ Cardinality(o) <= MaxOthers

OneFolder(b, f) ==
    /\ f \in Places /\ b[f] = "made"
    /\ \A place \in Places : place # f => b[place] \in {None, "foreign"}

\* A name is chosen for the folder.
Renaming(b, f, c, k, d) ==
    /\ OneFolder(b, f) /\ c \in Places /\ c # f
    /\ k = FALSE => Cardinality(Top(d)) = 1

\* The folder is held to have that name, and is somewhere.
Looking(b, f, k, d) ==
    /\ f \in Places /\ \E h : OneFolder(b, h)
    /\ k = FALSE => b[f] = "made" /\ Cardinality(Top(d)) = 1

\* What was found is to be moved out of what has the name, ours or not.
Unwrapping(b, f, c, n, z, k, d) ==
    /\ f \in Places /\ c \in Places /\ c # f /\ b[f] \in {"made", "foreign"}
    /\ \E h : OneFolder(b, h) /\ c # h
    /\ b[f] = "made" => n \in Inodes
    /\ k = FALSE => b[f] = "made" /\ Top(d) = {<< n >>}
    /\ b[f] = "foreign" => z = f

\* What is said at the end.
Ended(b, f, t, d, k, w) ==
    /\ t = "ok" => \A path \in Top(d) : Ours(b) # {} \/ \E place \in Places : b[place] = Last(path)
    /\ t = "ok" /\ k = FALSE => IF Cardinality(Top(d)) = 1 THEN Top(d) = {<< b[f] >>} /\ Ours(b) = {} ELSE Ours(b) = {f}
    /\ t = "error" /\ k = FALSE => Ours(b) = {} \/ w.error

\* j: job, s: step, b: beside, f: folder, c: chosen, n: content, o: theirs, z: seized,
\* k: balked, t: told, d: dest, w: walk.
Beside(j, s, b, f, c, n, o, z, k, t, d, w) ==
    j # "none" =>
        /\ k \in BOOLEAN
        /\ \A place \in o \ {z} : b[place] = "foreign"
        /\ k = FALSE => z = None
        /\ s # "end" => Placed(b, o)
        /\ s \in {"make", "extract", "copy", "move"} => k = FALSE
        /\ s = "make" => \A place \in Places : b[place] \in {None, "foreign"}
        /\ s \in {"extract", "copy", "move"} => OneFolder(b, f)
        /\ s = "rename" => Renaming(b, f, c, k, d)
        /\ s = "look" => Looking(b, f, k, d)
        /\ s = "unwrap" => Unwrapping(b, f, c, n, z, k, d)
        /\ s = "end" => Ended(b, f, t, d, k, w)

HereBeside == Beside(job, step, beside, folder, chosen, content, theirs, seized, balked, told, dest, walk)

HereInv == HereControl /\ HereBeside

LEMMA HereConstants ==
    ASSUME Asked
    PROVE  /\ MaxOthers \in Nat /\ None \notin {"made", "foreign"}
           /\ "made" \notin Inodes /\ "foreign" \notin Inodes /\ None \notin Inodes
           /\ Desired \subseteq Names /\ Names \X (1..2) \subseteq Places /\ Names \X {1} \subseteq Places
           /\ IsFiniteSet(Names) /\ IsFiniteSet(Places) /\ IsFiniteSet(Names \X {1})
<1>1. MaxOthers \in Nat /\ None \notin {"made", "foreign"} /\ IsFiniteSet(Desired) BY HereAssumption
<1>2. "made" \notin Inodes /\ "foreign" \notin Inodes BY HereAssumption DEF Asked, Inodes
<1>3. IsFiniteSet(Inodes) /\ None \notin Inodes /\ tree.children.base \in Seq(Inodes) BY TreeIs
<1>4. ToSet(tree.children.base) \subseteq Inodes BY <1>3, Elements
<1>5. IsFiniteSet(ToSet(tree.children.base)) BY <1>3, <1>4, FS_Subset
<1>6. IsFiniteSet(Names) BY <1>1, <1>5, FS_Union DEF Names
<1>7. IsFiniteSet(1..MaxOthers + 4) /\ 1..2 \subseteq 1..MaxOthers + 4 /\ {1} \subseteq 1..MaxOthers + 4
 BY <1>1, FS_Interval
<1>8. IsFiniteSet(Places) BY <1>6, <1>7, FS_Product DEF Places
<1>9. Names \X (1..2) \subseteq Places /\ Names \X {1} \subseteq Places BY <1>7 DEF Places
<1>10. IsFiniteSet(Names \X {1}) BY <1>8, <1>9, FS_Subset
<1> QED BY <1>1, <1>2, <1>3, <1>6, <1>8, <1>9, <1>10 DEF Names

\* With fewer places taken than there are numbers, there is a free one.
LEMMA AlternativeIsFree ==
    ASSUME Asked, NEW taken \in SUBSET Places, Cardinality(taken) <= MaxOthers + 1, NEW name \in Names
    PROVE  get_alternative_uri(taken, name) \in Places \ taken
<1> DEFINE N == MaxOthers + 4
           free == {n \in 1..N : <<name, n>> \notin taken}
<1>1. MaxOthers \in Nat /\ IsFiniteSet(Places) BY HereConstants
<1>2. IsFiniteSet(taken) /\ Cardinality(taken) \in Nat BY <1>1, FS_Subset, FS_CardinalityType
<1>3. free # {}
 <2> SUFFICES ASSUME \A n \in 1..N : <<name, n>> \in taken PROVE FALSE OBVIOUS
 <2> DEFINE f == [n \in 1..N |-> <<name, n>>]
 <2>1. f \in Injection(1..N, taken) BY DEF Injection, IsInjective
 <2>2. Cardinality(1..N) <= Cardinality(taken) BY <1>2, <2>1, FS_Injection
 <2>3. Cardinality(1..N) = N BY <1>1, FS_Interval
 <2> QED BY <1>1, <1>2, <2>2, <2>3
<1>4. PICK x \in free : \A y \in free : ~(y < x)
 <2>1. free \in SUBSET Nat BY <1>1
 <2> HIDE DEF free
 <2> QED BY <2>1, <1>3, SmallestOf
<1>5. x \in free /\ \A y \in free : x <= y BY <1>4
<1>6. Min(free) \in free
 <2> HIDE DEF free
 <2> QED BY <1>5 DEF Min
<1> QED BY <1>6 DEF get_alternative_uri, Places

\* With one folder of ours a free place is found.
LEMMA FolderFindsPlace ==
    ASSUME Asked, NEW b, NEW o, NEW f, Placed(b, o), OneFolder(b, f), NEW name \in Names
    PROVE  get_alternative_uri(Occupied(b), name) \in Places \ Occupied(b)
<1>1. Occupied(b) \subseteq o \cup {f} /\ f \notin o BY DEF Occupied, Foreign, OneFolder, Placed
<1>2. IsFiniteSet(o) /\ IsFiniteSet(o \cup {f})
 BY HereConstants, FS_Subset, FS_AddElement DEF Foreign, Placed
<1>3. Cardinality(o \cup {f}) = Cardinality(o) + 1 /\ Cardinality(o) \in Nat /\ Cardinality(o) <= MaxOthers
 BY <1>1, <1>2, FS_AddElement, FS_CardinalityType DEF Placed
<1>4. Cardinality(Occupied(b)) <= Cardinality(o \cup {f}) /\ Cardinality(Occupied(b)) \in Nat
 BY <1>1, <1>2, FS_Subset, FS_CardinalityType
<1>5. MaxOthers \in Nat BY HereConstants
<1>6. Cardinality(Occupied(b)) <= MaxOthers + 1 BY <1>3, <1>4, <1>5
<1>7. Occupied(b) \in SUBSET Places BY DEF Occupied
<1> QED BY <1>6, <1>7, AlternativeIsFree

\* What is at the top of the folder is what is in the base.
LEMMA TopLevelIs ==
    ASSUME GioInv, op.name = "copy"
    PROVE  /\ IsFiniteSet(TopLevel)
           /\ \A path \in TopLevel : /\ path \in Paths /\ path = << Last(path) >> /\ Last(path) \in Inodes
                                     /\ Last(path) \in Names
<1>1. Asked /\ Copying(phase, walk, told, to_copy, dest, refused) /\ dest \subseteq Paths
 BY NowGood, NowTyped
<1>2. dest \subseteq {<<>>} \cup Reach(AllFolders) BY <1>1 DEF Copying
<1>3. \A p \in Reach(AllFolders) : p # <<>> => Front(p) \in AllFolders BY <1>1, CopiedAre
<1>4. <<>> \in Roots /\ AllFolders = Folders(<<>>)
 <2>1. Roots = {op.directory} /\ op.directory = <<>> BY <1>1, TreeIs DEF Roots
 <2> QED BY <1>1, <2>1, CopiedAre
<1>b. <<>> \in Paths /\ IsFolder(<<>>) /\ Behind(<<>>) = "base" /\ tree.children.base = tree.children["base"]
  BY <1>1, BaseIs, TreeIs
<1>5. ASSUME NEW path \in TopLevel
      PROVE  path \in ToSet(Children(<<>>)) /\ Len(path) = 1
 <2>1. path \in dest /\ Len(path) = 1 /\ path \in Paths BY <1>1 DEF TopLevel
 <2>2. path # <<>> /\ path \in Reach(AllFolders) BY <2>1, <1>2, NoneIsOnce
 <2>3. Len(Front(path)) = 0 /\ Front(path) \in Paths BY <2>1, <2>2, FrontIs DEF Paths
 <2>4. Front(path) = <<>> BY <2>3 DEF Paths
 <2>5. CASE path \in AllFolders BY <2>2, <2>4, <2>5, <1>1, <1>4, <2>1, FoldersAre
 <2>6. CASE path \in Within(AllFolders) BY <2>4, <2>6, <1>1, <1>4, <2>1, WithinAre
 <2> QED BY <2>1, <2>2, <2>5, <2>6 DEF Reach
<1>6. ASSUME NEW path \in TopLevel
      PROVE  /\ path \in Paths /\ path = << Last(path) >> /\ Last(path) \in Inodes
             /\ Last(path) \in ToSet(tree.children.base)
 <2>1. /\ path \in Paths /\ Last(path) \in ToSet(tree.children[Behind(<<>>)]) /\ Last(path) \in Inodes
       /\ path = Append(<<>>, Last(path))
  BY <1>5, <1>1, <1>b, ChildrenAre
 <2>2. path = << Last(path) >>
  <3> DEFINE last == Last(path)
  <3>1. path = Append(<<>>, last) BY <2>1
  <3> HIDE DEF last
  <3> QED BY <3>1 DEF last
 <2> QED BY <2>1, <2>2, <1>b
<1>7. TopLevel \subseteq ToSet(Children(<<>>)) BY <1>5
<1>8. IsFiniteSet(ToSet(Children(<<>>)))
 <2> DEFINE s == Children(<<>>)
 <2>1. s \in Seq(Paths) BY <1>1, <1>b, ChildrenAre
 <2> HIDE DEF s
 <2>2. DOMAIN s = 1..Len(s) /\ Len(s) \in Nat BY <2>1, Elements
 <2>3. IsFiniteSet(DOMAIN s) BY <2>2, FS_Interval
 <2>4. s \in Surjection(DOMAIN s, ToSet(s)) BY <2>1, <2>2 DEF ToSet, Surjection
 <2> QED BY <2>3, <2>4, FS_Surjection DEF s
<1>9. IsFiniteSet(TopLevel) BY <1>7, <1>8, FS_Subset
<1> QED BY <1>6, <1>9 DEF Names

LEMMA UniqueContent ==
    ASSUME GioInv, op.name = "copy", NEW read \in SUBSET TopLevel, NEW name, name = get_dir_content_if_unique(read)
    PROVE  /\ name # None => /\ Cardinality(read) = 1 /\ read = {<< name >>}
                             /\ name \in Inodes /\ name \in Names
           /\ name = None => Cardinality(read) # 1
<1>1. Asked /\ IsFiniteSet(read) BY NowTyped, TopLevelIs, FS_Subset
<1>2. None \notin Inodes BY <1>1, HereConstants
<1>3. ASSUME Cardinality(read) = 1
      PROVE  read = {<< name >>} /\ name \in Inodes /\ name \in Names
 <2>1. PICK x : read = {x} BY <1>1, <1>3, FS_Singleton
 <2>2. name = Last(x) /\ x \in TopLevel BY <1>3, <2>1 DEF get_dir_content_if_unique
 <2>3. x = << Last(x) >> /\ Last(x) \in Inodes /\ Last(x) \in Names BY <2>2, TopLevelIs
 <2> QED BY <2>1, <2>2, <2>3
<1>4. Cardinality(read) # 1 => name = None BY DEF get_dir_content_if_unique
<1> QED BY <1>2, <1>3, <1>4

With(b, p, v) == [b EXCEPT ![p] = v]

\* What is not a thing of others is put at a place that is none of theirs.
LEMMA PutOurs ==
    ASSUME Asked, NEW b, NEW o, Placed(b, o), NEW p \in Places, b[p] # "foreign", NEW v \in {None, "made"}
    PROVE  Placed(With(b, p, v), o) /\ With(b, p, v)[p] = v /\ \A q \in Places : q # p => With(b, p, v)[q] = b[q]
<1> DEFINE b2 == With(b, p, v)
<1>1. b2 \in [Places -> {None, "made", "foreign"}] /\ b2[p] = v /\ \A q \in Places : q # p => b2[q] = b[q]
 BY DEF Placed, With
<1> HIDE DEF b2
<1>2. v # "foreign" BY HereConstants
<1>3. Foreign(b2) = Foreign(b) BY <1>1, <1>2 DEF Foreign
<1> QED BY <1>1, <1>3 DEF Placed, b2

LEMMA PutForeign ==
    ASSUME Asked, NEW b, NEW o, Placed(b, o), Cardinality(o) < MaxOthers, NEW p \in Places, b[p] = None
    PROVE  /\ Placed(With(b, p, "foreign"), o \cup {p}) /\ With(b, p, "foreign")[p] = "foreign"
           /\ \A q \in Places : q # p => With(b, p, "foreign")[q] = b[q]
<1> DEFINE b2 == With(b, p, "foreign")
<1>1. /\ b2 \in [Places -> {None, "made", "foreign"}]
      /\ b2[p] = "foreign" /\ \A q \in Places : q # p => b2[q] = b[q]
 BY DEF Placed, With
<1> HIDE DEF b2
<1>2. MaxOthers \in Nat /\ None \notin {"made", "foreign"} /\ IsFiniteSet(Places) BY HereConstants
<1>3. Foreign(b2) = o \cup {p} /\ p \notin o BY <1>1, <1>2 DEF Foreign, Placed
<1>4. IsFiniteSet(o) BY <1>2, FS_Subset DEF Foreign, Placed
<1>5. Cardinality(o \cup {p}) = Cardinality(o) + 1 /\ Cardinality(o) \in Nat
 BY <1>3, <1>4, FS_AddElement, FS_CardinalityType
<1>6. Cardinality(o \cup {p}) <= MaxOthers BY <1>2, <1>5
<1> QED BY <1>1, <1>3, <1>6 DEF Placed, b2

LEMMA OursIs ==
    ASSUME Asked, NEW b, NEW f, OneFolder(b, f)
    PROVE  Ours(b) = {f} /\ Ours(b) # {}
<1> QED BY HereConstants DEF Ours, OneFolder

LEMMA PlacedKeeps ==
    ASSUME NEW b, NEW o, NEW z, Placed(b, o)
    PROVE  \A place \in o \ {z} : b[place] = "foreign"
  BY DEF Placed, Foreign

\* Names and places do not change.
LEMMA HereBesidePrimed ==
    ASSUME tree' = tree
    PROVE  HereBeside' <=> Beside(job', step', beside', folder', chosen', content', theirs', seized', balked', told',
                                  dest', walk')
<1>1. Names' = Names /\ Places' = Places /\ Inodes' = Inodes BY DEF Names, Places, Inodes
<1>2. Placed(beside, theirs)' <=> Placed(beside', theirs') BY <1>1 DEF Placed, Foreign
<1>3. OneFolder(beside, folder)' <=> OneFolder(beside', folder') BY <1>1 DEF OneFolder
<1>4. Ended(beside, folder, told, dest, balked, walk)' <=> Ended(beside', folder', told', dest', balked', walk')
 BY <1>1 DEF Ended, Ours, Top
<1>5. Renaming(beside, folder, chosen, balked, dest)' <=> Renaming(beside', folder', chosen', balked', dest')
 BY <1>1 DEF Renaming, OneFolder, Top
<1>6. Looking(beside, folder, balked, dest)' <=> Looking(beside', folder', balked', dest')
 BY <1>1 DEF Looking, OneFolder, Top
<1>7. Unwrapping(beside, folder, chosen, content, seized, balked, dest)' <=>
        Unwrapping(beside', folder', chosen', content', seized', balked', dest')
 BY <1>1 DEF Unwrapping, OneFolder, Top
<1> QED BY <1>1, <1>2, <1>3, <1>4, <1>5, <1>6, <1>7 DEF HereBeside, Beside

LEMMA HereNow ==
    ASSUME HereInv
    PROVE  /\ GioInv /\ Asked /\ (job # "none" => op.name = "copy")
           /\ job = "none" => step \in {"copy", "end"}
           /\ step \in {"make", "extract"} => told = "nothing"
           /\ step \in MoveHere => told = "ok"
           /\ Beside(job, step, beside, folder, chosen, content, theirs, seized, balked, told, dest, walk)
<1>1. HereControl /\ HereBeside BY DEF HereInv
<1>2. GioInv BY <1>1 DEF HereControl
<1>3. Asked /\ (told = "nothing" <=> phase # "over") BY <1>2, NowTyped
<1> QED BY <1>1, <1>2, <1>3 DEF HereControl, HereBeside

LEMMA MakeFolderBeside ==
    ASSUME HereInv, NEW ok \in BOOLEAN, MakeFolder(ok)
    PROVE  HereBeside'
<1>1. step = "make" /\ tree' = tree /\ job' = job /\ theirs' = theirs /\ balked' = balked /\ seized' = seized
 BY DEF MakeFolder, looked
<1>2. /\ Asked /\ Placed(beside, theirs) /\ balked = FALSE /\ seized = None /\ job # "none"
      /\ \A place \in Places : beside[place] \in {None, "foreign"}
 BY <1>1, HereNow DEF Beside
<1>3. None \notin {"made", "foreign"} /\ Desired \subseteq Names /\ MaxOthers \in Nat
 BY <1>2, HereConstants
<1>4. PICK name \in Desired :
        /\ IF ok THEN /\ folder' = get_alternative_uri(Taken, name)
                      /\ beside' = [beside EXCEPT ![get_alternative_uri(Taken, name)] = "made"]
                 ELSE folder' = folder /\ beside' = beside
        /\ IF ok THEN step' = "extract" ELSE step' = "end" /\ told' = "error"
 BY DEF MakeFolder
<1>5. CASE ok
 <2> DEFINE place == get_alternative_uri(Taken, name)
 <2>1. place \in Places \ Taken
  <3>1. Taken = theirs /\ Taken \in SUBSET Places BY <1>2, <1>3 DEF Taken, Foreign, Placed
  <3>2. IsFiniteSet(Taken) BY <1>2, <3>1, HereConstants, FS_Subset
  <3>3. Cardinality(Taken) \in Nat BY <3>2, FS_CardinalityType
  <3>4. Cardinality(Taken) <= MaxOthers BY <1>2, <3>1 DEF Placed
  <3>5. Cardinality(Taken) <= MaxOthers + 1 BY <1>3, <3>3, <3>4
  <3> QED BY <1>2, <1>3, <3>1, <3>5, AlternativeIsFree
 <2>2. place \in Places /\ beside[place] = None /\ beside' = [beside EXCEPT ![place] = "made"] /\ folder' = place
  BY <1>4, <1>5, <2>1 DEF Taken
 <2> DEFINE b2 == beside'
 <2> HIDE DEF place, b2
 <2>3. Placed(b2, theirs) /\ b2[place] = "made" /\ \A q \in Places : q # place => b2[q] = beside[q]
  <3>1. b2 = With(beside, place, "made") /\ beside[place] # "foreign" BY <2>2, <1>3 DEF b2, With
  <3> QED BY <3>1, <2>2, <1>2, PutOurs
 <2>4. OneFolder(b2, place) BY <2>2, <2>3, <1>2 DEF OneFolder
 <2>5. \A q \in theirs \ {None} : b2[q] = "foreign" BY <2>3, PlacedKeeps
 <2> QED BY <1>1, <1>2, <1>4, <1>5, <2>2, <2>3, <2>4, <2>5, HereBesidePrimed DEF b2, Beside
<1>6. CASE ~ok
 <2>1. Ours(beside) = {} BY <1>2, <1>3 DEF Ours
 <2>2. Ended(beside', folder', told', dest', balked', walk') BY <1>4, <1>6, <2>1 DEF Ended
 <2>3. \A q \in theirs \ {None} : beside[q] = "foreign" BY <1>2, PlacedKeeps
 <2> QED BY <1>1, <1>2, <1>4, <1>6, <2>2, <2>3, HereBesidePrimed DEF Beside
<1> QED BY <1>5, <1>6

LEMMA ExtractedBeside ==
    ASSUME HereInv, Extracted
    PROVE  HereBeside'
<1>1. /\ step = "extract" /\ tree' = tree /\ job' = job /\ theirs' = theirs /\ balked' = balked /\ seized' = seized
      /\ beside' = beside /\ folder' = folder /\ step' \in {"move", "copy"}
 BY DEF Extracted, looked
<1>2. job # "none" => /\ Placed(beside, theirs) /\ balked = FALSE /\ OneFolder(beside, folder) /\ seized = None
                      /\ \A place \in theirs \ {seized} : beside[place] = "foreign"
 BY <1>1, HereNow DEF Beside
<1> QED BY <1>1, <1>2, HereBesidePrimed DEF Beside

LEMMA NotExtractedBeside ==
    ASSUME HereInv, NEW removed \in BOOLEAN, NotExtracted(removed)
    PROVE  HereBeside'
<1>1. /\ step = "extract" /\ step' = "end" /\ tree' = tree /\ job' = job /\ theirs' = theirs
      /\ balked' = (balked \/ ~removed) /\ told' = "error" /\ folder' = folder /\ seized' = seized
      /\ beside' = [beside EXCEPT ![folder] = IF removed THEN None ELSE @]
 BY DEF NotExtracted, looked
<1>2. Asked /\ Placed(beside, theirs) /\ OneFolder(beside, folder) /\ job # "none" /\ balked = FALSE /\ seized = None
 BY <1>1, HereNow DEF Beside
<1>3. None \notin {"made", "foreign"} BY <1>2, HereConstants
<1>4. folder \in Places /\ beside[folder] = "made" /\ \A q \in Places : q # folder => beside[q] \in {None, "foreign"}
 BY <1>2 DEF OneFolder
<1> DEFINE v == IF removed THEN None ELSE beside[folder]
           b2 == beside'
<1>5. b2 = With(beside, folder, v) /\ v \in {None, "made"} /\ (removed => v = None)
 BY <1>1, <1>4 DEF With
<1> HIDE DEF v, b2
<1>6. Placed(b2, theirs) /\ b2[folder] = v /\ \A q \in Places : q # folder => b2[q] = beside[q]
 BY <1>2, <1>3, <1>4, <1>5, PutOurs
<1>7. removed => Ours(b2) = {} BY <1>3, <1>4, <1>5, <1>6 DEF Ours
<1>8. Ended(b2, folder', told', dest', balked', walk') BY <1>1, <1>7 DEF Ended
<1>9. balked' \in BOOLEAN BY <1>1, <1>2
<1>10. \A q \in theirs \ {None} : b2[q] = "foreign" BY <1>6, PlacedKeeps
<1> QED BY <1>1, <1>2, <1>8, <1>9, <1>10, HereBesidePrimed DEF b2, Beside

\* A copy of a folder fails at its end, and that is known to the walk.
LEMMA CopyFails ==
    ASSUME GioInv, Next, op.name = "copy", told' = "error"
    PROVE  walk'.error
<1>1. Controlled(phase, walk, told, faulted, refused) /\ phase # "over"
 <2> QED
  BY NowGood DEF Next, StartDirectory, Enumerated, NextFiles, Closed, CopyFile, MakeDirectory,
     CopyChild, WalkListed, NextItem, CopyFilesEnd, WalkCopied, PassOver, NoneLeft, CopyDone
<1>2. told = "nothing" /\ phase \notin {"next_item", "copy_files"} BY <1>1 DEF Controlled
<1>3. CASE CopyDone BY <1>2, <1>3 DEF CopyDone
<1>4. CASE ~CopyDone
 BY <1>2, <1>4 DEF Next, StartDirectory, Enumerated, NextFiles, Closed, CopyFile, MakeDirectory, CopyChild, WalkListed,
          NextItem, CopyFilesEnd, WalkCopied, PassOver, NoneLeft
<1> QED BY <1>3, <1>4

LEMMA CopiesBeside ==
    ASSUME HereInv, Copies
    PROVE  HereBeside'
<1>1. /\ step = "copy" /\ Next /\ job' = job /\ beside' = beside /\ folder' = folder /\ theirs' = theirs
      /\ balked' = balked /\ seized' = seized
      /\ step' = CASE phase' # "over" -> "copy"
                   [] phase' = "over" /\ (job = "none" \/ told' = "error") -> "end"
                   [] phase' = "over" /\ job # "none" /\ told' = "ok" -> "move"
 BY DEF Copies, looked
<1>2. tree' = tree /\ op' = op
 BY <1>1 DEF Next, StartDirectory, Enumerated, NextFiles, Closed, CopyFile, MakeDirectory, CopyChild, WalkListed,
             NextItem, CopyFilesEnd, WalkCopied, PassOver, NoneLeft, CopyDone
<1>3. GioInv /\ Asked BY HereNow
<1>4. GioInv' BY <1>1, <1>3, GioStep
<1>5. told' \in {"nothing", "ok", "error"} /\ (told' = "nothing" <=> phase' # "over")
 BY <1>4 DEF GioInv, Good, Typed, Controlled
<1> SUFFICES ASSUME job # "none" PROVE HereBeside' BY <1>1, <1>2, HereBesidePrimed DEF Beside
<1>6. /\ op.name = "copy" /\ Placed(beside, theirs) /\ balked = FALSE /\ OneFolder(beside, folder) /\ seized = None
      /\ \A place \in theirs \ {seized} : beside[place] = "foreign"
 BY <1>1, HereNow DEF Beside
<1>7. step' \in {"copy", "end", "move"} /\ (step' = "end" => told' = "error") BY <1>1, <1>5
<1>8. step' = "end" => Ended(beside', folder', told', dest', balked', walk')
 <2> SUFFICES ASSUME told' = "error" PROVE Ended(beside', folder', told', dest', balked', walk')
  BY <1>7
 <2> QED BY <1>1, <1>3, <1>6, CopyFails DEF Ended
<1> QED BY <1>1, <1>2, <1>6, <1>7, <1>8, HereBesidePrimed DEF Beside

\* A thing of others where there was nothing changes nothing for our folder.
LEMMA OthersPutBeside ==
    ASSUME HereInv, NEW place \in Names \X (1..2), OthersPut(place)
    PROVE  HereBeside'
<1>1. /\ job # "none" /\ step \notin {"make", "end"} /\ Cardinality(theirs) < MaxOthers /\ beside[place] = None
      /\ theirs' = theirs \cup {place} /\ tree' = tree /\ job' = job /\ step' = step /\ folder' = folder
      /\ balked' = balked /\ chosen' = chosen /\ content' = content /\ seized' = seized /\ dest' = dest
      /\ beside' = [beside EXCEPT ![place] = "foreign"]
 BY DEF OthersPut, vars, looked
<1>2. Asked /\ Beside(job, step, beside, folder, chosen, content, theirs, seized, balked, told, dest, walk)
 BY HereNow
<1>3. Placed(beside, theirs) /\ balked \in BOOLEAN /\ (balked = FALSE => seized = None)
 BY <1>1, <1>2 DEF Beside
<1>4. place \in Places /\ None \notin {"made", "foreign"} BY <1>2, HereConstants
<1> DEFINE b2 == beside'
<1>5. b2 = With(beside, place, "foreign") BY <1>1 DEF With
<1> HIDE DEF b2
<1>6. Placed(b2, theirs \cup {place}) /\ b2[place] = "foreign" /\ \A q \in Places : q # place => b2[q] = beside[q]
 BY <1>1, <1>2, <1>3, <1>4, <1>5, PutForeign
<1>7. \A h : OneFolder(beside, h) => OneFolder(b2, h)
 <2> TAKE h
 <2> HAVE OneFolder(beside, h)
 <2>1. h # place BY <1>1, <1>4 DEF OneFolder
 <2> QED BY <1>6, <2>1 DEF OneFolder
<1>8. \A q \in theirs' \ {seized} : b2[q] = "foreign" BY <1>1, <1>6, PlacedKeeps
<1>9. \A q \in Places : beside[q] # None => b2[q] = beside[q] BY <1>1, <1>6
<1>10. step \in {"extract", "copy", "move"} => OneFolder(b2, folder) /\ balked = FALSE
 BY <1>2, <1>1, <1>7 DEF Beside
<1>11. step = "rename" => Renaming(b2, folder, chosen, balked, dest)
 BY <1>1, <1>2, <1>7 DEF Beside, Renaming
<1>12. ASSUME step = "look" PROVE Looking(b2, folder, balked, dest)
 <2>1. Looking(beside, folder, balked, dest) BY <1>1, <1>2, <1>12 DEF Beside
 <2> QED BY <2>1, <1>4, <1>7, <1>9 DEF Looking
<1>13. ASSUME step = "unwrap" PROVE Unwrapping(b2, folder, chosen, content, seized, balked, dest)
 <2>1. Unwrapping(beside, folder, chosen, content, seized, balked, dest) BY <1>1, <1>2, <1>13 DEF Beside
 <2>2. b2[folder] = beside[folder] BY <2>1, <1>4, <1>9 DEF Unwrapping
 <2> QED BY <2>1, <2>2, <1>7 DEF Unwrapping
<1>14. Beside(job', step', b2, folder', chosen', content', theirs', seized', balked', told', dest', walk')
 BY <1>1, <1>3, <1>6, <1>8, <1>10, <1>11, <1>12, <1>13 DEF Beside
<1> QED BY <1>1, <1>14, HereBesidePrimed DEF b2

\* The place that is chosen for the folder is free, and is not its own.
LEMMA LookInsideBeside ==
    ASSUME HereInv, NEW read \in SUBSET TopLevel, LookInside(read)
    PROVE  HereBeside'
<1> DEFINE unique == get_dir_content_if_unique(read)
           place == get_alternative_uri_for_uri(Taken, folder)
<1>1. /\ step = "move" /\ UNCHANGED vars /\ job' = job /\ theirs' = theirs /\ beside' = beside /\ folder' = folder
      /\ seized' = seized /\ balked' = (balked \/ read # TopLevel)
      /\ IF unique = None THEN step' = "end" ELSE step' = "rename" /\ chosen' = place
 BY DEF LookInside
<1>2. tree' = tree /\ told' = told /\ dest' = dest /\ walk' = walk BY <1>1 DEF vars
<1>3. GioInv /\ Asked /\ op.name = "copy" /\ told = "ok" /\ job # "none" BY <1>1, HereNow DEF MoveHere
<1>4. Placed(beside, theirs) /\ OneFolder(beside, folder) /\ balked = FALSE /\ seized = None
 BY <1>1, <1>3, HereNow DEF Beside
<1>5. place \in Places /\ beside[place] = None
 <2>1. folder \in Places /\ folder[1] \in Names BY <1>4 DEF OneFolder, Places
 <2> QED BY <1>3, <1>4, <2>1, FolderFindsPlace DEF get_alternative_uri_for_uri, Taken, Occupied
<1> HIDE DEF place
<1>6. balked' \in BOOLEAN /\ (balked' = FALSE => read = TopLevel) BY <1>1, <1>4
<1>7. \A q \in theirs \ {seized} : beside[q] = "foreign" BY <1>4, PlacedKeeps
<1>8. TopLevel = Top(dest) BY DEF TopLevel, Top
<1>9. (unique # None => Cardinality(read) = 1) /\ (unique = None => Cardinality(read) # 1)
 BY <1>3, UniqueContent
<1> HIDE DEF unique
<1>10. CASE unique = None
 <2>1. Ours(beside) = {folder} /\ Ours(beside) # {} BY <1>3, <1>4, OursIs
 <2>2. Ended(beside, folder, told, dest, balked', walk) BY <1>3, <1>6, <1>8, <1>9, <1>10, <2>1 DEF Ended
 <2>3. Beside(job', step', beside', folder', chosen', content', theirs', seized', balked', told', dest', walk')
  BY <1>1, <1>2, <1>4, <1>6, <1>7, <1>10, <2>2 DEF Beside
 <2> QED BY <1>2, <2>3, HereBesidePrimed
<1>11. CASE unique # None
 <2>1. place # folder BY <1>3, <1>4, <1>5, HereConstants DEF OneFolder
 <2>2. Renaming(beside, folder, place, balked', dest)
  BY <1>4, <1>5, <1>6, <1>8, <1>9, <1>11, <2>1 DEF Renaming
 <2>3. Beside(job', step', beside', folder', chosen', content', theirs', seized', balked', told', dest', walk')
  BY <1>1, <1>2, <1>4, <1>6, <1>7, <1>11, <2>2 DEF Beside
 <2> QED BY <1>2, <2>3, HereBesidePrimed
<1> QED BY <1>10, <1>11

\* The folder is given another name.
LEMMA Renamed ==
    ASSUME Asked, NEW b, NEW o, NEW f, Placed(b, o), OneFolder(b, f),
           NEW place \in Places, b[place] = None
    PROVE  /\ Placed(With(With(b, f, None), place, "made"), o)
           /\ OneFolder(With(With(b, f, None), place, "made"), place)
<1> DEFINE c == With(b, f, None)
<1>1. f \in Places /\ b[f] = "made" /\ f # place /\ None \notin {"made", "foreign"}
 BY HereConstants DEF OneFolder
<1>2. Placed(c, o) /\ c[f] = None /\ \A q \in Places : q # f => c[q] = b[q] BY <1>1, PutOurs
<1> HIDE DEF c
<1> DEFINE d == With(c, place, "made")
<1>3. Placed(d, o) /\ d[place] = "made" /\ \A q \in Places : q # place => d[q] = c[q]
 BY <1>1, <1>2, PutOurs
<1> HIDE DEF d
<1>4. OneFolder(d, place) BY <1>1, <1>2, <1>3 DEF OneFolder
<1> QED BY <1>3, <1>4 DEF c, d

LEMMA RenameBeside ==
    ASSUME HereInv, NEW ok \in BOOLEAN, Rename(ok)
    PROVE  HereBeside'
<1> DEFINE renamed == ok /\ beside[chosen] = None
           at == With(With(beside, folder, None), chosen, "made")
<1>1. /\ step = "rename" /\ step' = "look" /\ UNCHANGED vars /\ job' = job /\ theirs' = theirs /\ folder' = chosen
      /\ seized' = seized /\ balked' = (balked \/ ~renamed)
      /\ beside' = IF renamed THEN at ELSE beside
 BY DEF Rename, looked, With
<1>2. tree' = tree /\ told' = told /\ dest' = dest /\ walk' = walk BY <1>1 DEF vars
<1>3. Asked /\ job # "none" BY <1>1, HereNow DEF MoveHere
<1>4. /\ Placed(beside, theirs) /\ Renaming(beside, folder, chosen, balked, dest) /\ balked \in BOOLEAN
      /\ balked = FALSE => seized = None
 BY <1>1, <1>3, HereNow DEF Beside
<1>5. OneFolder(beside, folder) /\ chosen \in Places /\ (balked = FALSE => Cardinality(Top(dest)) = 1)
 BY <1>4 DEF Renaming
<1>6. balked' \in BOOLEAN /\ (balked' = FALSE => balked = FALSE /\ renamed) BY <1>1, <1>4
<1>7. Placed(beside', theirs) /\ Looking(beside', chosen, balked', dest)
 <2>1. CASE renamed
  <3> DEFINE b2 == beside'
  <3>1. Placed(b2, theirs) /\ OneFolder(b2, chosen) BY <2>1, <1>1, <1>3, <1>4, <1>5, Renamed
  <3> HIDE DEF b2
  <3>2. Looking(b2, chosen, balked', dest) BY <3>1, <1>5, <1>6 DEF Looking, OneFolder
  <3> QED BY <3>1, <3>2 DEF b2
 <2>2. CASE ~renamed BY <2>2, <1>1, <1>4, <1>5, <1>6 DEF Looking
 <2> QED BY <2>1, <2>2
<1> HIDE DEF renamed, at
<1>8. \A q \in theirs \ {seized} : beside'[q] = "foreign" BY <1>7, PlacedKeeps
<1>9. Beside(job', step', beside', folder', chosen', content', theirs', seized', balked', told', dest', walk')
 BY <1>1, <1>2, <1>4, <1>6, <1>7, <1>8 DEF Beside
<1> QED BY <1>2, <1>9, HereBesidePrimed

\* What has the name now is looked into, whether it is the folder or not.
LEMMA LookAgainBeside ==
    ASSUME HereInv, NEW again \in SUBSET TopLevel, NEW name \in Names \cup {None}, LookAgain(again, name)
    PROVE  HereBeside'
<1> DEFINE unique == get_dir_content_if_unique(again)
           found == CASE beside[folder] = "made" -> unique
                      [] beside[folder] = "foreign" -> name
                      [] beside[folder] \notin {"made", "foreign"} -> None
           place == get_alternative_uri(Taken, found)
<1>1. /\ step = "look" /\ UNCHANGED vars /\ job' = job /\ theirs' = theirs /\ beside' = beside /\ folder' = folder
      /\ balked' = (balked \/ again # TopLevel)
      /\ IF found = None THEN step' = "end" /\ seized' = seized
         ELSE /\ step' = "unwrap" /\ content' = found /\ chosen' = place
              /\ seized' = IF beside[folder] = "foreign" THEN folder ELSE None
 BY DEF LookAgain, looked
<1>2. tree' = tree /\ told' = told /\ dest' = dest /\ walk' = walk BY <1>1 DEF vars
<1>3. GioInv /\ Asked /\ op.name = "copy" /\ told = "ok" /\ job # "none" BY <1>1, HereNow DEF MoveHere
<1>4. /\ Placed(beside, theirs) /\ Looking(beside, folder, balked, dest) /\ balked \in BOOLEAN
      /\ balked = FALSE => seized = None
 BY <1>1, <1>3, HereNow DEF Beside
<1>5. PICK h : OneFolder(beside, h) BY <1>4 DEF Looking
<1>6. folder \in Places /\ (balked = FALSE => beside[folder] = "made" /\ Cardinality(Top(dest)) = 1)
 BY <1>4 DEF Looking
<1>7. balked' \in BOOLEAN /\ (balked' = FALSE => balked = FALSE /\ again = TopLevel) BY <1>1, <1>4
<1>8. TopLevel = Top(dest) BY DEF TopLevel, Top
<1>9. /\ unique # None => again = {<< unique >>} /\ unique \in Inodes /\ unique \in Names
      /\ unique = None => Cardinality(again) # 1
 BY <1>3, UniqueContent
<1> HIDE DEF unique
<1>10. \A q \in theirs \ {seized'} : beside[q] = "foreign" BY <1>4, PlacedKeeps
<1>11. CASE found = None
 <2>1. Ours(beside) # {} BY <1>3, <1>5, OursIs
 <2>2. balked' # FALSE BY <1>6, <1>7, <1>8, <1>9, <1>11
 <2>3. Ended(beside, folder, told, dest, balked', walk) BY <1>3, <2>1, <2>2 DEF Ended
 <2>4. Beside(job', step', beside', folder', chosen', content', theirs', seized', balked', told', dest', walk')
  BY <1>1, <1>2, <1>4, <1>7, <1>10, <1>11, <2>2, <2>3 DEF Beside
 <2> QED BY <1>2, <2>4, HereBesidePrimed
<1>12. CASE found # None
 <2>1. /\ beside[folder] \in {"made", "foreign"} /\ found \in Names
       /\ beside[folder] = "made" => found = unique
  BY <1>9, <1>12
 <2>2. place \in Places /\ beside[place] = None
  <3> QED BY <1>3, <1>4, <1>5, <2>1, FolderFindsPlace DEF Taken, Occupied
 <2> HIDE DEF place, found
 <2>3. place # folder /\ place # h BY <1>3, <1>5, <2>1, <2>2, HereConstants DEF OneFolder
 <2>4. beside[folder] = "made" => found \in Inodes /\ again = {<< found >>} BY <1>9, <1>12, <2>1
 <2>5. balked' = FALSE => beside[folder] = "made" /\ Top(dest) = {<< found >>} BY <1>6, <1>7, <1>8, <2>4
 <2>6. seized' = (IF beside[folder] = "foreign" THEN folder ELSE None) BY <1>1, <1>12
 <2>7. beside[folder] = "foreign" => seized' = folder BY <2>6
 <2>8. balked' = FALSE => seized' = None BY <2>5, <2>6
 <2>9. Unwrapping(beside, folder, place, found, seized', balked', dest)
  BY <1>5, <1>6, <2>1, <2>2, <2>3, <2>4, <2>5, <2>7 DEF Unwrapping
 <2>10. Beside(job', step', beside', folder', chosen', content', theirs', seized', balked', told', dest', walk')
  BY <1>1, <1>2, <1>4, <1>7, <1>10, <1>12, <2>8, <2>9 DEF Beside
 <2> QED BY <1>2, <2>10, HereBesidePrimed
<1> QED BY <1>11, <1>12

\* The one thing that was found is moved out, and what has the name is deleted, or not.
LEMMA UnwrapBeside ==
    ASSUME HereInv, NEW moved \in BOOLEAN, NEW removed \in BOOLEAN, Unwrap(moved, removed)
    PROVE  HereBeside'
<1> DEFINE made == beside[folder] = "made"
           out == moved /\ beside[chosen] = None
           emptied == out /\ removed /\ (made => TopLevel = {<< content >>})
           v == IF ~out THEN beside[chosen] ELSE IF made THEN content ELSE "foreign"
           u == IF emptied THEN None ELSE IF made \/ ~out THEN beside[folder] ELSE "robbed"
           b2 == beside'
<1>1. /\ step = "unwrap" /\ step' = "end" /\ UNCHANGED vars /\ job' = job /\ theirs' = theirs /\ folder' = chosen
      /\ seized' = seized /\ balked' = (balked \/ ~out \/ ~removed)
      /\ beside' = [beside EXCEPT ![chosen] = IF ~out THEN @ ELSE IF made THEN content ELSE "foreign",
                                  ![folder] = IF emptied THEN None ELSE IF made \/ ~out THEN @ ELSE "robbed"]
 BY DEF Unwrap, looked
<1>2. tree' = tree /\ told' = told /\ dest' = dest /\ walk' = walk BY <1>1 DEF vars
<1>3. Asked /\ told = "ok" /\ job # "none" BY <1>1, HereNow DEF MoveHere
<1>4. /\ Placed(beside, theirs) /\ Unwrapping(beside, folder, chosen, content, seized, balked, dest)
      /\ balked \in BOOLEAN /\ (balked = FALSE => seized = None)
 BY <1>1, <1>3, HereNow DEF Beside
<1>5. PICK h : OneFolder(beside, h) /\ chosen # h BY <1>4 DEF Unwrapping
<1>6. /\ folder \in Places /\ chosen \in Places /\ chosen # folder /\ beside[folder] \in {"made", "foreign"}
      /\ made => content \in Inodes
      /\ balked = FALSE => made /\ Top(dest) = {<< content >>}
      /\ beside[folder] = "foreign" => seized = folder
 BY <1>4 DEF Unwrapping
<1>7. b2[chosen] = v /\ b2[folder] = u /\ \A q \in Places : q \notin {chosen, folder} => b2[q] = beside[q]
 <2>1. beside \in [Places -> {None, "made", "foreign"}] BY <1>4 DEF Placed
 <2>2. beside' = [[beside EXCEPT ![chosen] = v] EXCEPT ![folder] = u] BY <1>1, <1>6, <2>1
 <2> HIDE DEF v, u
 <2> QED BY <1>6, <2>1, <2>2
<1> HIDE DEF b2
<1>8. balked' \in BOOLEAN /\ (balked' = FALSE => balked = FALSE /\ out /\ removed) BY <1>1, <1>4
<1>9. None \notin {"made", "foreign"} /\ "made" \notin Inodes BY <1>3, HereConstants
<1>10. TopLevel = Top(dest) BY DEF TopLevel, Top
<1>11. \A q \in theirs \ {seized} : b2[q] = "foreign"
 <2> TAKE q \in theirs \ {seized}
 <2>1. q \in Places /\ beside[q] = "foreign" BY <1>4 DEF Placed, Foreign
 <2>2. q # folder
  <3>1. beside[folder] = "foreign" => q # folder BY <1>6
  <3> QED BY <2>1, <3>1
 <2>3. q = chosen => v = "foreign" BY <2>1, <1>9
 <2> QED BY <2>1, <2>2, <2>3, <1>7
<1>12. ~emptied \/ ~made => Ours(b2) # {}
 <2>1. CASE made /\ ~emptied
  <3>1. u = "made" BY <2>1
  <3> QED BY <3>1, <1>6, <1>7 DEF Ours
 <2>2. CASE ~made
  <3>1. h \in Places /\ beside[h] = "made" /\ h \notin {chosen, folder} BY <2>2, <1>5 DEF OneFolder
  <3>2. b2[h] = "made" BY <3>1, <1>7
  <3> QED BY <3>1, <3>2 DEF Ours
 <2> QED BY <2>1, <2>2
<1>13. ASSUME emptied, made
       PROVE  Ours(b2) = {} /\ b2[chosen] = content /\ Top(dest) = {<< content >>}
 <2>1. v = content /\ u = None /\ content \in Inodes BY <1>6, <1>13
 <2>2. h = folder BY <1>6, <1>9, <1>13, <1>5 DEF OneFolder
 <2>3. \A q \in Places : b2[q] # "made"
  <3> TAKE q \in Places
  <3>1. CASE q = folder BY <3>1, <2>1, <1>7, <1>9
  <3>2. CASE q = chosen BY <3>2, <2>1, <1>7, <1>9
  <3>3. CASE q \notin {chosen, folder}
   <4>1. b2[q] = beside[q] /\ beside[q] \in {None, "foreign"} BY <3>3, <2>2, <1>5, <1>7 DEF OneFolder
   <4> QED BY <4>1, <1>9
  <3> QED BY <3>1, <3>2, <3>3
 <2> QED BY <2>1, <2>3, <1>7, <1>10, <1>13 DEF Ours
<1>14. Ended(b2, chosen, told, dest, balked', walk)
 <2>1. \A path \in Top(dest) : Ours(b2) # {} \/ \E place \in Places : b2[place] = Last(path)
  <3>1. CASE emptied /\ made
   <4>1. \A path \in Top(dest) : path = << content >> BY <3>1, <1>13
   <4>2. Last(<< content >>) = content BY DEF Last
   <4> QED BY <3>1, <4>1, <4>2, <1>6, <1>13
  <3> QED BY <3>1, <1>12
 <2>2. balked' = FALSE => Ours(b2) = {} /\ Cardinality(Top(dest)) = 1 /\ Top(dest) = {<< b2[chosen] >>}
  <3> SUFFICES ASSUME balked' = FALSE
               PROVE  Ours(b2) = {} /\ Cardinality(Top(dest)) = 1 /\ Top(dest) = {<< b2[chosen] >>}
   OBVIOUS
  <3>1. made /\ out /\ removed /\ Top(dest) = {<< content >>} BY <1>6, <1>8
  <3>2. emptied BY <3>1, <1>10
  <3>3. Cardinality({<< content >>}) = 1 BY FS_Singleton
  <3> QED BY <3>1, <3>2, <3>3, <1>13
 <2> QED BY <2>1, <2>2, <1>3 DEF Ended
<1>15. Beside(job', step', b2, folder', chosen', content', theirs', seized', balked', told', dest', walk')
 BY <1>1, <1>2, <1>4, <1>8, <1>11, <1>14 DEF Beside
<1> QED BY <1>2, <1>15, HereBesidePrimed DEF b2

LEMMA HereStepKeeps ==
    ASSUME HereInv, [HereNext]_here_vars
    PROVE  HereInv'
<1>1. HereControl' BY HereControlled DEF HereInv
<1>2. CASE UNCHANGED here_vars
 <2>1. /\ tree' = tree /\ job' = job /\ step' = step /\ beside' = beside /\ folder' = folder /\ theirs' = theirs
       /\ balked' = balked /\ told' = told /\ dest' = dest /\ walk' = walk
       /\ chosen' = chosen /\ content' = content /\ seized' = seized
  BY <1>2 DEF here_vars, vars, looked
 <2>2. HereBeside' BY <2>1, HereBesidePrimed DEF HereInv, HereBeside
 <2> QED BY <1>1, <2>2 DEF HereInv
<1>3. CASE Extracted BY <1>1, <1>3, ExtractedBeside DEF HereInv
<1>4. CASE Copies BY <1>1, <1>4, CopiesBeside DEF HereInv
<1>5. CASE \E ok \in BOOLEAN : \/ MakeFolder(ok) \/ NotExtracted(ok) \/ Rename(ok)
                               \/ \E removed \in BOOLEAN : Unwrap(ok, removed)
 BY <1>1, <1>5, MakeFolderBeside, NotExtractedBeside, RenameBeside, UnwrapBeside DEF HereInv
<1>6. CASE \E read \in SUBSET TopLevel : LookInside(read) \/ \E name \in Names \cup {None} : LookAgain(read, name)
 BY <1>1, <1>6, LookInsideBeside, LookAgainBeside DEF HereInv
<1>7. CASE \E place \in Names \X (1..2) : OthersPut(place)
 BY <1>1, <1>7, OthersPutBeside DEF HereInv
<1> QED BY <1>2, <1>3, <1>4, <1>5, <1>6, <1>7 DEF HereNext, HereStep

LEMMA HereStarts ==
    ASSUME HereInit
    PROVE  HereInv
<1>1. HereControl BY HereBegins
<1>2. Asked BY <1>1, NowTyped DEF HereControl
<1> SUFFICES ASSUME job # "none" PROVE HereBeside BY <1>1 DEF HereInv, HereBeside, Beside
<1>3. PICK taken \in SUBSET (Names \X {1}) :
        /\ Cardinality(taken) <= MaxOthers
        /\ beside = [place \in Places |-> IF place \in taken THEN "foreign" ELSE None]
        /\ theirs = taken
 BY DEF HereInit
<1>4. step = "make" /\ balked = FALSE /\ seized = None BY DEF HereInit
<1>5. None \notin {"made", "foreign"} /\ Names \X {1} \subseteq Places BY <1>2, HereConstants
<1>6. Foreign(beside) = taken BY <1>3, <1>5 DEF Foreign
<1>7. Placed(beside, theirs) BY <1>3, <1>5, <1>6 DEF Placed
<1>8. \A place \in Places : beside[place] \in {None, "foreign"} BY <1>3
<1>9. \A place \in theirs \ {seized} : beside[place] = "foreign" BY <1>7, PlacedKeeps
<1> QED BY <1>4, <1>7, <1>8, <1>9 DEF HereBeside, Beside

\* "Extract here" leaves what others put beside the archive as it is, at every step of
\* theirs and of its own, loses nothing that was extracted, and what it tells for its place
\* is its place, unless the file system refused something (get_extract_here_destination,
\* move_here).  One place of others is not left as it is: the name that was chosen for our
\* folder, when a program puts a folder there before ours is moved, which then fails and
\* is not looked at: of that folder the only thing in it is moved out.
THEOREM ExtractsHereUnless == HereSpec => []ExtractedHereUnless
<1>1. HereInit => HereInv BY HereStarts
<1>2. HereInv /\ [HereNext]_here_vars => HereInv' BY HereStepKeeps
<1>3. ASSUME HereInv PROVE ExtractedHereUnless
 <2> SUFFICES ASSUME job # "none" PROVE ExtractedHereUnless BY DEF ExtractedHereUnless
 <2>1. Asked /\ Beside(job, step, beside, folder, chosen, content, theirs, seized, balked, told, dest, walk)
  BY <1>3, HereNow
 <2>2. Made = Ours(beside) /\ TopLevel = Top(dest) BY DEF Made, Ours, TopLevel, Top
 <2>3. /\ balked \in BOOLEAN /\ (balked = FALSE => seized = None)
       /\ \A place \in theirs \ {seized} : beside[place] = "foreign"
       /\ step = "end" => Ended(beside, folder, told, dest, balked, walk)
  BY <2>1 DEF Beside
 <2>4. told = "ok" => \A path \in TopLevel : Kept(path)
  <3> SUFFICES ASSUME told = "ok", step # "end" PROVE Made # {}
   BY <2>2, <2>3 DEF Ended, Kept
  <3>1. HereControl BY <1>3 DEF HereInv
  <3>2. step \in {"copy"} \cup MoveHere BY <1>3, <3>1, HereNow DEF HereControl
  <3>3. \E h : OneFolder(beside, h)
   BY <2>1, <3>2 DEF Beside, MoveHere, Renaming, Looking, Unwrapping
  <3> QED BY <2>1, <2>2, <3>3, OursIs
 <2>5. step = "end" /\ told = "ok" /\ ~balked =>
         IF Cardinality(TopLevel) = 1 THEN TopLevel = {<< beside[folder] >>} /\ Made = {} ELSE Made = {folder}
  BY <2>2, <2>3 DEF Ended
 <2>6. step = "end" /\ told = "error" /\ ~balked => Made = {} \/ walk.error
  BY <2>2, <2>3 DEF Ended
 <2> QED BY <2>3, <2>4, <2>5, <2>6 DEF ExtractedHereUnless
<1> QED BY <1>1, <1>2, <1>3, PTL DEF HereSpec
====
