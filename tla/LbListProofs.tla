--------------------------- MODULE LbListProofs ---------------------------
(***************************************************************************)
(* Lemmas about the operators of LbRules, for any end-points and limits:   *)
(* what sorting, picking and getLBConsolidatedEPs return (Outcome), and    *)
(* what dropping and taking references does to the count of a host         *)
(* (CountLemma).                                                           *)
(***************************************************************************)
EXTENDS LbRules, FiniteSetTheorems, TLAPS

\* A set of numbers that is not empty has a least one.
LEMMA Least ==
  ASSUME NEW T, T \subseteq Nat, T # {}
  PROVE  \E x \in T : \A y \in T : x <= y
<1> DEFINE R == OpToRel(<, Nat)
<1>1. IsWellFoundedOn(R, Nat)
  BY NatLessThanWellFounded
<1>2. \A x, y \in Nat : x < y => <<x, y>> \in R
  BY DEF OpToRel
<1> HIDE DEF R
<1>3. PICK x \in T : \A y \in T : ~ (<<y, x>> \in R)
  BY <1>1, WFMin
<1>4. \A y \in T : ~ (y < x)
  BY <1>2, <1>3
<1> QED BY <1>4

Ascending(f) == \A i, j \in DOMAIN f : i < j => f[i] < f[j]

\* A finite set of numbers can be listed in ascending order.
LEMMA SortedExists ==
  ASSUME NEW S \in SUBSET Nat, IsFiniteSet(S)
  PROVE  \E f \in [1 .. Cardinality(S) -> S] : Ascending(f)
<1> DEFINE Bad == {n \in Nat : \E U \in SUBSET Nat :
                     /\ IsFiniteSet(U) /\ Cardinality(U) = n
                     /\ ~ \E f \in [1 .. n -> U] : Ascending(f)}
<1>1. SUFFICES ASSUME Bad # {} PROVE FALSE
  <2>1. Cardinality(S) \in Nat
    BY FS_CardinalityType
  <2>2. Cardinality(S) \notin Bad
    BY <1>1
  <2> QED BY <2>1, <2>2
<1>2. PICK n \in Bad : \A m \in Bad : n <= m
  BY <1>1, Least
<1>3. PICK U \in SUBSET Nat : /\ IsFiniteSet(U) /\ Cardinality(U) = n
                              /\ ~ \E f \in [1 .. n -> U] : Ascending(f)
  BY <1>2
<1>4. n \in Nat
  BY <1>2
<1>5. n # 0
  <2> SUFFICES ASSUME n = 0 PROVE FALSE
    OBVIOUS
  <2>1. [i \in 1 .. 0 |-> 0] \in [1 .. 0 -> U] /\ Ascending([i \in 1 .. 0 |-> 0])
    BY DEF Ascending
  <2> QED BY <1>3, <2>1
<1>6. U # {}
  BY <1>3, <1>5, FS_EmptySet
<1>7. PICK m \in U : \A y \in U : m <= y
  BY <1>6, Least
<1> DEFINE V == U \ {m}
<1>8. IsFiniteSet(V) /\ Cardinality(V) = n - 1 /\ V \in SUBSET Nat
  BY <1>3, <1>4, FS_RemoveElement
<1>9. n - 1 \in Nat /\ n - 1 \notin Bad
  BY <1>2, <1>4, <1>5
<1>10. PICK g \in [1 .. n - 1 -> V] : Ascending(g)
  BY <1>8, <1>9
<1> DEFINE f == [i \in 1 .. n |-> IF i = 1 THEN m ELSE g[i - 1]]
<1>11. \A i \in 1 .. n : i # 1 => i - 1 \in 1 .. n - 1
  BY <1>4
<1>12. f \in [1 .. n -> U]
  BY <1>10, <1>11
<1>13. ASSUME NEW i \in 1 .. n, NEW j \in 1 .. n, i < j PROVE f[i] < f[j]
  <2>1. j # 1 /\ j - 1 \in 1 .. n - 1 /\ f[j] = g[j - 1]
    BY <1>4, <1>11, <1>13
  <2>2. CASE i = 1
    <3>1. f[i] = m /\ g[j - 1] \in V
      BY <2>1, <2>2, <1>10
    <3>2. m \in Nat /\ g[j - 1] \in Nat /\ m <= g[j - 1] /\ g[j - 1] # m
      BY <3>1, <1>7
    <3> QED BY <2>1, <3>1, <3>2
  <2>3. CASE i # 1
    <3>1. i - 1 \in 1 .. n - 1 /\ f[i] = g[i - 1] /\ i - 1 < j - 1
      BY <1>4, <1>11, <1>13, <2>3
    <3> QED BY <2>1, <3>1, <1>10 DEF Ascending
  <2> QED BY <2>2, <2>3
<1>14. Ascending(f)
  BY <1>13 DEF Ascending
<1> QED BY <1>3, <1>12, <1>14

\* What Sorted gives: the members of the set, each once.
LEMMA SortedLemma ==
  ASSUME NEW S \in SUBSET Nat, IsFiniteSet(S)
  PROVE  /\ Cardinality(S) \in Nat /\ Sorted(S) \in [1 .. Cardinality(S) -> S]
         /\ \A i, j \in 1 .. Cardinality(S) : i < j => Sorted(S)[i] < Sorted(S)[j]
         /\ \A i, j \in 1 .. Cardinality(S) : Sorted(S)[i] = Sorted(S)[j] => i = j
         /\ \A e \in S : \E i \in 1 .. Cardinality(S) : Sorted(S)[i] = e
<1> DEFINE n == Cardinality(S)
<1>1. n \in Nat
  BY FS_CardinalityType
<1>2. \E f \in [1 .. n -> S] : \A i, j \in DOMAIN f : i < j => f[i] < f[j]
  BY SortedExists DEF Ascending
<1>3. Sorted(S) \in [1 .. n -> S]
      /\ \A i, j \in DOMAIN Sorted(S) : i < j => Sorted(S)[i] < Sorted(S)[j]
  BY <1>2 DEF Sorted
<1> DEFINE f == Sorted(S)
<1> HIDE DEF f, n
<1>4. f \in [1 .. n -> S] /\ \A i, j \in 1 .. n : i < j => f[i] < f[j]
  BY <1>3 DEF f
<1>5. \A i, j \in 1 .. n : f[i] = f[j] => i = j
  <2> SUFFICES ASSUME NEW i \in 1 .. n, NEW j \in 1 .. n, i # j PROVE f[i] # f[j]
    OBVIOUS
  <2>1. f[i] \in Nat /\ f[j] \in Nat
    BY <1>4
  <2>2. f[i] < f[j] \/ f[j] < f[i]
    <3>1. i < j \/ j < i
      BY <1>1
    <3> QED BY <1>4, <3>1
  <2> QED BY <2>1, <2>2
<1>6. f \in Surjection(1 .. n, S)
  <2>1. f \in Injection(1 .. n, S)
    BY <1>4, <1>5 DEF Injection, IsInjective
  <2>2. Cardinality(1 .. n) = n
    BY <1>1, FS_Interval
  <2> QED BY <2>1, <2>2, FS_Injection DEF n
<1>7. \A e \in S : \E i \in 1 .. n : f[i] = e
  BY <1>6 DEF Surjection
<1> QED BY <1>1, <1>4, <1>5, <1>7 DEF f, n
-----------------------------------------------------------------------------
(* End-point lists.                                                         *)

\* A list of end-points names each at most once.
ListOK(s) ==
  /\ s \in Seq(ruleLBEp)
  /\ \A i, j \in 1 .. Len(s) : s[i].ep = s[j].ep => i = j

\* What the arguments about references, health and order look at in an end-point.
Same(x, y) == x.ep = y.ep /\ x.epCreated = y.epCreated /\ x.noService = y.noService

\* The list s has the end-points of t, up to marks and retirement.
Rewritten(s, t) ==
  /\ s \in Seq(ruleLBEp) /\ Len(s) = Len(t)
  /\ \A i \in 1 .. Len(t) : Same(s[i], t[i])

\* A rewritten list is a list again.
LEMMA RewrittenLemma ==
  ASSUME NEW s, NEW t, ListOK(t), Rewritten(s, t)
  PROVE  ListOK(s)
BY DEF ListOK, Rewritten, Same

\* A list in which the records are replaced one by one.
LEMMA RewriteLemma ==
  ASSUME NEW t \in Seq(ruleLBEp), NEW s, DOMAIN s = DOMAIN t, s = [i \in DOMAIN t |-> s[i]],
         \A i \in 1 .. Len(t) : s[i] \in ruleLBEp /\ Same(s[i], t[i])
  PROVE  Rewritten(s, t)
<1>1. DOMAIN t = 1 .. Len(t) /\ Len(t) \in Nat
  OBVIOUS
<1>2. s \in Seq(ruleLBEp) /\ Len(s) = Len(t)
  BY <1>1
<1> QED BY <1>2 DEF Rewritten

\* The list AddLbRule makes of the end-points of a call.
LEMMA NewEpsLemma ==
  ASSUME NEW S \in SUBSET Ep, IsFiniteSet(S)
  PROVE  /\ ListOK(NewEps(S)) /\ Len(NewEps(S)) = Cardinality(S)
         /\ \A i \in 1 .. Len(NewEps(S)) : NewEps(S)[i].ep \in S /\ NewEps(S)[i] = NewEp(NewEps(S)[i].ep)
         /\ \A e \in S : \E i \in 1 .. Len(NewEps(S)) : NewEps(S)[i].ep = e
<1> DEFINE n == Cardinality(S)
           f == Sorted(S)
           s == NewEps(S)
<1>1. /\ n \in Nat /\ f \in [1 .. n -> S] /\ \A i, j \in 1 .. n : f[i] = f[j] => i = j
      /\ \A e \in S : \E i \in 1 .. n : f[i] = e
  BY SortedLemma, LbAssumption
<1>2. s = [i \in 1 .. n |-> NewEp(f[i])]
  BY <1>1 DEF NewEps
<1> HIDE DEF n, f, s
<1>3. \A i \in 1 .. n : s[i] = NewEp(f[i]) /\ s[i].ep = f[i] /\ f[i] \in S
  BY <1>1, <1>2 DEF NewEp
<1>4. \A i \in 1 .. n : s[i] \in ruleLBEp
  <2>1. \A e \in Ep : NewEp(e) \in ruleLBEp
    BY DEF NewEp, ruleLBEp
  <2> QED BY <1>3, <2>1
<1>5. s \in Seq(ruleLBEp) /\ Len(s) = n
  BY <1>1, <1>2, <1>4
<1>6. ListOK(s)
  BY <1>1, <1>3, <1>5 DEF ListOK
<1> QED BY <1>1, <1>3, <1>5, <1>6 DEF n, f, s

\* Setting or clearing the marks.
LEMMA SetMarkLemma ==
  ASSUME NEW s, ListOK(s), NEW b \in BOOLEAN
  PROVE  /\ Rewritten(SetMark(s, b), s)
         /\ \A i \in 1 .. Len(s) : SetMark(s, b)[i].inActiveEP = s[i].inActiveEP
                                   /\ SetMark(s, b)[i].chkVal = b
<1>1. s \in Seq(ruleLBEp) /\ DOMAIN s = 1 .. Len(s)
  BY DEF ListOK
<1>2. \A i \in 1 .. Len(s) : s[i] \in ruleLBEp
  BY <1>1
<1>3. \A i \in 1 .. Len(s) : SetMark(s, b)[i] = [s[i] EXCEPT !.chkVal = b]
  BY <1>1 DEF SetMark
<1>4. \A i \in 1 .. Len(s) :
        /\ SetMark(s, b)[i] \in ruleLBEp /\ Same(SetMark(s, b)[i], s[i])
        /\ SetMark(s, b)[i].inActiveEP = s[i].inActiveEP /\ SetMark(s, b)[i].chkVal = b
  BY <1>2, <1>3 DEF ruleLBEp, Same
<1>5. DOMAIN SetMark(s, b) = DOMAIN s /\ SetMark(s, b) = [i \in DOMAIN s |-> SetMark(s, b)[i]]
  BY DEF SetMark
<1> QED BY <1>1, <1>4, <1>5, RewriteLemma

\* The first loop of getLBConsolidatedEPs.
LEMMA MatchedLemma ==
  ASSUME NEW s, ListOK(s), NEW S, NEW op
  PROVE  /\ Rewritten(Matched(s, S, op), s)
         /\ \A i \in 1 .. Len(s) : s[i].ep \in S => Matched(s, S, op)[i].chkVal
<1> DEFINE t == Matched(s, S, op)
<1>1. s \in Seq(ruleLBEp) /\ DOMAIN s = 1 .. Len(s)
  BY DEF ListOK
<1>2. \A i \in 1 .. Len(s) : s[i] \in ruleLBEp
  BY <1>1
<1>3. \A i \in 1 .. Len(s) : t[i] = IF s[i].ep \in S
        THEN [s[i] EXCEPT !.inActiveEP = s[i].inActiveEP /\ op = "detach", !.chkVal = TRUE] ELSE s[i]
  BY <1>1 DEF Matched
<1>4. DOMAIN t = DOMAIN s /\ t = [i \in DOMAIN s |-> t[i]]
  BY DEF Matched
<1>5. ASSUME NEW i \in 1 .. Len(s)
      PROVE  t[i] \in ruleLBEp /\ Same(t[i], s[i]) /\ (s[i].ep \in S => t[i].chkVal)
  <2>1. CASE s[i].ep \in S
    <3> DEFINE b == s[i].inActiveEP /\ op = "detach"
    <3>1. b \in BOOLEAN
      OBVIOUS
    <3>2. t[i] = [s[i] EXCEPT !.inActiveEP = b, !.chkVal = TRUE]
      BY <1>3, <2>1
    <3> HIDE DEF b, t
    <3> QED BY <1>2, <3>1, <3>2 DEF ruleLBEp, Same
  <2>2. CASE s[i].ep \notin S
    BY <1>2, <1>3, <2>2 DEF Same
  <2> QED BY <2>1, <2>2
<1> HIDE DEF t
<1>6. Rewritten(t, s)
  BY <1>1, <1>4, <1>5, RewriteLemma
<1> QED BY <1>5, <1>6 DEF t

\* The new list keeps end-points of the old one in their order and in front.
Ordered(new, old) ==
  \A m, n \in DOMAIN new, j \in DOMAIN old :
    m < n /\ new[n].ep = old[j].ep => \E i \in DOMAIN old : i < j /\ new[m].ep = old[i].ep

\* A rewritten list is in order.
LEMMA OrderedLemma ==
  ASSUME NEW s, NEW t, ListOK(t), Rewritten(s, t)
  PROVE  Ordered(s, t)
<1>1. DOMAIN s = 1 .. Len(t) /\ DOMAIN t = 1 .. Len(t)
  BY DEF Rewritten, ListOK
<1> SUFFICES ASSUME NEW m \in 1 .. Len(t), NEW n \in 1 .. Len(t), NEW j \in 1 .. Len(t),
                    m < n, s[n].ep = t[j].ep
             PROVE  \E i \in 1 .. Len(t) : i < j /\ s[m].ep = t[i].ep
  BY <1>1 DEF Ordered
<1>2. n = j
  BY DEF ListOK, Rewritten, Same
<1>3. s[m].ep = t[m].ep
  BY DEF Rewritten, Same
<1> QED BY <1>2, <1>3

\* Picking positions out of a list.
LEMMA PickedLemma ==
  ASSUME NEW s, ListOK(s), NEW I \in SUBSET (1 .. Len(s))
  PROVE  /\ ListOK(Picked(s, I))
         /\ \A n \in 1 .. Len(Picked(s, I)) : Sorted(I)[n] \in I /\ Picked(s, I)[n] = s[Sorted(I)[n]]
         /\ \A m, n \in 1 .. Len(Picked(s, I)) : m < n => Sorted(I)[m] < Sorted(I)[n]
<1> DEFINE k == Cardinality(I)
           f == Sorted(I)
           p == Picked(s, I)
<1>1. s \in Seq(ruleLBEp) /\ Len(s) \in Nat
  BY DEF ListOK
<1>2. I \in SUBSET Nat /\ IsFiniteSet(I)
  <2>1. IsFiniteSet(1 .. Len(s))
    BY <1>1, FS_Interval
  <2>2. IsFiniteSet(I)
    BY <2>1, FS_Subset
  <2> QED BY <1>1, <2>2
<1>3. /\ k \in Nat /\ f \in [1 .. k -> I]
      /\ \A i, j \in 1 .. k : i < j => f[i] < f[j]
      /\ \A i, j \in 1 .. k : f[i] = f[j] => i = j
  BY <1>2, SortedLemma
<1>4. p = [j \in 1 .. k |-> s[f[j]]]
  BY <1>3 DEF Picked
<1> HIDE DEF k, f, p
<1>5. \A j \in 1 .. k : p[j] = s[f[j]] /\ f[j] \in I /\ f[j] \in 1 .. Len(s) /\ p[j] \in ruleLBEp
  <2>1. \A j \in 1 .. k : p[j] = s[f[j]] /\ f[j] \in I /\ f[j] \in 1 .. Len(s)
    BY <1>3, <1>4
  <2>2. \A i \in 1 .. Len(s) : s[i] \in ruleLBEp
    BY <1>1
  <2> QED BY <2>1, <2>2
<1>6. p \in Seq(ruleLBEp) /\ Len(p) = k
  BY <1>3, <1>4, <1>5
<1>7. ASSUME NEW i \in 1 .. k, NEW j \in 1 .. k, p[i].ep = p[j].ep PROVE i = j
  <2>1. f[i] = f[j]
    BY <1>5, <1>7 DEF ListOK
  <2> QED BY <1>3, <2>1
<1>8. ListOK(p)
  BY <1>6, <1>7 DEF ListOK
<1> QED BY <1>3, <1>5, <1>6, <1>8 DEF f, p

\* What becomes of the end-points of a rule: "ret" has old ones, and new ones
\* that hold no reference yet, each once and in order.  What is released is out of
\* the list, or retired in it, unless the call attaches end-points.
Outcome(c, old, S, op) ==
  /\ ListOK(c.ret) /\ Rewritten(c.left, old) /\ Ordered(c.ret, old)
  /\ \A n \in 1 .. Len(c.ret) :
       \/ \E i \in 1 .. Len(old) : Same(c.ret[n], old[i])
       \/ c.ret[n].ep \in S /\ ~ c.ret[n].epCreated /\ ~ c.ret[n].noService
  /\ \A x \in c.del : \E i \in 1 .. Len(old) : x.ep = old[i].ep /\ x.epCreated = old[i].epCreated
  /\ op # "attach" =>
       \A x \in c.del : \A n \in 1 .. Len(c.ret) : c.ret[n].ep = x.ep => c.ret[n].inActiveEP

\* A detach that finds something to remove.
LEMMA DetachLemma ==
  ASSUME NEW old, ListOK(old), NEW S, S \cap Eps(old) # {}, NEW moved
  PROVE  Outcome(getLBConsolidatedEPs(old, S, "detach", moved), old, S, "detach")
<1> DEFINE marked == Matched(old, S, "detach")
           I == {i \in DOMAIN marked : ~ marked[i].chkVal}
           c == getLBConsolidatedEPs(old, S, "detach", moved)
<1>1. /\ c.ret = Picked(marked, I) /\ c.del = {x \in Range(marked) : x.chkVal}
      /\ c.left = SetMark(marked, FALSE)
  BY DEF getLBConsolidatedEPs
<1>2. Rewritten(marked, old)
  BY MatchedLemma
<1> HIDE DEF marked, c
<1>3. ListOK(marked)
  BY <1>2, RewrittenLemma
<1>4. DOMAIN marked = 1 .. Len(marked) /\ Len(marked) = Len(old) /\ DOMAIN old = 1 .. Len(old)
  BY <1>2, <1>3 DEF ListOK, Rewritten
<1>5. /\ ListOK(c.ret)
      /\ \A n \in 1 .. Len(c.ret) : Sorted(I)[n] \in I /\ c.ret[n] = marked[Sorted(I)[n]]
      /\ \A m, n \in 1 .. Len(c.ret) : m < n => Sorted(I)[m] < Sorted(I)[n]
  BY <1>1, <1>3, <1>4, PickedLemma
<1>6. Rewritten(c.left, old)
  <2>1. Rewritten(c.left, marked)
    BY <1>1, <1>3, SetMarkLemma
  <2> QED BY <1>2, <2>1 DEF Rewritten, Same
<1>7. \A n \in 1 .. Len(c.ret) : Sorted(I)[n] \in 1 .. Len(old) /\ Same(c.ret[n], old[Sorted(I)[n]])
  BY <1>2, <1>4, <1>5 DEF Rewritten
<1>8. Ordered(c.ret, old)
  <2>1. DOMAIN c.ret = 1 .. Len(c.ret)
    BY <1>5 DEF ListOK
  <2> SUFFICES ASSUME NEW m \in 1 .. Len(c.ret), NEW n \in 1 .. Len(c.ret), NEW j \in 1 .. Len(old),
                      m < n, c.ret[n].ep = old[j].ep
               PROVE  \E i \in 1 .. Len(old) : i < j /\ c.ret[m].ep = old[i].ep
    BY <1>4, <2>1 DEF Ordered
  <2>2. Sorted(I)[n] = j
    BY <1>7 DEF ListOK, Same
  <2> QED BY <1>5, <1>7, <2>2 DEF Same
<1>9. ASSUME NEW x \in c.del
      PROVE  /\ \E i \in 1 .. Len(old) : x.ep = old[i].ep /\ x.epCreated = old[i].epCreated
             /\ \A n \in 1 .. Len(c.ret) : c.ret[n].ep # x.ep
  <2>1. PICK i \in 1 .. Len(old) : x = marked[i] /\ x.chkVal
    BY <1>1, <1>4 DEF Range
  <2>2. x.ep = old[i].ep /\ x.epCreated = old[i].epCreated
    BY <1>2, <2>1 DEF Rewritten, Same
  <2>3. ASSUME NEW n \in 1 .. Len(c.ret), c.ret[n].ep = x.ep PROVE FALSE
    <3>1. c.ret[n] = marked[Sorted(I)[n]] /\ Sorted(I)[n] \in I
      BY <1>5
    <3>2. Sorted(I)[n] = i
      BY <1>3, <1>4, <2>1, <2>3, <3>1 DEF ListOK
    <3> QED BY <2>1, <3>1, <3>2
  <2> QED BY <2>2, <2>3
<1> QED BY <1>5, <1>6, <1>7, <1>8, <1>9 DEF Outcome, c

\* An add or an attach.
LEMMA AttachLemma ==
  ASSUME NEW old, ListOK(old), NEW S \in SUBSET Ep, IsFiniteSet(S), NEW op \in {"add", "attach"},
         NEW moved \in BOOLEAN
  PROVE  Outcome(getLBConsolidatedEPs(old, S, op, moved), old, S, op)
<1> DEFINE marked == Matched(old, S, op)
           fresh == SetMark(NewEps(S \ Eps(old)), TRUE)
           both == marked \o fresh
           Retired(x) == op = "add" /\ ~ x.chkVal
           kept == [i \in DOMAIN both |-> [both[i] EXCEPT !.inActiveEP = @ \/ Retired(both[i]),
                                                          !.chkVal = FALSE]]
           c == getLBConsolidatedEPs(old, S, op, moved)
<1>1. /\ c.ret = kept /\ c.del = {x \in Range(marked) : ~ x.chkVal /\ ~ x.inActiveEP}
      /\ c.left = IF moved THEN marked ELSE SubSeq(kept, 1, Len(old))
  BY DEF getLBConsolidatedEPs
<1>2. Rewritten(marked, old) /\ ListOK(marked)
  BY MatchedLemma, RewrittenLemma
<1>3. /\ ListOK(fresh)
      /\ \A i \in 1 .. Len(fresh) : /\ fresh[i].ep \in S \ Eps(old) /\ fresh[i].chkVal
                                    /\ ~ fresh[i].epCreated /\ ~ fresh[i].noService
  <2> DEFINE N == NewEps(S \ Eps(old))
  <2>1. S \ Eps(old) \in SUBSET Ep /\ IsFiniteSet(S \ Eps(old))
    BY FS_Difference
  <2>2. ListOK(N) /\ \A i \in 1 .. Len(N) : N[i].ep \in S \ Eps(old) /\ N[i] = NewEp(N[i].ep)
    BY <2>1, NewEpsLemma
  <2>3. \A i \in 1 .. Len(N) : N[i].epCreated = FALSE /\ N[i].noService = FALSE
    <3>1. \A e : NewEp(e).epCreated = FALSE /\ NewEp(e).noService = FALSE
      BY DEF NewEp
    <3> HIDE DEF N
    <3> QED BY <2>2, <3>1
  <2> HIDE DEF N
  <2>4. Rewritten(SetMark(N, TRUE), N) /\ \A i \in 1 .. Len(N) : SetMark(N, TRUE)[i].chkVal = TRUE
    BY <2>2, SetMarkLemma
  <2>5. fresh = SetMark(N, TRUE) /\ Len(fresh) = Len(N) /\ ListOK(fresh)
    BY <2>2, <2>4, RewrittenLemma DEF N, Rewritten
  <2> QED BY <2>2, <2>3, <2>4, <2>5 DEF Rewritten, Same
<1> HIDE DEF marked, fresh, c
<1>4. /\ marked \in Seq(ruleLBEp) /\ fresh \in Seq(ruleLBEp) /\ Len(marked) = Len(old)
      /\ Len(marked) \in Nat /\ Len(fresh) \in Nat
  BY <1>2, <1>3 DEF ListOK, Rewritten
<1>5. /\ both \in Seq(ruleLBEp) /\ Len(both) = Len(old) + Len(fresh)
      /\ DOMAIN both = 1 .. Len(old) + Len(fresh)
      /\ \A i \in 1 .. Len(old) : both[i] = marked[i]
      /\ \A i \in 1 .. Len(old) + Len(fresh) : i > Len(old) =>
           i - Len(old) \in 1 .. Len(fresh) /\ both[i] = fresh[i - Len(old)]
  BY <1>4
<1> HIDE DEF both
<1> DEFINE L == Len(old) + Len(fresh)
<1>6. \A i \in 1 .. L : both[i] \in ruleLBEp
  BY <1>5
<1>7. ListOK(both)
  <2> SUFFICES ASSUME NEW i \in 1 .. L, NEW j \in 1 .. L, i # j PROVE both[i].ep # both[j].ep
    BY <1>5 DEF ListOK
  <2>1. \A k \in 1 .. L : k <= Len(old) => both[k].ep \in Eps(old)
    <3>1. \A k \in 1 .. Len(old) : marked[k].ep = old[k].ep
      BY <1>2 DEF Rewritten, Same
    <3>2. DOMAIN old = 1 .. Len(old)
      BY DEF ListOK
    <3>3. \A k \in 1 .. L : k <= Len(old) => k \in 1 .. Len(old)
      BY <1>4
    <3> QED BY <1>5, <3>1, <3>2, <3>3 DEF Eps
  <2>2. \A k \in 1 .. L : k > Len(old) => both[k].ep \notin Eps(old)
    BY <1>3, <1>5
  <2>3. CASE i <= Len(old) /\ j <= Len(old)
    BY <1>2, <1>4, <1>5, <2>3 DEF ListOK
  <2>4. CASE i > Len(old) /\ j > Len(old)
    <3>1. i - Len(old) # j - Len(old)
      BY <1>4
    <3>2. /\ i - Len(old) \in 1 .. Len(fresh) /\ both[i] = fresh[i - Len(old)]
          /\ j - Len(old) \in 1 .. Len(fresh) /\ both[j] = fresh[j - Len(old)]
      BY <1>5, <2>4
    <3> QED BY <1>3, <3>1, <3>2 DEF ListOK
  <2> QED BY <1>4, <2>1, <2>2, <2>3, <2>4
<1>8. Rewritten(kept, both) /\ \A i \in 1 .. L : op = "add" /\ ~ both[i].chkVal => kept[i].inActiveEP
  <2>1. \A i \in 1 .. L : kept[i] = [both[i] EXCEPT !.inActiveEP = both[i].inActiveEP \/ Retired(both[i]),
                                                    !.chkVal = FALSE]
    BY <1>5
  <2>2. DOMAIN kept = DOMAIN both /\ kept = [i \in DOMAIN both |-> kept[i]]
    OBVIOUS
  <2> HIDE DEF kept
  <2>3. ASSUME NEW i \in 1 .. L
        PROVE  /\ kept[i] \in ruleLBEp /\ Same(kept[i], both[i])
               /\ op = "add" /\ ~ both[i].chkVal => kept[i].inActiveEP
    <3> DEFINE b == both[i].inActiveEP \/ Retired(both[i])
    <3>1. b \in BOOLEAN
      OBVIOUS
    <3>2. kept[i] = [both[i] EXCEPT !.inActiveEP = b, !.chkVal = FALSE]
      BY <2>1
    <3>3. op = "add" /\ ~ both[i].chkVal => b
      OBVIOUS
    <3> HIDE DEF b
    <3>4. kept[i] \in ruleLBEp /\ Same(kept[i], both[i]) /\ kept[i].inActiveEP = b
      BY <1>6, <3>1, <3>2 DEF ruleLBEp, Same
    <3> QED BY <3>3, <3>4
  <2> QED BY <1>5, <2>2, <2>3, RewriteLemma
<1> HIDE DEF kept
<1>9. ListOK(c.ret) /\ Len(c.ret) = L
  BY <1>1, <1>5, <1>7, <1>8, RewrittenLemma DEF Rewritten
<1>10. /\ \A n \in 1 .. Len(old) : n \in 1 .. L /\ Same(c.ret[n], old[n])
       /\ \A n \in 1 .. L : n > Len(old) =>
            c.ret[n].ep \in S \ Eps(old) /\ ~ c.ret[n].epCreated /\ ~ c.ret[n].noService
  <2>1. \A n \in 1 .. L : Same(c.ret[n], both[n])
    BY <1>1, <1>5, <1>8 DEF Rewritten
  <2>2. \A n \in 1 .. Len(old) : n \in 1 .. L /\ Same(marked[n], old[n])
    BY <1>2, <1>4 DEF Rewritten
  <2>3. \A n \in 1 .. Len(old) : n \in 1 .. L /\ Same(c.ret[n], old[n])
    BY <1>5, <2>1, <2>2 DEF Same
  <2>4. ASSUME NEW n \in 1 .. L, n > Len(old)
        PROVE  c.ret[n].ep \in S \ Eps(old) /\ ~ c.ret[n].epCreated /\ ~ c.ret[n].noService
    <3>1. n - Len(old) \in 1 .. Len(fresh) /\ both[n] = fresh[n - Len(old)]
      BY <1>5, <2>4
    <3>2. both[n].ep \in S \ Eps(old) /\ ~ both[n].epCreated /\ ~ both[n].noService
      BY <1>3, <3>1
    <3>3. c.ret[n].ep = both[n].ep /\ c.ret[n].epCreated = both[n].epCreated
          /\ c.ret[n].noService = both[n].noService
      BY <2>1 DEF Same
    <3> QED BY <3>2, <3>3
  <2> QED BY <2>3, <2>4
<1>11. Rewritten(c.left, old)
  <2>1. CASE moved
    BY <1>1, <1>2, <2>1
  <2>2. CASE ~ moved
    <3>1. c.left = SubSeq(kept, 1, Len(old)) /\ kept \in Seq(ruleLBEp) /\ Len(kept) = L
      BY <1>1, <1>5, <1>8, <2>2 DEF Rewritten
    <3>2. Len(old) \in 0 .. Len(kept)
      BY <1>4, <3>1
    <3>3. c.left \in Seq(ruleLBEp) /\ Len(c.left) = Len(old) /\ \A i \in 1 .. Len(old) : c.left[i] = kept[i]
      BY <1>4, <3>1, <3>2
    <3> QED BY <1>1, <1>10, <3>3 DEF Rewritten
  <2> QED BY <2>1, <2>2
<1>12. Ordered(c.ret, old)
  <2>1. DOMAIN c.ret = 1 .. L /\ DOMAIN old = 1 .. Len(old)
    BY <1>9 DEF ListOK
  <2> SUFFICES ASSUME NEW m \in 1 .. L, NEW n \in 1 .. L, NEW j \in 1 .. Len(old),
                      m < n, c.ret[n].ep = old[j].ep
               PROVE  \E i \in 1 .. Len(old) : i < j /\ c.ret[m].ep = old[i].ep
    BY <2>1 DEF Ordered
  <2>2. old[j].ep \in Eps(old)
    BY <2>1 DEF Eps
  <2>3. n <= Len(old)
    BY <1>4, <1>10, <2>2
  <2>4. n \in 1 .. Len(old) /\ m \in 1 .. Len(old)
    BY <1>4, <2>3
  <2>5. n = j
    BY <1>10, <2>4 DEF ListOK, Same
  <2> QED BY <1>10, <2>4, <2>5 DEF Same
<1>13. ASSUME NEW x \in c.del
       PROVE  /\ \E i \in 1 .. Len(old) : x.ep = old[i].ep /\ x.epCreated = old[i].epCreated
              /\ op = "add" => \A n \in 1 .. L : c.ret[n].ep = x.ep => c.ret[n].inActiveEP
  <2>1. PICK i \in 1 .. Len(old) : x = marked[i] /\ ~ x.chkVal
    BY <1>1, <1>4 DEF Range
  <2>2. x.ep = old[i].ep /\ x.epCreated = old[i].epCreated
    BY <1>2, <2>1 DEF Rewritten, Same
  <2>3. ASSUME NEW n \in 1 .. L, c.ret[n].ep = x.ep, op = "add" PROVE c.ret[n].inActiveEP
    <3>1. both[i] = x /\ i \in 1 .. L /\ both[n].ep = x.ep
      BY <1>1, <1>4, <1>5, <1>8, <2>1, <2>3 DEF Rewritten, Same
    <3>2. n = i
      BY <1>5, <1>7, <3>1 DEF ListOK
    <3> QED BY <1>1, <1>8, <2>1, <2>3, <3>1, <3>2
  <2> QED BY <2>2, <2>3
<1>14. \A n \in 1 .. Len(c.ret) :
         \/ \E i \in 1 .. Len(old) : Same(c.ret[n], old[i])
         \/ c.ret[n].ep \in S /\ ~ c.ret[n].epCreated /\ ~ c.ret[n].noService
  <2>1. \A n \in 1 .. L : n \in 1 .. Len(old) \/ n > Len(old)
    BY <1>4
  <2> QED BY <1>9, <1>10, <2>1
<1>15. op # "attach" => op = "add"
  OBVIOUS
<1> QED BY <1>9, <1>11, <1>12, <1>13, <1>14, <1>15 DEF Outcome, c

\* getLBConsolidatedEPs, whatever the operation.
LEMMA ConsolidatedLemma ==
  ASSUME NEW old, ListOK(old), NEW S \in SUBSET Ep, IsFiniteSet(S), NEW op \in Oper,
         NEW moved \in BOOLEAN
  PROVE  Outcome(getLBConsolidatedEPs(old, S, op, moved), old, S, op)
<1>1. CASE op = "detach" /\ S \cap Eps(old) = {}
  <2> DEFINE c == getLBConsolidatedEPs(old, S, op, moved)
  <2>1. c = [chg |-> FALSE, ret |-> old, del |-> {}, left |-> old]
    BY <1>1 DEF getLBConsolidatedEPs
  <2>2. c.ret = old /\ c.del = {} /\ c.left = old
    BY <2>1
  <2>3. Rewritten(old, old)
    BY DEF Rewritten, ListOK, Same
  <2>4. Ordered(old, old)
    BY <2>3, OrderedLemma
  <2>5. \A n \in 1 .. Len(old) : Same(old[n], old[n])
    BY DEF Same
  <2> HIDE DEF c
  <2>6. Outcome(c, old, S, op)
    BY <2>2, <2>3, <2>4, <2>5 DEF Outcome
  <2> QED BY <2>6 DEF c
<1>2. CASE op = "detach" /\ S \cap Eps(old) # {}
  BY <1>2, DetachLemma
<1>3. CASE op # "detach"
  BY <1>3, AttachLemma, LbAssumption
<1> QED BY <1>1, <1>2, <1>3

\* The list holds a reference to the host of e.
Has(s, e) == \E i \in 1 .. Len(s) : s[i].ep = e /\ s[i].epCreated

\* Recording the references.
LEMMA MarkCreatedLemma ==
  ASSUME NEW s, ListOK(s)
  PROVE  /\ ListOK(MarkCreated(s)) /\ Len(MarkCreated(s)) = Len(s)
         /\ \A i \in 1 .. Len(s) :
              /\ MarkCreated(s)[i].ep = s[i].ep /\ MarkCreated(s)[i].noService = s[i].noService
              /\ MarkCreated(s)[i].epCreated = ~ s[i].inActiveEP
<1> DEFINE t == MarkCreated(s)
<1>1. s \in Seq(ruleLBEp) /\ DOMAIN s = 1 .. Len(s) /\ Len(s) \in Nat
  BY DEF ListOK
<1>2. \A i \in 1 .. Len(s) : s[i] \in ruleLBEp
  BY <1>1
<1>3. t = [i \in 1 .. Len(s) |-> [s[i] EXCEPT !.epCreated = ~ s[i].inActiveEP]]
  BY <1>1 DEF MarkCreated
<1>4. ASSUME NEW i \in 1 .. Len(s)
      PROVE  /\ t[i] \in ruleLBEp /\ t[i].ep = s[i].ep /\ t[i].noService = s[i].noService
             /\ t[i].epCreated = ~ s[i].inActiveEP
  <2> DEFINE b == ~ s[i].inActiveEP
  <2>1. b \in BOOLEAN
    OBVIOUS
  <2>2. t[i] = [s[i] EXCEPT !.epCreated = b]
    BY <1>3
  <2> HIDE DEF b, t
  <2>3. t[i] \in ruleLBEp /\ t[i].ep = s[i].ep /\ t[i].noService = s[i].noService /\ t[i].epCreated = b
    BY <1>2, <2>1, <2>2 DEF ruleLBEp
  <2> QED BY <2>3 DEF b
<1>5. DOMAIN t = 1 .. Len(s)
  BY <1>3
<1>6. t \in Seq(ruleLBEp) /\ Len(t) = Len(s)
  <2>1. t = [i \in 1 .. Len(s) |-> t[i]]
    BY <1>3
  <2> HIDE DEF t
  <2> QED BY <1>1, <1>4, <1>5, <2>1
<1> HIDE DEF t
<1>7. ListOK(t)
  BY <1>4, <1>6 DEF ListOK
<1> QED BY <1>4, <1>6, <1>7 DEF t

\* The list t is s with the health b.
Healed(t, s, b) ==
  /\ ListOK(t) /\ Len(t) = Len(s)
  /\ \A i \in 1 .. Len(s) :
       /\ t[i].ep = s[i].ep /\ t[i].epCreated = s[i].epCreated
       /\ t[i].inActiveEP = s[i].inActiveEP /\ t[i].noService = b[i]

\* Replacing the health of the end-points.
LEMMA HealthLemma ==
  ASSUME NEW s, ListOK(s), NEW b \in [1 .. Len(s) -> BOOLEAN], NEW t,
         t = [i \in DOMAIN s |-> [s[i] EXCEPT !.noService = b[i]]]
  PROVE  Healed(t, s, b)
<1>1. s \in Seq(ruleLBEp) /\ DOMAIN s = 1 .. Len(s) /\ Len(s) \in Nat
  BY DEF ListOK
<1>2. \A i \in 1 .. Len(s) : s[i] \in ruleLBEp
  BY <1>1
<1>3. \A i \in 1 .. Len(s) : t[i] = [s[i] EXCEPT !.noService = b[i]]
  BY <1>1
<1>4. \A i \in 1 .. Len(s) :
        /\ t[i] \in ruleLBEp /\ t[i].ep = s[i].ep /\ t[i].epCreated = s[i].epCreated
        /\ t[i].inActiveEP = s[i].inActiveEP /\ t[i].noService = b[i]
  <2> TAKE i \in 1 .. Len(s)
  <2>1. b[i] \in BOOLEAN
    OBVIOUS
  <2> DEFINE v == b[i]
  <2> HIDE DEF v
  <2>2. v \in BOOLEAN /\ t[i] = [s[i] EXCEPT !.noService = v] /\ s[i] \in ruleLBEp
    BY <1>2, <1>3, <2>1 DEF v
  <2>3. /\ t[i] \in ruleLBEp /\ t[i].ep = s[i].ep /\ t[i].epCreated = s[i].epCreated
        /\ t[i].inActiveEP = s[i].inActiveEP /\ t[i].noService = v
    BY <2>2 DEF ruleLBEp
  <2> QED BY <2>3 DEF v
<1>5. t \in Seq(ruleLBEp) /\ Len(t) = Len(s)
  <2>1. t = [i \in 1 .. Len(s) |-> t[i]]
    BY <1>1
  <2> QED BY <1>1, <1>4, <2>1
<1>6. ListOK(t)
  BY <1>4, <1>5 DEF ListOK
<1> QED BY <1>4, <1>5, <1>6 DEF Healed
-----------------------------------------------------------------------------
(* Hosts.                                                                   *)

\* No host counts less than nothing.
HostsOK(h) ==
  DOMAIN h \subseteq Ep /\ \A e \in DOMAIN h : h[e] \in epHost /\ h[e].ruleCount >= 0

\* Hosts that the end-points in D refer to, and those that a list lacks a reference to.
HeldBy(D) == {x.ep : x \in {y \in D : y.epCreated}}
Wanted(s) == {x.ep : x \in {y \in Range(s) : ~ y.inActiveEP /\ ~ y.epCreated}}

\* From the hosts h, references to those in X are dropped.
Dropped(g, h, X) ==
  /\ HostsOK(g) /\ DOMAIN g \subseteq DOMAIN h
  /\ \A e \in DOMAIN h : e \notin X => e \in DOMAIN g /\ g[e].ruleCount = h[e].ruleCount
  /\ \A e \in DOMAIN h : e \in X /\ h[e].ruleCount > 1 =>
       e \in DOMAIN g /\ g[e].ruleCount = h[e].ruleCount - 1

\* References to the hosts in W are added to h.
Taken(g, h, W) ==
  /\ HostsOK(g) /\ DOMAIN h \subseteq DOMAIN g
  /\ \A e \in DOMAIN h : g[e].ruleCount = IF e \in W THEN h[e].ruleCount + 1 ELSE h[e].ruleCount
  /\ \A e \in W \ DOMAIN h : e \in DOMAIN g /\ g[e].ruleCount = 1

\* modNatEpHost to delete.
LEMMA ReleaseLemma ==
  ASSUME NEW h, HostsOK(h), NEW D
  PROVE  Dropped(ReleaseHosts(h, D), h, HeldBy(D))
<1> DEFINE held == HeldBy(D)
           freed == {e \in held \cap DOMAIN h : h[e].ruleCount <= 1}
           g == ReleaseHosts(h, D)
<1>1. g = [e \in DOMAIN h \ freed |-> IF e \in held THEN [h[e] EXCEPT !.ruleCount = @ - 1] ELSE h[e]]
  BY DEF ReleaseHosts, HeldBy
<1> HIDE DEF held, g
<1>2. \A e \in DOMAIN h : h[e] \in epHost /\ h[e].ruleCount \in Int
  BY DEF HostsOK, epHost
<1>3. \A e \in DOMAIN h : /\ [h[e] EXCEPT !.ruleCount = @ - 1] \in epHost
                          /\ [h[e] EXCEPT !.ruleCount = @ - 1].ruleCount = h[e].ruleCount - 1
  BY <1>2 DEF epHost
<1>4. DOMAIN g = DOMAIN h \ freed
  BY <1>1
<1>5. \A e \in DOMAIN g : g[e] \in epHost /\ g[e].ruleCount >= 0
  <2> TAKE e \in DOMAIN g
  <2>1. CASE e \in held
    <3>1. ~ (h[e].ruleCount <= 1) /\ g[e] = [h[e] EXCEPT !.ruleCount = @ - 1] /\ e \in DOMAIN h
      BY <1>1, <1>4, <2>1
    <3>2. g[e] \in epHost /\ g[e].ruleCount = h[e].ruleCount - 1
      BY <1>3, <3>1
    <3> QED BY <1>2, <3>1, <3>2
  <2>2. CASE e \notin held
    BY <1>1, <1>4, <2>2 DEF HostsOK
  <2> QED BY <2>1, <2>2
<1>6. HostsOK(g)
  BY <1>4, <1>5 DEF HostsOK
<1>7. ASSUME NEW e \in DOMAIN h, e \in held, h[e].ruleCount > 1
      PROVE  e \in DOMAIN g /\ g[e].ruleCount = h[e].ruleCount - 1
  BY <1>1, <1>2, <1>3, <1>7
<1>8. ASSUME NEW e \in DOMAIN h, e \notin held
      PROVE  e \in DOMAIN g /\ g[e] = h[e]
  BY <1>1, <1>8
<1> QED BY <1>4, <1>6, <1>7, <1>8 DEF g, held, Dropped

\* modNatEpHost to add.
LEMMA AcquireLemma ==
  ASSUME NEW h, HostsOK(h), NEW s, ListOK(s), NEW act \in BOOLEAN
  PROVE  Taken(AcquireHosts(h, s, act), h, Wanted(s))
<1> DEFINE want == Wanted(s)
           g == AcquireHosts(h, s, act)
           up1(e) == [h[e] EXCEPT !.ruleCount = @ + 1]
<1>1. g = [e \in DOMAIN h \cup want |-> CASE e \notin want -> h[e] [] e \in want \cap DOMAIN h -> up1(e)
                                         [] OTHER -> NewHost(1, act)]
  BY DEF AcquireHosts, Wanted
<1>2. want \subseteq Ep
  <2>1. s \in Seq(ruleLBEp) /\ DOMAIN s = 1 .. Len(s)
    BY DEF ListOK
  <2>2. \A x \in Range(s) : x.ep \in Ep
    <3>1. \A x \in Range(s) : x \in ruleLBEp
      BY <2>1 DEF Range
    <3> QED BY <3>1 DEF ruleLBEp
  <2> QED BY <2>2 DEF Wanted
<1> HIDE DEF want, g
<1>3. \A e \in DOMAIN h : h[e] \in epHost /\ h[e].ruleCount \in Int
  BY DEF HostsOK, epHost
<1>4. \A e \in DOMAIN h : up1(e) \in epHost /\ up1(e).ruleCount = h[e].ruleCount + 1
  BY <1>3 DEF epHost
<1>5. NewHost(1, act) \in epHost /\ NewHost(1, act).ruleCount = 1
  BY LbAssumption DEF NewHost, epHost, MaxTries
<1> HIDE DEF up1
<1>6. DOMAIN g = DOMAIN h \cup want
  BY <1>1
<1>7. \A e \in DOMAIN h : g[e] = IF e \in want THEN up1(e) ELSE h[e]
  BY <1>1
<1>8. \A e \in want \ DOMAIN h : g[e] = NewHost(1, act)
  BY <1>1
<1>9. \A e \in DOMAIN g : g[e] \in epHost /\ g[e].ruleCount >= 0
  <2> TAKE e \in DOMAIN g
  <2>1. CASE e \in DOMAIN h
    BY <1>3, <1>4, <1>7, <2>1 DEF HostsOK
  <2>2. CASE e \notin DOMAIN h
    BY <1>5, <1>6, <1>8, <2>2
  <2> QED BY <2>1, <2>2
<1>10. HostsOK(g)
  BY <1>2, <1>6, <1>9 DEF HostsOK
<1> QED BY <1>4, <1>5, <1>6, <1>7, <1>8, <1>10 DEF g, want, Taken

\* Switching probes on.
LEMMA ActivateLemma ==
  ASSUME NEW h, HostsOK(h), NEW s
  PROVE  /\ HostsOK(activateEPHostsProbe(h, s)) /\ DOMAIN activateEPHostsProbe(h, s) = DOMAIN h
         /\ \A e \in DOMAIN h : activateEPHostsProbe(h, s)[e].ruleCount = h[e].ruleCount
<1> DEFINE g == activateEPHostsProbe(h, s)
           on(e) == [h[e] EXCEPT !.probeActivated = TRUE, !.initProberOn = TRUE]
<1>1. \A e \in DOMAIN h : h[e] \in epHost /\ on(e) \in epHost /\ on(e).ruleCount = h[e].ruleCount
  BY DEF HostsOK, epHost
<1>2. DOMAIN g = DOMAIN h /\ \A e \in DOMAIN h : g[e] \in {h[e], on(e)}
  BY DEF activateEPHostsProbe
<1> HIDE DEF g, on
<1>3. \A e \in DOMAIN h : g[e] \in epHost /\ g[e].ruleCount = h[e].ruleCount
  BY <1>1, <1>2
<1> QED BY <1>2, <1>3 DEF HostsOK, g

\* Host e counts the rules in H, all that hold a reference to it.
Counts(h, e, H) == H # {} => e \in DOMAIN h /\ h[e].ruleCount >= Cardinality(H)

\* Rule r drops its references to X and takes those to W: the count follows.
LEMMA CountLemma ==
  ASSUME NEW h, HostsOK(h), NEW X, NEW W, NEW h1, Dropped(h1, h, X), NEW h2, Taken(h2, h1, W),
         NEW e, NEW r, NEW H, IsFiniteSet(H), Counts(h, e, H), NEW K, K \ {r} = H \ {r},
         e \in X => r \in H,
         r \in K => (r \in H /\ e \notin X) \/ e \in W
  PROVE  Counts(h2, e, K)
<1>1. HostsOK(h1) /\ DOMAIN h1 \subseteq DOMAIN h
  BY DEF Dropped
<1>2. ASSUME e \in DOMAIN h
      PROVE  IF e \in X
             THEN h[e].ruleCount > 1 => e \in DOMAIN h1 /\ h1[e].ruleCount = h[e].ruleCount - 1
             ELSE e \in DOMAIN h1 /\ h1[e].ruleCount = h[e].ruleCount
  BY <1>2 DEF Dropped
<1>3. /\ HostsOK(h2) /\ DOMAIN h1 \subseteq DOMAIN h2
      /\ e \in DOMAIN h1 => h2[e].ruleCount = IF e \in W THEN h1[e].ruleCount + 1 ELSE h1[e].ruleCount
      /\ e \in W /\ e \notin DOMAIN h1 => e \in DOMAIN h2 /\ h2[e].ruleCount = 1
  BY DEF Taken
<1>4. /\ e \in DOMAIN h => h[e].ruleCount \in Int
      /\ e \in DOMAIN h1 => h1[e].ruleCount \in Int
      /\ e \in DOMAIN h2 => h2[e].ruleCount \in Int
      /\ e \in DOMAIN h1 => h1[e].ruleCount >= 0
  BY <1>1, <1>3 DEF HostsOK, epHost
<1>5. /\ IsFiniteSet(H \ {r}) /\ IsFiniteSet(K)
      /\ Cardinality(H) \in Nat /\ Cardinality(H \ {r}) \in Nat
      /\ Cardinality(H) = IF r \in H THEN Cardinality(H \ {r}) + 1 ELSE Cardinality(H \ {r})
      /\ Cardinality(K) = IF r \in K THEN Cardinality(H \ {r}) + 1 ELSE Cardinality(H \ {r})
  <2>1. IsFiniteSet(H \ {r}) /\ Cardinality(H \ {r}) = IF r \in H THEN Cardinality(H) - 1 ELSE Cardinality(H)
    BY FS_RemoveElement
  <2>2. Cardinality(H) \in Nat /\ Cardinality(H \ {r}) \in Nat
    BY <2>1, FS_CardinalityType
  <2>3. K = (IF r \in K THEN (H \ {r}) \cup {r} ELSE H \ {r})
    OBVIOUS
  <2>4. IsFiniteSet((H \ {r}) \cup {r}) /\ Cardinality((H \ {r}) \cup {r}) = Cardinality(H \ {r}) + 1
    BY <2>1, FS_AddElement
  <2>5. IsFiniteSet(K) /\ Cardinality(K) = IF r \in K THEN Cardinality(H \ {r}) + 1 ELSE Cardinality(H \ {r})
    BY <2>1, <2>3, <2>4
  <2> QED BY <2>1, <2>2, <2>5
<1>6. H \ {r} # {} => Cardinality(H \ {r}) > 0
  BY <1>5, FS_EmptySet
<1>7. H # {} => e \in DOMAIN h /\ h[e].ruleCount >= Cardinality(H)
  BY DEF Counts
<1> DEFINE n == Cardinality(H \ {r})
<1> HIDE DEF n
<1>8. SUFFICES ASSUME K # {} PROVE e \in DOMAIN h2 /\ h2[e].ruleCount >= Cardinality(K)
  BY DEF Counts
<1>9. n \in Nat /\ (H \ {r} # {} => n > 0) /\ (H \ {r} = {} => n = 0)
  BY <1>5, <1>6, FS_EmptySet DEF n
<1>10. CASE e \in X
  <2>1. r \in H /\ e \in DOMAIN h /\ h[e].ruleCount >= n + 1 /\ (r \in K => e \in W)
    BY <1>5, <1>7, <1>10 DEF n
  <2>2. CASE r \in K
    <3>1. Cardinality(K) = n + 1 /\ e \in W
      BY <1>5, <2>1, <2>2 DEF n
    <3>2. CASE e \in DOMAIN h1
      <4>1. CASE h[e].ruleCount > 1
        BY <1>2, <1>3, <1>4, <1>9, <1>10, <2>1, <3>1, <3>2, <4>1
      <4>2. CASE ~ (h[e].ruleCount > 1)
        BY <1>3, <1>4, <1>9, <2>1, <3>1, <3>2, <4>2
      <4> QED BY <4>1, <4>2
    <3>3. CASE e \notin DOMAIN h1
      <4>1. h[e].ruleCount <= 1
        BY <1>2, <1>4, <1>10, <2>1, <3>3
      <4>2. n = 0
        BY <1>4, <1>9, <2>1, <4>1
      <4> QED BY <1>3, <3>1, <3>3, <4>2
    <3> QED BY <3>2, <3>3
  <2>3. CASE r \notin K
    <3>1. Cardinality(K) = n /\ H \ {r} # {} /\ n > 0
      BY <1>5, <1>8, <1>9, <2>3 DEF n
    <3>2. e \in DOMAIN h1 /\ h1[e].ruleCount = h[e].ruleCount - 1
      BY <1>2, <1>4, <1>9, <1>10, <2>1, <3>1
    <3> QED BY <1>3, <1>4, <1>9, <2>1, <3>1, <3>2
  <2> QED BY <2>2, <2>3
<1>11. CASE e \notin X
  <2>1. e \in DOMAIN h => e \in DOMAIN h1 /\ h1[e].ruleCount = h[e].ruleCount
    BY <1>2, <1>11
  <2>2. CASE H # {}
    <3>1. e \in DOMAIN h /\ h1[e].ruleCount >= Cardinality(H)
      BY <1>7, <2>1, <2>2
    <3>2. r \in K /\ r \notin H => e \in W
      OBVIOUS
    <3>3. CASE e \in W
      <4>1. h2[e].ruleCount >= Cardinality(H) + 1 /\ Cardinality(K) <= Cardinality(H) + 1
        BY <1>3, <1>4, <1>5, <2>1, <3>1, <3>3
      <4>2. e \in DOMAIN h2 /\ h2[e].ruleCount \in Int
        BY <1>3, <1>4, <2>1, <3>1, <3>3
      <4>3. Cardinality(H) \in Nat /\ Cardinality(K) \in Nat
        BY <1>5
      <4> QED BY <4>1, <4>2, <4>3
    <3>4. CASE e \notin W
      <4>1. h2[e].ruleCount >= Cardinality(H) /\ Cardinality(K) <= Cardinality(H)
        BY <1>3, <1>4, <1>5, <2>1, <3>1, <3>2, <3>4
      <4>2. e \in DOMAIN h2 /\ h2[e].ruleCount \in Int
        BY <1>3, <1>4, <2>1, <3>1, <3>4
      <4>3. Cardinality(H) \in Nat /\ Cardinality(K) \in Nat
        BY <1>5
      <4> QED BY <4>1, <4>2, <4>3
    <3> QED BY <3>3, <3>4
  <2>3. CASE H = {}
    <3>1. r \in K /\ e \in W /\ n = 0 /\ Cardinality(K) = 1
      BY <1>5, <1>8, <1>9, <2>3 DEF n
    <3>2. CASE e \in DOMAIN h1
      BY <1>2, <1>3, <1>4, <3>1, <3>2
    <3>3. CASE e \notin DOMAIN h1
      BY <1>3, <3>1, <3>3
    <3> QED BY <3>2, <3>3
  <2> QED BY <2>2, <2>3
<1> QED BY <1>10, <1>11
=============================================================================
