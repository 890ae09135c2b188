------------------------------ MODULE KeysProofs ------------------------------
(***************************************************************************)
(* Names and keys: two addresses never share a queue, the branch of a      *)
(* promise is in its origin, and the scan of one branch finds no other.    *)
(***************************************************************************)
EXTENDS Keys, SequenceTheorems, WellFoundedInduction, TLAPS

\* Addresses and the entries of the index are strings.
KeysTyped ==
    /\ addresses \subseteq Seq(AddressByte)
    /\ \A entry \in index : entry \in Seq(IdByte) \X Seq(IdByte)

-----------------------------------------------------------------------------
(* Strings                                                                 *)

\* A nonempty set of numbers has a least one.
LEMMA Least ==
    ASSUME NEW T \in SUBSET Nat, T # {} PROVE \E c \in T : \A d \in T : c <= d
<1> DEFINE R == OpToRel(<, Nat)
<1>1. IsWellFoundedOn(R, Nat)
  BY NatLessThanWellFounded
<1>2. \A a, b \in Nat : <<a, b>> \in R <=> a < b
  BY DEF OpToRel
<1> HIDE DEF R
<1>3. PICK c \in T : \A d \in T : <<d, c>> \notin R
  BY <1>1, WFMin
<1>4. ASSUME NEW d \in T PROVE c <= d
  <2>1. c \in Nat /\ d \in Nat
    OBVIOUS
  <2>2. ~(d < c)
    BY <1>2, <1>3, <2>1
  <2> QED BY <2>1, <2>2
<1> QED BY <1>4

\* Induction: a set that has 0, and with a number the next one, has every number.
LEMMA Induction ==
    ASSUME NEW Good, 0 \in Good, \A k \in Nat : k \in Good => k + 1 \in Good
    PROVE  \A k \in Nat : k \in Good
<1> DEFINE Bad == {k \in Nat : k \notin Good}
<1>1. ASSUME Bad # {} PROVE FALSE
  <2>1. Bad \in SUBSET Nat
    OBVIOUS
  <2> HIDE DEF Bad
  <2>2. PICK c \in Bad : \A d \in Bad : c <= d
    BY <1>1, <2>1, Least
  <2> USE DEF Bad
  <2>3. c \in Nat /\ c \notin Good /\ c # 0
    BY <2>2
  <2>4. c - 1 \in Nat /\ c - 1 \in Good
    BY <2>2, <2>3
  <2> QED BY <2>3, <2>4
<1> QED BY <1>1

\* The strings of bounded length are strings.
LEMMA BoundedStrings ==
    ASSUME NEW B, NEW n \in Nat, NEW s \in StringsUpTo(B, n)
    PROVE  s \in Seq(B)
<1>1. PICK m \in 0 .. n : s \in [1 .. m -> B]
  BY DEF StringsUpTo
<1> QED BY <1>1

\* What a string begins with.
LEMMA PrefixIs ==
    ASSUME NEW B, NEW s \in Seq(B), NEW t \in Seq(B)
    PROVE  IsPrefix(s, t) <=> Len(s) <= Len(t) /\ \A n \in 1 .. Len(s) : s[n] = t[n]
<1>1. CASE Len(s) <= Len(t)
  <2>1. SubSeq(s, 1, Len(s)) = s
    BY SubSeqFull
  <2>2. /\ SubSeq(t, 1, Len(s)) \in Seq(B) /\ Len(SubSeq(t, 1, Len(s))) = Len(s)
        /\ \A n \in 1 .. Len(s) : SubSeq(t, 1, Len(s))[n] = t[n]
    BY <1>1
  <2>3. (\A n \in 1 .. Len(s) : s[n] = t[n]) => SubSeq(t, 1, Len(s)) = s
    BY <2>2, SeqEqual
  <2> QED BY <1>1, <2>1, <2>2, <2>3 DEF IsPrefix
<1> QED BY <1>1 DEF IsPrefix

-----------------------------------------------------------------------------
(* The lineage of an id                                                    *)

\* The first colon of a string, if there is one, ends its origin.
LEMMA OriginIs ==
    ASSUME NEW id \in Seq(IdByte)
    PROVE  /\ ~Contains(id, ":") => OriginOf(id) = id
           /\ \A n \in 1 .. Len(id) :
                 id[n] = ":" /\ (\A m \in 1 .. n - 1 : id[m] # ":") =>
                    OriginOf(id) = SubSeq(id, 1, n - 1)
           /\ Contains(id, ":") =>
                 \E n \in 1 .. Len(id) : id[n] = ":" /\ \A m \in 1 .. n - 1 : id[m] # ":"
<1> DEFINE colons == {n \in DOMAIN id : id[n] = ":"}
<1>1. DOMAIN id = 1 .. Len(id) /\ Len(id) \in Nat
  OBVIOUS
<1>2. ~Contains(id, ":") => colons = {}
  BY <1>1 DEF Contains
<1>3. ASSUME NEW n \in 1 .. Len(id), id[n] = ":", \A m \in 1 .. n - 1 : id[m] # ":"
      PROVE  colons # {} /\ Min(colons) = n
  <2>1. n \in colons /\ \A m \in colons : n <= m
    BY <1>1, <1>3
  <2>2. \A x \in colons : (\A y \in colons : x <= y) => x = n
    BY <1>1, <2>1
  <2> HIDE DEF colons
  <2> QED BY <2>1, <2>2 DEF Min
<1>4. ASSUME Contains(id, ":")
      PROVE  \E n \in 1 .. Len(id) : id[n] = ":" /\ \A m \in 1 .. n - 1 : id[m] # ":"
  <2>1. colons \in SUBSET Nat /\ colons # {}
    BY <1>1, <1>4 DEF Contains
  <2>2. PICK n \in colons : \A m \in colons : n <= m
    BY <2>1, Least
  <2> QED BY <1>1, <2>2
<1>5. OriginOf(id) = IF colons = {} THEN id ELSE SubSeq(id, 1, Min(colons) - 1)
  BY DEF OriginOf
<1> HIDE DEF colons
<1> QED BY <1>2, <1>3, <1>4, <1>5

\* An ancestor is in the same origin: is_ancestor (src/kernel.rs) asks for the
\* separator that the ancestor's own lineage calls for.
LEMMA AncestorInOrigin ==
    ASSUME NEW branch \in Seq(IdByte), NEW id \in Seq(IdByte), IsAncestor(branch, id)
    PROVE  OriginOf(branch) = OriginOf(id)
<1>1. CASE branch = id
  BY <1>1
<1>2. CASE branch # id
  <2>1. /\ Len(branch) <= Len(id) /\ \A n \in 1 .. Len(branch) : branch[n] = id[n]
        /\ id[Len(branch) + 1] = IF Contains(branch, ":") THEN "." ELSE ":"
    BY <1>2, PrefixIs DEF IsAncestor, IsStrictPrefix
  <2>2. Len(branch) < Len(id)
    BY <1>2, <2>1, SeqEqual
  <2>3. \A n \in 0 .. Len(branch) : SubSeq(id, 1, n) = SubSeq(branch, 1, n)
    BY <2>1
  <2>4. CASE Contains(branch, ":")
    <3>1. PICK n \in 1 .. Len(branch) :
                 branch[n] = ":" /\ \A m \in 1 .. n - 1 : branch[m] # ":"
      BY <2>4, OriginIs
    <3>2. id[n] = ":" /\ n \in 1 .. Len(id) /\ \A m \in 1 .. n - 1 : id[m] # ":"
      BY <2>1, <3>1
    <3>3. OriginOf(branch) = SubSeq(branch, 1, n - 1) /\ OriginOf(id) = SubSeq(id, 1, n - 1)
      BY <3>1, <3>2, OriginIs
    <3> QED BY <2>3, <3>3
  <2>5. CASE ~Contains(branch, ":")
    <3> DEFINE n == Len(branch) + 1
    <3>1. id[n] = ":" /\ n \in 1 .. Len(id) /\ \A m \in 1 .. n - 1 : id[m] # ":"
      BY <2>1, <2>2, <2>5 DEF Contains
    <3>2. OriginOf(id) = SubSeq(id, 1, Len(branch))
      BY <3>1, OriginIs
    <3> QED BY <2>3, <2>5, <3>2, OriginIs, SubSeqFull
  <2> QED BY <2>4, <2>5
<1> QED BY <1>1, <1>2

-----------------------------------------------------------------------------
(* The strings of a sequence of strings, one after another                 *)

\* The recursion by which FlattenSeq is defined has a solution.
LEMMA FlattenExists ==
    ASSUME NEW S, NEW seqs \in Seq(Seq(S))
    PROVE  \E f \in [1 .. Len(seqs) -> Seq(S)] : \A i \in 1 .. Len(seqs) :
              f[i] = IF i = 1 THEN seqs[i] ELSE f[i - 1] \o seqs[i]
<1> DEFINE P(f, k) == \A i \in 1 .. k :
                         f[i] = IF i = 1 THEN seqs[i] ELSE f[i - 1] \o seqs[i]
           Good == {k \in Nat : k <= Len(seqs) => \E f \in [1 .. k -> Seq(S)] : P(f, k)}
<1>1. Len(seqs) \in Nat /\ \A i \in 1 .. Len(seqs) : seqs[i] \in Seq(S)
  OBVIOUS
<1>2. 0 \in Good
  <2>1. [i \in 1 .. 0 |-> <<>>] \in [1 .. 0 -> Seq(S)]
    OBVIOUS
  <2>2. \A f : P(f, 0)
    OBVIOUS
  <2> HIDE DEF P
  <2>3. \E f \in [1 .. 0 -> Seq(S)] : P(f, 0)
    BY <2>1, <2>2
  <2> QED BY <2>3
<1>3. ASSUME NEW k \in Nat, k \in Good PROVE k + 1 \in Good
  <2> HIDE DEF P
  <2> SUFFICES ASSUME k + 1 <= Len(seqs)
               PROVE  \E f \in [1 .. k + 1 -> Seq(S)] : P(f, k + 1)
    OBVIOUS
  <2>1. PICK f \in [1 .. k -> Seq(S)] : P(f, k)
    BY <1>1, <1>3
  <2> USE DEF P
  <2> DEFINE last == IF k = 0 THEN seqs[1] ELSE f[k] \o seqs[k + 1]
             g == [i \in 1 .. k + 1 |-> IF i = k + 1 THEN last ELSE f[i]]
  <2>2. last \in Seq(S)
    BY <1>1, <2>1
  <2>3. g \in [1 .. k + 1 -> Seq(S)]
    BY <2>1, <2>2
  <2>4. P(g, k + 1)
    <3> SUFFICES ASSUME NEW i \in 1 .. k + 1
                 PROVE  g[i] = IF i = 1 THEN seqs[i] ELSE g[i - 1] \o seqs[i]
      OBVIOUS
    <3>1. CASE i = k + 1
      <4>1. g[i] = last
        BY <3>1
      <4>2. k # 0 => g[i - 1] = f[k] /\ i # 1
        BY <3>1
      <4>3. k = 0 => i = 1
        BY <3>1
      <4> QED BY <3>1, <4>1, <4>2, <4>3
    <3>2. CASE i # k + 1
      <4>1. i \in 1 .. k /\ g[i] = f[i]
        BY <3>2
      <4>2. i # 1 => g[i - 1] = f[i - 1]
        BY <4>1
      <4>3. f[i] = IF i = 1 THEN seqs[i] ELSE f[i - 1] \o seqs[i]
        BY <2>1, <4>1
      <4> HIDE DEF g
      <4> QED BY <4>1, <4>2, <4>3
    <3> QED BY <3>1, <3>2
  <2> HIDE DEF P, g
  <2> QED BY <2>3, <2>4
<1> HIDE DEF Good
<1>4. Len(seqs) \in Good
  BY <1>1, <1>2, <1>3, Induction
<1> QED BY <1>1, <1>4 DEF Good

\* What FlattenSeq returns: each string is put after those before it.
LEMMA FlattenIs ==
    ASSUME NEW S, NEW seqs \in Seq(Seq(S))
    PROVE  \E g \in [0 .. Len(seqs) -> Seq(S)] :
              /\ g[0] = <<>> /\ g[Len(seqs)] = FlattenSeq(seqs)
              /\ \A i \in 1 .. Len(seqs) : g[i] = g[i - 1] \o seqs[i]
<1>1. Len(seqs) \in Nat /\ \A i \in 1 .. Len(seqs) : seqs[i] \in Seq(S)
  OBVIOUS
<1>2. CASE Len(seqs) = 0
  <2> DEFINE g == [i \in 0 .. 0 |-> seqs]
  <2>1. FlattenSeq(seqs) = seqs /\ seqs = <<>>
    BY <1>2 DEF FlattenSeq
  <2>2. g \in [0 .. Len(seqs) -> Seq(S)]
    BY <1>2, <2>1
  <2>3. g[0] = seqs
    OBVIOUS
  <2>4. 1 .. Len(seqs) = {}
    BY <1>2
  <2> HIDE DEF g
  <2> QED BY <1>2, <2>1, <2>2, <2>3, <2>4
<1>3. CASE Len(seqs) # 0
  <2> DEFINE n == Len(seqs)
             h == CHOOSE f : f = [i \in 1 .. n |->
                                    IF i = 1 THEN seqs[i] ELSE f[i - 1] \o seqs[i]]
             Good == {k \in Nat : k \in 1 .. n => h[k] \in Seq(S)}
  <2>1. FlattenSeq(seqs) = h[n]
    BY <1>3 DEF FlattenSeq
  <2>2. PICK f0 \in [1 .. n -> Seq(S)] : \A i \in 1 .. n :
              f0[i] = IF i = 1 THEN seqs[i] ELSE f0[i - 1] \o seqs[i]
    BY FlattenExists
  <2>3. f0 = [i \in 1 .. n |-> IF i = 1 THEN seqs[i] ELSE f0[i - 1] \o seqs[i]]
    BY <2>2
  <2>4. h = [i \in 1 .. n |-> IF i = 1 THEN seqs[i] ELSE h[i - 1] \o seqs[i]]
    BY <2>3
  <2> HIDE DEF h
  <2>5. \A i \in 1 .. n : h[i] = IF i = 1 THEN seqs[i] ELSE h[i - 1] \o seqs[i]
    BY <2>4
  <2>6. 0 \in Good
    OBVIOUS
  <2>7. ASSUME NEW k \in Nat, k \in Good PROVE k + 1 \in Good
    <3> SUFFICES ASSUME k + 1 \in 1 .. n PROVE h[k + 1] \in Seq(S)
      OBVIOUS
    <3>1. seqs[k + 1] \in Seq(S)
      BY <1>1
    <3>2. CASE k = 0
      BY <2>5, <3>1, <3>2
    <3>3. CASE k # 0
      <4>1. k \in 1 .. n /\ k + 1 # 1 /\ (k + 1) - 1 = k
        BY <1>1, <3>3
      <4>2. h[k] \in Seq(S)
        BY <2>7, <4>1
      <4>3. h[k + 1] = h[k] \o seqs[k + 1]
        BY <2>5, <4>1
      <4> QED BY <3>1, <4>2, <4>3
    <3> QED BY <3>2, <3>3
  <2> HIDE DEF Good
  <2>8. \A i \in 1 .. n : h[i] \in Seq(S)
    <3>1. \A i \in Nat : i \in Good
      BY <2>6, <2>7, Induction
    <3> QED BY <1>1, <3>1 DEF Good
  <2> DEFINE g == [i \in 0 .. n |-> IF i = 0 THEN <<>> ELSE h[i]]
  <2>9. g \in [0 .. n -> Seq(S)]
    BY <1>1, <2>8
  <2>10. ASSUME NEW i \in 1 .. n PROVE g[i] = g[i - 1] \o seqs[i]
    <3>1. g[i] = h[i] /\ g[i - 1] = IF i = 1 THEN <<>> ELSE h[i - 1]
      BY <1>1
    <3> HIDE DEF g
    <3>2. CASE i = 1
      BY <1>1, <2>5, <3>1, <3>2, ConcatEmptySeq
    <3>3. CASE i # 1
      BY <1>1, <2>5, <3>1, <3>3
    <3> QED BY <3>2, <3>3
  <2>11. g[0] = <<>> /\ g[n] = FlattenSeq(seqs)
    BY <1>1, <1>3, <2>1
  <2> HIDE DEF g
  <2> QED BY <2>9, <2>10, <2>11
<1> QED BY <1>2, <1>3

-----------------------------------------------------------------------------
(* Queue names                                                             *)

\* What an escape begins with, and the bytes of queue names.
Mark == "_"

NameByte == AddressByte \cup {Mark}

\* g holds the beginnings of the queue name of the address, one for each byte.
Spells(g, a) ==
    /\ g \in [0 .. Len(a) -> Seq(NameByte)] /\ g[0] = <<>>
    /\ \A i \in 1 .. Len(a) : g[i] = g[i - 1] \o Escaped(a[i])

\* A byte is kept, or becomes an underscore and two bytes that are kept.
LEMMA EscapedIs ==
    ASSUME NEW b \in AddressByte
    PROVE  /\ Escaped(b) \in Seq(NameByte)
           /\ b \in Plain => Len(Escaped(b)) = 1 /\ Escaped(b)[1] = b
           /\ b \notin Plain =>
                 /\ Len(Escaped(b)) = 3 /\ Escaped(b)[1] = Mark
                 /\ Escaped(b)[2] = Hex[b][1] /\ Escaped(b)[3] = Hex[b][2]
                 /\ Hex[b] = <<Hex[b][1], Hex[b][2]>>
                 /\ Hex[b][1] \in Plain /\ Hex[b][2] \in Plain
<1>1. CASE b \in Plain
  <2>1. Escaped(b) = <<b>>
    BY <1>1 DEF Escaped
  <2>2. b \in NameByte
    BY DEF NameByte
  <2>3. <<b>> \in Seq(NameByte)
    BY <2>2
  <2>4. Len(<<b>>) = 1
    OBVIOUS
  <2>5. <<b>>[1] = b
    OBVIOUS
  <2> QED BY <1>1, <2>1, <2>3, <2>4, <2>5
<1>2. CASE b \notin Plain
  <2>1. Hex[b] \in Plain \X Plain
    BY <1>2, KeysAssumption
  <2>2. PICK x \in Plain, y \in Plain : Hex[b] = <<x, y>>
    BY <2>1
  <2>3. x \in NameByte /\ y \in NameByte /\ Mark \in NameByte
    BY KeysAssumption DEF NameByte
  <2>4. Escaped(b) = <<Mark>> \o <<x, y>>
    BY <1>2, <2>2 DEF Escaped, Mark
  <2> DEFINE u == <<Mark>>
             h == <<x, y>>
  <2>5. u \in Seq(NameByte) /\ h \in Seq(NameByte)
    <3>1. u \in Seq(NameByte)
      BY <2>3
    <3>2. h \in Seq(NameByte)
      BY <2>3
    <3> QED BY <3>1, <3>2
  <2>6. Len(u) = 1 /\ Len(h) = 2 /\ u[1] = Mark /\ h[1] = x /\ h[2] = y
    <3>1. Len(u) = 1 /\ u[1] = Mark
      OBVIOUS
    <3>2. Len(h) = 2 /\ h[1] = x /\ h[2] = y
      OBVIOUS
    <3> QED BY <3>1, <3>2
  <2> DEFINE w == u \o h
  <2> HIDE DEF u, h
  <2>7. /\ w \in Seq(NameByte) /\ Len(w) = Len(u) + Len(h)
        /\ \A n \in 1 .. Len(u) + Len(h) : w[n] = IF n <= Len(u) THEN u[n] ELSE h[n - Len(u)]
    BY <2>5, ConcatProperties
  <2> HIDE DEF w
  <2>8. Len(w) = 3 /\ w[1] = Mark /\ w[2] = x /\ w[3] = y
    <3>1. Len(w) = 3
      BY <2>6, <2>7
    <3>2. \A n \in 1 .. 3 : w[n] = IF n <= 1 THEN u[n] ELSE h[n - 1]
      BY <2>6, <2>7
    <3>3. w[1] = u[1] /\ w[2] = h[1] /\ w[3] = h[2]
      BY <3>2
    <3> QED BY <2>6, <3>1, <3>3
  <2>9. Hex[b][1] = x /\ Hex[b][2] = y /\ Hex[b] = <<Hex[b][1], Hex[b][2]>>
    BY <2>2
  <2>10. Escaped(b) = w
    BY <2>4 DEF u, h, w
  <2> QED BY <1>2, <2>2, <2>7, <2>8, <2>9, <2>10
<1> QED BY <1>1, <1>2

\* The queue name of an address is spelled byte by byte.
LEMMA NameIs ==
    ASSUME NEW a \in Seq(AddressByte)
    PROVE  \E g : Spells(g, a) /\ g[Len(a)] = FlattenSeq([n \in DOMAIN a |-> Escaped(a[n])])
<1> DEFINE seqs == [n \in DOMAIN a |-> Escaped(a[n])]
<1>1. Len(a) \in Nat /\ DOMAIN a = 1 .. Len(a) /\ \A n \in 1 .. Len(a) : a[n] \in AddressByte
  OBVIOUS
<1>2. \A n \in 1 .. Len(a) : seqs[n] = Escaped(a[n]) /\ Escaped(a[n]) \in Seq(NameByte)
  BY <1>1, EscapedIs
<1>3. seqs \in Seq(Seq(NameByte)) /\ Len(seqs) = Len(a)
  BY <1>1, <1>2
<1> HIDE DEF seqs
<1>4. PICK g \in [0 .. Len(seqs) -> Seq(NameByte)] :
             /\ g[0] = <<>> /\ g[Len(seqs)] = FlattenSeq(seqs)
             /\ \A i \in 1 .. Len(seqs) : g[i] = g[i - 1] \o seqs[i]
  BY <1>3, FlattenIs
<1>5. Spells(g, a) /\ g[Len(a)] = FlattenSeq(seqs)
  BY <1>2, <1>3, <1>4 DEF Spells
<1> QED BY <1>5 DEF seqs

\* The string w is p and then e, which is a byte or an escape.
Longer(p, e, w) ==
    /\ Len(p) \in Nat /\ (Len(e) = 1 \/ Len(e) = 3) /\ Len(w) = Len(p) + Len(e)
    /\ \A n \in 1 .. Len(p) : w[n] = p[n]
    /\ \A n \in 1 .. Len(e) : w[Len(p) + n] = e[n]

\* A string with ends of one length has one such end and one beginning.
LEMMA SameEnds ==
    ASSUME NEW p \in Seq(NameByte), NEW q \in Seq(NameByte),
           NEW d \in Seq(NameByte), NEW e \in Seq(NameByte), NEW w,
           Longer(p, d, w), Longer(q, e, w), Len(d) = Len(e)
    PROVE  p = q /\ d = e
<1>1. Len(p) = Len(q)
  BY DEF Longer
<1>2. \A n \in 1 .. Len(p) : p[n] = q[n]
  BY <1>1 DEF Longer
<1>3. \A n \in 1 .. Len(d) : d[n] = e[n]
  BY <1>1 DEF Longer
<1>4. p = q
  BY <1>1, <1>2, SeqEqual
<1>5. d = e
  BY <1>3, SeqEqual
<1> QED BY <1>4, <1>5

\* One more byte of an address puts its bytes of the name after the others.
LEMMA SpellsStep ==
    ASSUME NEW a \in Seq(AddressByte), NEW g, Spells(g, a), NEW i \in 1 .. Len(a)
    PROVE  /\ a[i] \in AddressByte /\ Longer(g[i - 1], Escaped(a[i]), g[i])
           /\ g[i - 1] \in Seq(NameByte) /\ Escaped(a[i]) \in Seq(NameByte)
<1>1. a[i] \in AddressByte /\ Len(a) \in Nat
  OBVIOUS
<1> DEFINE p == g[i - 1]
           e == Escaped(a[i])
           w == g[i]
<1>2. p \in Seq(NameByte)
  <2>1. i - 1 \in 0 .. Len(a)
    BY <1>1
  <2> QED BY SMTT(30), <2>1 DEF Spells
<1>3. w = p \o e
  BY DEF Spells
<1>4. e \in Seq(NameByte) /\ (Len(e) = 1 \/ Len(e) = 3)
  BY <1>1, EscapedIs
<1> HIDE DEF p, e, w
<1>5. Len(p) \in Nat
  BY <1>2
<1>6. /\ Len(w) = Len(p) + Len(e)
      /\ \A n \in 1 .. Len(p) + Len(e) : w[n] = IF n <= Len(p) THEN p[n] ELSE e[n - Len(p)]
  BY <1>2, <1>3, <1>4, ConcatProperties
<1>7. \A n \in 1 .. Len(p) : w[n] = p[n]
  BY <1>4, <1>5, <1>6
<1>8. ASSUME NEW n \in 1 .. Len(e) PROVE w[Len(p) + n] = e[n]
  <2>1. Len(p) + n \in 1 .. Len(p) + Len(e) /\ ~(Len(p) + n <= Len(p)) /\ (Len(p) + n) - Len(p) = n
    BY <1>4, <1>5
  <2> QED BY <1>6, <2>1
<1>9. Longer(p, e, w)
  BY <1>4, <1>5, <1>6, <1>7, <1>8 DEF Longer
<1> QED BY <1>1, <1>2, <1>4, <1>9 DEF p, e, w

\* A name ends with bytes that are kept: its last one and the one before it are
\* no underscores.
LEMMA NameEnds ==
    ASSUME NEW a \in Seq(AddressByte), NEW g, Spells(g, a), NEW i \in 0 .. Len(a)
    PROVE  /\ Len(g[i]) \in Nat /\ (i # 0 => Len(g[i]) >= 1)
           /\ Len(g[i]) >= 1 => g[i][Len(g[i])] \in Plain
           /\ Len(g[i]) >= 2 => g[i][Len(g[i]) - 1] \in Plain
<1>1. Len(a) \in Nat /\ Len(g[0]) = 0
  BY DEF Spells
<1>2. ASSUME NEW k \in 1 .. Len(a)
      PROVE  Len(g[k]) \in Nat /\ Len(g[k]) >= 1 /\ g[k][Len(g[k])] \in Plain
  <2> DEFINE e == Escaped(a[k])
             p == g[k - 1]
             w == g[k]
  <2>1. a[k] \in AddressByte /\ Longer(p, e, w)
    BY SpellsStep
  <2>2. (Len(e) = 1 /\ e[1] \in Plain) \/ (Len(e) = 3 /\ e[3] \in Plain)
    <3>1. CASE a[k] \in Plain
      BY <2>1, <3>1, EscapedIs
    <3>2. CASE a[k] \notin Plain
      BY <2>1, <3>2, EscapedIs
    <3> QED BY <3>1, <3>2
  <2> HIDE DEF p, e, w
  <2>3. Len(p) \in Nat /\ Len(w) = Len(p) + Len(e)
        /\ \A n \in 1 .. Len(e) : w[Len(p) + n] = e[n]
    BY <2>1 DEF Longer
  <2>4. CASE Len(e) = 1 /\ e[1] \in Plain
    <3>1. 1 \in 1 .. Len(e) /\ Len(w) = Len(p) + 1
      BY <2>3, <2>4
    <3>2. w[Len(p) + 1] = e[1]
      BY <2>3, <3>1
    <3> QED BY <2>3, <2>4, <3>1, <3>2 DEF w
  <2>5. CASE Len(e) = 3 /\ e[3] \in Plain
    <3>1. 3 \in 1 .. Len(e) /\ Len(w) = Len(p) + 3
      BY <2>3, <2>5
    <3>2. w[Len(p) + 3] = e[3]
      BY <2>3, <3>1
    <3> QED BY <2>3, <2>5, <3>1, <3>2 DEF w
  <2> QED BY <2>2, <2>4, <2>5
<1>3. CASE i = 0
  BY <1>1, <1>3
<1>4. CASE i # 0
  <2>1. i \in 1 .. Len(a)
    BY <1>1, <1>4
  <2> DEFINE e == Escaped(a[i])
             p == g[i - 1]
             w == g[i]
  <2>2. a[i] \in AddressByte /\ Longer(p, e, w)
    BY <2>1, SpellsStep
  <2>3. (Len(e) = 1) \/ (Len(e) = 3 /\ e[2] \in Plain)
    BY <2>2, EscapedIs
  <2>4. Len(p) \in Nat /\ (Len(p) # 0 => p[Len(p)] \in Plain)
    <3>1. CASE i = 1
      BY <1>1, <3>1
    <3>2. CASE i # 1
      <4>1. i - 1 \in 1 .. Len(a)
        BY <1>1, <2>1, <3>2
      <4> QED BY <1>2, <4>1
    <3> QED BY <3>1, <3>2
  <2>5. ASSUME Len(w) >= 2 PROVE w[Len(w) - 1] \in Plain
    <3> HIDE DEF p, e, w
    <3>1. CASE Len(e) = 1
      <4>1. Len(w) - 1 = Len(p) /\ Len(p) \in 1 .. Len(p)
        BY <2>2, <2>5, <3>1 DEF Longer
      <4>2. w[Len(p)] = p[Len(p)]
        BY <2>2, <4>1 DEF Longer
      <4> QED BY <2>4, <4>1, <4>2
    <3>2. CASE Len(e) = 3 /\ e[2] \in Plain
      <4>1. Len(w) - 1 = Len(p) + 2 /\ 2 \in 1 .. Len(e)
        BY <2>2, <3>2 DEF Longer
      <4>2. w[Len(p) + 2] = e[2]
        BY <2>2, <4>1 DEF Longer
      <4> QED BY <3>2, <4>1, <4>2
    <3> QED BY <2>3, <3>1, <3>2
  <2> QED BY <1>2, <2>1, <2>5
<1> QED BY <1>3, <1>4

\* A byte cannot be the end of a name that an escape also ends: where the escape
\* has its underscore, the name has a byte that is kept.
LEMMA NoOtherEnd ==
    ASSUME NEW a \in Seq(AddressByte), NEW b \in Seq(AddressByte),
           NEW f, NEW g, Spells(f, a), Spells(g, b),
           NEW i \in 1 .. Len(a), NEW j \in 1 .. Len(b),
           f[i] = g[j], a[i] \in Plain
    PROVE  b[j] \in Plain
<1> SUFFICES ASSUME b[j] \notin Plain PROVE FALSE
  OBVIOUS
<1> DEFINE p == f[i - 1]
           q == g[j - 1]
           d == Escaped(a[i])
           e == Escaped(b[j])
           w == f[i]
<1>1. Longer(p, d, w) /\ a[i] \in AddressByte
  BY SpellsStep
<1>2. Longer(q, e, w) /\ b[j] \in AddressByte
  BY SpellsStep
<1>3. Len(d) = 1
  BY <1>1, EscapedIs
<1>4. Len(e) = 3 /\ e[1] = Mark
  BY <1>2, EscapedIs
<1>5. i - 1 \in 0 .. Len(a)
  OBVIOUS
<1>6. Len(p) >= 2 => p[Len(p) - 1] \in Plain
  BY <1>5, NameEnds
<1> HIDE DEF p, q, d, e, w
<1>7. Len(w) = Len(p) + 1 /\ Len(w) = Len(q) + 3 /\ Len(p) \in Nat /\ Len(q) \in Nat
  BY <1>1, <1>2, <1>3, <1>4 DEF Longer
<1>8. Len(p) >= 2 /\ Len(p) - 1 = Len(q) + 1 /\ Len(p) - 1 \in 1 .. Len(p)
  BY <1>7
<1>9. w[Len(p) - 1] = p[Len(p) - 1]
  BY <1>1, <1>8 DEF Longer
<1>10. w[Len(q) + 1] = e[1]
  BY <1>2, <1>4 DEF Longer
<1>11. Mark \in Plain
  BY <1>4, <1>6, <1>8, <1>9, <1>10
<1> QED BY <1>11, KeysAssumption DEF Mark

\* Equal escapes are of one byte.
LEMMA EscapedInjective ==
    ASSUME NEW x \in AddressByte, NEW y \in AddressByte, Escaped(x) = Escaped(y),
           x \in Plain <=> y \in Plain
    PROVE  x = y
<1>1. CASE x \in Plain
  BY <1>1, EscapedIs
<1>2. CASE x \notin Plain
  <2>1. /\ Escaped(x)[2] = Hex[x][1] /\ Escaped(x)[3] = Hex[x][2]
        /\ Hex[x] = <<Hex[x][1], Hex[x][2]>>
    BY <1>2, EscapedIs
  <2>2. /\ Escaped(y)[2] = Hex[y][1] /\ Escaped(y)[3] = Hex[y][2]
        /\ Hex[y] = <<Hex[y][1], Hex[y][2]>>
    BY <1>2, EscapedIs
  <2>3. Hex[x] = Hex[y]
    BY <2>1, <2>2
  <2> QED BY <1>2, <2>3, KeysAssumption
<1> QED BY <1>1, <1>2

\* A name is spelled by one address only.
LEMMA OneSpelling ==
    ASSUME NEW a \in Seq(AddressByte), NEW b \in Seq(AddressByte),
           NEW f, NEW g, Spells(f, a), Spells(g, b), f[Len(a)] = g[Len(b)]
    PROVE  a = b
<1> DEFINE Agree(i, j) == i = j /\ \A n \in 1 .. i : a[n] = b[n]
           Good == {i \in Nat : i <= Len(a) =>
                       \A j \in 0 .. Len(b) : f[i] = g[j] => Agree(i, j)}
<1>1. Len(a) \in Nat /\ Len(b) \in Nat
  OBVIOUS
<1>2. 0 \in Good
  <2> SUFFICES ASSUME NEW j \in 0 .. Len(b), f[0] = g[j] PROVE Agree(0, j)
    OBVIOUS
  <2>1. Len(f[0]) = 0
    BY DEF Spells
  <2>2. j # 0 => Len(g[j]) >= 1
    BY NameEnds
  <2>3. j = 0
    BY <2>1, <2>2
  <2> QED BY <2>3
<1>3. ASSUME NEW k \in Nat, k \in Good PROVE k + 1 \in Good
  <2> HIDE DEF Agree
  <2> SUFFICES ASSUME k + 1 <= Len(a), NEW j \in 0 .. Len(b), f[k + 1] = g[j]
               PROVE  Agree(k + 1, j)
    OBVIOUS
  <2>1. k + 1 \in 1 .. Len(a) /\ (k + 1) - 1 = k
    BY <1>1
  <2>2. j \in 1 .. Len(b) /\ j - 1 \in 0 .. Len(b)
    <3>1. Len(g[0]) = 0
      BY DEF Spells
    <3>2. Len(f[k + 1]) >= 1
      BY <1>1, <2>1, NameEnds
    <3> QED BY <1>1, <3>1, <3>2
  <2>3. a[k + 1] \in Plain <=> b[j] \in Plain
    BY <2>1, <2>2, NoOtherEnd
  <2> DEFINE p == f[k]
             q == g[j - 1]
             d == Escaped(a[k + 1])
             e == Escaped(b[j])
             w == g[j]
  <2>4. a[k + 1] \in AddressByte /\ p \in Seq(NameByte) /\ d \in Seq(NameByte) /\ Longer(p, d, w)
    BY <2>1, SpellsStep
  <2>5. b[j] \in AddressByte /\ q \in Seq(NameByte) /\ e \in Seq(NameByte) /\ Longer(q, e, w)
    BY <2>2, SpellsStep
  <2>6. Len(d) = Len(e)
    BY <2>3, <2>4, <2>5, EscapedIs
  <2>7. p = q /\ d = e
    <3> HIDE DEF p, q, d, e, w
    <3> QED BY <2>4, <2>5, <2>6, SameEnds
  <2>8. a[k + 1] = b[j]
    BY <2>3, <2>4, <2>5, <2>7, EscapedInjective
  <2>9. Agree(k, j - 1)
    BY <1>1, <1>3, <2>1, <2>2, <2>7
  <2>10. k + 1 = j /\ \A n \in 1 .. k : a[n] = b[n]
    BY <2>2, <2>9 DEF Agree
  <2> QED BY <2>8, <2>10 DEF Agree
<1> HIDE DEF Good
<1>4. Len(a) \in Good
  BY <1>1, <1>2, <1>3, Induction
<1>5. Agree(Len(a), Len(b))
  <2> HIDE DEF Agree
  <2> QED BY <1>1, <1>4 DEF Good
<1> QED BY <1>5, SeqEqual

\* Distinct addresses have distinct queues: address_queue (src/keys.rs) escapes
\* what it does not keep, and a digest stands for one address.
LEMMA AddressQueueInjective ==
    ASSUME NEW a \in Seq(AddressByte), NEW b \in Seq(AddressByte),
           AddressQueue(a) = AddressQueue(b)
    PROVE  a = b
<1> DEFINE Name(c) == FlattenSeq([n \in DOMAIN c |-> Escaped(c[n])])
<1>1. PICK f : Spells(f, a) /\ f[Len(a)] = Name(a)
  BY NameIs
<1>2. PICK g : Spells(g, b) /\ g[Len(b)] = Name(b)
  BY NameIs
<1>3. \A c : AddressQueue(c) = IF Len(Name(c)) <= MaxQueueName
                               THEN <<"resonate.a.", Name(c)>> ELSE <<"resonate.h.", c>>
  BY DEF AddressQueue
<1> HIDE DEF Name
<1>4. a = b \/ Name(a) = Name(b)
  BY <1>3
<1> QED BY <1>1, <1>2, <1>4, OneSpelling

-----------------------------------------------------------------------------
(* The branch index                                                        *)

\* No string of the index has the null byte.
NoNull == \A entry \in index : ~Contains(entry[1], Null) /\ ~Contains(entry[2], Null)

\* A key begins with the prefix of a branch only if it is of the branch: the null
\* byte after the branch is the first one of the key.
LEMMA KeyOfBranch ==
    ASSUME NEW branch \in Seq(IdByte), NEW other \in Seq(IdByte), NEW id \in Seq(IdByte),
           ~Contains(branch, Null), ~Contains(other, Null),
           IsPrefix(BranchPrefix(branch), BranchKey(other, id))
    PROVE  branch = other
<1> DEFINE B == IdByte \cup {Null}
           prefix == Append(branch, Null)
           start == Append(other, Null)
           key == start \o id
<1>1. /\ branch \in Seq(B) /\ other \in Seq(B) /\ id \in Seq(B) /\ Null \in B
      /\ Len(branch) \in Nat /\ Len(other) \in Nat
  OBVIOUS
<1>2. /\ prefix \in Seq(B) /\ Len(prefix) = Len(branch) + 1
      /\ prefix[Len(branch) + 1] = Null /\ \A n \in 1 .. Len(branch) : prefix[n] = branch[n]
  BY <1>1, AppendProperties
<1>3. /\ start \in Seq(B) /\ Len(start) = Len(other) + 1
      /\ start[Len(other) + 1] = Null /\ \A n \in 1 .. Len(other) : start[n] = other[n]
  BY <1>1, AppendProperties
<1>4. IsPrefix(prefix, key)
  BY DEF BranchPrefix, BranchKey
<1> HIDE DEF B, prefix, start
<1>5. /\ key \in Seq(B) /\ Len(key) = Len(start) + Len(id) /\ Len(id) \in Nat
      /\ \A n \in 1 .. Len(start) + Len(id) :
            key[n] = IF n <= Len(start) THEN start[n] ELSE id[n - Len(start)]
  BY <1>1, <1>3, ConcatProperties
<1> HIDE DEF key
<1>6. \A n \in 1 .. Len(prefix) : prefix[n] = key[n]
  <2>1. prefix \in Seq(B) /\ key \in Seq(B)
    BY <1>2, <1>5
  <2> QED BY <1>4, <2>1, PrefixIs
<1>7. \A n \in 1 .. Len(start) : key[n] = start[n]
  BY <1>1, <1>3, <1>5
<1>8. \A n \in 1 .. Len(branch) : branch[n] # Null
  BY DEF Contains
<1>9. \A n \in 1 .. Len(other) : other[n] # Null
  BY DEF Contains
<1>10. ~(Len(branch) < Len(other))
  <2> SUFFICES ASSUME Len(branch) < Len(other) PROVE FALSE
    OBVIOUS
  <2> DEFINE n == Len(branch) + 1
  <2>1. n \in 1 .. Len(prefix) /\ n \in 1 .. Len(start) /\ n \in 1 .. Len(other)
    BY <1>1, <1>2, <1>3
  <2> QED BY <1>2, <1>3, <1>6, <1>7, <1>9, <2>1
<1>11. ~(Len(other) < Len(branch))
  <2> SUFFICES ASSUME Len(other) < Len(branch) PROVE FALSE
    OBVIOUS
  <2> DEFINE n == Len(other) + 1
  <2>1. n \in 1 .. Len(prefix) /\ n \in 1 .. Len(start) /\ n \in 1 .. Len(branch)
    BY <1>1, <1>2, <1>3
  <2> QED BY <1>2, <1>3, <1>6, <1>7, <1>8, <2>1
<1>12. Len(branch) = Len(other)
  BY <1>1, <1>10, <1>11
<1>13. ASSUME NEW n \in 1 .. Len(branch) PROVE branch[n] = other[n]
  <2>1. n \in 1 .. Len(prefix) /\ n \in 1 .. Len(start) /\ n \in 1 .. Len(other)
    BY <1>1, <1>2, <1>3, <1>12
  <2> QED BY <1>2, <1>3, <1>6, <1>7, <2>1
<1> QED BY <1>12, <1>13, SeqEqual

\* A key of the branch begins with its prefix, and the id is what follows it.
LEMMA KeyHasPrefix ==
    ASSUME NEW branch \in Seq(IdByte), NEW id \in Seq(IdByte)
    PROVE  /\ IsPrefix(BranchPrefix(branch), BranchKey(branch, id))
           /\ BranchEntryId(BranchPrefix(branch), BranchKey(branch, id)) = id
<1> DEFINE B == IdByte \cup {Null}
           prefix == Append(branch, Null)
           key == prefix \o id
           rest == SubSeq(key, Len(prefix) + 1, Len(key))
<1>1. branch \in Seq(B) /\ id \in Seq(B) /\ Null \in B
  OBVIOUS
<1>2. prefix \in Seq(B)
  BY <1>1, AppendProperties
<1> HIDE DEF B, prefix
<1>3. /\ key \in Seq(B) /\ Len(key) = Len(prefix) + Len(id)
      /\ Len(id) \in Nat /\ Len(prefix) \in Nat
      /\ \A n \in 1 .. Len(prefix) + Len(id) :
            key[n] = IF n <= Len(prefix) THEN prefix[n] ELSE id[n - Len(prefix)]
  BY <1>1, <1>2, ConcatProperties
<1> HIDE DEF key
<1>4. IsPrefix(prefix, key)
  <2>1. Len(prefix) <= Len(key) /\ \A n \in 1 .. Len(prefix) : prefix[n] = key[n]
    BY <1>3
  <2>2. prefix \in Seq(B) /\ key \in Seq(B)
    BY <1>2, <1>3
  <2> QED BY <2>1, <2>2, PrefixIs
<1>5. \A n \in (Len(prefix) + 1) .. Len(key) : key[n] \in B
  BY <1>3
<1>6. /\ rest \in Seq(B)
      /\ Len(rest) = IF Len(prefix) + 1 <= Len(key) THEN Len(key) - (Len(prefix) + 1) + 1 ELSE 0
      /\ \A n \in 1 .. Len(key) - (Len(prefix) + 1) + 1 : rest[n] = key[(Len(prefix) + 1) + n - 1]
  <2>1. Len(prefix) + 1 \in Int /\ Len(key) \in Int
    BY <1>3
  <2> QED BY <1>5, <2>1, SubSeqProperties
<1> HIDE DEF rest
<1>7. Len(rest) = Len(id)
  BY <1>3, <1>6
<1>8. ASSUME NEW n \in 1 .. Len(id) PROVE rest[n] = id[n]
  <2> DEFINE m == (Len(prefix) + 1) + n - 1
  <2>1. /\ n \in 1 .. Len(key) - (Len(prefix) + 1) + 1 /\ m \in 1 .. Len(prefix) + Len(id)
        /\ ~(m <= Len(prefix)) /\ m - Len(prefix) = n
    BY <1>3
  <2>2. rest[n] = key[m]
    BY <1>6, <2>1
  <2> HIDE DEF m
  <2> QED BY <1>3, <2>1, <2>2
<1>9. rest = id
  BY <1>1, <1>6, <1>7, <1>8, SeqEqual
<1> QED BY <1>4, <1>9 DEF BranchPrefix, BranchKey, BranchEntryId, prefix, key, rest

-----------------------------------------------------------------------------
(* The steps                                                               *)

\* The branch of a promise that a request creates is a string.
LEMMA BranchIsString ==
    ASSUME NEW id \in StringsUpTo(IdByte, MaxId), NEW n \in 0 .. Len(id)
    PROVE  id \in Seq(IdByte) /\ SubSeq(id, 1, n) \in Seq(IdByte)
<1>1. id \in Seq(IdByte)
  BY KeysAssumption, BoundedStrings
<1>2. SubSeq(id, 1, n) \in Seq(IdByte)
  BY <1>1
<1> QED BY <1>1, <1>2

\* Every step adds an address, or an entry that a request or a schedule names.
LEMMA KeysStep ==
    ASSUME [Next]_vars
    PROVE  \/ /\ index' = index
              /\ addresses' = addresses \/
                 \E a \in Seq(AddressByte) : addresses' = addresses \cup {a}
           \/ /\ addresses' = addresses
              /\ \E branch, id \in Seq(IdByte) :
                    /\ index' = index \cup {<<branch, id>>}
                    /\ (id \in FiredIds /\ branch = id) \/ ValidateCreate(id, branch)
<1>1. ASSUME NEW a \in StringsUpTo(AddressByte, MaxAddress), UseAddress(a)
      PROVE  index' = index /\ \E b \in Seq(AddressByte) : addresses' = addresses \cup {b}
  <2>1. a \in Seq(AddressByte)
    BY KeysAssumption, BoundedStrings
  <2> QED BY <1>1, <2>1 DEF UseAddress
<1>2. ASSUME NEW id \in StringsUpTo(IdByte, MaxId), NEW n \in 0 .. Len(id),
             PromiseCreate(id, SubSeq(id, 1, n))
      PROVE  /\ addresses' = addresses
             /\ \E branch, i \in Seq(IdByte) :
                   index' = index \cup {<<branch, i>>} /\ ValidateCreate(i, branch)
  <2> DEFINE branch == SubSeq(id, 1, n)
  <2>1. id \in Seq(IdByte) /\ branch \in Seq(IdByte)
    BY BranchIsString
  <2>2. PromiseCreate(id, branch)
    BY <1>2
  <2> HIDE DEF branch
  <2> QED BY <2>1, <2>2 DEF PromiseCreate, IndexBranch
<1>3. ASSUME NEW id \in FiredIds, FireSchedule(id)
      PROVE  id \in Seq(IdByte) /\ addresses' = addresses /\ index' = index \cup {<<id, id>>}
  BY <1>3, KeysAssumption DEF FireSchedule, IndexBranch
<1>4. CASE UNCHANGED vars
  BY <1>4 DEF vars
<1> QED BY <1>1, <1>2, <1>3, <1>4 DEF Next

\* Addresses and the entries of the index are strings.
LEMMA KeysTypes == Spec => []KeysTyped
<1>1. Init => KeysTyped
  BY DEF Init, KeysTyped
<1>2. KeysTyped /\ [Next]_vars => KeysTyped'
  <2> SUFFICES ASSUME KeysTyped, [Next]_vars PROVE KeysTyped'
    OBVIOUS
  <2> QED BY KeysStep DEF KeysTyped
<1> QED BY <1>1, <1>2, PTL DEF Spec

\* Two addresses never have one queue, whatever they are and however many are in
\* use (address_queue, src/keys.rs).
THEOREM QueuesAreDistinct == Spec => []DistinctQueues
<1>1. KeysTyped => DistinctQueues
  BY AddressQueueInjective DEF KeysTyped, DistinctQueues
<1> QED BY <1>1, KeysTypes, PTL

\* The branch of every promise is in its origin (validate_create and is_ancestor,
\* src/kernel.rs; the firing of a schedule, which names its own promise).
THEOREM BranchesStayInOrigin == Spec => []BranchInOrigin
<1>1. Init => BranchInOrigin
  BY DEF Init, BranchInOrigin
<1>2. BranchInOrigin /\ [Next]_vars => BranchInOrigin'
  <2> SUFFICES ASSUME BranchInOrigin, [Next]_vars PROVE BranchInOrigin'
    OBVIOUS
  <2>1. CASE index' = index
    BY <2>1 DEF BranchInOrigin
  <2>2. ASSUME NEW branch \in Seq(IdByte), NEW id \in Seq(IdByte),
               index' = index \cup {<<branch, id>>},
               (id \in FiredIds /\ branch = id) \/ ValidateCreate(id, branch)
        PROVE  BranchInOrigin'
    <3>1. OriginOf(branch) = OriginOf(id)
      BY <2>2, AncestorInOrigin DEF ValidateCreate
    <3>2. ASSUME NEW entry \in index'
          PROVE  OriginOf(entry[1]) = OriginOf(entry[2])
      <4>1. CASE entry \in index
        BY <4>1 DEF BranchInOrigin
      <4>2. CASE entry = <<branch, id>>
        BY <3>1, <4>2
      <4> QED BY <2>2, <4>1, <4>2
    <3> QED BY <3>2 DEF BranchInOrigin
  <2> QED BY <2>1, <2>2, KeysStep
<1> QED BY <1>1, <1>2, PTL DEF Spec

\* The null byte is in no string of the index, when no schedule spells it out.
LEMMA NoNullInIndex ==
    ASSUME \A id \in FiredIds : ~Contains(id, Null) PROVE Spec => []NoNull
<1>1. Init => NoNull
  BY DEF Init, NoNull
<1>2. NoNull /\ [Next]_vars => NoNull'
  <2> SUFFICES ASSUME NoNull, [Next]_vars PROVE NoNull'
    OBVIOUS
  <2>1. CASE index' = index
    BY <2>1 DEF NoNull
  <2>2. ASSUME NEW branch \in Seq(IdByte), NEW id \in Seq(IdByte),
               index' = index \cup {<<branch, id>>},
               (id \in FiredIds /\ branch = id) \/ ValidateCreate(id, branch)
        PROVE  NoNull'
    <3>1. ~Contains(id, Null)
      BY <2>2 DEF ValidateCreate
    <3>2. branch = id \/ IsPrefix(branch, id)
      BY <2>2 DEF ValidateCreate, IsAncestor, IsStrictPrefix
    <3>3. ~Contains(branch, Null)
      <4>1. CASE branch = id
        BY <3>1, <4>1
      <4>2. CASE IsPrefix(branch, id)
        <5>1. Len(branch) <= Len(id) /\ \A n \in 1 .. Len(branch) : branch[n] = id[n]
          BY <4>2, PrefixIs
        <5> QED BY <3>1, <5>1 DEF Contains
      <4> QED BY <3>2, <4>1, <4>2
    <3>4. ASSUME NEW entry \in index'
          PROVE  ~Contains(entry[1], Null) /\ ~Contains(entry[2], Null)
      <4>1. CASE entry \in index
        BY <4>1 DEF NoNull
      <4>2. CASE entry = <<branch, id>>
        BY <3>1, <3>3, <4>2
      <4> QED BY <2>2, <4>1, <4>2
    <3> QED BY <3>4 DEF NoNull
  <2> QED BY <2>1, <2>2, KeysStep
<1> QED BY <1>1, <1>2, PTL DEF Spec

\* The scan of a branch finds the promises of the branch and nothing of another
\* branch's keys (branch_prefix and branch_entry_id, src/keys.rs), as long as no
\* schedule spells out a null byte, which only the requests refuse.
THEOREM BranchScansAreExact ==
    ASSUME \A id \in FiredIds : ~Contains(id, Null)
    PROVE  Spec => []BranchScanIsExact
<1>1. KeysTyped /\ NoNull => BranchScanIsExact
  <2> SUFFICES ASSUME KeysTyped, NoNull, NEW entry \in index
               PROVE  BranchScan(entry[1]) = {e[2] : e \in {x \in index : x[1] = entry[1]}}
    BY DEF BranchScanIsExact
  <2> DEFINE branch == entry[1]
             prefix == BranchPrefix(branch)
             Found == {e \in index : IsPrefix(prefix, BranchKey(e[1], e[2]))}
             Own == {x \in index : x[1] = branch}
  <2>1. \A e \in index : /\ e[1] \in Seq(IdByte) /\ e[2] \in Seq(IdByte)
                         /\ ~Contains(e[1], Null)
    BY DEF KeysTyped, NoNull
  <2>2. \A e \in Found : e \in Own
    BY <2>1, KeyOfBranch
  <2>3. \A e \in Own : e \in Found /\ BranchEntryId(prefix, BranchKey(e[1], e[2])) = e[2]
    BY <2>1, KeyHasPrefix
  <2>4. BranchScan(branch) = {BranchEntryId(prefix, BranchKey(e[1], e[2])) : e \in Found}
    BY DEF BranchScan
  <2> HIDE DEF Found, Own, prefix
  <2>5. Found = Own
    BY <2>2, <2>3
  <2>6. {BranchEntryId(prefix, BranchKey(e[1], e[2])) : e \in Own} = {e[2] : e \in Own}
    BY <2>3
  <2> QED BY <2>4, <2>5, <2>6 DEF Own
<1>2. Spec => []NoNull
  BY NoNullInIndex
<1> QED BY <1>1, <1>2, KeysTypes, PTL
=============================================================================
