---------------------------- MODULE DriverProofs ----------------------------
(***************************************************************************)
(* Whatever the input is, and whatever the bounds on it: everything the    *)
(* parser allocates is owned once and is a tree of the right kinds of      *)
(* node; when main returns, nothing of it is left, and its exit status     *)
(* says whether there is any output.                                       *)
(***************************************************************************)
EXTENDS Driver, TLAPS, FiniteSetTheorems, WellFoundedInduction

(***************************************************************************)
(* The heap, and the pointers into it from outside: place by place.        *)
(***************************************************************************)

\* An object put at an address, and one that is gone.
With(h, a, object) == [b \in DOMAIN h \cup {a} |-> IF b = a THEN object ELSE h[b]]
Minus(h, a) == [b \in DOMAIN h \ {a} |-> h[b]]

\* What a pointer is worth: the kind of its object.
Kind(h, a) == IF a = 0 THEN "NULL" ELSE h[a].kind

ObjectKinds == Exprs \cup Stmts \cup {"prog", "func", "extern", "list", "name"}

\* The parts of an object are of the right kinds.
PartsFit(h, kind, refs) ==
  /\ kind \in ObjectKinds
  /\ IF kind = "list" THEN \A k \in DOMAIN refs : Kind(h, refs[k]) \in Stmts
     ELSE /\ Len(refs) = Len(PartKinds(kind))
          /\ \A k \in DOMAIN refs : Kind(h, refs[k]) \in PartKinds(kind)[k]

\* o gives the pointers from outside, by places, which are numbers.
HeapTypes(h, o) ==
  /\ h = [a \in DOMAIN h |-> h[a]] /\ DOMAIN h \subseteq Addresses
  /\ \A a \in DOMAIN h : h[a].refs \in Seq(Pointers)
  /\ o \in [Int -> Pointers]

\* No two pointers to one object: both from outside, one from outside, none.
OnceOutside(o) == \A i, j \in Int : o[i] = o[j] /\ o[i] # 0 => i = j

OnceEither(h, o) ==
  \A a \in DOMAIN h : \A k \in DOMAIN h[a].refs :
    h[a].refs[k] # 0 => \A i \in Int : o[i] # h[a].refs[k]

OnceInside(h) ==
  \A a, b \in DOMAIN h : \A k \in DOMAIN h[a].refs, l \in DOMAIN h[b].refs :
    h[a].refs[k] = h[b].refs[l] /\ h[a].refs[k] # 0 => a = b /\ k = l

\* What is pointed to is there.
There(h, o) ==
  /\ \A i \in Int : o[i] # 0 => o[i] \in DOMAIN h
  /\ \A a \in DOMAIN h : \A k \in DOMAIN h[a].refs : h[a].refs[k] # 0 => h[a].refs[k] \in DOMAIN h

\* What is there is pointed to.
Held(h, o) ==
  \A a \in DOMAIN h : \/ \E i \in Int : o[i] = a
                      \/ \E b \in DOMAIN h : \E k \in DOMAIN h[b].refs : h[b].refs[k] = a

Fitting(h) == \A a \in DOMAIN h : PartsFit(h, h[a].kind, h[a].refs)

\* Objects are higher than their parts.
Ranked(h, rank) ==
  \A a \in DOMAIN h : \A k \in DOMAIN h[a].refs :
    h[a].refs[k] # 0 => rank[h[a].refs[k]] < rank[a]

Acyclic(h) == \E n \in Nat : \E rank \in [DOMAIN h -> 0 .. n] : Ranked(h, rank)

\* Everything is owned once, fits, and can be freed from above: the free functions end.
Sound(h, o) ==
  /\ HeapTypes(h, o)
  /\ OnceOutside(o) /\ OnceEither(h, o) /\ OnceInside(h)
  /\ There(h, o) /\ Held(h, o)
  /\ Fitting(h) /\ Acyclic(h)

\* The kind of what place i points to.
KindAt(h, o, i) == Kind(h, o[i])

\* Objects that get parts get them from outside.
Taken(o, q, r, a) ==
  [i \in Int |-> IF i = r THEN a ELSE IF \E k \in DOMAIN q : q[k] = i THEN 0 ELSE o[i]]

\* NULL is no address.
LEMMA PointersAre == 0 \notin Addresses /\ 0 \in Pointers /\ Addresses \subseteq Pointers
BY AddressesAssumption DEF Pointers

\* Those parts, at those places, and a free place for the new object itself.
WrapReady(h, o, a, q, r, kind, refs) ==
  /\ Sound(h, o) /\ a \in Addresses \ DOMAIN h
  /\ q \in Seq(Int) /\ \A j, k \in DOMAIN q : q[j] = q[k] => j = k
  /\ r \in Int /\ (o[r] = 0 \/ \E k \in DOMAIN q : q[k] = r)
  /\ refs \in Seq(Pointers) /\ Len(refs) = Len(q)
  /\ \A k \in DOMAIN q : refs[k] = o[q[k]]
  /\ PartsFit(h, kind, refs)

\* A new object with the parts at places q, put in place r.
LEMMA Wrapped ==
  ASSUME NEW h, NEW o, NEW a, NEW q, NEW r, NEW kind, NEW refs,
         WrapReady(h, o, a, q, r, kind, refs)
  PROVE  /\ Sound(With(h, a, Object(kind, refs)), Taken(o, q, r, a))
         /\ \A i \in Int \ {r} : (\A k \in DOMAIN q : q[k] # i) =>
              KindAt(With(h, a, Object(kind, refs)), Taken(o, q, r, a), i) = KindAt(h, o, i)
         /\ KindAt(With(h, a, Object(kind, refs)), Taken(o, q, r, a), r) = kind
<1> SUFFICES ASSUME Sound(h, o), a \in Addresses \ DOMAIN h,
                    q \in Seq(Int), \A j, k \in DOMAIN q : q[j] = q[k] => j = k,
                    r \in Int, o[r] = 0 \/ \E k \in DOMAIN q : q[k] = r,
                    refs \in Seq(Pointers), Len(refs) = Len(q),
                    \A k \in DOMAIN q : refs[k] = o[q[k]],
                    PartsFit(h, kind, refs)
             PROVE  /\ Sound(With(h, a, Object(kind, refs)), Taken(o, q, r, a))
                    /\ \A i \in Int \ {r} : (\A k \in DOMAIN q : q[k] # i) =>
                         KindAt(With(h, a, Object(kind, refs)), Taken(o, q, r, a), i)
                           = KindAt(h, o, i)
                    /\ KindAt(With(h, a, Object(kind, refs)), Taken(o, q, r, a), r) = kind
  BY DEF WrapReady
<1> DEFINE g == With(h, a, Object(kind, refs))
           p == Taken(o, q, r, a)
<1>1. /\ DOMAIN g = DOMAIN h \cup {a}
      /\ g[a].kind = kind /\ g[a].refs = refs
      /\ \A b \in DOMAIN h : g[b] = h[b]
      /\ g = [b \in DOMAIN g |-> g[b]]
  BY DEF With, Object
<1>2. /\ p \in [Int -> Pointers] /\ p[r] = a
      /\ \A i \in Int : i # r => p[i] = IF \E k \in DOMAIN q : q[k] = i THEN 0 ELSE o[i]
      /\ \A i \in Int \ {r} : (\A k \in DOMAIN q : q[k] # i) => p[i] = o[i]
      /\ \A i \in Int \ {r} : p[i] # 0 => p[i] = o[i] /\ (\A k \in DOMAIN q : q[k] # i)
  BY PointersAre DEF Taken, Sound, HeapTypes
<1>3. DOMAIN refs = DOMAIN q /\ (\A k \in DOMAIN q : q[k] \in Int) /\ a # 0 /\ a \notin DOMAIN h
  BY PointersAre
<1> HIDE DEF g, p
<1>4. /\ \A i \in Int : o[i] # a
      /\ \A b \in DOMAIN h : \A k \in DOMAIN h[b].refs : h[b].refs[k] # a
      /\ \A k \in DOMAIN refs : refs[k] # a
  <2>1. \A i \in Int : o[i] # a
    BY <1>3 DEF Sound, There
  <2>2. \A b \in DOMAIN h : \A k \in DOMAIN h[b].refs : h[b].refs[k] # a
    BY <1>3 DEF Sound, There
  <2> QED BY <2>1, <2>2, <1>3
<1>5. \A k \in DOMAIN refs : refs[k] # 0 => refs[k] \in DOMAIN h
  BY <1>3 DEF Sound, There
<1>6. HeapTypes(g, p)
  <2>1. DOMAIN g \subseteq Addresses
    BY <1>1 DEF Sound, HeapTypes
  <2>2. \A b \in DOMAIN g : g[b].refs \in Seq(Pointers)
    BY <1>1 DEF Sound, HeapTypes
  <2> QED BY <2>1, <2>2, <1>1, <1>2 DEF HeapTypes
<1>7. OnceOutside(p)
  BY <1>2, <1>4 DEF Sound, OnceOutside
<1>8. OnceEither(g, p)
  <2> SUFFICES ASSUME NEW b \in DOMAIN g, NEW k \in DOMAIN g[b].refs, g[b].refs[k] # 0,
                      NEW i \in Int, p[i] = g[b].refs[k]
               PROVE  FALSE
    BY DEF OnceEither
  <2>1. CASE b = a
    <3>1. k \in DOMAIN q /\ g[b].refs[k] = o[q[k]]
      BY <2>1, <1>1, <1>3
    <3>2. i # r
      BY <3>1, <1>2, <1>3, <1>4
    <3>3. p[i] = o[i] /\ q[k] # i
      BY <3>1, <3>2, <1>2
    <3>4. o[i] = o[q[k]] /\ o[i] # 0
      BY <3>1, <3>3
    <3> QED BY <3>3, <3>4, <3>1, <1>3 DEF Sound, OnceOutside
  <2>2. CASE b # a
    <3>1. b \in DOMAIN h /\ g[b] = h[b]
      BY <2>2, <1>1
    <3>2. i # r
      BY <3>1, <1>2, <1>4
    <3>3. p[i] = o[i]
      BY <3>1, <3>2, <1>2
    <3> QED BY <3>1, <3>3 DEF Sound, OnceEither
  <2> QED BY <2>1, <2>2
<1>9. OnceInside(g)
  <2> SUFFICES ASSUME NEW b \in DOMAIN g, NEW c \in DOMAIN g,
                      NEW k \in DOMAIN g[b].refs, NEW l \in DOMAIN g[c].refs,
                      g[b].refs[k] = g[c].refs[l], g[b].refs[k] # 0
               PROVE  b = c /\ k = l
    BY DEF OnceInside
  <2>1. \A d \in DOMAIN h : \A m \in DOMAIN h[d].refs : \A n \in DOMAIN refs :
          refs[n] # 0 => h[d].refs[m] # refs[n]
    BY <1>3 DEF Sound, OnceEither
  <2>2. \A m, n \in DOMAIN refs : refs[m] = refs[n] /\ refs[m] # 0 => m = n
    BY <1>3 DEF Sound, OnceOutside
  <2>3. CASE b = a /\ c = a
    BY <2>2, <2>3, <1>1
  <2>4. CASE b = a /\ c # a
    BY <2>1, <2>4, <1>1
  <2>5. CASE b # a /\ c = a
    BY <2>1, <2>5, <1>1
  <2>6. CASE b # a /\ c # a
    BY <2>6, <1>1 DEF Sound, OnceInside
  <2> QED BY <2>3, <2>4, <2>5, <2>6
<1>10. There(g, p)
  <2>1. \A i \in Int : p[i] # 0 => p[i] \in DOMAIN g
    BY <1>1, <1>2 DEF Sound, There
  <2>2. \A b \in DOMAIN g : \A k \in DOMAIN g[b].refs :
          g[b].refs[k] # 0 => g[b].refs[k] \in DOMAIN g
    BY <1>1, <1>5 DEF Sound, There
  <2> QED BY <2>1, <2>2 DEF There
<1>11. Held(g, p)
  <2> SUFFICES ASSUME NEW b \in DOMAIN g
               PROVE  \/ \E i \in Int : p[i] = b
                      \/ \E c \in DOMAIN g : \E k \in DOMAIN g[c].refs : g[c].refs[k] = b
    BY DEF Held
  <2>1. CASE b = a
    BY <2>1, <1>2
  <2>2. CASE b # a
    <3>1. b \in DOMAIN h
      BY <2>2, <1>1
    <3>2. CASE \E i \in Int : o[i] = b
      <4>1. PICK i \in Int : o[i] = b
        BY <3>2
      <4>2. CASE \E k \in DOMAIN q : q[k] = i
        <5>1. PICK k \in DOMAIN q : q[k] = i
          BY <4>2
        <5>2. k \in DOMAIN g[a].refs /\ g[a].refs[k] = b /\ a \in DOMAIN g
          BY <4>1, <5>1, <1>1, <1>3
        <5> QED BY <5>2
      <4>3. CASE \A k \in DOMAIN q : q[k] # i
        <5>1. b # 0
          BY <3>1, PointersAre DEF Sound, HeapTypes
        <5>2. i # r
          BY <4>1, <4>3, <5>1
        <5> QED BY <4>1, <4>3, <5>2, <1>2
      <4> QED BY <4>2, <4>3
    <3>3. CASE \E c \in DOMAIN h : \E k \in DOMAIN h[c].refs : h[c].refs[k] = b
      BY <3>3, <1>1
    <3> QED BY <3>1, <3>2, <3>3 DEF Sound, Held
  <2> QED BY <2>1, <2>2
<1>12. \A b \in Pointers : b = 0 \/ b \in DOMAIN h => Kind(g, b) = Kind(h, b)
  BY <1>1 DEF Kind
<1>13. Fitting(g)
  <2> SUFFICES ASSUME NEW b \in DOMAIN g PROVE PartsFit(g, g[b].kind, g[b].refs)
    BY DEF Fitting
  <2>1. CASE b = a
    <3>1. \A k \in DOMAIN refs : Kind(g, refs[k]) = Kind(h, refs[k])
      BY <1>5, <1>12, <1>3
    <3> QED BY <2>1, <3>1, <1>1 DEF PartsFit
  <2>2. CASE b # a
    <3>1. b \in DOMAIN h /\ g[b] = h[b]
      BY <2>2, <1>1
    <3>2. h[b].refs \in Seq(Pointers)
      BY <3>1 DEF Sound, HeapTypes
    <3>3. \A k \in DOMAIN h[b].refs : Kind(g, h[b].refs[k]) = Kind(h, h[b].refs[k])
      BY <3>1, <3>2, <1>12 DEF Sound, There
    <3>4. PartsFit(h, h[b].kind, h[b].refs)
      BY <3>1 DEF Sound, Fitting
    <3> QED BY <3>1, <3>3, <3>4 DEF PartsFit
  <2> QED BY <2>1, <2>2
<1>14. Acyclic(g)
  <2>1. PICK n \in Nat : \E rank \in [DOMAIN h -> 0 .. n] : Ranked(h, rank)
    BY DEF Sound, Acyclic
  <2>2. PICK rank \in [DOMAIN h -> 0 .. n] : Ranked(h, rank)
    BY <2>1
  <2> DEFINE up == [b \in DOMAIN g |-> IF b = a THEN n + 1 ELSE rank[b]]
  <2>3. up \in [DOMAIN g -> 0 .. n + 1] /\ up[a] = n + 1 /\ \A b \in DOMAIN h : up[b] = rank[b]
    BY <1>1, <1>3
  <2>4. \A b \in DOMAIN h : rank[b] < n + 1
    BY <2>2
  <2> HIDE DEF up
  <2>5. Ranked(g, up)
    <3> SUFFICES ASSUME NEW b \in DOMAIN g, NEW k \in DOMAIN g[b].refs, g[b].refs[k] # 0
                 PROVE  up[g[b].refs[k]] < up[b]
      BY DEF Ranked
    <3>1. CASE b = a
      BY <3>1, <2>3, <2>4, <1>1, <1>5
    <3>2. CASE b # a
      <4>1. b \in DOMAIN h /\ g[b] = h[b]
        BY <3>2, <1>1
      <4>2. h[b].refs[k] \in DOMAIN h
        BY <4>1 DEF Sound, There
      <4> QED BY <4>1, <4>2, <2>2, <2>3 DEF Ranked
    <3> QED BY <3>1, <3>2
  <2>6. n + 1 \in Nat
    OBVIOUS
  <2> QED BY <2>3, <2>5, <2>6 DEF Acyclic
<1>15. Sound(g, p)
  BY <1>6, <1>7, <1>8, <1>9, <1>10, <1>11, <1>13, <1>14 DEF Sound
<1>16. KindAt(g, p, r) = kind
  BY <1>1, <1>2, <1>3 DEF KindAt, Kind
<1>17. ASSUME NEW i \in Int \ {r}, \A k \in DOMAIN q : q[k] # i
       PROVE  KindAt(g, p, i) = KindAt(h, o, i)
  <2>1. p[i] = o[i] /\ o[i] \in Pointers
    BY <1>2, <1>17
  <2> QED BY <2>1, <1>12 DEF KindAt, Sound, There
<1> QED BY <1>15, <1>16, <1>17 DEF g, p

\* A place that points elsewhere.
Put(o, i, a) == [o EXCEPT ![i] = a]

\* What Put changes and what it leaves.
LEMMA PutFacts ==
  ASSUME NEW o \in [Int -> Pointers], NEW i \in Int, NEW a \in Pointers
  PROVE  /\ Put(o, i, a) \in [Int -> Pointers]
         /\ Put(o, i, a)[i] = a
         /\ \A j \in Int \ {i} : Put(o, i, a)[j] = o[j]
BY DEF Put

\* A name has no parts.
LEMMA NameParts ==
  ASSUME NEW h, NEW o, Sound(h, o), NEW a \in DOMAIN h, h[a].kind = "name"
  PROVE  h[a].refs = <<>> /\ DOMAIN h[a].refs = {}
<1>1. PartsFit(h, "name", h[a].refs) /\ h[a].refs \in Seq(Pointers)
  BY DEF Sound, Fitting, HeapTypes
<1>2. Len(h[a].refs) = 0
  BY <1>1 DEF PartsFit, PartKinds
<1> QED BY <1>1, <1>2

\* A name from outside is freed.
LEMMA NameFreed ==
  ASSUME NEW h, NEW o, Sound(h, o), NEW i \in Int, KindAt(h, o, i) = "name"
  PROVE  /\ Sound(Minus(h, o[i]), Put(o, i, 0))
         /\ \A j \in Int \ {i} : KindAt(Minus(h, o[i]), Put(o, i, 0), j) = KindAt(h, o, j)
<1> DEFINE a == o[i]
           g == Minus(h, a)
           p == Put(o, i, 0)
<1>1. a # 0 /\ h[a].kind = "name" /\ a \in DOMAIN h
  <2>1. o[i] # 0
    BY DEF KindAt, Kind
  <2> QED BY <2>1 DEF KindAt, Kind, Sound, There
<1>2. /\ DOMAIN g = DOMAIN h \ {a}
      /\ \A b \in DOMAIN g : g[b] = h[b]
      /\ g = [b \in DOMAIN g |-> g[b]]
  BY DEF Minus
<1>3. p \in [Int -> Pointers] /\ p[i] = 0 /\ \A j \in Int \ {i} : p[j] = o[j]
  BY PutFacts, PointersAre DEF Sound, HeapTypes
<1>4. DOMAIN h[a].refs = {}
  BY <1>1, NameParts
<1> HIDE DEF p, g
<1>5. /\ \A j \in Int \ {i} : o[j] # a
      /\ \A b \in DOMAIN h : \A k \in DOMAIN h[b].refs : h[b].refs[k] # a
  BY <1>1 DEF Sound, OnceOutside, OnceEither
<1> HIDE DEF a
<1>6. HeapTypes(g, p)
  BY <1>2, <1>3 DEF Sound, HeapTypes
<1>7. OnceOutside(p)
  BY <1>3 DEF Sound, OnceOutside
<1>8. OnceEither(g, p)
  <2>1. \A j \in Int : p[j] = o[j] \/ p[j] = 0
    BY <1>3
  <2> QED BY <2>1, <1>2 DEF Sound, OnceEither
<1>9. OnceInside(g)
  BY <1>2 DEF Sound, OnceInside
<1>10. There(g, p)
  <2>1. \A j \in Int : p[j] # 0 => p[j] \in DOMAIN g
    BY <1>2, <1>3, <1>5 DEF Sound, There
  <2>2. \A b \in DOMAIN g : \A k \in DOMAIN g[b].refs :
          g[b].refs[k] # 0 => g[b].refs[k] \in DOMAIN g
    BY <1>2, <1>5 DEF Sound, There
  <2> QED BY <2>1, <2>2 DEF There
<1>11. Held(g, p)
  <2> SUFFICES ASSUME NEW b \in DOMAIN g
               PROVE  \/ \E j \in Int : p[j] = b
                      \/ \E c \in DOMAIN g : \E k \in DOMAIN g[c].refs : g[c].refs[k] = b
    BY DEF Held
  <2>1. b \in DOMAIN h /\ b # a
    BY <1>2
  <2>2. CASE \E j \in Int : o[j] = b
    BY <2>1, <2>2, <1>3 DEF a
  <2>3. CASE \E c \in DOMAIN h : \E k \in DOMAIN h[c].refs : h[c].refs[k] = b
    BY <2>3, <1>2, <1>4
  <2> QED BY <2>1, <2>2, <2>3 DEF Sound, Held
<1>12. \A b \in Pointers : b = 0 \/ (b \in DOMAIN h /\ b # a) => Kind(g, b) = Kind(h, b)
  BY <1>2 DEF Kind
<1>13. Fitting(g)
  <2> SUFFICES ASSUME NEW b \in DOMAIN g PROVE PartsFit(g, g[b].kind, g[b].refs)
    BY DEF Fitting
  <2>1. b \in DOMAIN h /\ g[b] = h[b] /\ h[b].refs \in Seq(Pointers)
    BY <1>2 DEF Sound, HeapTypes
  <2>2. \A k \in DOMAIN h[b].refs : Kind(g, h[b].refs[k]) = Kind(h, h[b].refs[k])
    BY <2>1, <1>5, <1>12 DEF Sound, There
  <2>3. PartsFit(h, h[b].kind, h[b].refs)
    BY <2>1 DEF Sound, Fitting
  <2> QED BY <2>1, <2>2, <2>3 DEF PartsFit
<1>14. Acyclic(g)
  <2>1. PICK n \in Nat : \E rank \in [DOMAIN h -> 0 .. n] : Ranked(h, rank)
    BY DEF Sound, Acyclic
  <2>2. PICK rank \in [DOMAIN h -> 0 .. n] : Ranked(h, rank)
    BY <2>1
  <2> DEFINE less == [b \in DOMAIN g |-> rank[b]]
  <2>3. less \in [DOMAIN g -> 0 .. n] /\ \A b \in DOMAIN g : less[b] = rank[b]
    BY <1>2
  <2> HIDE DEF less
  <2>4. Ranked(g, less)
    BY <2>2, <2>3, <1>2, <1>10 DEF Ranked, There
  <2> QED BY <2>3, <2>4 DEF Acyclic
<1>15. Sound(g, p)
  BY <1>6, <1>7, <1>8, <1>9, <1>10, <1>11, <1>13, <1>14 DEF Sound
<1>16. ASSUME NEW j \in Int \ {i} PROVE KindAt(g, p, j) = KindAt(h, o, j)
  <2>1. p[j] = o[j] /\ o[j] \in Pointers /\ o[j] # a
    BY <1>3, <1>5 DEF Sound, HeapTypes
  <2> QED BY <2>1, <1>12 DEF KindAt, Sound, There
<1> QED BY <1>15, <1>16 DEF g, p, a

\* A pointer moves to a place that has none.
LEMMA Moved ==
  ASSUME NEW h, NEW o, Sound(h, o), NEW i \in Int, NEW j \in Int, i # j, o[j] = 0
  PROVE  /\ Sound(h, Put(Put(o, j, o[i]), i, 0))
         /\ \A k \in Int \ {i, j} : KindAt(h, Put(Put(o, j, o[i]), i, 0), k) = KindAt(h, o, k)
         /\ KindAt(h, Put(Put(o, j, o[i]), i, 0), j) = KindAt(h, o, i)
<1> DEFINE p == Put(Put(o, j, o[i]), i, 0)
<1>1. /\ p \in [Int -> Pointers] /\ p[i] = 0 /\ p[j] = o[i]
      /\ \A k \in Int \ {i, j} : p[k] = o[k]
  <2>1. o \in [Int -> Pointers] /\ o[i] \in Pointers /\ 0 \in Pointers
    BY PointersAre DEF Sound, HeapTypes
  <2>2. /\ Put(o, j, o[i]) \in [Int -> Pointers] /\ Put(o, j, o[i])[j] = o[i]
        /\ \A k \in Int \ {j} : Put(o, j, o[i])[k] = o[k]
    BY <2>1, PutFacts
  <2> QED BY <2>1, <2>2, PutFacts
<1> HIDE DEF p
<1>2. \A k \in Int : p[k] # 0 => \E l \in Int : o[l] = p[k]
  BY <1>1
<1>3. OnceOutside(p)
  <2> SUFFICES ASSUME NEW k \in Int, NEW l \in Int, p[k] = p[l], p[k] # 0
               PROVE  k = l
    BY DEF OnceOutside
  <2>1. k # i /\ l # i
    BY <1>1
  <2>2. CASE k = j
    BY <2>1, <2>2, <1>1 DEF Sound, OnceOutside
  <2>3. CASE k # j
    BY <2>1, <2>3, <1>1 DEF Sound, OnceOutside
  <2> QED BY <2>2, <2>3
<1>4. HeapTypes(h, p)
  BY <1>1 DEF Sound, HeapTypes
<1>5. OnceEither(h, p)
  BY <1>2 DEF Sound, OnceEither
<1>6. There(h, p)
  BY <1>2 DEF Sound, There
<1>7. Held(h, p)
  <2> SUFFICES ASSUME NEW a \in DOMAIN h
               PROVE  \/ \E k \in Int : p[k] = a
                      \/ \E b \in DOMAIN h : \E k \in DOMAIN h[b].refs : h[b].refs[k] = a
    BY DEF Held
  <2>1. a # 0
    BY PointersAre DEF Sound, HeapTypes
  <2>2. CASE \E k \in Int : o[k] = a
    <3>1. PICK k \in Int : o[k] = a
      BY <2>2
    <3>2. k # j
      BY <3>1, <2>1
    <3> QED BY <3>1, <3>2, <1>1
  <2> QED BY <2>2 DEF Sound, Held
<1>8. Sound(h, p)
  BY <1>3, <1>4, <1>5, <1>6, <1>7 DEF Sound
<1> QED BY <1>1, <1>8 DEF p, KindAt

\* The object at place x gets the parts refs.
Extended(h, a, refs) == [b \in DOMAIN h |-> IF b = a THEN Object("list", refs) ELSE h[b]]

\* The elements of a list with one more.
LEMMA SeqAppend ==
  ASSUME NEW s \in Seq(Pointers), NEW a \in Pointers
  PROVE  /\ Append(s, a) \in Seq(Pointers) /\ Len(s) \in Nat
         /\ DOMAIN Append(s, a) = 1 .. Len(s) + 1 /\ DOMAIN s = 1 .. Len(s)
         /\ \A k \in DOMAIN s : k \in DOMAIN Append(s, a) /\ Append(s, a)[k] = s[k]
         /\ Len(s) + 1 \in DOMAIN Append(s, a) /\ Len(s) + 1 \notin DOMAIN s
         /\ Append(s, a)[Len(s) + 1] = a
         /\ \A k \in DOMAIN Append(s, a) : k \in DOMAIN s \/ k = Len(s) + 1
OBVIOUS



\* The pointer at place y goes to the end of the list at place x.
LEMMA Appended ==
  ASSUME NEW h, NEW o, Sound(h, o), NEW x \in Int, NEW y \in Int, x # y,
         KindAt(h, o, x) = "list", KindAt(h, o, y) \in Stmts
  PROVE  LET g == Extended(h, o[x], Append(h[o[x]].refs, o[y]))
         IN  /\ Sound(g, Put(o, y, 0))
             /\ \A j \in Int \ {y} : KindAt(g, Put(o, y, 0), j) = KindAt(h, o, j)
<1> DEFINE l == o[x]
           v == o[y]
           s == h[l].refs
           t == Append(s, v)
           g == Extended(h, l, t)
           p == Put(o, y, 0)
           n == Len(s) + 1
<1>1. l # 0 /\ v # 0 /\ l \in DOMAIN h /\ v \in DOMAIN h /\ h[l].kind = "list" /\ l # v
  <2>1. o[x] # 0 /\ o[y] # 0
    BY DEF KindAt, Kind, Stmts
  <2>2. o[x] # o[y]
    BY <2>1 DEF Sound, OnceOutside
  <2> QED BY <2>1, <2>2 DEF KindAt, Kind, Sound, There
<1>2. /\ DOMAIN g = DOMAIN h
      /\ g[l].kind = "list" /\ g[l].refs = t
      /\ \A b \in DOMAIN h : g[b].kind = h[b].kind
      /\ \A b \in DOMAIN h \ {l} : g[b] = h[b]
      /\ g = [b \in DOMAIN g |-> g[b]]
  BY <1>1 DEF Extended, Object
<1>3. /\ p \in [Int -> Pointers] /\ p[y] = 0 /\ \A j \in Int \ {y} : p[j] = o[j]
      /\ \A j \in Int : p[j] # 0 => p[j] = o[j] /\ j # y
  <2>1. o \in [Int -> Pointers] /\ 0 \in Pointers
    BY PointersAre DEF Sound, HeapTypes
  <2>2. p \in [Int -> Pointers] /\ p[y] = 0 /\ \A j \in Int \ {y} : p[j] = o[j]
    BY <2>1, PutFacts
  <2> QED BY <2>2
<1>4. s \in Seq(Pointers) /\ v \in Pointers
  BY <1>1 DEF Sound, HeapTypes
<1>5. /\ t \in Seq(Pointers) /\ n \in DOMAIN t /\ t[n] = v /\ n \notin DOMAIN s
      /\ \A k \in DOMAIN s : k \in DOMAIN t /\ t[k] = s[k]
      /\ \A k \in DOMAIN t : k \in DOMAIN s \/ k = n
  <2> HIDE DEF s, v
  <2> QED BY <1>4, SeqAppend
<1>6. /\ \A j \in Int : o[j] = v => j = y
      /\ \A b \in DOMAIN h : \A k \in DOMAIN h[b].refs : h[b].refs[k] # v /\ h[b].refs[k] # l
  BY <1>1 DEF Sound, OnceOutside, OnceEither
<1> HIDE DEF p, g, t
\* What object b of g refers to.
<1>7. \A b \in DOMAIN g : \A k \in DOMAIN g[b].refs :
        \/ k \in DOMAIN h[b].refs /\ g[b].refs[k] = h[b].refs[k]
        \/ b = l /\ k = n /\ g[b].refs[k] = v
  BY <1>2, <1>5
<1>8. \A b \in DOMAIN h : \A k \in DOMAIN h[b].refs :
        k \in DOMAIN g[b].refs /\ g[b].refs[k] = h[b].refs[k]
  BY <1>2, <1>5
<1> HIDE DEF l, v, s, n
<1>9. HeapTypes(g, p)
  <2>1. \A b \in DOMAIN g : g[b].refs \in Seq(Pointers)
    BY <1>2, <1>5 DEF Sound, HeapTypes
  <2> QED BY <2>1, <1>2, <1>3 DEF Sound, HeapTypes
<1>10. OnceOutside(p)
  BY <1>3 DEF Sound, OnceOutside
<1>11. OnceEither(g, p)
  <2> SUFFICES ASSUME NEW b \in DOMAIN g, NEW k \in DOMAIN g[b].refs, g[b].refs[k] # 0,
                      NEW i \in Int, p[i] = g[b].refs[k]
               PROVE  FALSE
    BY DEF OnceEither
  <2>1. p[i] = o[i] /\ i # y
    BY <1>3
  <2>2. CASE k \in DOMAIN h[b].refs /\ g[b].refs[k] = h[b].refs[k]
    BY <2>1, <2>2, <1>2 DEF Sound, OnceEither
  <2>3. CASE g[b].refs[k] = v
    BY <2>1, <2>3, <1>6
  <2> QED BY <2>2, <2>3, <1>7
<1>12. OnceInside(g)
  <2> SUFFICES ASSUME NEW b \in DOMAIN g, NEW c \in DOMAIN g,
                      NEW k \in DOMAIN g[b].refs, NEW m \in DOMAIN g[c].refs,
                      g[b].refs[k] = g[c].refs[m], g[b].refs[k] # 0
               PROVE  b = c /\ k = m
    BY DEF OnceInside
  <2> b \in DOMAIN h /\ c \in DOMAIN h
    BY <1>2
  <2>1. CASE g[b].refs[k] = v
    <3>1. b = l /\ k = n
      BY <2>1, <1>6, <1>7
    <3>2. c = l /\ m = n
      BY <2>1, <1>6, <1>7
    <3> QED BY <3>1, <3>2
  <2>2. CASE g[b].refs[k] # v
    BY <2>2, <1>7 DEF Sound, OnceInside
  <2> QED BY <2>1, <2>2
<1>13. There(g, p)
  <2>1. \A i \in Int : p[i] # 0 => p[i] \in DOMAIN g
    BY <1>2, <1>3 DEF Sound, There
  <2>2. \A b \in DOMAIN g : \A k \in DOMAIN g[b].refs :
          g[b].refs[k] # 0 => g[b].refs[k] \in DOMAIN g
    BY <1>1, <1>2, <1>7 DEF Sound, There
  <2> QED BY <2>1, <2>2 DEF There
<1>14. Held(g, p)
  <2> SUFFICES ASSUME NEW b \in DOMAIN g
               PROVE  \/ \E i \in Int : p[i] = b
                      \/ \E c \in DOMAIN g : \E k \in DOMAIN g[c].refs : g[c].refs[k] = b
    BY DEF Held
  <2>1. CASE b = v
    BY <2>1, <1>1, <1>2, <1>5
  <2>2. CASE b # v /\ \E i \in Int : o[i] = b
    BY <2>2, <1>3 DEF v
  <2>3. CASE \E c \in DOMAIN h : \E k \in DOMAIN h[c].refs : h[c].refs[k] = b
    BY <2>3, <1>2, <1>8
  <2> QED BY <2>1, <2>2, <2>3, <1>2 DEF Sound, Held
<1>15. \A b \in Pointers : b = 0 \/ b \in DOMAIN h => Kind(g, b) = Kind(h, b)
  BY <1>2 DEF Kind
<1>16. Fitting(g)
  <2> SUFFICES ASSUME NEW b \in DOMAIN g PROVE PartsFit(g, g[b].kind, g[b].refs)
    BY DEF Fitting
  <2>1. PartsFit(h, h[b].kind, h[b].refs) /\ h[b].refs \in Seq(Pointers)
    BY <1>2 DEF Sound, Fitting, HeapTypes
  <2>2. \A k \in DOMAIN h[b].refs : Kind(g, h[b].refs[k]) = Kind(h, h[b].refs[k])
    BY <2>1, <1>2, <1>15 DEF Sound, There
  <2>3. CASE b = l
    <3>1. Kind(g, v) \in Stmts
      BY <1>1, <1>15, <1>4 DEF KindAt, v
    <3>2. \A k \in DOMAIN g[l].refs : Kind(g, g[l].refs[k]) \in Stmts
      BY <2>1, <2>2, <2>3, <3>1, <1>1, <1>7 DEF PartsFit
    <3> QED BY <2>3, <3>2, <1>2 DEF PartsFit, ObjectKinds
  <2>4. CASE b # l
    <3>1. g[b] = h[b]
      BY <2>4, <1>2
    <3> QED BY <2>1, <2>2, <3>1 DEF PartsFit
  <2> QED BY <2>3, <2>4
<1>17. Acyclic(g)
  <2>1. PICK m \in Nat : \E rank \in [DOMAIN h -> 0 .. m] : Ranked(h, rank)
    BY DEF Sound, Acyclic
  <2>2. PICK rank \in [DOMAIN h -> 0 .. m] : Ranked(h, rank)
    BY <2>1
  <2> DEFINE up == [b \in DOMAIN g |-> IF b = l THEN m + 1 ELSE rank[b]]
  <2>3. /\ up \in [DOMAIN g -> 0 .. m + 1] /\ up[l] = m + 1
        /\ \A b \in DOMAIN h \ {l} : up[b] = rank[b] /\ rank[b] < m + 1
    BY <1>1, <1>2
  <2> HIDE DEF up
  <2>4. Ranked(g, up)
    <3> SUFFICES ASSUME NEW b \in DOMAIN g, NEW k \in DOMAIN g[b].refs, g[b].refs[k] # 0
                 PROVE  up[g[b].refs[k]] < up[b]
      BY DEF Ranked
    <3>1. g[b].refs[k] \in DOMAIN h \ {l}
      BY <1>1, <1>2, <1>6, <1>7, <1>13 DEF There
    <3>2. CASE b = l
      BY <3>1, <3>2, <2>3
    <3>3. CASE b # l
      <4>1. k \in DOMAIN h[b].refs /\ g[b].refs[k] = h[b].refs[k]
        BY <3>3, <1>7
      <4> QED BY <3>1, <3>3, <4>1, <2>2, <2>3, <1>2 DEF Ranked
    <3> QED BY <3>2, <3>3
  <2>5. m + 1 \in Nat
    OBVIOUS
  <2> QED BY <2>3, <2>4, <2>5 DEF Acyclic
<1>18. Sound(g, p)
  BY <1>9, <1>10, <1>11, <1>12, <1>13, <1>14, <1>16, <1>17 DEF Sound
<1>19. ASSUME NEW j \in Int \ {y} PROVE KindAt(g, p, j) = KindAt(h, o, j)
  <2>1. p[j] = o[j] /\ o[j] \in Pointers
    BY <1>3 DEF Sound, HeapTypes
  <2> QED BY <2>1, <1>15 DEF KindAt, Sound, There
<1> QED BY <1>18, <1>19 DEF g, p, t, s, l, v

\* The elements of two lists one after the other.
LEMMA SeqJoin ==
  ASSUME NEW s \in Seq(Pointers), NEW u \in Seq(Pointers)
  PROVE  /\ s \o u \in Seq(Pointers) /\ Len(s) \in Nat
         /\ DOMAIN u = 1 .. Len(u) /\ DOMAIN s = 1 .. Len(s)
         /\ \A k \in DOMAIN s : k \in DOMAIN (s \o u) /\ (s \o u)[k] = s[k]
         /\ \A k \in DOMAIN u : /\ k \in Nat /\ Len(s) + k \in DOMAIN (s \o u)
                                /\ (s \o u)[Len(s) + k] = u[k]
                                /\ Len(s) + k \notin DOMAIN s
         /\ \A k \in DOMAIN (s \o u) : k \in DOMAIN s \/ \E j \in DOMAIN u : k = Len(s) + j
<1>1. ASSUME NEW k \in DOMAIN (s \o u), k \notin DOMAIN s
      PROVE  \E j \in DOMAIN u : k = Len(s) + j
  <2>1. k - Len(s) \in DOMAIN u /\ k = Len(s) + (k - Len(s))
    BY <1>1
  <2> QED BY <2>1
<1> QED BY <1>1

\* The list at place y goes to the end of the one at place x.
LEMMA Joined ==
  ASSUME NEW h, NEW o, Sound(h, o), NEW x \in Int, NEW y \in Int, x # y,
         KindAt(h, o, x) = "list", KindAt(h, o, y) = "list"
  PROVE  LET g == Minus(Extended(h, o[x], h[o[x]].refs \o h[o[y]].refs), o[y])
         IN  /\ Sound(g, Put(o, y, 0))
             /\ \A j \in Int \ {y} : KindAt(g, Put(o, y, 0), j) = KindAt(h, o, j)
<1> DEFINE l == o[x]
           v == o[y]
           s == h[l].refs
           u == h[v].refs
           t == s \o u
           g == Minus(Extended(h, l, t), v)
           p == Put(o, y, 0)
           n == Len(s)
<1>1. /\ l # 0 /\ v # 0 /\ l \in DOMAIN h /\ v \in DOMAIN h /\ l # v
      /\ h[l].kind = "list" /\ h[v].kind = "list"
  <2>1. o[x] # 0 /\ o[y] # 0
    BY DEF KindAt, Kind
  <2>2. o[x] # o[y]
    BY <2>1 DEF Sound, OnceOutside
  <2> QED BY <2>1, <2>2 DEF KindAt, Kind, Sound, There
<1>2. /\ DOMAIN g = DOMAIN h \ {v}
      /\ g[l].kind = "list" /\ g[l].refs = t
      /\ \A b \in DOMAIN g : g[b].kind = h[b].kind
      /\ \A b \in DOMAIN g \ {l} : g[b] = h[b]
      /\ g = [b \in DOMAIN g |-> g[b]]
  BY <1>1 DEF Extended, Minus, Object
<1>3. /\ p \in [Int -> Pointers] /\ p[y] = 0 /\ \A j \in Int \ {y} : p[j] = o[j]
      /\ \A j \in Int : p[j] # 0 => p[j] = o[j] /\ j # y
  <2>1. o \in [Int -> Pointers] /\ 0 \in Pointers
    BY PointersAre DEF Sound, HeapTypes
  <2>2. p \in [Int -> Pointers] /\ p[y] = 0 /\ \A j \in Int \ {y} : p[j] = o[j]
    BY <2>1, PutFacts
  <2> QED BY <2>2
<1>4. s \in Seq(Pointers) /\ u \in Seq(Pointers)
  BY <1>1 DEF Sound, HeapTypes
<1>5. /\ t \in Seq(Pointers) /\ n \in Nat
      /\ \A k \in DOMAIN s : k \in DOMAIN t /\ t[k] = s[k]
      /\ \A k \in DOMAIN u : /\ k \in Nat /\ n + k \in DOMAIN t /\ t[n + k] = u[k]
                             /\ n + k \notin DOMAIN s
      /\ \A k \in DOMAIN t : k \in DOMAIN s \/ \E j \in DOMAIN u : k = n + j
  <2> HIDE DEF s, u
  <2>1. s \o u \in Seq(Pointers) /\ Len(s) \in Nat
    BY <1>4, SeqJoin
  <2>2. \A k \in DOMAIN s : k \in DOMAIN (s \o u) /\ (s \o u)[k] = s[k]
    BY <1>4, SeqJoin
  <2>3. \A k \in DOMAIN u : /\ k \in Nat /\ Len(s) + k \in DOMAIN (s \o u)
                            /\ (s \o u)[Len(s) + k] = u[k]
                            /\ Len(s) + k \notin DOMAIN s
    BY <1>4, SeqJoin
  <2>4. \A k \in DOMAIN (s \o u) : k \in DOMAIN s \/ \E j \in DOMAIN u : k = Len(s) + j
    BY <1>4, SeqJoin
  <2> QED BY <2>1, <2>2, <2>3, <2>4, Zenon
<1>6. /\ \A j \in Int : o[j] = v => j = y
      /\ \A b \in DOMAIN h : \A k \in DOMAIN h[b].refs : h[b].refs[k] # v /\ h[b].refs[k] # l
  BY <1>1 DEF Sound, OnceOutside, OnceEither
<1> HIDE DEF p, g, t
\* What object b of g refers to.
<1>7. \A b \in DOMAIN g : \A k \in DOMAIN g[b].refs :
        \/ k \in DOMAIN h[b].refs /\ g[b].refs[k] = h[b].refs[k]
        \/ b = l /\ \E j \in DOMAIN h[v].refs : k = n + j /\ g[b].refs[k] = h[v].refs[j]
  BY <1>2, <1>5
<1>8. \A b \in DOMAIN g : \A k \in DOMAIN h[b].refs :
        k \in DOMAIN g[b].refs /\ g[b].refs[k] = h[b].refs[k]
  BY <1>2, <1>5
<1>9. \A k \in DOMAIN h[v].refs :
        n + k \in DOMAIN g[l].refs /\ g[l].refs[n + k] = h[v].refs[k]
  BY <1>2, <1>5
<1> l \in DOMAIN g
  BY <1>1, <1>2
<1> HIDE DEF l, v, s, n, u
<1>10. HeapTypes(g, p)
  <2>1. \A b \in DOMAIN g : g[b].refs \in Seq(Pointers)
    BY <1>2, <1>5 DEF Sound, HeapTypes
  <2> QED BY <2>1, <1>2, <1>3 DEF Sound, HeapTypes
<1>11. OnceOutside(p)
  BY <1>3 DEF Sound, OnceOutside
<1>12. OnceEither(g, p)
  <2> SUFFICES ASSUME NEW b \in DOMAIN g, NEW k \in DOMAIN g[b].refs, g[b].refs[k] # 0,
                      NEW i \in Int, p[i] = g[b].refs[k]
               PROVE  FALSE
    BY DEF OnceEither
  <2>1. p[i] = o[i] /\ b \in DOMAIN h
    BY <1>2, <1>3
  <2>2. CASE k \in DOMAIN h[b].refs /\ g[b].refs[k] = h[b].refs[k]
    BY <2>1, <2>2 DEF Sound, OnceEither
  <2>3. CASE \E j \in DOMAIN h[v].refs : g[b].refs[k] = h[v].refs[j]
    BY <2>1, <2>3, <1>1 DEF Sound, OnceEither
  <2> QED BY <2>2, <2>3, <1>7
<1>13. OnceInside(g)
  <2> SUFFICES ASSUME NEW b \in DOMAIN g, NEW c \in DOMAIN g,
                      NEW k \in DOMAIN g[b].refs, NEW m \in DOMAIN g[c].refs,
                      g[b].refs[k] = g[c].refs[m], g[b].refs[k] # 0
               PROVE  b = c /\ k = m
    BY DEF OnceInside
  <2> b \in DOMAIN h /\ c \in DOMAIN h /\ b # v /\ c # v
    BY <1>2
  <2>1. CASE k \in DOMAIN h[b].refs /\ g[b].refs[k] = h[b].refs[k]
    <3>1. CASE m \in DOMAIN h[c].refs /\ g[c].refs[m] = h[c].refs[m]
      <4>1. h[b].refs[k] = h[c].refs[m] /\ h[b].refs[k] # 0
        BY <2>1, <3>1
      <4> QED BY <2>1, <3>1, <4>1 DEF Sound, OnceInside
    <3>2. CASE \E j \in DOMAIN h[v].refs : g[c].refs[m] = h[v].refs[j]
      <4>1. PICK j \in DOMAIN h[v].refs : g[c].refs[m] = h[v].refs[j]
        BY <3>2
      <4>2. h[b].refs[k] = h[v].refs[j] /\ h[b].refs[k] # 0
        BY <2>1, <4>1
      <4> QED BY <2>1, <4>2, <1>1 DEF Sound, OnceInside
    <3> QED BY <3>1, <3>2, <1>7
  <2>2. CASE b = l /\ \E j \in DOMAIN h[v].refs : k = n + j /\ g[b].refs[k] = h[v].refs[j]
    <3>1. PICK i \in DOMAIN h[v].refs : k = n + i /\ g[b].refs[k] = h[v].refs[i]
      BY <2>2
    <3>2. CASE m \in DOMAIN h[c].refs /\ g[c].refs[m] = h[c].refs[m]
      <4>1. h[c].refs[m] = h[v].refs[i] /\ h[c].refs[m] # 0
        BY <3>1, <3>2
      <4> QED BY <3>2, <4>1, <1>1 DEF Sound, OnceInside
    <3>3. CASE c = l /\ \E j \in DOMAIN h[v].refs : m = n + j /\ g[c].refs[m] = h[v].refs[j]
      <4>1. PICK j \in DOMAIN h[v].refs : m = n + j /\ g[c].refs[m] = h[v].refs[j]
        BY <3>3
      <4>2. i = j
        BY <3>1, <4>1, <1>1 DEF Sound, OnceInside
      <4> QED BY <2>2, <3>1, <3>3, <4>1, <4>2
    <3> QED BY <3>2, <3>3, <1>7
  <2> QED BY <2>1, <2>2, <1>7
<1>14. There(g, p)
  <2>1. \A i \in Int : p[i] # 0 => p[i] \in DOMAIN g
    BY <1>2, <1>3, <1>6 DEF Sound, There
  <2>2. ASSUME NEW b \in DOMAIN g, NEW k \in DOMAIN g[b].refs, g[b].refs[k] # 0
        PROVE  g[b].refs[k] \in DOMAIN g
    <3>1. b \in DOMAIN h
      BY <1>2
    <3>2. \E c \in DOMAIN h : \E j \in DOMAIN h[c].refs : g[b].refs[k] = h[c].refs[j]
      BY <3>1, <1>1, <1>7
    <3> QED BY <2>2, <3>2, <1>2, <1>6 DEF Sound, There
  <2> QED BY <2>1, <2>2 DEF There
<1>15. Held(g, p)
  <2> SUFFICES ASSUME NEW b \in DOMAIN g
               PROVE  \/ \E i \in Int : p[i] = b
                      \/ \E c \in DOMAIN g : \E k \in DOMAIN g[c].refs : g[c].refs[k] = b
    BY DEF Held
  <2>1. b \in DOMAIN h /\ b # v
    BY <1>2
  <2>2. CASE \E i \in Int : o[i] = b
    BY <2>1, <2>2, <1>3 DEF v
  <2>3. CASE \E c \in DOMAIN h : \E k \in DOMAIN h[c].refs : h[c].refs[k] = b
    <3>1. PICK c \in DOMAIN h : \E k \in DOMAIN h[c].refs : h[c].refs[k] = b
      BY <2>3
    <3>2. PICK k \in DOMAIN h[c].refs : h[c].refs[k] = b
      BY <3>1
    <3>3. CASE c = v
      BY <3>2, <3>3, <1>9
    <3>4. CASE c # v
      BY <3>2, <3>4, <1>2, <1>8
    <3> QED BY <3>3, <3>4
  <2> QED BY <2>1, <2>2, <2>3 DEF Sound, Held
<1>16. \A b \in Pointers : b = 0 \/ b \in DOMAIN g => Kind(g, b) = Kind(h, b)
  BY <1>2 DEF Kind
<1>17. Fitting(g)
  <2> SUFFICES ASSUME NEW b \in DOMAIN g PROVE PartsFit(g, g[b].kind, g[b].refs)
    BY DEF Fitting
  <2>1. \A c \in DOMAIN h : PartsFit(h, h[c].kind, h[c].refs) /\ h[c].refs \in Seq(Pointers)
    BY DEF Sound, Fitting, HeapTypes
  <2>2. \A c \in DOMAIN h : \A k \in DOMAIN h[c].refs :
          Kind(g, h[c].refs[k]) = Kind(h, h[c].refs[k])
    BY <2>1, <1>2, <1>6, <1>16 DEF Sound, There
  <2>3. CASE b = l
    <3>1. \A k \in DOMAIN g[l].refs : Kind(g, g[l].refs[k]) \in Stmts
      BY <2>1, <2>2, <1>1, <1>7 DEF PartsFit
    <3> QED BY <2>3, <3>1, <1>2 DEF PartsFit, ObjectKinds
  <2>4. CASE b # l
    <3>1. g[b] = h[b] /\ b \in DOMAIN h
      BY <2>4, <1>2
    <3> QED BY <2>1, <2>2, <3>1 DEF PartsFit
  <2> QED BY <2>3, <2>4
<1>18. Acyclic(g)
  <2>1. PICK m \in Nat : \E rank \in [DOMAIN h -> 0 .. m] : Ranked(h, rank)
    BY DEF Sound, Acyclic
  <2>2. PICK rank \in [DOMAIN h -> 0 .. m] : Ranked(h, rank)
    BY <2>1
  <2> DEFINE up == [b \in DOMAIN g |-> IF b = l THEN m + 1 ELSE rank[b]]
  <2>3. /\ up \in [DOMAIN g -> 0 .. m + 1] /\ up[l] = m + 1
        /\ \A b \in DOMAIN g \ {l} : up[b] = rank[b] /\ rank[b] < m + 1
    BY <1>1, <1>2
  <2> HIDE DEF up
  <2>4. Ranked(g, up)
    <3> SUFFICES ASSUME NEW b \in DOMAIN g, NEW k \in DOMAIN g[b].refs, g[b].refs[k] # 0
                 PROVE  up[g[b].refs[k]] < up[b]
      BY DEF Ranked
    <3> b \in DOMAIN h
      BY <1>2
    <3>1. \E c \in DOMAIN h : \E j \in DOMAIN h[c].refs : g[b].refs[k] = h[c].refs[j]
      BY <1>1, <1>7
    <3>2. g[b].refs[k] \in DOMAIN g \ {l}
      BY <3>1, <1>6, <1>14 DEF There
    <3>3. CASE b = l
      BY <3>2, <3>3, <2>3
    <3>4. CASE b # l
      <4>1. k \in DOMAIN h[b].refs /\ g[b].refs[k] = h[b].refs[k]
        BY <3>4, <1>7
      <4> QED BY <3>2, <3>4, <4>1, <2>2, <2>3 DEF Ranked
    <3> QED BY <3>3, <3>4
  <2>5. m + 1 \in Nat
    OBVIOUS
  <2> QED BY <2>3, <2>4, <2>5 DEF Acyclic
<1>19. Sound(g, p)
  BY <1>10, <1>11, <1>12, <1>13, <1>14, <1>15, <1>17, <1>18 DEF Sound
<1>20. ASSUME NEW j \in Int \ {y} PROVE KindAt(g, p, j) = KindAt(h, o, j)
  <2>1. p[j] = o[j] /\ o[j] \in Pointers
    BY <1>3 DEF Sound, HeapTypes
  <2> QED BY <2>1, <1>16, <1>14 DEF KindAt, There
<1> QED BY <1>19, <1>20 DEF g, p, t, s, u, l, v

-----------------------------------------------------------------------------
(***************************************************************************)
(* What freeNode frees.                                                    *)
(***************************************************************************)

\* What freeing the object at a frees besides.
PartsOf(a) == FreedParts(heap[a].kind, heap[a].refs)

\* freeNode goes to every part.
LEMMA EveryPart ==
  ASSUME NEW o, Sound(heap, o), NEW a \in DOMAIN heap
  PROVE  PartsOf(a) = {heap[a].refs[k] : k \in DOMAIN heap[a].refs} \ {0}
<1> DEFINE kind == heap[a].kind
           refs == heap[a].refs
<1>1. PartsFit(heap, kind, refs) /\ refs \in Seq(Pointers)
  BY DEF Sound, Fitting, HeapTypes
<1> HIDE DEF kind, refs
<1>2. \A k \in DOMAIN refs : refs[k] = 0 => Kind(heap, refs[k]) = "NULL"
  BY DEF Kind
<1>3. CASE kind = "list"
  <2>1. \A k \in DOMAIN refs : refs[k] # 0
    BY <1>1, <1>2, <1>3 DEF PartsFit, Stmts
  <2>2. FreedParts(kind, refs) = {refs[k] : k \in DOMAIN refs}
    BY <1>3 DEF FreedParts
  <2> QED BY <2>1, <2>2 DEF PartsOf, kind, refs
<1>4. CASE kind # "list"
  <2>1. /\ Len(refs) = Len(PartKinds(kind))
        /\ \A k \in DOMAIN refs : Kind(heap, refs[k]) \in PartKinds(kind)[k]
    BY <1>1, <1>4 DEF PartsFit
  <2>2. CASE kind \in {"cnst", "name"}
    <3>1. Len(refs) = 0
      BY <2>1, <2>2 DEF PartKinds
    <3>2. DOMAIN refs = {} /\ FreedParts(kind, refs) = {}
      BY <3>1, <1>1, <2>2 DEF FreedParts
    <3> QED BY <3>2 DEF PartsOf, kind, refs
  <2>3. CASE kind \in {"extern", "var", "decl", "uexpr", "ret", "block"}
    <3>1. Len(refs) = 1
      BY <2>1, <2>3 DEF PartKinds
    <3>2. DOMAIN refs = {1}
      BY <3>1, <1>1
    <3>3. Kind(heap, refs[1]) # "NULL"
      BY <2>1, <2>3, <3>2 DEF PartKinds, Terms, Exprs
    <3>4. refs[1] # 0
      BY <3>2, <3>3, <1>2
    <3>5. FreedParts(kind, refs) = {refs[1]}
      BY <2>3 DEF FreedParts
    <3> QED BY <3>2, <3>4, <3>5 DEF PartsOf, kind, refs
  <2>4. CASE kind \in {"rexpr", "bexpr", "while", "asgn"}
    <3>1. Len(refs) = 2
      BY <2>1, <2>4 DEF PartKinds
    <3>2. DOMAIN refs = {1, 2}
      BY <3>1, <1>1
    <3>3. Kind(heap, refs[1]) # "NULL" /\ Kind(heap, refs[2]) # "NULL"
      BY <2>1, <2>4, <3>2 DEF PartKinds, Terms, Exprs, Branches, Stmts
    <3>4. refs[1] # 0 /\ refs[2] # 0
      BY <3>2, <3>3, <1>2
    <3>5. FreedParts(kind, refs) = {refs[1], refs[2]}
      BY <2>4 DEF FreedParts
    <3> QED BY <3>2, <3>4, <3>5 DEF PartsOf, kind, refs
  <2>5. CASE kind = "call"
    <3>1. Len(refs) = 2
      BY <2>1, <2>5 DEF PartKinds
    <3>2. DOMAIN refs = {1, 2}
      BY <3>1, <1>1
    <3>3. FreedParts(kind, refs) = {refs[1], refs[2]} \ {0}
      BY <2>5 DEF FreedParts
    <3> QED BY <3>2, <3>3 DEF PartsOf, kind, refs
  <2>6. CASE kind \in {"prog", "func", "if"}
    <3>1. Len(refs) = 3
      BY <2>1, <2>6 DEF PartKinds
    <3>2. DOMAIN refs = {1, 2, 3}
      BY <3>1, <1>1
    <3>3. FreedParts(kind, refs) = {refs[1], refs[2], refs[3]} \ {0}
      BY <2>6 DEF FreedParts
    <3> QED BY <3>2, <3>3 DEF PartsOf, kind, refs
  <2> QED BY <1>1, <1>4, <2>2, <2>3, <2>4, <2>5, <2>6 DEF PartsFit, ObjectKinds, Exprs, Stmts
<1> QED BY <1>3, <1>4

FreedBy(f) == f = [a \in DOMAIN heap |-> {a} \cup UNION {f[b] : b \in PartsOf(a)}]

ClosedSet(c) == c \subseteq DOMAIN heap /\ \A a \in c : PartsOf(a) \subseteq c

\* What is in every set that has a and the parts of what is in it.
Reached(a) == {b \in DOMAIN heap : \A c \in SUBSET DOMAIN heap : a \in c /\ ClosedSet(c) => b \in c}

\* The recursion of freeNode is defined.
LEMMA FreedDef ==
  ASSUME \A a \in DOMAIN heap : PartsOf(a) \subseteq DOMAIN heap
  PROVE  \A a \in DOMAIN heap : Freed[a] = {a} \cup UNION {Freed[b] : b \in PartsOf(a)}
<1> DEFINE f == [a \in DOMAIN heap |-> Reached(a)]
<1>1. \A a \in DOMAIN heap : f[a] = Reached(a)
  OBVIOUS
<1>2. \A a \in DOMAIN heap : a \in Reached(a) /\ ClosedSet(Reached(a))
  BY DEF Reached, ClosedSet
<1>3. ASSUME NEW a \in DOMAIN heap
      PROVE  Reached(a) = {a} \cup UNION {Reached(b) : b \in PartsOf(a)}
  <2> DEFINE D == {a} \cup UNION {Reached(b) : b \in PartsOf(a)}
  <2>1. ClosedSet(D)
    <3>1. D \subseteq DOMAIN heap
      BY DEF Reached
    <3>2. \A b \in PartsOf(a) : b \in D
      BY <1>2
    <3>3. ASSUME NEW c \in D PROVE PartsOf(c) \subseteq D
      <4>1. CASE c = a
        BY <3>2, <4>1
      <4>2. CASE c # a
        <5>1. PICK b \in PartsOf(a) : c \in Reached(b)
          BY <4>2
        <5>2. PartsOf(c) \subseteq Reached(b)
          BY <5>1, <1>2 DEF ClosedSet
        <5> QED BY <5>1, <5>2
      <4> QED BY <4>1, <4>2
    <3> QED BY <3>1, <3>3 DEF ClosedSet
  <2>2. Reached(a) \subseteq D
    <3> HIDE DEF D
    <3>1. a \in D /\ D \in SUBSET DOMAIN heap
      BY <2>1 DEF ClosedSet, D
    <3> QED BY <2>1, <3>1 DEF Reached
  <2>3. ASSUME NEW b \in PartsOf(a), NEW x \in Reached(b) PROVE x \in Reached(a)
    BY <2>3 DEF Reached, ClosedSet
  <2> QED BY <2>2, <2>3, <1>2
<1>4. FreedBy(f)
  <2>1. \A a \in DOMAIN heap :
          UNION {f[b] : b \in PartsOf(a)} = UNION {Reached(b) : b \in PartsOf(a)}
    BY <1>1
  <2> HIDE DEF f
  <2>2. \A a \in DOMAIN heap : f[a] = {a} \cup UNION {f[b] : b \in PartsOf(a)}
    BY <1>1, <1>3, <2>1
  <2>3. f = [a \in DOMAIN heap |-> f[a]]
    BY DEF f
  <2> QED BY <2>2, <2>3, Zenon DEF FreedBy
<1>5. Freed = CHOOSE g : FreedBy(g)
  BY Zenon DEF Freed, FreedBy, PartsOf
<1> HIDE DEF f
<1>6. FreedBy(Freed)
  BY <1>4, <1>5
<1>7. Freed = [a \in DOMAIN heap |-> {a} \cup UNION {Freed[b] : b \in PartsOf(a)}]
  BY <1>6 DEF FreedBy
<1> QED BY <1>7

\* A set of natural numbers has a least element.
LEMMA LeastOf ==
  ASSUME NEW S \in SUBSET Nat, S # {}
  PROVE  \E m \in S : \A n \in S : m <= n
<1> DEFINE Less == {ss \in Nat \X Nat : ss[1] < ss[2]}
<1>1. OpToRel(<, Nat) = Less
  BY DEF OpToRel
<1>2. IsWellFoundedOn(Less, Nat)
  BY <1>1, NatLessThanWellFounded
<1>3. \A m, n \in Nat : n < m => << n, m >> \in Less
  OBVIOUS
<1> HIDE DEF Less
<1>4. PICK m \in S : \A n \in S : ~(<< n, m >> \in Less)
  BY <1>2, WFMin
<1>5. ASSUME NEW n \in S PROVE m <= n
  <2>1. m \in Nat /\ n \in Nat
    OBVIOUS
  <2>2. ~(n < m)
    BY <1>3, <1>4, <2>1
  <2> QED BY <2>1, <2>2
<1> QED BY <1>5

\* If everything outside points to is freed with its parts, everything is.
LEMMA AllFreed ==
  ASSUME NEW o, Sound(heap, o), NEW roots \in SUBSET DOMAIN heap,
         \A i \in Int : o[i] # 0 => o[i] \in roots
  PROVE  DOMAIN heap \subseteq FreedWith(roots)
<1>1. \A a \in DOMAIN heap : PartsOf(a) \subseteq DOMAIN heap
  BY EveryPart DEF Sound, There
<1>2. \A a \in DOMAIN heap : a \in Freed[a] /\ \A b \in PartsOf(a) : Freed[b] \subseteq Freed[a]
  BY <1>1, FreedDef
<1> DEFINE Fine == {x \in DOMAIN heap : Freed[x] \subseteq FreedWith(roots)}
<1>3. \A x \in roots : x \in Fine
  BY DEF FreedWith
<1>4. \A a \in Fine : \A b \in PartsOf(a) : b \in Fine
  BY <1>1, <1>2
<1>5. \A x \in Fine : x \in FreedWith(roots)
  BY <1>2
<1> HIDE DEF Fine
<1>6. ASSUME NEW z \in DOMAIN heap, z \notin Fine PROVE FALSE
  <2>1. PICK n \in Nat : \E rank \in [DOMAIN heap -> 0 .. n] : Ranked(heap, rank)
    BY DEF Sound, Acyclic
  <2>2. PICK rank \in [DOMAIN heap -> 0 .. n] : Ranked(heap, rank)
    BY <2>1
  <2> DEFINE Left == {n - rank[x] : x \in DOMAIN heap \ Fine}
  <2>3. Left \in SUBSET Nat /\ Left # {}
    <3>1. \A x \in DOMAIN heap : n - rank[x] \in Nat
      BY <2>2
    <3> QED BY <3>1, <1>6
  <2>4. PICK m \in Left : \A k \in Left : m <= k
    <3> HIDE DEF Left
    <3> QED BY <2>3, LeastOf
  <2>5. PICK y \in DOMAIN heap \ Fine : m = n - rank[y]
    BY <2>4
  <2>6. \A x \in DOMAIN heap : rank[x] > rank[y] => x \in Fine
    <3> SUFFICES ASSUME NEW x \in DOMAIN heap, rank[x] > rank[y], x \notin Fine PROVE FALSE
      OBVIOUS
    <3>1. n - rank[x] \in Left
      OBVIOUS
    <3>2. n - rank[y] <= n - rank[x]
      BY <3>1, <2>4, <2>5
    <3>3. rank[x] \in Nat /\ rank[y] \in Nat
      BY <2>2
    <3> QED BY <3>2, <3>3
  <2>7. y # 0
    BY <2>5, PointersAre DEF Sound, HeapTypes
  <2>8. CASE \E i \in Int : o[i] = y
    BY <2>5, <2>7, <2>8, <1>3
  <2>9. CASE \E b \in DOMAIN heap : \E k \in DOMAIN heap[b].refs : heap[b].refs[k] = y
    <3>1. PICK b \in DOMAIN heap : \E k \in DOMAIN heap[b].refs : heap[b].refs[k] = y
      BY <2>9
    <3>2. y \in PartsOf(b)
      BY <3>1, <2>7, EveryPart
    <3>3. rank[y] < rank[b]
      BY <3>1, <2>2, <2>7 DEF Ranked
    <3>4. rank[b] \in Nat /\ rank[y] \in Nat
      BY <2>2, <2>5
    <3>5. b \in Fine
      BY <3>3, <3>4, <2>6
    <3> QED BY <3>2, <3>5, <2>5, <1>4
  <2> QED BY <2>5, <2>8, <2>9 DEF Sound, Held
<1> QED BY <1>5, <1>6

\* A name is freed alone.
LEMMA NameFreedAlone ==
  ASSUME NEW o, Sound(heap, o), NEW a \in DOMAIN heap, heap[a].kind = "name"
  PROVE  FreedWith({a}) = {a}
<1>1. \A b \in DOMAIN heap : PartsOf(b) \subseteq DOMAIN heap
  BY EveryPart DEF Sound, There
<1>2. PartsOf(a) = {}
  BY DEF PartsOf, FreedParts
<1>3. Freed[a] = {a}
  BY <1>1, <1>2, FreedDef
<1> QED BY <1>3 DEF FreedWith

-----------------------------------------------------------------------------
(***************************************************************************)
(* The allocators give out what is free, and what a sound heap says of the *)
(* properties.                                                             *)
(***************************************************************************)

\* If T is all of S up to somewhere, something in S comes next.
LEMMA LeastAbove ==
  ASSUME NEW S \in SUBSET Nat, IsFiniteSet(S), NEW T \in SUBSET S,
         \A a \in T, b \in S : b < a => b \in T,
         Cardinality(T) < Cardinality(S)
  PROVE  \E a \in S \ T : {b \in S : b < a} = T
<1>1. S \ T # {}
  <2> SUFFICES ASSUME S = T PROVE FALSE
    OBVIOUS
  <2> Cardinality(S) \in Nat
    BY FS_CardinalityType
  <2> QED OBVIOUS
<1>2. PICK a \in S \ T : \A b \in S \ T : a <= b
  BY <1>1, LeastOf
<1>3. ASSUME NEW b \in S PROVE b < a <=> b \in T
  <2>1. a \in Nat /\ b \in Nat
    OBVIOUS
  <2>2. b \in T => a # b
    OBVIOUS
  <2>3. b \in T => ~(a < b)
    BY <1>2
  <2>4. b \notin T => a <= b
    BY <1>2
  <2> QED BY <2>1, <2>2, <2>3, <2>4
<1> QED BY <1>2, <1>3

\* The free addresses are finitely many, and never NULL.
LEMMA FreeFacts ==
  /\ Free \in SUBSET Nat /\ IsFiniteSet(Free)
  /\ Cardinality(Free) \in Nat /\ 0 \notin Free
<1>1. IsFiniteSet(Free)
  BY AddressesAssumption, FS_Subset DEF Free
<1> QED BY <1>1, AddressesAssumption, FS_CardinalityType DEF Free

\* The address with n free ones below it.
Place(n) == CHOOSE a \in Free : Cardinality({b \in Free : b < a}) = n

\* There are addresses with 0, 1, 2, ... free ones below, as many as are free.
LEMMA PlaceFacts ==
  ASSUME NEW n \in Nat, NEW T \in SUBSET Free, Cardinality(T) = n, n < Cardinality(Free),
         \A a \in T, b \in Free : b < a => b \in T
  PROVE  /\ Place(n) \in Free /\ Cardinality({b \in Free : b < Place(n)}) = n
         /\ \E U \in SUBSET Free : /\ Cardinality(U) = n + 1
                                   /\ \A a \in U, b \in Free : b < a => b \in U
<1>1. PICK a \in Free \ T : {b \in Free : b < a} = T
  BY FreeFacts, LeastAbove
<1>2. Place(n) \in Free /\ Cardinality({b \in Free : b < Place(n)}) = n
  BY <1>1 DEF Place
<1>3. Cardinality(T \cup {a}) = n + 1
  <2>1. IsFiniteSet(T)
    BY FreeFacts, FS_Subset
  <2> QED BY <2>1, <1>1, FS_AddElement
<1>4. \A c \in T \cup {a}, b \in Free : b < c => b \in T \cup {a}
  BY <1>1
<1> QED BY <1>1, <1>2, <1>3, <1>4

\* calloc and new return four different addresses that are free.
LEMMA CallocFacts ==
  ASSUME Room
  PROVE  /\ DOMAIN Calloc = 1 .. 4
         /\ \A k \in 1 .. 4 : Calloc[k] \in Addresses \ DOMAIN heap
         /\ \A j, k \in 1 .. 4 : Calloc[j] = Calloc[k] => j = k
<1> DEFINE Has(n) == \E T \in SUBSET Free : /\ Cardinality(T) = n
                                            /\ \A a \in T, b \in Free : b < a => b \in T
           Good(n) == Place(n) \in Free /\ Cardinality({b \in Free : b < Place(n)}) = n
<1>1. \A n \in 0 .. 3 : n \in Nat /\ n < Cardinality(Free)
  BY FreeFacts DEF Room
<1>2. \A n \in 0 .. 3 : Has(n) => Good(n) /\ Has(n + 1)
  <2> SUFFICES ASSUME NEW n \in 0 .. 3, Has(n) PROVE Good(n) /\ Has(n + 1)
    OBVIOUS
  <2>1. n \in Nat /\ n < Cardinality(Free)
    BY <1>1
  <2>2. PICK T \in SUBSET Free : /\ Cardinality(T) = n
                                 /\ \A a \in T, b \in Free : b < a => b \in T
    OBVIOUS
  <2> QED BY <2>1, <2>2, PlaceFacts
<1>3. Has(0)
  BY FS_EmptySet
<1> HIDE DEF Has
<1>4. Has(1) /\ Has(2) /\ Has(3)
  BY <1>2, <1>3
<1>5. Good(0) /\ Good(1) /\ Good(2) /\ Good(3)
  BY <1>2, <1>3, <1>4
<1>6. \A k \in 1 .. 4 : Calloc[k] = Place(k - 1) /\ k - 1 \in 0 .. 3
  <2>1. Calloc = [k \in 1 .. 4 |-> Place(k - 1)]
    BY Zenon DEF Calloc, Place
  <2> QED BY <2>1
<1>7. \A k \in 1 .. 4 : Good(k - 1)
  <2>1. \A n \in 0 .. 3 : Good(n)
    BY <1>5
  <2> QED BY <2>1
<1>8. \A k \in 1 .. 4 : Calloc[k] \in Free /\ Cardinality({b \in Free : b < Calloc[k]}) = k - 1
  BY <1>6, <1>7
<1>9. DOMAIN Calloc = 1 .. 4
  BY DEF Calloc
<1>10. \A k \in 1 .. 4 : Calloc[k] \in Addresses \ DOMAIN heap
  BY <1>8 DEF Free
<1>11. \A j, k \in 1 .. 4 : Calloc[j] = Calloc[k] => j = k
  <2> SUFFICES ASSUME NEW j \in 1 .. 4, NEW k \in 1 .. 4, Calloc[j] = Calloc[k] PROVE j = k
    OBVIOUS
  <2>1. j - 1 = k - 1
    BY <1>8
  <2> QED BY <2>1
<1> QED BY <1>9, <1>10, <1>11

\* strdup returns one that is free.
LEMMA StrdupFacts ==
  ASSUME Room
  PROVE  Strdup \in Addresses \ DOMAIN heap
<1>1. Free # {}
  BY FreeFacts, FS_EmptySet DEF Room
<1> DEFINE Under(a) == {b \in Free : b < a}
           Left == {Cardinality(Free) - Cardinality(Under(a)) : a \in Free}
<1>2. \A a \in Free : /\ IsFiniteSet(Under(a)) /\ Cardinality(Under(a)) \in Nat
                      /\ Cardinality(Under(a)) <= Cardinality(Free)
  BY FreeFacts, FS_Subset, FS_CardinalityType
<1>3. Left \in SUBSET Nat /\ Left # {}
  <2> HIDE DEF Under
  <2>1. \A a \in Free : Cardinality(Free) - Cardinality(Under(a)) \in Nat
    BY <1>2, FreeFacts
  <2> QED BY <1>1, <2>1
<1>4. PICK m \in Left : \A k \in Left : m <= k
  <2> HIDE DEF Left
  <2> QED BY <1>3, LeastOf
<1>5. PICK a \in Free : m = Cardinality(Free) - Cardinality(Under(a))
  BY <1>4
<1>6. \A b \in Free : b <= a
  <2> SUFFICES ASSUME NEW b \in Free, ~(b <= a) PROVE FALSE
    OBVIOUS
  <2>1. Cardinality(Free) - Cardinality(Under(a)) <= Cardinality(Free) - Cardinality(Under(b))
    BY <1>4, <1>5
  <2>2. a < b /\ a \notin Under(a)
    BY FreeFacts
  <2>3. Under(a) \cup {a} \in SUBSET Under(b)
    <3>1. \A c \in Free : c \in Int
      BY FreeFacts
    <3>2. \A c \in Free : c < a => c < b
      BY <2>2, <3>1
    <3> QED BY <2>2, <3>2
  <2>4. Cardinality(Under(a) \cup {a}) = Cardinality(Under(a)) + 1
    BY <1>2, <2>2, FS_AddElement
  <2>5. Cardinality(Under(a) \cup {a}) <= Cardinality(Under(b))
    BY <1>2, <2>3, FS_Subset
  <2> HIDE DEF Under
  <2>6. Cardinality(Under(a)) + 1 <= Cardinality(Under(b))
    BY <2>4, <2>5
  <2> QED BY <1>2, <2>1, <2>6, FreeFacts
<1>7. Strdup \in Free
  BY <1>5, <1>6 DEF Strdup
<1> QED BY <1>7 DEF Free

-----------------------------------------------------------------------------

\* What the places outside point to: the lookahead at place 0, root at -1, and the stack.
Outside(s, l, r) ==
  [i \in Int |-> IF i = 0 THEN l ELSE IF i = -1 THEN r
                 ELSE IF i \in DOMAIN s THEN s[i].value ELSE 0]

\* The pointers that are not NULL.
PointingRefs == {r \in References : r[4] # 0}

\* OwnedOnce, from the pointers one by one.
LEMMA OwnedFrom ==
  ASSUME Sound(heap, Outside(stack, lookahead, root)), DOMAIN stack \subseteq Nat \ {0}
  PROVE  OwnedOnce
<1> DEFINE o == Outside(stack, lookahead, root)
           Placed(r) == IF r[1] = "stack" THEN r[3] ELSE IF r[1] = "lookahead" THEN 0 ELSE -1
<1>1. /\ o[0] = lookahead /\ o[-1] = root
      /\ \A k \in DOMAIN stack : k \in Int /\ o[k] = stack[k].value /\ k # 0 /\ k # -1
      /\ \A i \in Int : i = 0 \/ i = -1 \/ i \in DOMAIN stack \/ o[i] = 0
  BY DEF Outside
<1> HIDE DEF o
<1>2. \A r \in References :
        \/ \E a \in DOMAIN heap : \E k \in DOMAIN heap[a].refs :
             r = << "object", a, k, heap[a].refs[k] >>
        \/ \E i \in Int : r[1] # "object" /\ r[4] = o[i] /\ Placed(r) = i /\ r[2] = 0
                          /\ r = << r[1], 0, r[3], r[4] >> /\ (r[1] # "stack" => r[3] = 0)
                          /\ r[1] \in {"stack", "lookahead", "root"}
                          /\ (r[1] = "stack" => r[3] > 0)
  <2>1. \A k \in DOMAIN stack : k > 0
    OBVIOUS
  <2> QED BY <2>1, <1>1 DEF References
<1>3. \A a \in DOMAIN heap : \A k \in DOMAIN heap[a].refs :
        << "object", a, k, heap[a].refs[k] >> \in References
  BY DEF References
<1>4. \A i \in Int : o[i] # 0 => \E r \in References : r[4] = o[i]
  <2>1. << "lookahead", 0, 0, lookahead >> \in References /\ << "root", 0, 0, root >> \in References
    BY DEF References
  <2>2. \A k \in DOMAIN stack : << "stack", 0, k, stack[k].value >> \in References
    BY DEF References
  <2> QED BY <2>1, <2>2, <1>1
<1>5. {r[4] : r \in PointingRefs} = DOMAIN heap
  <2>1. ASSUME NEW r \in PointingRefs PROVE r[4] \in DOMAIN heap
    <3>1. r \in References /\ r[4] # 0
      BY DEF PointingRefs
    <3> QED BY <3>1, <1>2 DEF Sound, There, o
  <2>2. ASSUME NEW a \in DOMAIN heap PROVE \E r \in PointingRefs : r[4] = a
    <3>1. a # 0
      BY PointersAre DEF Sound, HeapTypes
    <3>2. CASE \E i \in Int : o[i] = a
      BY <3>1, <3>2, <1>4 DEF PointingRefs
    <3>3. CASE \E b \in DOMAIN heap : \E k \in DOMAIN heap[b].refs : heap[b].refs[k] = a
      <4>1. PICK b \in DOMAIN heap : \E k \in DOMAIN heap[b].refs : heap[b].refs[k] = a
        BY <3>3
      <4>2. PICK k \in DOMAIN heap[b].refs : heap[b].refs[k] = a
        BY <4>1
      <4>3. << "object", b, k, a >> \in References
        BY <4>1, <4>2, <1>3
      <4>4. << "object", b, k, a >>[4] = a
        OBVIOUS
      <4> QED BY <4>3, <4>4, <3>1 DEF PointingRefs
    <3> QED BY <3>2, <3>3 DEF Sound, Held, o
  <2> QED BY <2>1, <2>2
<1>6. \A q, r \in PointingRefs : q[4] = r[4] => q = r
  <2> SUFFICES ASSUME NEW q \in References, NEW r \in References, q[4] = r[4], q[4] # 0 PROVE q = r
    BY DEF PointingRefs
  <2>1. CASE \E a \in DOMAIN heap : \E k \in DOMAIN heap[a].refs :
               q = << "object", a, k, heap[a].refs[k] >>
    <3>1. CASE \E b \in DOMAIN heap : \E l \in DOMAIN heap[b].refs :
                 r = << "object", b, l, heap[b].refs[l] >>
      BY <2>1, <3>1 DEF Sound, OnceInside
    <3>2. CASE \E i \in Int : r[4] = o[i]
      BY <2>1, <3>2 DEF Sound, OnceEither, o
    <3> QED BY <3>1, <3>2, <1>2
  <2>2. CASE \E b \in DOMAIN heap : \E l \in DOMAIN heap[b].refs :
               r = << "object", b, l, heap[b].refs[l] >>
    <3>1. CASE \E i \in Int : q[4] = o[i]
      BY <2>2, <3>1 DEF Sound, OnceEither, o
    <3> QED BY <2>1, <3>1, <1>2
  <2>3. CASE /\ ~ \E a \in DOMAIN heap : \E k \in DOMAIN heap[a].refs :
                    q = << "object", a, k, heap[a].refs[k] >>
             /\ ~ \E b \in DOMAIN heap : \E l \in DOMAIN heap[b].refs :
                    r = << "object", b, l, heap[b].refs[l] >>
    <3>1. PICK i \in Int : q[1] # "object" /\ q[4] = o[i] /\ Placed(q) = i /\ q[2] = 0
                          /\ q = << q[1], 0, q[3], q[4] >> /\ (q[1] # "stack" => q[3] = 0)
                          /\ q[1] \in {"stack", "lookahead", "root"}
                          /\ (q[1] = "stack" => q[3] > 0)
      BY <2>3, <1>2
    <3>2. PICK j \in Int : r[1] # "object" /\ r[4] = o[j] /\ Placed(r) = j /\ r[2] = 0
                          /\ r = << r[1], 0, r[3], r[4] >> /\ (r[1] # "stack" => r[3] = 0)
                          /\ r[1] \in {"stack", "lookahead", "root"}
                          /\ (r[1] = "stack" => r[3] > 0)
      BY <2>3, <1>2
    <3>3. i = j
      BY <3>1, <3>2 DEF Sound, OnceOutside, o
    <3>4. q[1] = r[1] /\ q[3] = r[3]
      BY <3>1, <3>2, <3>3
    <3> QED BY <3>1, <3>2, <3>4
  <2> QED BY <2>1, <2>2, <2>3
<1>7. Cardinality(PointingRefs) = Cardinality(DOMAIN heap)
  <2>1. IsFiniteSet(DOMAIN heap)
    BY AddressesAssumption, FS_Subset DEF Sound, HeapTypes
  <2> DEFINE f == [a \in DOMAIN heap |-> CHOOSE r \in PointingRefs : r[4] = a]
  <2>2. \A a \in DOMAIN heap : f[a] \in PointingRefs /\ f[a][4] = a
    BY <1>5
  <2>3. \A r \in PointingRefs : r[4] \in DOMAIN heap /\ f[r[4]] = r
    BY <1>5, <1>6, <2>2
  <2> f \in [DOMAIN heap -> PointingRefs]
    BY <2>2
  <2> HIDE DEF f
  <2>4. f \in Bijection(DOMAIN heap, PointingRefs)
    BY <2>2, <2>3 DEF Bijection, Injection, Surjection, IsInjective
  <2> QED BY <2>1, <2>4, FS_Bijection DEF ExistsBijection
<1> QED BY <1>5, <1>7 DEF OwnedOnce, PointingRefs

\* Shaped, from the parts of each object.
LEMMA ShapedFrom ==
  ASSUME Fitting(heap)
  PROVE  Shaped
BY DEF Fitting, PartsFit, Shaped, Kind

-----------------------------------------------------------------------------
(***************************************************************************)
(* The grammar.                                                            *)
(***************************************************************************)

\* What the value of a symbol points to.
SymbolKinds(symbol) ==
  CASE symbol = "NAME" -> {"name"}
    [] symbol \in {"printDec", "readDec"} -> {"extern"}
    [] symbol = "funcDec" -> {"func"}
    [] symbol \in {"blockBody", "decls", "stmts"} -> {"list"}
    [] symbol = "varDec" -> {"decl"}
    [] symbol = "stmt" -> Branches
    [] symbol = "block" -> {"block"}
    [] symbol = "varAssign" -> {"asgn"}
    [] symbol \in {"readCall", "printStmt"} -> {"call"}
    [] symbol = "ifStmt" -> {"if"}
    [] symbol = "whileStmt" -> {"while"}
    [] symbol = "retStmt" -> {"ret"}
    [] symbol = "relExpr" -> {"rexpr"}
    [] symbol \in {"intExpr", "term", "posTerm"} -> Terms
    [] OTHER -> {"NULL"}

\* A production, by its sides and its action.
RuleIs(rule, lhs, rhs, act) == rule.lhs \in lhs /\ rule.rhs \in rhs /\ rule.act = act

\* The productions by their actions.
OneOfThem(rule) ==
  \/ RuleIs(rule, {"printDec", "readDec"}, {<<>>}, "extern")
  \/ RuleIs(rule, {"funcDec"}, {<<"NAME", "block">>}, "func")
  \/ RuleIs(rule, {"funcDec"}, {<<"NAME", "NAME", "block">>}, "func")
  \/ RuleIs(rule, {"block"}, {<<"blockBody">>}, "block")
  \/ RuleIs(rule, {"blockBody"}, {<<"decls", "stmts">>}, "join")
  \/ RuleIs(rule, {"decls", "stmts"}, {<<>>}, "list")
  \/ RuleIs(rule, {"decls"}, {<<"decls", "varDec">>}, "append")
  \/ RuleIs(rule, {"stmts"}, {<<"stmts", "stmt">>}, "append")
  \/ RuleIs(rule, {"varDec"}, {<<"NAME">>}, "decl")
  \/ RuleIs(rule, {"stmt"}, {<< s >> : s \in {"varAssign", "printStmt", "ifStmt", "whileStmt",
                                             "retStmt", "block"}}, "pass")
  \/ RuleIs(rule, {"varAssign"}, {<<"NAME", "intExpr">>, <<"NAME", "readCall">>}, "asgn")
  \/ RuleIs(rule, {"readCall"}, {<<>>}, "call")
  \/ RuleIs(rule, {"printStmt"}, {<<"intExpr">>}, "call")
  \/ RuleIs(rule, {"ifStmt"}, {<<"relExpr", "stmt">>}, "if")
  \/ RuleIs(rule, {"ifStmt"}, {<<"relExpr", "stmt", "stmt">>}, "if")
  \/ RuleIs(rule, {"whileStmt"}, {<<"relExpr", "stmt">>}, "while")
  \/ RuleIs(rule, {"retStmt"}, {<<"intExpr">>}, "ret")
  \/ RuleIs(rule, {"relExpr"}, {<<"intExpr", "intExpr">>}, "rexpr")
  \/ RuleIs(rule, {"intExpr"}, {<<"term">>}, "pass")
  \/ RuleIs(rule, {"intExpr"}, {<<"term", "term">>}, "bexpr")
  \/ RuleIs(rule, {"term"}, {<<"posTerm">>}, "pass")
  \/ RuleIs(rule, {"term"}, {<<"posTerm">>}, "uexpr")
  \/ RuleIs(rule, {"posTerm"}, {<<"NUM">>}, "cnst")
  \/ RuleIs(rule, {"posTerm"}, {<<"NAME">>}, "var")

\* There are 33 productions.
LEMMA RulesAre == Rules = 1 .. 33
BY DEF Rules, Productions

\* Every production but the first is one of these.
LEMMA RuleCases == \A p \in Rules \ {1} : OneOfThem(Productions[p])
<1>1. \A rule \in {Productions[2], Productions[3], Productions[4], Productions[5],
            Productions[6], Productions[7], Productions[8], Productions[9],
            Productions[10], Productions[11], Productions[12]} :
        OneOfThem(rule)
  BY DEF Productions, Rule, OneOfThem, RuleIs
<1>2. \A rule \in {Productions[13], Productions[14], Productions[15], Productions[16],
            Productions[17], Productions[18], Productions[19], Productions[20],
            Productions[21], Productions[22]} :
        OneOfThem(rule)
  BY DEF Productions, Rule, OneOfThem, RuleIs
<1>3. \A rule \in {Productions[23], Productions[24], Productions[25], Productions[26],
            Productions[27], Productions[28], Productions[29], Productions[30],
            Productions[31], Productions[32], Productions[33]} :
        OneOfThem(rule)
  BY DEF Productions, Rule, OneOfThem, RuleIs
<1>4. Rules \ {1} = 2 .. 33
  BY RulesAre
<1> HIDE DEF Productions
<1> QED BY <1>1, <1>2, <1>3, <1>4

\* The first is that of the start symbol.
LEMMA FirstRule == Productions[1] = Rule("program", <<"printDec", "readDec", "funcDec">>, "prog")
BY DEF Productions

\* The symbols, one by one.
LEMMA SymbolsAre ==
  Symbols = {"program", "printDec", "readDec", "funcDec", "block", "blockBody", "decls", "varDec",
             "stmts", "stmt", "varAssign", "readCall", "printStmt", "ifStmt", "whileStmt",
             "retStmt", "relExpr", "intExpr", "term", "posTerm", "NAME", "NUM"}
<1> DEFINE All == {"program", "printDec", "readDec", "funcDec", "block", "blockBody", "decls",
                   "varDec", "stmts", "stmt", "varAssign", "readCall", "printStmt", "ifStmt",
                   "whileStmt", "retStmt", "relExpr", "intExpr", "term", "posTerm"}
<1>1. \A p \in Rules : Productions[p].lhs \in All
  <2>1. \A p \in Rules \ {1} : Productions[p].lhs \in All
    BY RuleCases DEF OneOfThem, RuleIs
  <2> QED BY <2>1, FirstRule DEF Rule
<1>2. \A s \in All : \E p \in 1 .. 33 : Productions[p].lhs = s
  <2>1. /\ Productions[1].lhs = "program" /\ Productions[2].lhs = "printDec"
        /\ Productions[3].lhs = "readDec" /\ Productions[4].lhs = "funcDec"
        /\ Productions[6].lhs = "block" /\ Productions[7].lhs = "blockBody"
        /\ Productions[8].lhs = "decls" /\ Productions[10].lhs = "varDec"
        /\ Productions[11].lhs = "stmts" /\ Productions[13].lhs = "stmt"
    BY DEF Productions, Rule
  <2>2. /\ Productions[19].lhs = "varAssign" /\ Productions[21].lhs = "readCall"
        /\ Productions[22].lhs = "printStmt" /\ Productions[23].lhs = "ifStmt"
        /\ Productions[25].lhs = "whileStmt" /\ Productions[26].lhs = "retStmt"
        /\ Productions[27].lhs = "relExpr" /\ Productions[28].lhs = "intExpr"
        /\ Productions[30].lhs = "term" /\ Productions[32].lhs = "posTerm"
    BY DEF Productions, Rule
  <2> HIDE DEF Productions
  <2> QED BY <2>1, <2>2
<1>3. {Lhs(p) : p \in Rules} = All
  <2> HIDE DEF All
  <2> QED BY <1>1, <1>2, RulesAre DEF Lhs
<1> QED BY <1>3 DEF Symbols

\* The right-hand sides, in detail.
LEMMA RhsFacts ==
  ASSUME NEW p \in Rules
  PROVE  /\ Rhs(p) \in Seq(Symbols \ {"program"}) /\ Len(Rhs(p)) \in 0 .. 3
         /\ DOMAIN Rhs(p) = 1 .. Len(Rhs(p))
         /\ Lhs(p) \in Symbols /\ (Lhs(p) = "program" <=> p = 1)
<1> DEFINE Some == Symbols \ {"program"}
<1>1. /\ Lhs(p) \in Symbols /\ (Lhs(p) = "program" <=> p = 1)
  <2>1. p # 1 => Lhs(p) # "program"
    BY RuleCases DEF OneOfThem, RuleIs, Lhs
  <2>2. Lhs(1) = "program"
    BY FirstRule DEF Rule, Lhs
  <2> QED BY <2>1, <2>2 DEF Symbols
<1>2. Rhs(p) \in Seq(Some) /\ Len(Rhs(p)) \in 0 .. 3
  <2>1. <<>> \in Seq(Some) /\ Len(<<>>) = 0
    OBVIOUS
  <2>2. \A s \in Some : << s >> \in Seq(Some) /\ Len(<< s >>) = 1
    OBVIOUS
  <2>3. \A s, t \in Some : << s, t >> \in Seq(Some) /\ Len(<< s, t >>) = 2
    OBVIOUS
  <2>4. \A s, t, u \in Some : << s, t, u >> \in Seq(Some) /\ Len(<< s, t, u >>) = 3
    OBVIOUS
  <2>5. CASE p = 1
    BY <2>4, <2>5, FirstRule, SymbolsAre DEF Rule, Rhs
  <2>6. CASE p # 1
    <3>1. OneOfThem(Productions[p])
      BY <2>6, RuleCases
    <3>2. \A s \in {"NAME", "NUM", "block", "blockBody", "decls", "varDec", "stmts", "stmt",
                    "varAssign", "readCall", "printStmt", "ifStmt", "whileStmt", "retStmt",
                    "relExpr", "intExpr", "term", "posTerm"} : s \in Some
      BY SymbolsAre
    <3> HIDE DEF Some
    <3>3. \/ Rhs(p) = <<>>
          \/ \E s \in Some : Rhs(p) = << s >>
          \/ \E s, t \in Some : Rhs(p) = << s, t >>
          \/ \E s, t, u \in Some : Rhs(p) = << s, t, u >>
      BY <3>1, <3>2 DEF Rhs, OneOfThem, RuleIs
    <3>4. CASE \E s, t, u \in Some : Rhs(p) = << s, t, u >>
      BY <3>4, <2>4
    <3>5. CASE \E s, t \in Some : Rhs(p) = << s, t >>
      BY <3>5, <2>3
    <3>6. CASE \E s \in Some : Rhs(p) = << s >>
      BY <3>6, <2>2
    <3>7. CASE Rhs(p) = <<>>
      <4>1. 0 \in 0 .. 3
        OBVIOUS
      <4> QED BY <3>7, <4>1, <2>1, Zenon
    <3> QED BY <3>3, <3>4, <3>5, <3>6, <3>7, Zenon
  <2> QED BY <2>5, <2>6
<1> QED BY <1>1, <1>2

-----------------------------------------------------------------------------
(***************************************************************************)
(* The stack of Bison: its symbols are the path by which its states have   *)
(* been reached, so that a complete item on top means its symbols below.   *)
(***************************************************************************)

(***************************************************************************)
(* The states of the stack.                                                *)
(***************************************************************************)

\* The items, the steps by which LeftCorners is computed, and how it is defined.
Items == {item \in Rules \X (0 .. 3) : item[2] <= Len(Rhs(item[1]))}

Widened(near) ==
  near \cup UNION {{<< pair[1], Rhs(p)[1] >> :
    p \in {q \in Rules : Lhs(q) = pair[2] /\ Rhs(q) # <<>>}} : pair \in near}

SelfCorners == {<< s, s >> : s \in Symbols}

Corner(k, f) == IF k = 0 THEN SelfCorners ELSE Widened(f[k - 1])

CornersBy(f) == f = [k \in 0 .. 7 |-> Corner(k, f)]

\* LeftCorners is what these steps compute.
LEMMA CornersExist == \E f : CornersBy(f) /\ LeftCorners = f[7]
<1> DEFINE A1 == Widened(SelfCorners)
           A2 == Widened(A1)
           A3 == Widened(A2)
           A4 == Widened(A3)
           A5 == Widened(A4)
           A6 == Widened(A5)
           A7 == Widened(A6)
           g == [k \in 0 .. 7 |->
                   CASE k = 0 -> SelfCorners [] k = 1 -> A1 [] k = 2 -> A2 [] k = 3 -> A3
                     [] k = 4 -> A4 [] k = 5 -> A5 [] k = 6 -> A6 [] k = 7 -> A7]
<1>1. /\ A1 = Widened(SelfCorners) /\ A2 = Widened(A1) /\ A3 = Widened(A2) /\ A4 = Widened(A3)
      /\ A5 = Widened(A4) /\ A6 = Widened(A5) /\ A7 = Widened(A6)
  OBVIOUS
<1> HIDE DEF A1, A2, A3, A4, A5, A6, A7
<1>2. /\ g[0] = SelfCorners /\ g[1] = A1 /\ g[2] = A2 /\ g[3] = A3
      /\ g[4] = A4 /\ g[5] = A5 /\ g[6] = A6 /\ g[7] = A7
      /\ g = [k \in 0 .. 7 |-> g[k]]
  OBVIOUS
<1> HIDE DEF g
<1>3. \A k \in 0 .. 7 : g[k] = Corner(k, g)
  <2>1. /\ 1 - 1 = 0 /\ 2 - 1 = 1 /\ 3 - 1 = 2 /\ 4 - 1 = 3
        /\ 5 - 1 = 4 /\ 6 - 1 = 5 /\ 7 - 1 = 6
    OBVIOUS
  <2>2. /\ g[0] = Corner(0, g) /\ g[1] = Corner(1, g) /\ g[2] = Corner(2, g)
        /\ g[3] = Corner(3, g) /\ g[4] = Corner(4, g) /\ g[5] = Corner(5, g)
        /\ g[6] = Corner(6, g) /\ g[7] = Corner(7, g)
    BY <2>1, <1>1, <1>2 DEF Corner
  <2>3. \A k \in 0 .. 7 : k \in {0, 1, 2, 3, 4, 5, 6, 7}
    OBVIOUS
  <2> QED BY <2>2, <2>3
<1>4. CornersBy(g)
  BY <1>2, <1>3, Zenon DEF CornersBy
<1>5. LeftCorners = (CHOOSE f : CornersBy(f))[7]
  BY Zenon DEF LeftCorners, CornersBy, Corner, SelfCorners, Widened
<1> QED BY <1>4, <1>5

\* What is a left corner of a symbol is that symbol or begins a production of another one.
LEMMA CornerFacts ==
  /\ \A s \in Symbols : << s, s >> \in LeftCorners
  /\ \A pair \in LeftCorners :
       \/ \E s \in Symbols : pair = << s, s >>
       \/ \E near \in LeftCorners : \E q \in Rules :
            Lhs(q) = near[2] /\ Rhs(q) # <<>> /\ pair = << near[1], Rhs(q)[1] >>
<1>1. PICK f : CornersBy(f) /\ LeftCorners = f[7]
  BY CornersExist
<1>2. \A k \in 0 .. 7 : f[k] = Corner(k, f)
  <2>1. f = [k \in 0 .. 7 |-> Corner(k, f)]
    BY <1>1 DEF CornersBy
  <2> QED BY <2>1
<1>3. f[0] = SelfCorners /\ \A k \in 1 .. 7 : f[k] = Widened(f[k - 1])
  BY <1>2 DEF Corner
<1> DEFINE Fine(k) ==
      /\ f[k] \subseteq LeftCorners /\ \A s \in Symbols : << s, s >> \in f[k]
      /\ \A pair \in f[k] :
           \/ \E s \in Symbols : pair = << s, s >>
           \/ \E near \in LeftCorners : \E q \in Rules :
                Lhs(q) = near[2] /\ Rhs(q) # <<>> /\ pair = << near[1], Rhs(q)[1] >>
<1>4. \A k \in 1 .. 7 : f[k - 1] \subseteq f[k]
  BY <1>3 DEF Widened
<1>5. /\ f[0] \subseteq f[1] /\ f[1] \subseteq f[2] /\ f[2] \subseteq f[3] /\ f[3] \subseteq f[4]
      /\ f[4] \subseteq f[5] /\ f[5] \subseteq f[6] /\ f[6] \subseteq f[7]
  <2>1. \A k \in 0 .. 6 : f[k] \subseteq f[k + 1]
    <3> SUFFICES ASSUME NEW k \in 0 .. 6 PROVE f[k] \subseteq f[k + 1]
      OBVIOUS
    <3>1. k + 1 \in 1 .. 7 /\ (k + 1) - 1 = k
      OBVIOUS
    <3> QED BY <3>1, <1>4
  <2> QED BY <2>1
<1>6. \A k \in 0 .. 7 : f[k] \subseteq LeftCorners
  <2>1. \A k \in 0 .. 7 : k \in {0, 1, 2, 3, 4, 5, 6, 7}
    OBVIOUS
  <2> QED BY <2>1, <1>1, <1>5
<1>7. Fine(0)
  BY <1>3, <1>6 DEF SelfCorners
<1>8. \A k \in 1 .. 7 : Fine(k - 1) => Fine(k)
  <2> SUFFICES ASSUME NEW k \in 1 .. 7, Fine(k - 1) PROVE Fine(k)
    OBVIOUS
  <2>1. f[k] \subseteq LeftCorners /\ f[k - 1] \subseteq LeftCorners
    BY <1>6
  <2>2. ASSUME NEW pair \in f[k], pair \notin f[k - 1]
        PROVE  \E near \in LeftCorners : \E q \in Rules :
                 Lhs(q) = near[2] /\ Rhs(q) # <<>> /\ pair = << near[1], Rhs(q)[1] >>
    <3>1. PICK near \in f[k - 1] :
            pair \in {<< near[1], Rhs(p)[1] >> :
                        p \in {q \in Rules : Lhs(q) = near[2] /\ Rhs(q) # <<>>}}
      BY <2>2, <1>3 DEF Widened
    <3> QED BY <3>1, <2>1
  <2> QED BY <2>1, <2>2, <1>4
<1> HIDE DEF Fine
<1>9. Fine(7)
  <2>1. \A k \in 0 .. 6 : Fine(k) => Fine(k + 1)
    <3> SUFFICES ASSUME NEW k \in 0 .. 6, Fine(k) PROVE Fine(k + 1)
      OBVIOUS
    <3>1. k + 1 \in 1 .. 7 /\ (k + 1) - 1 = k
      OBVIOUS
    <3> QED BY <3>1, <1>8
  <2> QED BY <2>1, <1>7
<1> QED BY <1>1, <1>9 DEF Fine

\* What Closure adds: the beginnings of what can come next.
LEMMA ClosureFacts ==
  ASSUME NEW state \in SUBSET Items
  PROVE  /\ Closure(state) \in SUBSET Items
         /\ \A item \in Closure(state) :
              \/ item \in state
              \/ /\ item[2] = 0
                 /\ \E i \in Unfinished(state) : << NextSymbol(i), Lhs(item[1]) >> \in LeftCorners
         /\ \A i \in Unfinished(state), p \in Rules :
              << NextSymbol(i), Lhs(p) >> \in LeftCorners => << p, 0 >> \in Closure(state)
<1>1. \A p \in Rules : << p, 0 >> \in Items
  BY RhsFacts DEF Items
<1>2. \A item \in Closure(state) :
        \/ item \in state
        \/ \E i \in Unfinished(state) : \E p \in Begins(NextSymbol(i)) : item = << p, 0 >>
  BY DEF Closure
<1>3. \A s : \A p \in Begins(s) : p \in Rules /\ << s, Lhs(p) >> \in LeftCorners
  BY DEF Begins
<1>4. Closure(state) \in SUBSET Items
  BY <1>1, <1>2, <1>3
<1>5. \A i \in Unfinished(state), p \in Rules :
        << NextSymbol(i), Lhs(p) >> \in LeftCorners => << p, 0 >> \in Closure(state)
  BY DEF Closure, Begins
<1> QED BY <1>2, <1>3, <1>4, <1>5

\* Nothing waits for the start symbol.
LEMMA NextFacts ==
  ASSUME NEW state \in SUBSET Items, NEW i \in Unfinished(state)
  PROVE  i \in Items /\ NextSymbol(i) \in Symbols /\ NextSymbol(i) # "program"
<1>1. i \in Items /\ i[2] < Len(Rhs(i[1]))
  BY DEF Unfinished
<1>2. i[1] \in Rules /\ i[2] + 1 \in 1 .. Len(Rhs(i[1]))
  BY <1>1, RhsFacts DEF Items
<1>3. Rhs(i[1])[i[2] + 1] \in Symbols \ {"program"}
  BY <1>2, RhsFacts
<1> QED BY <1>1, <1>3 DEF NextSymbol

\* The items in the next state have the symbol before their dot.
LEMMA GotoFacts ==
  ASSUME NEW state \in SUBSET Items, NEW symbol
  PROVE  /\ Goto(state, symbol) \in SUBSET Items
         /\ \A item \in Goto(state, symbol) :
              /\ item[1] \in Rules /\ item[2] \in 1 .. Len(Rhs(item[1]))
              /\ Rhs(item[1])[item[2]] = symbol
              /\ << item[1], item[2] - 1 >> \in Closure(state)
         /\ Goto(state, "program") = {} /\ Goto({}, symbol) = {} /\ Closure({}) = {}
<1>1. \A item \in Goto(state, symbol) :
        \E i \in Unfinished(Closure(state)) : item = << i[1], i[2] + 1 >> /\ NextSymbol(i) = symbol
  BY DEF Goto
<1>2. ASSUME NEW item \in Goto(state, symbol)
      PROVE  /\ item \in Items
             /\ item[1] \in Rules /\ item[2] \in 1 .. Len(Rhs(item[1]))
             /\ Rhs(item[1])[item[2]] = symbol
             /\ << item[1], item[2] - 1 >> \in Closure(state)
  <2>1. PICK i \in Unfinished(Closure(state)) :
          item = << i[1], i[2] + 1 >> /\ NextSymbol(i) = symbol
    BY <1>1
  <2>2. i \in Closure(state) /\ i \in Items /\ i[2] < Len(Rhs(i[1]))
    BY ClosureFacts DEF Unfinished
  <2>3. i[1] \in Rules /\ i[2] \in 0 .. 3 /\ i = << i[1], i[2] >>
    BY <2>2 DEF Items
  <2>4. Len(Rhs(i[1])) \in 0 .. 3
    BY <2>3, RhsFacts
  <2>5. item[1] = i[1] /\ item[2] = i[2] + 1 /\ item[2] - 1 = i[2]
    BY <2>1, <2>3
  <2>6. item \in Items
    <3>1. \A d, n \in 0 .. 3 : d < n => d + 1 \in 0 .. 3 /\ d + 1 <= n
      OBVIOUS
    <3>2. i[2] \in 0 .. 3 /\ i[2] < Len(Rhs(i[1]))
      BY <2>2, <2>3
    <3>3. i[2] + 1 \in 0 .. 3 /\ i[2] + 1 <= Len(Rhs(i[1]))
      BY <3>1, <3>2, <2>4
    <3> QED BY <3>3, <2>1, <2>3 DEF Items
  <2>7. << item[1], item[2] - 1 >> = i
    BY <2>3, <2>5
  <2>8. item[2] \in 1 .. Len(Rhs(item[1]))
    BY <2>2, <2>3, <2>4, <2>5
  <2> QED BY <2>1, <2>2, <2>3, <2>5, <2>6, <2>7, <2>8 DEF NextSymbol
<1>3. Goto(state, "program") = {}
  BY ClosureFacts, NextFacts DEF Goto
<1>4. Closure({}) = {}
  BY DEF Closure, Unfinished
<1>5. Goto({}, symbol) = {}
  BY <1>4 DEF Goto, Unfinished
<1> QED BY <1>2, <1>3, <1>4, <1>5

\* The stack: its states follow from its symbols, and there always is one, but after program.
Cell == [state : SUBSET Items, symbol : Symbols \cup {"start"}, value : Pointers]

StackOK(s) ==
  /\ s \in Seq(Cell) /\ Len(s) > 0
  /\ s[1] = [state |-> {<< 1, 0 >>}, symbol |-> "start", value |-> 0]
  /\ \A k \in 2 .. Len(s) :
       /\ s[k].symbol \in Symbols
       /\ s[k].state = Goto(s[k - 1].state, s[k].symbol)
       /\ s[k].state # {} \/ (s[k].symbol = "program" /\ k = 2 /\ Len(s) = 2)

\* The elements of the stack, one by one.
LEMMA CellFacts ==
  ASSUME NEW s, StackOK(s)
  PROVE  /\ Len(s) \in Nat /\ DOMAIN s = 1 .. Len(s)
         /\ \A k \in 1 .. Len(s) : /\ s[k] \in Cell /\ s[k].state \in SUBSET Items
                                   /\ s[k].value \in Pointers
                                   /\ s[k].symbol \in Symbols \cup {"start"}
         /\ \A k \in 2 .. Len(s) :
              /\ k - 1 \in 1 .. Len(s) /\ k \in 1 .. Len(s)
              /\ s[k].symbol \in Symbols
              /\ s[k].state = Goto(s[k - 1].state, s[k].symbol)
<1>1. s \in Seq(Cell)
  BY DEF StackOK
<1>2. Len(s) \in Nat /\ DOMAIN s = 1 .. Len(s) /\ \A k \in 1 .. Len(s) : s[k] \in Cell
  BY <1>1
<1>3. \A c \in Cell : /\ c.state \in SUBSET Items /\ c.value \in Pointers
                      /\ c.symbol \in Symbols \cup {"start"}
  BY DEF Cell
<1>4. \A k \in 2 .. Len(s) : k - 1 \in 1 .. Len(s) /\ k \in 1 .. Len(s)
  BY <1>2
<1> QED BY <1>2, <1>3, <1>4 DEF StackOK

\* An item in the next state, one step back.
LEMMA GotoItem ==
  ASSUME NEW state \in SUBSET Items, NEW symbol, NEW p, NEW d, << p, d >> \in Goto(state, symbol)
  PROVE  Rhs(p)[d] = symbol /\ << p, d - 1 >> \in Closure(state)
<1>1. << p, d >>[1] = p /\ << p, d >>[2] = d
  OBVIOUS
<1> DEFINE item == << p, d >>
<1>2. item \in Goto(state, symbol) /\ item[1] = p /\ item[2] = d
  BY <1>1
<1> HIDE DEF item
<1>3. Rhs(item[1])[item[2]] = symbol /\ << item[1], item[2] - 1 >> \in Closure(state)
  BY <1>2, GotoFacts
<1> QED BY <1>2, <1>3

\* An item with its dot behind symbols, which are those on the stack.
LEMMA OneBack ==
  ASSUME NEW s, StackOK(s), NEW k \in 1 .. Len(s), NEW p \in Rules, NEW d \in 1 .. 3,
         << p, d >> \in Closure(s[k].state)
  PROVE  /\ k > 1 /\ s[k].symbol = Rhs(p)[d]
         /\ << p, d - 1 >> \in Closure(s[k - 1].state)
<1>1. \A j \in 1 .. Len(s) : s[j].state \in SUBSET Items
  BY CellFacts
<1>2. << p, d >> \in s[k].state
  BY <1>1, ClosureFacts
<1>3. k # 1
  <2>1. s[1].state = {<< 1, 0 >>}
    BY DEF StackOK
  <2> QED BY <1>2, <2>1
<1>4. k \in 2 .. Len(s) /\ k - 1 \in 1 .. Len(s) /\ k > 1
  BY <1>3, CellFacts
<1>5. << p, d >> \in Goto(s[k - 1].state, s[k].symbol)
  BY <1>2, <1>4, CellFacts
<1>6. s[k - 1].state \in SUBSET Items
  BY <1>1, <1>4
<1>7. Rhs(p)[d] = s[k].symbol /\ << p, d - 1 >> \in Closure(s[k - 1].state)
  BY <1>5, <1>6, GotoItem
<1> QED BY <1>4, <1>7

\* All the way back: the right-hand side of a complete item is on the stack.
LEMMA WholeBack ==
  ASSUME NEW s, StackOK(s), NEW p \in Rules, << p, Len(Rhs(p)) >> \in Closure(s[Len(s)].state)
  PROVE  /\ Len(Rhs(p)) < Len(s)
         /\ \A k \in 1 .. Len(Rhs(p)) : s[Len(s) - Len(Rhs(p)) + k].symbol = Rhs(p)[k]
         /\ << p, 0 >> \in Closure(s[Len(s) - Len(Rhs(p))].state)
<1> DEFINE n == Len(Rhs(p))
           l == Len(s)
<1>1. n \in 0 .. 3 /\ l \in Nat /\ l > 0
  BY RhsFacts DEF StackOK
<1> DEFINE Fine(d) == /\ d < l /\ << p, n - d >> \in Closure(s[l - d].state)
                      /\ \A k \in (n - d) + 1 .. n : s[l - n + k].symbol = Rhs(p)[k]
<1> HIDE DEF n, l
<1>2. Fine(0)
  BY <1>1 DEF l, n
<1>3. \A d \in 0 .. 2 : d < n /\ Fine(d) => Fine(d + 1)
  <2> SUFFICES ASSUME NEW d \in 0 .. 2, d < n, Fine(d) PROVE Fine(d + 1)
    OBVIOUS
  <2>1. l - d \in 1 .. l /\ n - d \in 1 .. 3
    BY <1>1
  <2>2. /\ l - d > 1 /\ s[l - d].symbol = Rhs(p)[n - d]
        /\ << p, (n - d) - 1 >> \in Closure(s[(l - d) - 1].state)
    BY <2>1, OneBack DEF l
  <2>3. (n - d) - 1 = n - (d + 1) /\ (l - d) - 1 = l - (d + 1) /\ d + 1 < l
    BY <1>1, <2>2
  <2>4. ASSUME NEW k \in (n - (d + 1)) + 1 .. n PROVE s[l - n + k].symbol = Rhs(p)[k]
    <3>1. k = n - d \/ k \in (n - d) + 1 .. n
      BY <1>1
    <3>2. k = n - d => l - n + k = l - d
      BY <1>1
    <3> QED BY <3>1, <3>2, <2>2
  <2> QED BY <2>2, <2>3, <2>4
<1>4. Fine(n)
  <2> HIDE DEF Fine
  <2>1. n = 0 \/ n = 1 \/ n = 2 \/ n = 3
    BY <1>1
  <2>2. n > 0 => Fine(1)
    BY <1>1, <1>2, <1>3
  <2>3. n > 1 => Fine(2)
    BY <1>1, <2>2, <1>3
  <2>4. n > 2 => Fine(3)
    BY <1>1, <2>3, <1>3
  <2> QED BY <2>1, <2>2, <2>3, <2>4, <1>2
<1>5. n - n = 0 /\ (n - n) + 1 = 1
  BY <1>1
<1> QED BY <1>1, <1>4, <1>5 DEF l, n

\* After a reduction Bison has a state to go to.
LEMMA StateToGo ==
  ASSUME NEW s, StackOK(s), NEW p \in Rules, NEW k \in 1 .. Len(s),
         << p, 0 >> \in Closure(s[k].state)
  PROVE  /\ p # 1 => Goto(s[k].state, Lhs(p)) # {}
         /\ p = 1 => k = 1
<1>1. s[k].state \in SUBSET Items
  BY CellFacts
<1>2. \A item \in s[k].state : item[2] = 0 => item = << 1, 0 >> /\ k = 1
  <2>1. CASE k = 1
    BY <2>1 DEF StackOK
  <2>2. CASE k # 1
    <3>1. k \in 2 .. Len(s) /\ k - 1 \in 1 .. Len(s)
      BY <2>2, CellFacts
    <3>2. s[k - 1].state \in SUBSET Items /\ s[k].state = Goto(s[k - 1].state, s[k].symbol)
      BY <3>1, CellFacts
    <3>3. \A item \in Goto(s[k - 1].state, s[k].symbol) : item[2] \in 1 .. Len(Rhs(item[1]))
      BY <3>2, GotoFacts
    <3> QED BY <3>2, <3>3
  <2> QED BY <2>1, <2>2
<1>3. CASE << p, 0 >> \in s[k].state
  BY <1>2, <1>3
<1>4. CASE \E i \in Unfinished(s[k].state) : << NextSymbol(i), Lhs(p) >> \in LeftCorners
  <2>1. PICK i \in Unfinished(s[k].state) : << NextSymbol(i), Lhs(p) >> \in LeftCorners
    BY <1>4
  <2>2. NextSymbol(i) \in Symbols /\ NextSymbol(i) # "program" /\ i \in s[k].state /\ i \in Items
    BY <1>1, NextFacts DEF Unfinished
  <2>3. CASE NextSymbol(i) = Lhs(p)
    <3>1. i \in Unfinished(Closure(s[k].state))
      BY DEF Closure, Unfinished
    <3>2. << i[1], i[2] + 1 >> \in Goto(s[k].state, Lhs(p))
      BY <3>1, <2>3 DEF Goto
    <3>3. p # 1
      BY <2>2, <2>3, RhsFacts
    <3> QED BY <3>2, <3>3
  <2>4. CASE \E near \in LeftCorners : \E q \in Rules :
               /\ Lhs(q) = near[2] /\ Rhs(q) # <<>>
               /\ << NextSymbol(i), Lhs(p) >> = << near[1], Rhs(q)[1] >>
    <3>1. PICK near \in LeftCorners, q \in Rules :
               /\ Lhs(q) = near[2] /\ Rhs(q) # <<>>
               /\ << NextSymbol(i), Lhs(p) >> = << near[1], Rhs(q)[1] >>
      BY <2>4
    <3>2. NextSymbol(i) = near[1] /\ Lhs(p) = Rhs(q)[1]
      BY <3>1
    <3>3. << NextSymbol(i), Lhs(q) >> = near
      <4>1. near = << near[1], near[2] >>
        BY CornerFacts
      <4> QED BY <4>1, <3>1, <3>2
    <3>4. << q, 0 >> \in Closure(s[k].state)
      BY <1>1, <3>3, ClosureFacts
    <3>5. 1 \in DOMAIN Rhs(q) /\ 0 < Len(Rhs(q))
      BY <3>1, RhsFacts
    <3>6. << q, 0 >> \in Unfinished(Closure(s[k].state)) /\ NextSymbol(<< q, 0 >>) = Lhs(p)
      BY <3>2, <3>4, <3>5 DEF Unfinished, NextSymbol
    <3>7. << q, 0 + 1 >> \in Goto(s[k].state, Lhs(p))
      BY <3>6 DEF Goto
    <3>8. Rhs(q)[1] # "program"
      BY <3>5, RhsFacts
    <3> QED BY <3>2, <3>7, <3>8, RhsFacts
  <2>5. << NextSymbol(i), Lhs(p) >> \in {<< t, t >> : t \in Symbols} => NextSymbol(i) = Lhs(p)
    OBVIOUS
  <2> QED BY <2>1, <2>3, <2>4, <2>5, CornerFacts
<1> QED BY <1>1, <1>3, <1>4, ClosureFacts

-----------------------------------------------------------------------------
(***************************************************************************)
(* One node more: a fresh object takes the pointers at some places as its  *)
(* parts, and stands at one of them, or at a place that was empty.         *)
(***************************************************************************)

\* The parts of every kind of node.
LEMMA PartKindsAre ==
  /\ PartKinds("name") = <<>> /\ PartKinds("cnst") = <<>>
  /\ \A kind \in {"extern", "var", "decl"} : PartKinds(kind) = <<{"name"}>>
  /\ \A kind \in {"uexpr", "ret"} : PartKinds(kind) = <<Terms>>
  /\ \A kind \in {"bexpr", "rexpr"} : PartKinds(kind) = <<Terms, Terms>>
  /\ PartKinds("block") = <<{"list"}>>
  /\ PartKinds("asgn") = <<{"var"}, Terms \cup {"call"}>>
  /\ PartKinds("call") = <<{"name"}, Terms \cup {"NULL"}>>
  /\ PartKinds("while") = <<{"rexpr"}, Branches>>
  /\ PartKinds("if") = <<{"rexpr"}, Branches, Branches \cup {"NULL"}>>
  /\ PartKinds("func") = <<{"name"}, {"NULL", "var"}, {"block"}>>
  /\ PartKinds("prog") = <<{"extern"}, {"extern"}, {"func"}>>
BY DEF PartKinds

\* A new object without parts, and with one, two or three from the places x, y, z.
Ready0(h, o, a, r, kind) ==
  /\ Sound(h, o) /\ a \in Addresses \ DOMAIN h /\ r \in Int /\ o[r] = 0
  /\ kind \in {"name", "cnst", "list"}

With0(h, a, kind) == With(h, a, Object(kind, <<>>))
Put0(o, a, r) == Put(o, r, a)

\* Nothing has changed but the places that have been emptied and r, which has the new object.
Grown(h, o, g, p, changed, r, kind) ==
  /\ Sound(g, p)
  /\ \A i \in Int \ (changed \cup {r}) : KindAt(g, p, i) = KindAt(h, o, i)
  /\ KindAt(g, p, r) = kind

\* A new object without parts.
LEMMA Fresh0 ==
  ASSUME NEW h, NEW o, NEW a, NEW r, NEW kind, Ready0(h, o, a, r, kind)
  PROVE  Grown(h, o, With0(h, a, kind), Put0(o, a, r), {}, r, kind)
<1> USE DEF Ready0, With0, Put0
<1> DEFINE refs == <<>>
<1>1. refs \in Seq(Pointers) /\ refs \in Seq(Int) /\ Len(refs) = 0 /\ DOMAIN refs = {}
  OBVIOUS
<1>2. Len(PartKinds("name")) = 0 /\ Len(PartKinds("cnst")) = 0
  BY PartKindsAre
<1> HIDE DEF refs
<1>3. PartsFit(h, kind, refs)
  BY <1>1, <1>2 DEF PartsFit, ObjectKinds, Exprs
<1>4. Taken(o, refs, r, a) = Put(o, r, a)
  <2>1. o \in [Int -> Pointers] /\ a \in Pointers
    BY PointersAre DEF Sound, HeapTypes
  <2>2. Taken(o, refs, r, a) = [i \in Int |-> IF i = r THEN a ELSE o[i]]
    BY <1>1 DEF Taken
  <2> QED BY <2>1, <2>2 DEF Put
<1>5. /\ Sound(With(h, a, Object(kind, refs)), Taken(o, refs, r, a))
      /\ \A i \in Int \ {r} : (\A k \in DOMAIN refs : refs[k] # i) =>
           KindAt(With(h, a, Object(kind, refs)), Taken(o, refs, r, a), i) = KindAt(h, o, i)
      /\ KindAt(With(h, a, Object(kind, refs)), Taken(o, refs, r, a), r) = kind
  <2>1. \A j, k \in DOMAIN refs : refs[j] = refs[k] => j = k
    BY <1>1
  <2>2. \A k \in DOMAIN refs : refs[k] = o[refs[k]]
    BY <1>1
  <2>3. o[r] = 0 \/ \E k \in DOMAIN refs : refs[k] = r
    OBVIOUS
  <2>4. Len(refs) = Len(refs)
    OBVIOUS
  <2>5. WrapReady(h, o, a, refs, r, kind, refs)
    BY <1>1, <1>3, <2>1, <2>2, <2>3, <2>4 DEF WrapReady
  <2> QED BY <2>5, Wrapped
<1>6. /\ Sound(With(h, a, Object(kind, refs)), Put(o, r, a))
      /\ \A i \in Int \ {r} :
           KindAt(With(h, a, Object(kind, refs)), Put(o, r, a), i) = KindAt(h, o, i)
      /\ KindAt(With(h, a, Object(kind, refs)), Put(o, r, a), r) = kind
  BY <1>1, <1>4, <1>5
<1> QED BY <1>6 DEF refs, Grown

\* With one part, from place x.
Ready1(h, o, a, x, r, kind) ==
  /\ Sound(h, o) /\ a \in Addresses \ DOMAIN h
  /\ x \in Int
  /\ r \in Int /\ (r \in {x} \/ o[r] = 0)
  /\ kind \in ObjectKinds \ {"list"} /\ Len(PartKinds(kind)) = 1
  /\ KindAt(h, o, x) \in PartKinds(kind)[1]

With1(h, o, a, x, kind) == With(h, a, Object(kind, << o[x] >>))
Put1(o, a, x, r) == Put(Put(o, x, 0), r, a)

\* The heap is sound with it.
LEMMA Fresh1 ==
  ASSUME NEW h, NEW o, NEW a, NEW x, NEW r, NEW kind,
         Ready1(h, o, a, x, r, kind)
  PROVE  Grown(h, o, With1(h, o, a, x, kind), Put1(o, a, x, r), {x}, r, kind)
<1> USE DEF Ready1, With1, Put1
<1> DEFINE refs == << o[x] >>
           q == << x >>
           g == With(h, a, Object(kind, refs))
           p == Put(Put(o, x, 0), r, a)
<1>1. o[x] \in Pointers
  BY DEF Sound, HeapTypes
<1>2. refs \in Seq(Pointers) /\ Len(refs) = 1 /\ DOMAIN refs = {1} /\ refs[1] = o[x]
  BY <1>1
<1>3. q \in Seq(Int) /\ Len(q) = 1 /\ DOMAIN q = {1} /\ q[1] = x
  OBVIOUS
<1> HIDE DEF refs, q
<1>5. PartsFit(h, kind, refs)
  BY <1>2 DEF PartsFit, KindAt
<1>6. Taken(o, q, r, a) = p
  <2>1. o \in [Int -> Pointers] /\ 0 \in Pointers /\ a \in Pointers
    BY PointersAre DEF Sound, HeapTypes
  <2>2. p \in [Int -> Pointers] /\ p[r] = a
    BY <2>1, PutFacts
  <2>3. \A i \in Int \ {r} : p[i] = IF i = x THEN 0 ELSE o[i]
    BY <2>1 DEF Put
  <2>4. \A i \in Int : (\E k \in DOMAIN q : q[k] = i) <=> (i = x)
    BY <1>3
  <2> HIDE DEF p
  <2>5. \A i \in Int : p[i] = IF i = r THEN a
                             ELSE IF \E k \in DOMAIN q : q[k] = i THEN 0 ELSE o[i]
    BY <2>2, <2>3, <2>4
  <2> QED BY <2>2, <2>5 DEF Taken
<1> HIDE DEF p
<1>7. /\ Sound(g, Taken(o, q, r, a))
      /\ \A i \in Int \ {r} : (\A k \in DOMAIN q : q[k] # i) =>
           KindAt(g, Taken(o, q, r, a), i) = KindAt(h, o, i)
      /\ KindAt(g, Taken(o, q, r, a), r) = kind
  <2>1. \A j, k \in DOMAIN q : q[j] = q[k] => j = k
    BY <1>3
  <2>2. o[r] = 0 \/ \E k \in DOMAIN q : q[k] = r
    BY <1>3
  <2>3. Len(refs) = Len(q) /\ \A k \in DOMAIN q : refs[k] = o[q[k]]
    BY <1>2, <1>3
  <2>4. WrapReady(h, o, a, q, r, kind, refs)
    BY <1>2, <1>3, <1>5, <2>1, <2>2, <2>3 DEF WrapReady
  <2> QED BY <2>4, Wrapped
<1>8. /\ Sound(g, p)
      /\ \A i \in Int \ {x, r} : KindAt(g, p, i) = KindAt(h, o, i)
      /\ KindAt(g, p, r) = kind
  BY <1>3, <1>6, <1>7
<1> QED BY <1>8 DEF refs, p, Grown

\* With two parts, from places x and y.
Ready2(h, o, a, x, y, r, kind) ==
  /\ Sound(h, o) /\ a \in Addresses \ DOMAIN h
  /\ x \in Int /\ y \in Int /\ x # y
  /\ r \in Int /\ (r \in {x, y} \/ o[r] = 0)
  /\ kind \in ObjectKinds \ {"list"} /\ Len(PartKinds(kind)) = 2
  /\ KindAt(h, o, x) \in PartKinds(kind)[1] /\ KindAt(h, o, y) \in PartKinds(kind)[2]

With2(h, o, a, x, y, kind) == With(h, a, Object(kind, << o[x], o[y] >>))
Put2(o, a, x, y, r) == Put(Put(Put(o, x, 0), y, 0), r, a)

\* The heap is sound with it.
LEMMA Fresh2 ==
  ASSUME NEW h, NEW o, NEW a, NEW x, NEW y, NEW r, NEW kind,
         Ready2(h, o, a, x, y, r, kind)
  PROVE  Grown(h, o, With2(h, o, a, x, y, kind), Put2(o, a, x, y, r), {x, y}, r, kind)
<1> USE DEF Ready2, With2, Put2
<1> DEFINE refs == << o[x], o[y] >>
           q == << x, y >>
           g == With(h, a, Object(kind, refs))
           p == Put(Put(Put(o, x, 0), y, 0), r, a)
<1>1. o[x] \in Pointers /\ o[y] \in Pointers
  BY DEF Sound, HeapTypes
<1>2. /\ refs \in Seq(Pointers) /\ Len(refs) = 2 /\ DOMAIN refs = {1, 2}
      /\ refs[1] = o[x] /\ refs[2] = o[y]
  BY <1>1
<1>3. q \in Seq(Int) /\ Len(q) = 2 /\ DOMAIN q = {1, 2} /\ q[1] = x /\ q[2] = y
  OBVIOUS
<1> HIDE DEF refs, q
<1>5. PartsFit(h, kind, refs)
  BY <1>2 DEF PartsFit, KindAt
<1>6. Taken(o, q, r, a) = p
  <2>1. o \in [Int -> Pointers] /\ 0 \in Pointers /\ a \in Pointers
    BY PointersAre DEF Sound, HeapTypes
  <2>2. p \in [Int -> Pointers] /\ p[r] = a
    BY <2>1, PutFacts
  <2>3. \A i \in Int \ {r} : p[i] = IF i = x \/ i = y THEN 0 ELSE o[i]
    BY <2>1 DEF Put
  <2>4. \A i \in Int : (\E k \in DOMAIN q : q[k] = i) <=> (i = x \/ i = y)
    BY <1>3
  <2> HIDE DEF p
  <2>5. \A i \in Int : p[i] = IF i = r THEN a
                             ELSE IF \E k \in DOMAIN q : q[k] = i THEN 0 ELSE o[i]
    BY <2>2, <2>3, <2>4
  <2> QED BY <2>2, <2>5 DEF Taken
<1> HIDE DEF p
<1>7. /\ Sound(g, Taken(o, q, r, a))
      /\ \A i \in Int \ {r} : (\A k \in DOMAIN q : q[k] # i) =>
           KindAt(g, Taken(o, q, r, a), i) = KindAt(h, o, i)
      /\ KindAt(g, Taken(o, q, r, a), r) = kind
  <2>1. \A j, k \in DOMAIN q : q[j] = q[k] => j = k
    BY <1>3
  <2>2. o[r] = 0 \/ \E k \in DOMAIN q : q[k] = r
    BY <1>3
  <2>3. Len(refs) = Len(q) /\ \A k \in DOMAIN q : refs[k] = o[q[k]]
    BY <1>2, <1>3
  <2>4. WrapReady(h, o, a, q, r, kind, refs)
    BY <1>2, <1>3, <1>5, <2>1, <2>2, <2>3 DEF WrapReady
  <2> QED BY <2>4, Wrapped
<1>8. /\ Sound(g, p)
      /\ \A i \in Int \ {x, y, r} : KindAt(g, p, i) = KindAt(h, o, i)
      /\ KindAt(g, p, r) = kind
  BY <1>3, <1>6, <1>7
<1> QED BY <1>8 DEF refs, p, Grown

\* With three parts, from places x, y and z; a place may be empty where NULL is allowed.
Ready3(h, o, a, x, y, z, r, kind) ==
  /\ Sound(h, o) /\ a \in Addresses \ DOMAIN h
  /\ x \in Int /\ y \in Int /\ z \in Int /\ x # y /\ x # z /\ y # z
  /\ r \in Int /\ (r \in {x, y, z} \/ o[r] = 0)
  /\ kind \in ObjectKinds \ {"list"} /\ Len(PartKinds(kind)) = 3
  /\ KindAt(h, o, x) \in PartKinds(kind)[1] /\ KindAt(h, o, y) \in PartKinds(kind)[2]
  /\ KindAt(h, o, z) \in PartKinds(kind)[3]

With3(h, o, a, x, y, z, kind) == With(h, a, Object(kind, << o[x], o[y], o[z] >>))
Put3(o, a, x, y, z, r) == Put(Put(Put(Put(o, x, 0), y, 0), z, 0), r, a)

\* The heap is sound with it.
LEMMA Fresh3 ==
  ASSUME NEW h, NEW o, NEW a, NEW x, NEW y, NEW z, NEW r, NEW kind,
         Ready3(h, o, a, x, y, z, r, kind)
  PROVE  Grown(h, o, With3(h, o, a, x, y, z, kind), Put3(o, a, x, y, z, r), {x, y, z}, r, kind)
<1> USE DEF Ready3, With3, Put3
<1> DEFINE refs == << o[x], o[y], o[z] >>
           q == << x, y, z >>
           g == With(h, a, Object(kind, refs))
           p == Put(Put(Put(Put(o, x, 0), y, 0), z, 0), r, a)
<1>1. o[x] \in Pointers /\ o[y] \in Pointers /\ o[z] \in Pointers
  BY DEF Sound, HeapTypes
<1>2. /\ refs \in Seq(Pointers) /\ Len(refs) = 3 /\ DOMAIN refs = {1, 2, 3}
      /\ refs[1] = o[x] /\ refs[2] = o[y] /\ refs[3] = o[z]
  BY <1>1
<1>3. q \in Seq(Int) /\ Len(q) = 3 /\ DOMAIN q = {1, 2, 3} /\ q[1] = x /\ q[2] = y /\ q[3] = z
  OBVIOUS
<1> HIDE DEF refs, q
<1>5. PartsFit(h, kind, refs)
  BY <1>2 DEF PartsFit, KindAt
<1>6. Taken(o, q, r, a) = p
  <2>1. o \in [Int -> Pointers] /\ 0 \in Pointers /\ a \in Pointers
    BY PointersAre DEF Sound, HeapTypes
  <2>2. p \in [Int -> Pointers] /\ p[r] = a
    BY <2>1, PutFacts
  <2>3. \A i \in Int \ {r} : p[i] = IF i = x \/ i = y \/ i = z THEN 0 ELSE o[i]
    BY <2>1 DEF Put
  <2>4. \A i \in Int : (\E k \in DOMAIN q : q[k] = i) <=> (i = x \/ i = y \/ i = z)
    BY <1>3
  <2> HIDE DEF p
  <2>5. \A i \in Int : p[i] = IF i = r THEN a
                             ELSE IF \E k \in DOMAIN q : q[k] = i THEN 0 ELSE o[i]
    BY <2>2, <2>3, <2>4
  <2> QED BY <2>2, <2>5 DEF Taken
<1> HIDE DEF p
<1>7. /\ Sound(g, Taken(o, q, r, a))
      /\ \A i \in Int \ {r} : (\A k \in DOMAIN q : q[k] # i) =>
           KindAt(g, Taken(o, q, r, a), i) = KindAt(h, o, i)
      /\ KindAt(g, Taken(o, q, r, a), r) = kind
  <2>1. \A j, k \in DOMAIN q : q[j] = q[k] => j = k
    BY <1>3
  <2>2. o[r] = 0 \/ \E k \in DOMAIN q : q[k] = r
    BY <1>3
  <2>3. Len(refs) = Len(q) /\ \A k \in DOMAIN q : refs[k] = o[q[k]]
    BY <1>2, <1>3
  <2>4. WrapReady(h, o, a, q, r, kind, refs)
    BY <1>2, <1>3, <1>5, <2>1, <2>2, <2>3 DEF WrapReady
  <2> QED BY <2>4, Wrapped
<1>8. /\ Sound(g, p)
      /\ \A i \in Int \ {x, y, z, r} : KindAt(g, p, i) = KindAt(h, o, i)
      /\ KindAt(g, p, r) = kind
  BY <1>3, <1>6, <1>7
<1> QED BY <1>8 DEF refs, p, Grown

-----------------------------------------------------------------------------
(***************************************************************************)
(* An action: what it finds, what it leaves, and the heap it leaves it in. *)
(***************************************************************************)

\* What a sound heap says of the pointers.
LEMMA SoundTypes ==
  ASSUME NEW h, NEW o, Sound(h, o)
  PROVE  /\ o \in [Int -> Pointers] /\ DOMAIN h \subseteq Addresses
         /\ 0 \notin DOMAIN h /\ h = [a \in DOMAIN h |-> h[a]]
         /\ \A i \in Int : o[i] # 0 => o[i] \in DOMAIN h
         /\ \A i, j \in Int : o[i] = o[j] /\ o[i] # 0 => i = j
         /\ \A i \in Int : KindAt(h, o, i) = "NULL" => o[i] = 0
         /\ \A i \in Int : o[i] = 0 => KindAt(h, o, i) = "NULL"
<1>1. o \in [Int -> Pointers] /\ DOMAIN h \subseteq Addresses /\ h = [a \in DOMAIN h |-> h[a]]
  BY DEF Sound, HeapTypes
<1>2. \A i \in Int : o[i] # 0 => o[i] \in DOMAIN h
  BY DEF Sound, There
<1>3. \A i, j \in Int : o[i] = o[j] /\ o[i] # 0 => i = j
  BY DEF Sound, OnceOutside
<1>4. \A a \in DOMAIN h : h[a].kind # "NULL"
  <2>1. \A a \in DOMAIN h : h[a].kind \in ObjectKinds
    BY DEF Sound, Fitting, PartsFit
  <2>2. "NULL" \notin ObjectKinds
    BY DEF ObjectKinds, Exprs, Stmts
  <2> QED BY <2>1, <2>2
<1>5. 0 \notin DOMAIN h
  BY <1>1, PointersAre
<1> QED BY <1>1, <1>2, <1>3, <1>4, <1>5 DEF KindAt, Kind

\* A place that is filled and emptied again.
LEMMA PutBack ==
  ASSUME NEW o \in [Int -> Pointers], NEW i \in Int, o[i] = 0, NEW a \in Pointers
  PROVE  Put(Put(o, i, a), i, 0) = o
BY DEF Put

\* A node that has a name and nothing else, and the copy of the name.
ReadyNamed(h, o, a, b, r, kind) ==
  /\ Sound(h, o) /\ a \in Addresses \ DOMAIN h /\ b \in Addresses \ DOMAIN h /\ a # b
  /\ r \in Int /\ r # -2 /\ o[r] = 0 /\ o[-2] = 0
  /\ kind \in {"extern", "var", "decl"}

WithNamed(h, a, b, kind) == With(With(h, a, Name), b, Object(kind, << a >>))

\* The name goes where there is nothing, and from there into the node.
LEMMA Named ==
  ASSUME NEW h, NEW o, NEW a, NEW b, NEW r, NEW kind, ReadyNamed(h, o, a, b, r, kind)
  PROVE  Grown(h, o, WithNamed(h, a, b, kind), Put0(o, b, r), {}, r, kind)
<1> DEFINE g == With0(h, a, "name")
           p == Put0(o, a, -2)
<1> USE DEF ReadyNamed
<1>1. o \in [Int -> Pointers] /\ a \in Pointers /\ b \in Pointers /\ 0 \in Pointers
  BY SoundTypes, PointersAre
<1>2. Grown(h, o, g, p, {}, -2, "name")
  <2>1. Ready0(h, o, a, -2, "name")
    BY DEF Ready0
  <2> QED BY <2>1, Fresh0
<1>3. p \in [Int -> Pointers] /\ p[-2] = a /\ \A i \in Int \ {-2} : p[i] = o[i]
  BY <1>1, PutFacts DEF Put0
<1>4. g = With(h, a, Name) /\ b \notin DOMAIN g
  <2>1. g = With(h, a, Name)
    BY DEF With0, Name
  <2>2. DOMAIN g = DOMAIN h \cup {a}
    BY DEF With0, With
  <2> QED BY <2>1, <2>2
<1> HIDE DEF g, p
<1>5. Ready1(g, p, b, -2, r, kind)
  <2>1. kind \in ObjectKinds \ {"list"}
    BY DEF ObjectKinds, Exprs, Stmts
  <2>2. PartKinds(kind) = << {"name"} >>
    BY PartKindsAre
  <2>3. KindAt(g, p, -2) = "name" /\ Sound(g, p)
    BY <1>2 DEF Grown
  <2>4. p[r] = 0
    BY <1>3
  <2> QED BY <2>1, <2>2, <2>3, <2>4, <1>4 DEF Ready1
<1>6. Grown(g, p, With1(g, p, b, -2, kind), Put1(p, b, -2, r), {-2}, r, kind)
  BY <1>5, Fresh1
<1>7. With1(g, p, b, -2, kind) = WithNamed(h, a, b, kind)
  BY <1>3, <1>4 DEF With1, WithNamed
<1>8. Put1(p, b, -2, r) = Put0(o, b, r)
  <2>1. Put(p, -2, 0) = o
    BY <1>1, PutBack DEF p, Put0
  <2> QED BY <2>1 DEF Put1, Put0
<1>9. Grown(g, p, WithNamed(h, a, b, kind), Put0(o, b, r), {-2}, r, kind)
  BY <1>6, <1>7, <1>8
<1> DEFINE f == WithNamed(h, a, b, kind)
           u == Put0(o, b, r)
<1>10. u[-2] = 0
  BY <1>1, PutFacts DEF Put0
<1> HIDE DEF f, u
<1>11. Sound(f, u) /\ KindAt(f, u, r) = kind
  BY <1>9 DEF Grown, f, u
<1>12. \A i \in Int \ {-2, r} : KindAt(f, u, i) = KindAt(h, o, i)
  BY <1>2, <1>9 DEF Grown, f, u
<1>13. KindAt(f, u, -2) = KindAt(h, o, -2)
  <2>1. KindAt(f, u, -2) = "NULL"
    BY <1>10, <1>11, SoundTypes
  <2>2. KindAt(h, o, -2) = "NULL"
    BY SoundTypes
  <2> QED BY <2>1, <2>2
<1>14. \A i \in Int \ {r} : KindAt(f, u, i) = KindAt(h, o, i)
  BY <1>12, <1>13
<1>15. Grown(h, o, f, u, {}, r, kind)
  BY <1>11, <1>14 DEF Grown
<1> QED BY <1>15 DEF f, u

\* The symbols of a production are on the stack above B, the production can be reduced.
ReduceReady(o, B, rule, v, new) ==
  /\ Sound(heap, o) /\ B \in Nat
  /\ Len(rule.rhs) \in 0 .. 3 /\ DOMAIN rule.rhs = 1 .. Len(rule.rhs)
  /\ \A i \in Int : i < -1 \/ i > B + Len(rule.rhs) => o[i] = 0
  /\ v = [k \in 1 .. Len(rule.rhs) |-> o[B + k]]
  /\ \A k \in 1 .. Len(rule.rhs) : KindAt(heap, o, B + k) \in SymbolKinds(rule.rhs[k])
  /\ \A k \in 1 .. 4 : new[k] \in Addresses \ DOMAIN heap
  /\ \A j, k \in 1 .. 4 : new[j] = new[k] => j = k

\* The result is the value of the new symbol, all below it is as it was.
Reduced(g, p, o, B, kinds, value) ==
  /\ Sound(g, p)
  /\ \A i \in Int : -2 < i /\ i <= B => p[i] = o[i] /\ KindAt(g, p, i) = KindAt(heap, o, i)
  /\ p[B + 1] = value /\ KindAt(g, p, B + 1) \in kinds
  /\ \A i \in Int : i < -1 \/ i > B + 1 => p[i] = 0

\* g is the heap after the action, object by object.
ActedReady(g, rule, v, new, c) ==
  /\ rule.act \notin {"append", "join"}
  /\ c = Created(rule, v, new) /\ DOMAIN c \subseteq 1 .. 4
  /\ \A k \in 1 .. 4 : new[k] \notin DOMAIN heap
  /\ \A j, k \in 1 .. 4 : new[j] = new[k] => j = k
  /\ g = [a \in DOMAIN g |-> g[a]]
  /\ DOMAIN g = (DOMAIN heap \ FreedNames(rule, v)) \cup {new[k] : k \in DOMAIN c}
  /\ \A a \in DOMAIN heap \ FreedNames(rule, v) : g[a] = heap[a]
  /\ \A k \in DOMAIN c : g[new[k]] = c[k]

\* The heap after the action is what it is object by object.
LEMMA ActedAs ==
  ASSUME NEW g, NEW rule, NEW v, NEW new, NEW c, ActedReady(g, rule, v, new, c)
  PROVE  Acted(rule, v, new) = g
<1> USE DEF ActedReady
<1> DEFINE gone == FreedNames(rule, v)
<1>1. Acted(rule, v, new) =
        [a \in (DOMAIN heap \ gone) \cup {new[k] : k \in DOMAIN c} |->
           IF a \notin DOMAIN heap THEN c[CHOOSE k \in DOMAIN c : new[k] = a] ELSE heap[a]]
  <2>1. gone \cup (IF rule.act = "join" THEN {v[2]} ELSE {}) = gone
    OBVIOUS
  <2> HIDE DEF gone
  <2>2. ~(rule.act \in {"append", "join"})
    OBVIOUS
  <2> QED BY <2>1, <2>2 DEF Acted, gone
<1> HIDE DEF gone
<1>2. \A k \in DOMAIN c : new[k] \notin DOMAIN heap /\ (CHOOSE j \in DOMAIN c : new[j] = new[k]) = k
  <2> SUFFICES ASSUME NEW k \in DOMAIN c
               PROVE  new[k] \notin DOMAIN heap /\ (CHOOSE j \in DOMAIN c : new[j] = new[k]) = k
    OBVIOUS
  <2>1. PICK m : m = CHOOSE j \in DOMAIN c : new[j] = new[k]
    OBVIOUS
  <2>2. m \in DOMAIN c /\ new[m] = new[k]
    BY <2>1
  <2> QED BY <2>1, <2>2
<1>3. \A a \in DOMAIN g :
        g[a] = IF a \notin DOMAIN heap THEN c[CHOOSE k \in DOMAIN c : new[k] = a] ELSE heap[a]
  <2> SUFFICES ASSUME NEW a \in DOMAIN g
               PROVE  g[a] = IF a \notin DOMAIN heap THEN c[CHOOSE k \in DOMAIN c : new[k] = a]
                             ELSE heap[a]
    OBVIOUS
  <2>1. CASE a \in DOMAIN heap
    BY <2>1, <1>2 DEF gone
  <2>2. CASE a \notin DOMAIN heap
    <3>1. PICK k \in DOMAIN c : a = new[k]
      BY <2>2 DEF gone
    <3>2. (CHOOSE j \in DOMAIN c : new[j] = new[k]) = k
      BY <1>2
    <3> QED BY <3>1, <3>2, <2>2
  <2> QED BY <2>1, <2>2
<1>4. DOMAIN g = (DOMAIN heap \ gone) \cup {new[k] : k \in DOMAIN c}
  BY DEF gone
<1> QED BY <1>1, <1>3, <1>4

\* What an action finds, piece by piece.
LEMMA ReadyFacts ==
  ASSUME NEW o, NEW B, NEW rule, NEW v, NEW new, ReduceReady(o, B, rule, v, new)
  PROVE  /\ Sound(heap, o) /\ B \in Nat /\ B + 1 \in Int /\ B + 2 \in Int /\ B + 3 \in Int
         /\ o \in [Int -> Pointers] /\ o[-2] = 0 /\ o[-9] = 0
         /\ \A i \in Int : i < -1 \/ i > B + Len(rule.rhs) => o[i] = 0
         /\ DOMAIN v = 1 .. Len(rule.rhs) /\ Len(v) = Len(rule.rhs)
         /\ \A k \in 1 .. Len(rule.rhs) : v[k] = o[B + k]
         /\ \A k \in 1 .. Len(rule.rhs) : KindAt(heap, o, B + k) \in SymbolKinds(rule.rhs[k])
<1> USE DEF ReduceReady
<1>1. o \in [Int -> Pointers]
  BY SoundTypes
<1>2. DOMAIN v = 1 .. Len(rule.rhs) /\ Len(v) = Len(rule.rhs)
  OBVIOUS
<1>3. -2 \in Int /\ -9 \in Int /\ -2 < -1 /\ -9 < -1
  OBVIOUS
<1> QED BY <1>1, <1>2, <1>3

\* The new addresses are different ones.
LEMMA NewFacts ==
  ASSUME NEW o, NEW B, NEW rule, NEW v, NEW new, ReduceReady(o, B, rule, v, new)
  PROVE  /\ \A k \in 1 .. 4 : new[k] \in Addresses \ DOMAIN heap /\ new[k] \in Pointers
         /\ new[1] # new[2] /\ new[1] # new[3] /\ new[1] # new[4]
         /\ new[2] # new[3] /\ new[2] # new[4] /\ new[3] # new[4]
<1> USE DEF ReduceReady
<1>1. \A k \in 1 .. 4 : new[k] \in Addresses \ DOMAIN heap
  OBVIOUS
<1>2. \A j, k \in 1 .. 4 : new[j] = new[k] => j = k
  OBVIOUS
<1>3. 1 \in 1 .. 4 /\ 2 \in 1 .. 4 /\ 3 \in 1 .. 4 /\ 4 \in 1 .. 4
  OBVIOUS
<1> QED BY <1>1, <1>2, <1>3, PointersAre

\* The objects that are left.
LEMMA WithoutFacts ==
  ASSUME NEW s
  PROVE  /\ DOMAIN Without(s) = DOMAIN heap \ s
         /\ \A b \in DOMAIN heap \ s : Without(s)[b] = heap[b]
         /\ Without(s) = [b \in DOMAIN Without(s) |-> Without(s)[b]]
BY DEF Without

\* What an action with one, two, three, four new objects does to the heap.
ActReady(rule, v, new, c) ==
  /\ rule.act \notin {"append", "join"}
  /\ Created(rule, v, new) = c
  /\ \A k \in 1 .. 4 : new[k] \in Addresses \ DOMAIN heap /\ new[k] \in Pointers
  /\ new[1] # new[2] /\ new[1] # new[3] /\ new[1] # new[4]
  /\ new[2] # new[3] /\ new[2] # new[4] /\ new[3] # new[4]

\* One: the node.
LEMMA Acted1 ==
  ASSUME NEW rule, NEW v, NEW new, NEW c, ActReady(rule, v, new, c), DOMAIN c = {1}, Len(c) = 1
  PROVE  /\ Acted(rule, v, new) = With(Without(FreedNames(rule, v)), new[1], c[1])
         /\ Result(rule, v, new) = new[1]
<1> DEFINE h == Without(FreedNames(rule, v))
           g == With(h, new[1], c[1])
<1>1. DOMAIN h = DOMAIN heap \ FreedNames(rule, v) /\ \A a \in DOMAIN h : h[a] = heap[a]
  BY WithoutFacts
<1> HIDE DEF h
<1>2. /\ DOMAIN g = DOMAIN h \cup {new[1]} /\ g[new[1]] = c[1]
      /\ \A a \in DOMAIN h \ {new[1]} : g[a] = h[a]
      /\ g = [a \in DOMAIN g |-> g[a]]
  BY DEF With
<1> HIDE DEF g
<1>3. {new[k] : k \in DOMAIN c} = {new[1]}
  OBVIOUS
<1>4. /\ new[1] \notin DOMAIN heap
      /\ \A k \in 1 .. 4 : new[k] \notin DOMAIN heap
      /\ \A j, k \in 1 .. 4 : new[j] = new[k] => j = k
  BY DEF ActReady
<1>5. \A a \in DOMAIN h : g[a] = h[a]
  BY <1>1, <1>2, <1>4
<1>6. ActedReady(g, rule, v, new, c)
  BY <1>1, <1>2, <1>3, <1>4, <1>5 DEF ActReady, ActedReady
<1> QED BY <1>6, ActedAs DEF ActReady, Result, g, h

\* Two.
LEMMA Acted2 ==
  ASSUME NEW rule, NEW v, NEW new, NEW c, ActReady(rule, v, new, c), DOMAIN c = {1, 2}, Len(c) = 2
  PROVE  /\ Acted(rule, v, new) =
              With(With(Without(FreedNames(rule, v)), new[1], c[1]), new[2], c[2])
         /\ Result(rule, v, new) = new[2]
<1> DEFINE h == Without(FreedNames(rule, v))
           f == With(h, new[1], c[1])
           g == With(f, new[2], c[2])
<1>1. DOMAIN h = DOMAIN heap \ FreedNames(rule, v) /\ \A a \in DOMAIN h : h[a] = heap[a]
  BY WithoutFacts
<1> HIDE DEF h
<1>2. /\ DOMAIN f = DOMAIN h \cup {new[1]} /\ f[new[1]] = c[1]
      /\ \A a \in DOMAIN h \ {new[1]} : f[a] = h[a]
  BY DEF With
<1> HIDE DEF f
<1>3. /\ DOMAIN g = DOMAIN f \cup {new[2]} /\ g[new[2]] = c[2]
      /\ \A a \in DOMAIN f \ {new[2]} : g[a] = f[a]
      /\ g = [a \in DOMAIN g |-> g[a]]
  BY DEF With
<1> HIDE DEF g
<1>4. {new[k] : k \in DOMAIN c} = {new[1], new[2]}
  OBVIOUS
<1>5. /\ new[1] \notin DOMAIN heap /\ new[2] \notin DOMAIN heap /\ new[1] # new[2]
      /\ \A k \in 1 .. 4 : new[k] \notin DOMAIN heap
      /\ \A j, k \in 1 .. 4 : new[j] = new[k] => j = k
  BY DEF ActReady
<1>6. (\A a \in DOMAIN h : g[a] = h[a]) /\ g[new[1]] = c[1]
  BY <1>1, <1>2, <1>3, <1>5
<1>7. DOMAIN g = DOMAIN h \cup {new[1], new[2]}
  BY <1>2, <1>3
<1>8. \A k \in DOMAIN c : g[new[k]] = c[k]
  BY <1>3, <1>6
<1>9. ActedReady(g, rule, v, new, c)
  BY <1>1, <1>3, <1>4, <1>5, <1>6, <1>7, <1>8 DEF ActReady, ActedReady
<1> QED BY <1>9, ActedAs DEF ActReady, Result, g, f, h

\* Three.
LEMMA Acted3 ==
  ASSUME NEW rule, NEW v, NEW new, NEW c, ActReady(rule, v, new, c),
         DOMAIN c = {1, 2, 3}, Len(c) = 3
  PROVE  /\ Acted(rule, v, new) =
              With(With(With(Without(FreedNames(rule, v)), new[1], c[1]), new[2], c[2]),
                   new[3], c[3])
         /\ Result(rule, v, new) = new[3]
<1> DEFINE h == Without(FreedNames(rule, v))
           e == With(h, new[1], c[1])
           f == With(e, new[2], c[2])
           g == With(f, new[3], c[3])
<1>1. DOMAIN h = DOMAIN heap \ FreedNames(rule, v) /\ \A a \in DOMAIN h : h[a] = heap[a]
  BY WithoutFacts
<1> HIDE DEF h
<1>2. /\ DOMAIN e = DOMAIN h \cup {new[1]} /\ e[new[1]] = c[1]
      /\ \A a \in DOMAIN h \ {new[1]} : e[a] = h[a]
  BY DEF With
<1> HIDE DEF e
<1>3. /\ DOMAIN f = DOMAIN e \cup {new[2]} /\ f[new[2]] = c[2]
      /\ \A a \in DOMAIN e \ {new[2]} : f[a] = e[a]
  BY DEF With
<1> HIDE DEF f
<1>4. /\ DOMAIN g = DOMAIN f \cup {new[3]} /\ g[new[3]] = c[3]
      /\ \A a \in DOMAIN f \ {new[3]} : g[a] = f[a]
      /\ g = [a \in DOMAIN g |-> g[a]]
  BY DEF With
<1> HIDE DEF g
<1>5. {new[k] : k \in DOMAIN c} = {new[1], new[2], new[3]}
  OBVIOUS
<1>6. /\ new[1] \notin DOMAIN heap /\ new[2] \notin DOMAIN heap /\ new[3] \notin DOMAIN heap
      /\ new[1] # new[2] /\ new[1] # new[3] /\ new[2] # new[3]
      /\ \A k \in 1 .. 4 : new[k] \notin DOMAIN heap
      /\ \A j, k \in 1 .. 4 : new[j] = new[k] => j = k
  BY DEF ActReady
<1>7. (\A a \in DOMAIN h : g[a] = h[a]) /\ g[new[1]] = c[1] /\ g[new[2]] = c[2]
  BY <1>1, <1>2, <1>3, <1>4, <1>6
<1>8. DOMAIN g = DOMAIN h \cup {new[1], new[2], new[3]}
  BY <1>2, <1>3, <1>4
<1>9. \A k \in DOMAIN c : g[new[k]] = c[k]
  BY <1>4, <1>7
<1>10. ActedReady(g, rule, v, new, c)
  BY <1>1, <1>4, <1>5, <1>6, <1>7, <1>8, <1>9 DEF ActReady, ActedReady
<1> QED BY <1>10, ActedAs DEF ActReady, Result, g, f, e, h

\* Four.
LEMMA Acted4 ==
  ASSUME NEW rule, NEW v, NEW new, NEW c, ActReady(rule, v, new, c),
         DOMAIN c = {1, 2, 3, 4}, Len(c) = 4
  PROVE  /\ Acted(rule, v, new) =
              With(With(With(With(Without(FreedNames(rule, v)), new[1], c[1]), new[2], c[2]),
                        new[3], c[3]), new[4], c[4])
         /\ Result(rule, v, new) = new[4]
<1> DEFINE h == Without(FreedNames(rule, v))
           d == With(h, new[1], c[1])
           e == With(d, new[2], c[2])
           f == With(e, new[3], c[3])
           g == With(f, new[4], c[4])
<1>1. DOMAIN h = DOMAIN heap \ FreedNames(rule, v) /\ \A a \in DOMAIN h : h[a] = heap[a]
  BY WithoutFacts
<1> HIDE DEF h
<1>2. /\ DOMAIN d = DOMAIN h \cup {new[1]} /\ d[new[1]] = c[1]
      /\ \A a \in DOMAIN h \ {new[1]} : d[a] = h[a]
  BY DEF With
<1> HIDE DEF d
<1>3. /\ DOMAIN e = DOMAIN d \cup {new[2]} /\ e[new[2]] = c[2]
      /\ \A a \in DOMAIN d \ {new[2]} : e[a] = d[a]
  BY DEF With
<1> HIDE DEF e
<1>4. /\ DOMAIN f = DOMAIN e \cup {new[3]} /\ f[new[3]] = c[3]
      /\ \A a \in DOMAIN e \ {new[3]} : f[a] = e[a]
  BY DEF With
<1> HIDE DEF f
<1>5. /\ DOMAIN g = DOMAIN f \cup {new[4]} /\ g[new[4]] = c[4]
      /\ \A a \in DOMAIN f \ {new[4]} : g[a] = f[a]
      /\ g = [a \in DOMAIN g |-> g[a]]
  BY DEF With
<1> HIDE DEF g
<1>6. {new[k] : k \in DOMAIN c} = {new[1], new[2], new[3], new[4]}
  OBVIOUS
<1>7. /\ \A k \in 1 .. 4 : new[k] \notin DOMAIN heap
      /\ \A j, k \in 1 .. 4 : new[j] = new[k] => j = k
      /\ new[1] # new[2] /\ new[1] # new[3] /\ new[1] # new[4]
      /\ new[2] # new[3] /\ new[2] # new[4] /\ new[3] # new[4]
      /\ new[1] \notin DOMAIN heap /\ new[2] \notin DOMAIN heap
      /\ new[3] \notin DOMAIN heap /\ new[4] \notin DOMAIN heap
  BY DEF ActReady
<1>8. /\ \A a \in DOMAIN h : g[a] = h[a]
      /\ g[new[1]] = c[1] /\ g[new[2]] = c[2] /\ g[new[3]] = c[3]
  BY <1>1, <1>2, <1>3, <1>4, <1>5, <1>7
<1>9. DOMAIN g = DOMAIN h \cup {new[1], new[2], new[3], new[4]}
  BY <1>2, <1>3, <1>4, <1>5
<1>10. \A k \in DOMAIN c : g[new[k]] = c[k]
  BY <1>5, <1>8
<1>11. ActedReady(g, rule, v, new, c)
  BY <1>1, <1>5, <1>6, <1>7, <1>8, <1>9, <1>10 DEF ActReady, ActedReady
<1> QED BY <1>11, ActedAs DEF ActReady, Result, g, f, e, d, h

\* Nothing is freed.
LEMMA WithoutNone ==
  ASSUME NEW o, Sound(heap, o)
  PROVE  Without({}) = heap
BY SoundTypes DEF Without

\* One object, or two, are freed.
LEMMA WithoutSome ==
  ASSUME NEW x, NEW y
  PROVE  /\ Without({x}) = Minus(heap, x)
         /\ Without({x, y}) = Minus(Minus(heap, x), y)
BY DEF Without, Minus

\* A function with one place changed, or a few of them.
LEMMA Placed ==
  ASSUME NEW o \in [Int -> Pointers], NEW i \in Int, NEW a \in Pointers
  PROVE  /\ Put0(o, a, i) \in [Int -> Pointers]
         /\ \A k \in Int : Put0(o, a, i)[k] = IF k = i THEN a ELSE o[k]
BY DEF Put0, Put

\* Two places emptied.
LEMMA Placed2 ==
  ASSUME NEW o \in [Int -> Pointers], NEW i \in Int, NEW a \in Pointers,
         NEW x \in Int, NEW y \in Int
  PROVE  /\ Put2(o, a, x, y, i) \in [Int -> Pointers]
         /\ \A k \in Int : Put2(o, a, x, y, i)[k] =
              IF k = i THEN a ELSE IF k \in {x, y} THEN 0 ELSE o[k]
BY PointersAre DEF Put2, Put

\* Three places emptied.
LEMMA Placed3 ==
  ASSUME NEW o \in [Int -> Pointers], NEW i \in Int, NEW a \in Pointers,
         NEW x \in Int, NEW y \in Int, NEW z \in Int
  PROVE  /\ Put3(o, a, x, y, z, i) \in [Int -> Pointers]
         /\ \A k \in Int : Put3(o, a, x, y, z, i)[k] =
              IF k = i THEN a ELSE IF k \in {x, y, z} THEN 0 ELSE o[k]
BY PointersAre DEF Put3, Put

\* The values of one, two, three symbols.
LEMMA ArgsAre ==
  ASSUME NEW o, NEW B, NEW rule, NEW v, NEW new, ReduceReady(o, B, rule, v, new)
  PROVE  /\ Len(rule.rhs) = 0 => v = << >>
         /\ Len(rule.rhs) = 1 => v = << o[B + 1] >>
         /\ Len(rule.rhs) = 2 => v = << o[B + 1], o[B + 2] >>
         /\ Len(rule.rhs) = 3 => v = << o[B + 1], o[B + 2], o[B + 3] >>
<1>1. v = [k \in 1 .. Len(rule.rhs) |-> o[B + k]]
  BY DEF ReduceReady
<1>2. CASE Len(rule.rhs) = 0
  <2>1. v = [k \in 1 .. 0 |-> o[B + k]]
    BY <1>1, <1>2
  <2> QED BY <1>2, <2>1
<1>3. CASE Len(rule.rhs) = 1
  BY <1>1, <1>3
<1>4. CASE Len(rule.rhs) = 2
  BY <1>1, <1>4
<1>5. CASE Len(rule.rhs) = 3
  BY <1>1, <1>5
<1>6. Len(rule.rhs) \in 0 .. 3
  BY DEF ReduceReady
<1> QED BY <1>2, <1>3, <1>4, <1>5, <1>6

\* There is nothing above the symbols of the production.
LEMMA NothingAbove ==
  ASSUME NEW o, NEW B, NEW rule, NEW v, NEW new, ReduceReady(o, B, rule, v, new),
         NEW n, Len(rule.rhs) = n
  PROVE  \A i \in Int : i > B + n => o[i] = 0
BY DEF ReduceReady

\* A production with one, two, three symbols; names come first.
LEMMA Symbols1 ==
  ASSUME NEW o, NEW B, NEW rule, NEW v, NEW new, ReduceReady(o, B, rule, v, new),
         NEW s, rule.rhs = << s >>
  PROVE  /\ v = << o[B + 1] >>
         /\ KindAt(heap, o, B + 1) \in SymbolKinds(s)
         /\ \A i \in Int : i > B + 1 => o[i] = 0
         /\ FreedNames(rule, v) = IF s = "NAME" THEN {o[B + 1]} ELSE {}
<1>1. Len(rule.rhs) = 1 /\ rule.rhs[1] = s
  OBVIOUS
<1>2. v = << o[B + 1] >>
  BY <1>1, ArgsAre
<1>3. DOMAIN v = {1} /\ v[1] = o[B + 1]
  BY <1>2
<1>4. FreedNames(rule, v) = IF s = "NAME" THEN {o[B + 1]} ELSE {}
  <2>1. {i \in DOMAIN v : rule.rhs[i] = "NAME"} = IF s = "NAME" THEN {1} ELSE {}
    BY <1>1, <1>3
  <2> QED BY <2>1, <1>3 DEF FreedNames
<1>5. \A i \in Int : i > B + 1 => o[i] = 0
  BY <1>1, NothingAbove, Zenon
<1>6. \A k \in 1 .. 1 : KindAt(heap, o, B + k) \in SymbolKinds(rule.rhs[k])
  BY <1>1, ReadyFacts
<1>7. KindAt(heap, o, B + 1) \in SymbolKinds(s)
  BY <1>1, <1>6
<1> QED BY <1>2, <1>4, <1>5, <1>7

\* Two symbols.
LEMMA Symbols2 ==
  ASSUME NEW o, NEW B, NEW rule, NEW v, NEW new, ReduceReady(o, B, rule, v, new),
         NEW s, NEW t, rule.rhs = << s, t >>, t # "NAME"
  PROVE  /\ v = << o[B + 1], o[B + 2] >>
         /\ KindAt(heap, o, B + 1) \in SymbolKinds(s)
         /\ KindAt(heap, o, B + 2) \in SymbolKinds(t)
         /\ \A i \in Int : i > B + 2 => o[i] = 0
         /\ FreedNames(rule, v) = IF s = "NAME" THEN {o[B + 1]} ELSE {}
<1>1. Len(rule.rhs) = 2 /\ rule.rhs[1] = s /\ rule.rhs[2] = t
  OBVIOUS
<1>2. v = << o[B + 1], o[B + 2] >>
  BY <1>1, ArgsAre
<1>3. DOMAIN v = {1, 2} /\ v[1] = o[B + 1] /\ v[2] = o[B + 2]
  BY <1>2
<1>4. FreedNames(rule, v) = IF s = "NAME" THEN {o[B + 1]} ELSE {}
  <2>1. {i \in DOMAIN v : rule.rhs[i] = "NAME"} = IF s = "NAME" THEN {1} ELSE {}
    BY <1>1, <1>3
  <2> QED BY <2>1, <1>3 DEF FreedNames
<1>5. \A i \in Int : i > B + 2 => o[i] = 0
  BY <1>1, NothingAbove, Zenon
<1>6. \A k \in 1 .. 2 : KindAt(heap, o, B + k) \in SymbolKinds(rule.rhs[k])
  BY <1>1, ReadyFacts
<1>7. KindAt(heap, o, B + 1) \in SymbolKinds(s) /\ KindAt(heap, o, B + 2) \in SymbolKinds(t)
  BY <1>1, <1>6
<1> QED BY <1>2, <1>4, <1>5, <1>7

\* Three symbols.
LEMMA Symbols3 ==
  ASSUME NEW o, NEW B, NEW rule, NEW v, NEW new, ReduceReady(o, B, rule, v, new),
         NEW s, NEW t, NEW u, rule.rhs = << s, t, u >>, u # "NAME", s = "NAME" \/ t # "NAME"
  PROVE  /\ v = << o[B + 1], o[B + 2], o[B + 3] >>
         /\ KindAt(heap, o, B + 1) \in SymbolKinds(s)
         /\ KindAt(heap, o, B + 2) \in SymbolKinds(t)
         /\ KindAt(heap, o, B + 3) \in SymbolKinds(u)
         /\ \A i \in Int : i > B + 3 => o[i] = 0
         /\ s # "NAME" => FreedNames(rule, v) = {}
         /\ t = "NAME" => FreedNames(rule, v) = {o[B + 1], o[B + 2]}
<1>1. Len(rule.rhs) = 3 /\ rule.rhs[1] = s /\ rule.rhs[2] = t /\ rule.rhs[3] = u
  OBVIOUS
<1>2. v = << o[B + 1], o[B + 2], o[B + 3] >>
  BY <1>1, ArgsAre
<1>3. DOMAIN v = {1, 2, 3} /\ v[1] = o[B + 1] /\ v[2] = o[B + 2]
  BY <1>2
<1>4. s # "NAME" => FreedNames(rule, v) = {}
  BY <1>1, <1>3 DEF FreedNames
<1>5. t = "NAME" => FreedNames(rule, v) = {o[B + 1], o[B + 2]}
  <2>1. t = "NAME" => {i \in DOMAIN v : rule.rhs[i] = "NAME"} = {1, 2}
    BY <1>1, <1>3
  <2> QED BY <2>1, <1>3 DEF FreedNames
<1>6. \A i \in Int : i > B + 3 => o[i] = 0
  BY <1>1, NothingAbove, Zenon
<1>7. \A k \in 1 .. 3 : KindAt(heap, o, B + k) \in SymbolKinds(rule.rhs[k])
  BY <1>1, ReadyFacts
<1>8. /\ KindAt(heap, o, B + 1) \in SymbolKinds(s) /\ KindAt(heap, o, B + 2) \in SymbolKinds(t)
      /\ KindAt(heap, o, B + 3) \in SymbolKinds(u)
  BY <1>1, <1>7
<1> QED BY <1>5, <1>2, <1>4, <1>6, <1>8

\* What is to be shown of an action: places above B are free again, but for one.
Left(g, p, o, B, kind, value) ==
  /\ Sound(g, p) /\ KindAt(g, p, B + 1) = kind
  /\ \A i \in Int : p[i] = IF i = B + 1 THEN value ELSE IF i > B THEN 0 ELSE o[i]
  /\ \A i \in Int : i <= B => KindAt(g, p, i) = KindAt(heap, o, i)

\* That is all that Reduced asks for.
LEMMA ReducedBy ==
  ASSUME NEW o, NEW B, NEW rule, NEW v, NEW new, ReduceReady(o, B, rule, v, new),
         NEW g, NEW p, NEW kind, NEW value, NEW kinds, Left(g, p, o, B, kind, value), kind \in kinds
  PROVE  Reduced(g, p, o, B, kinds, value)
<1>1. B \in Nat /\ \A i \in Int : i < -1 => o[i] = 0
  BY ReadyFacts
<1> QED BY <1>1 DEF Left, Reduced

\* A production by its right-hand side and its action.
IsRule(rule, rhs, act) == rule.rhs = rhs /\ rule.act = act

\* The productions without a right-hand side: extern, list, call.
LEMMA ActExtern ==
  ASSUME NEW o, NEW B, NEW rule, NEW v, NEW new, ReduceReady(o, B, rule, v, new),
         IsRule(rule, <<>>, "extern")
  PROVE  \E p : Reduced(Acted(rule, v, new), p, o, B, {"extern"}, Result(rule, v, new))
<1>1. rule.rhs = <<>> /\ Len(rule.rhs) = 0
  BY DEF IsRule
<1> DEFINE a == new[1]
           b == new[2]
           g == WithNamed(heap, a, b, "extern")
           p == Put0(o, b, B + 1)
           c == << Name, Object("extern", << a >>) >>
<1>2. Grown(heap, o, g, p, {}, B + 1, "extern")
  <2>1. ReadyNamed(heap, o, a, b, B + 1, "extern")
    BY <1>1, NewFacts, ReadyFacts DEF ReadyNamed
  <2> QED BY <2>1, Named
<1>3. DOMAIN c = {1, 2} /\ c[1] = Name /\ c[2] = Object("extern", << a >>) /\ Len(c) = 2
  OBVIOUS
<1>4. Created(rule, v, new) = c
  BY DEF Created, IsRule
<1> HIDE DEF c
<1>5. ActReady(rule, v, new, c)
  BY <1>4, NewFacts DEF ActReady, IsRule
<1>6. FreedNames(rule, v) = {}
  BY <1>1, ReadyFacts DEF FreedNames
<1>7. Acted(rule, v, new) = g /\ Result(rule, v, new) = b
  <2>1. Without(FreedNames(rule, v)) = heap
    BY <1>6, WithoutNone, ReadyFacts
  <2>2. /\ Acted(rule, v, new) =
             With(With(Without(FreedNames(rule, v)), new[1], c[1]), new[2], c[2])
        /\ Result(rule, v, new) = new[2]
    BY <1>3, <1>5, Acted2
  <2> QED BY <2>1, <2>2, <1>3 DEF WithNamed
<1>8. /\ \A k \in Int : p[k] = IF k = B + 1 THEN b ELSE o[k]
  BY NewFacts, ReadyFacts, Placed
<1> HIDE DEF p, g
<1>9. Left(g, p, o, B, "extern", b)
  BY <1>1, <1>2, <1>8, ReadyFacts DEF Left, Grown
<1> QED BY <1>7, <1>9, ReducedBy

-----------------------------------------------------------------------------
(***************************************************************************)
(* The actions one by one.                                                 *)
(***************************************************************************)

\* An empty list, and a constant: one node without parts.
LEMMA ActLeaf ==
  ASSUME NEW o, NEW B, NEW rule, NEW v, NEW new, ReduceReady(o, B, rule, v, new),
         IsRule(rule, <<>>, "list") \/ IsRule(rule, <<"NUM">>, "cnst")
  PROVE  \E p : Reduced(Acted(rule, v, new), p, o, B, {rule.act}, Result(rule, v, new))
<1> DEFINE a == new[1]
           kind == rule.act
           g == With0(heap, a, kind)
           p == Put0(o, a, B + 1)
           c == << Object(kind, <<>>) >>
<1>1. /\ o[B + 1] = 0 /\ \A i \in Int : i > B => o[i] = 0
      /\ FreedNames(rule, v) = {} /\ Created(rule, v, new) = c
      /\ kind \in {"list", "cnst"}
  <2>1. CASE IsRule(rule, <<>>, "list")
    <3>1. Len(rule.rhs) = 0
      BY <2>1 DEF IsRule
    <3>2. v = << >>
      BY <3>1, ArgsAre
    <3>3. FreedNames(rule, v) = {}
      BY <3>2 DEF FreedNames
    <3>4. Created(rule, v, new) = c
      BY <2>1, <3>2 DEF Created, IsRule
    <3>5. \A i \in Int : i > B + 0 => o[i] = 0
      BY <3>1, NothingAbove, Zenon
    <3> QED BY <2>1, <3>3, <3>4, <3>5, ReadyFacts DEF IsRule
  <2>2. CASE IsRule(rule, <<"NUM">>, "cnst")
    <3>1. /\ KindAt(heap, o, B + 1) \in SymbolKinds("NUM")
          /\ \A i \in Int : i > B + 1 => o[i] = 0
          /\ FreedNames(rule, v) = {}
      BY <2>2, Symbols1 DEF IsRule
    <3>2. KindAt(heap, o, B + 1) = "NULL"
      BY <3>1 DEF SymbolKinds
    <3>3. o[B + 1] = 0
      BY <3>2, ReadyFacts, SoundTypes
    <3>4. Created(rule, v, new) = c
      BY <2>2 DEF Created, IsRule
    <3>5. \A i \in Int : i > B => i = B + 1 \/ i > B + 1
      BY ReadyFacts
    <3> QED BY <2>2, <3>1, <3>3, <3>4, <3>5 DEF IsRule
  <2> QED BY <2>1, <2>2
<1>2. Grown(heap, o, g, p, {}, B + 1, kind)
  <2>1. Ready0(heap, o, a, B + 1, kind)
    BY <1>1, NewFacts, ReadyFacts DEF Ready0
  <2> QED BY <2>1, Fresh0
<1>3. DOMAIN c = {1} /\ c[1] = Object(kind, <<>>) /\ Len(c) = 1
  OBVIOUS
<1> HIDE DEF c
<1>4. ActReady(rule, v, new, c)
  BY <1>1, NewFacts DEF ActReady
<1>5. Acted(rule, v, new) = g /\ Result(rule, v, new) = a
  <2>1. Without(FreedNames(rule, v)) = heap
    BY <1>1, WithoutNone, ReadyFacts
  <2>2. /\ Acted(rule, v, new) = With(Without(FreedNames(rule, v)), new[1], c[1])
        /\ Result(rule, v, new) = new[1]
    BY <1>3, <1>4, Acted1
  <2> QED BY <2>1, <2>2, <1>3 DEF With0
<1>6. \A k \in Int : p[k] = IF k = B + 1 THEN a ELSE o[k]
  <2>1. a \in Pointers /\ B + 1 \in Int /\ o \in [Int -> Pointers]
    BY NewFacts, ReadyFacts
  <2> QED BY <2>1, Placed
<1> HIDE DEF p, g
<1>7. Left(g, p, o, B, kind, a)
  BY <1>1, <1>2, <1>6, ReadyFacts DEF Left, Grown
<1>8. kind \in {kind}
  OBVIOUS
<1> QED BY <1>5, <1>7, <1>8, ReducedBy

\* A variable, and a declaration: the name is copied, and the one that was scanned is freed.
LEMMA ActName ==
  ASSUME NEW o, NEW B, NEW rule, NEW v, NEW new, ReduceReady(o, B, rule, v, new),
         NEW kind \in {"decl", "var"}, IsRule(rule, <<"NAME">>, kind)
  PROVE  \E p : Reduced(Acted(rule, v, new), p, o, B, {kind}, Result(rule, v, new))
<1> DEFINE a == new[1]
           b == new[2]
           h == Minus(heap, o[B + 1])
           u == Put0(o, 0, B + 1)
           g == WithNamed(h, a, b, kind)
           p == Put0(u, b, B + 1)
           c == << Name, Object(kind, << a >>) >>
<1>1. /\ KindAt(heap, o, B + 1) = "name" /\ FreedNames(rule, v) = {o[B + 1]}
      /\ \A i \in Int : i > B + 1 => o[i] = 0
  <2>1. /\ KindAt(heap, o, B + 1) \in SymbolKinds("NAME") /\ FreedNames(rule, v) = {o[B + 1]}
        /\ \A i \in Int : i > B + 1 => o[i] = 0
    BY Symbols1 DEF IsRule
  <2> QED BY <2>1 DEF SymbolKinds
<1>2. Sound(h, u) /\ \A j \in Int \ {B + 1} : KindAt(h, u, j) = KindAt(heap, o, j)
  BY <1>1, ReadyFacts, NameFreed DEF Put0
<1>3. \A k \in Int : u[k] = IF k = B + 1 THEN 0 ELSE o[k]
  <2>1. o \in [Int -> Pointers] /\ B + 1 \in Int /\ 0 \in Pointers
    BY ReadyFacts, PointersAre
  <2> QED BY <2>1, Placed
<1>4. u \in [Int -> Pointers] /\ DOMAIN h \subseteq DOMAIN heap /\ Without({o[B + 1]}) = h
  BY <1>2, SoundTypes, WithoutSome DEF Minus
<1> HIDE DEF u, h
<1>5. Grown(h, u, g, p, {}, B + 1, kind)
  <2>1. a \in Addresses \ DOMAIN h /\ b \in Addresses \ DOMAIN h /\ a # b
    BY <1>4, NewFacts
  <2>2. B + 1 \in Int /\ B + 1 # -2 /\ u[B + 1] = 0 /\ u[-2] = 0
    BY <1>3, ReadyFacts
  <2>3. ReadyNamed(h, u, a, b, B + 1, kind)
    BY <1>2, <2>1, <2>2 DEF ReadyNamed
  <2> QED BY <2>3, Named
<1>6. DOMAIN c = {1, 2} /\ c[1] = Name /\ c[2] = Object(kind, << a >>) /\ Len(c) = 2
  OBVIOUS
<1>7. Created(rule, v, new) = c
  BY DEF Created, IsRule
<1> HIDE DEF c
<1>8. ActReady(rule, v, new, c)
  BY <1>7, NewFacts DEF ActReady, IsRule
<1>9. Acted(rule, v, new) = g /\ Result(rule, v, new) = b
  <2>1. /\ Acted(rule, v, new) =
             With(With(Without(FreedNames(rule, v)), new[1], c[1]), new[2], c[2])
        /\ Result(rule, v, new) = new[2]
    BY <1>6, <1>8, Acted2
  <2> QED BY <2>1, <1>1, <1>4, <1>6 DEF WithNamed
<1>10. \A k \in Int : p[k] = IF k = B + 1 THEN b ELSE u[k]
  <2>1. b \in Pointers /\ B + 1 \in Int
    BY NewFacts, ReadyFacts
  <2> QED BY <2>1, <1>4, Placed
<1> HIDE DEF p, g
<1>11. \A k \in Int : p[k] = IF k = B + 1 THEN b ELSE IF k > B THEN 0 ELSE o[k]
  BY <1>1, <1>3, <1>10, ReadyFacts
<1>12. Left(g, p, o, B, kind, b)
  BY <1>2, <1>5, <1>11, ReadyFacts DEF Left, Grown
<1>13. kind \in {kind}
  OBVIOUS
<1> QED BY <1>9, <1>12, <1>13, ReducedBy

\* An assignment: the name is copied, freed, and becomes a variable, which is assigned to.
LEMMA ActAsgn ==
  ASSUME NEW o, NEW B, NEW rule, NEW v, NEW new, ReduceReady(o, B, rule, v, new),
         NEW s \in {"intExpr", "readCall"}, IsRule(rule, <<"NAME", s>>, "asgn")
  PROVE  \E p : Reduced(Acted(rule, v, new), p, o, B, {"asgn"}, Result(rule, v, new))
<1> DEFINE a == new[1]
           b == new[2]
           d == new[3]
           h == Minus(heap, o[B + 1])
           u == Put0(o, 0, B + 1)
           f == WithNamed(h, a, b, "var")
           q == Put0(u, b, B + 1)
           g == With2(f, q, d, B + 1, B + 2, "asgn")
           p == Put2(q, d, B + 1, B + 2, B + 1)
           c == << Name, Object("var", << a >>), Object("asgn", << b, v[2] >>) >>
<1>1. /\ KindAt(heap, o, B + 1) = "name" /\ FreedNames(rule, v) = {o[B + 1]}
      /\ KindAt(heap, o, B + 2) \in Terms \cup {"call"}
      /\ v[2] = o[B + 2] /\ \A i \in Int : i > B + 2 => o[i] = 0
  <2>1. s # "NAME"
    OBVIOUS
  <2>2. /\ KindAt(heap, o, B + 1) \in SymbolKinds("NAME") /\ FreedNames(rule, v) = {o[B + 1]}
        /\ KindAt(heap, o, B + 2) \in SymbolKinds(s)
        /\ v = << o[B + 1], o[B + 2] >> /\ \A i \in Int : i > B + 2 => o[i] = 0
    BY <2>1, Symbols2 DEF IsRule
  <2> QED BY <2>2 DEF SymbolKinds
<1>2. Sound(h, u) /\ \A j \in Int \ {B + 1} : KindAt(h, u, j) = KindAt(heap, o, j)
  BY <1>1, ReadyFacts, NameFreed DEF Put0
<1>3. \A k \in Int : u[k] = IF k = B + 1 THEN 0 ELSE o[k]
  <2>1. o \in [Int -> Pointers] /\ B + 1 \in Int /\ 0 \in Pointers
    BY ReadyFacts, PointersAre
  <2> QED BY <2>1, Placed
<1>4. u \in [Int -> Pointers] /\ DOMAIN h \subseteq DOMAIN heap /\ Without({o[B + 1]}) = h
  BY <1>2, SoundTypes, WithoutSome DEF Minus
<1> HIDE DEF u, h
<1>5. Grown(h, u, f, q, {}, B + 1, "var")
  <2>1. a \in Addresses \ DOMAIN h /\ b \in Addresses \ DOMAIN h /\ a # b
    BY <1>4, NewFacts
  <2>2. B + 1 \in Int /\ B + 1 # -2 /\ u[B + 1] = 0 /\ u[-2] = 0
    BY <1>3, ReadyFacts
  <2>3. ReadyNamed(h, u, a, b, B + 1, "var")
    BY <1>2, <2>1, <2>2 DEF ReadyNamed
  <2> QED BY <2>3, Named
<1>6. \A k \in Int : q[k] = IF k = B + 1 THEN b ELSE u[k]
  <2>1. b \in Pointers /\ B + 1 \in Int
    BY NewFacts, ReadyFacts
  <2> QED BY <2>1, <1>4, Placed
<1>7. DOMAIN f = DOMAIN h \cup {a, b}
  BY DEF WithNamed, With
<1>8. With(With(h, a, Name), b, Object("var", << a >>)) = f
  BY DEF WithNamed
<1> HIDE DEF f, q
<1>9. q \in [Int -> Pointers] /\ q[B + 1] = b /\ q[B + 2] = v[2]
  BY <1>1, <1>3, <1>5, <1>6, SoundTypes, ReadyFacts DEF Grown
<1>10. Grown(f, q, g, p, {B + 1, B + 2}, B + 1, "asgn")
  <2>1. d \in Addresses \ DOMAIN f
    BY <1>4, <1>7, NewFacts
  <2>2. "asgn" \in ObjectKinds \ {"list"}
    BY DEF ObjectKinds, Stmts
  <2>3. PartKinds("asgn") = << {"var"}, Terms \cup {"call"} >>
    BY PartKindsAre
  <2>4. KindAt(f, q, B + 1) = "var" /\ KindAt(f, q, B + 2) \in Terms \cup {"call"}
    <3>1. B + 1 \in Int /\ B + 2 \in Int \ {B + 1}
      BY ReadyFacts
    <3>2. KindAt(f, q, B + 2) = KindAt(h, u, B + 2) /\ KindAt(h, u, B + 2) = KindAt(heap, o, B + 2)
      BY <3>1, <1>2, <1>5 DEF Grown
    <3> QED BY <3>2, <1>1, <1>5 DEF Grown
  <2>5. Ready2(f, q, d, B + 1, B + 2, B + 1, "asgn")
    BY <2>1, <2>2, <2>3, <2>4, <1>5, ReadyFacts DEF Ready2, Grown
  <2> QED BY <2>5, Fresh2
<1>11. /\ DOMAIN c = {1, 2, 3} /\ Len(c) = 3 /\ c[1] = Name /\ c[2] = Object("var", << a >>)
       /\ c[3] = Object("asgn", << b, v[2] >>)
  OBVIOUS
<1>12. Created(rule, v, new) = c
  BY DEF Created, IsRule
<1> HIDE DEF c
<1>13. ActReady(rule, v, new, c)
  BY <1>12, NewFacts DEF ActReady, IsRule
<1>14. Acted(rule, v, new) = g /\ Result(rule, v, new) = d
  <2>1. /\ Acted(rule, v, new) = With(With(With(Without(FreedNames(rule, v)), new[1], c[1]),
                                           new[2], c[2]), new[3], c[3])
        /\ Result(rule, v, new) = new[3]
    BY <1>11, <1>13, Acted3
  <2> QED BY <2>1, <1>1, <1>4, <1>8, <1>9, <1>11 DEF With2
<1>15. \A k \in Int : p[k] = IF k = B + 1 THEN d ELSE IF k \in {B + 1, B + 2} THEN 0 ELSE q[k]
  <2>1. d \in Pointers /\ B + 1 \in Int /\ B + 2 \in Int
    BY NewFacts, ReadyFacts
  <2> QED BY <2>1, <1>9, Placed2
<1> HIDE DEF p, g
<1>16. \A k \in Int : p[k] = IF k = B + 1 THEN d ELSE IF k > B THEN 0 ELSE o[k]
  BY <1>1, <1>3, <1>6, <1>15, ReadyFacts
<1>17. Left(g, p, o, B, "asgn", d)
  <2>1. \A i \in Int \ {B + 1, B + 2} : KindAt(g, p, i) = KindAt(heap, o, i)
    BY <1>2, <1>5, <1>10 DEF Grown
  <2>2. Sound(g, p) /\ KindAt(g, p, B + 1) = "asgn"
    BY <1>10 DEF Grown
  <2>3. B \in Nat
    BY ReadyFacts
  <2> QED BY <2>1, <2>2, <2>3, <1>16 DEF Left
<1>18. "asgn" \in {"asgn"}
  OBVIOUS
<1> QED BY <1>14, <1>17, <1>18, ReducedBy

\* The places used are different ones.
LEMMA PlaceNumbers ==
  ASSUME NEW o, NEW B, NEW rule, NEW v, NEW new, ReduceReady(o, B, rule, v, new)
  PROVE  /\ B \in Nat /\ B + 1 \in Int /\ B + 2 \in Int /\ B + 3 \in Int /\ -2 \in Int /\ -9 \in Int
         /\ B + 1 # B + 2 /\ B + 1 # B + 3 /\ B + 2 # B + 3
         /\ B + 1 # -2 /\ B + 2 # -2 /\ B + 3 # -2
         /\ B + 1 # -9 /\ B + 2 # -9 /\ B + 3 # -9
<1>1. B \in Nat
  BY DEF ReduceReady
<1> QED BY <1>1

\* A node whose parts are the symbols: of one, of two symbols.
LEMMA ActUnary ==
  ASSUME NEW o, NEW B, NEW rule, NEW v, NEW new, ReduceReady(o, B, rule, v, new),
         NEW s, NEW kind, IsRule(rule, << s >>, kind),
         << s, kind >> \in {<<"blockBody", "block">>, <<"posTerm", "uexpr">>, <<"intExpr", "ret">>}
  PROVE  \E p : Reduced(Acted(rule, v, new), p, o, B, {kind}, Result(rule, v, new))
<1> DEFINE a == new[1]
           g == With1(heap, o, a, B + 1, kind)
           p == Put1(o, a, B + 1, B + 1)
           c == << Object(kind, << o[B + 1] >>) >>
<1>1. /\ s \in {"blockBody", "posTerm", "intExpr"} /\ kind \in {"block", "uexpr", "ret"}
      /\ s = "blockBody" <=> kind = "block"
  OBVIOUS
<1>2. /\ KindAt(heap, o, B + 1) \in SymbolKinds(s) /\ FreedNames(rule, v) = {}
      /\ v = << o[B + 1] >> /\ \A i \in Int : i > B + 1 => o[i] = 0
  BY <1>1, Symbols1 DEF IsRule
<1>3. kind \in ObjectKinds \ {"list"} /\ Len(PartKinds(kind)) = 1
  <2>1. kind \in ObjectKinds \ {"list"}
    BY <1>1 DEF ObjectKinds, Exprs, Stmts
  <2>2. CASE kind = "block"
    BY <2>1, <2>2, PartKindsAre
  <2>3. CASE kind \in {"uexpr", "ret"}
    <3>1. PartKinds(kind) = << Terms >>
      BY <2>3, PartKindsAre
    <3> QED BY <2>1, <3>1
  <2> QED BY <2>2, <2>3, <1>1
<1>4. KindAt(heap, o, B + 1) \in PartKinds(kind)[1]
  <2>1. CASE kind = "block"
    <3>1. KindAt(heap, o, B + 1) \in {"list"}
      BY <2>1, <1>1, <1>2 DEF SymbolKinds
    <3> QED BY <2>1, <3>1, PartKindsAre
  <2>2. CASE kind \in {"uexpr", "ret"}
    <3>1. KindAt(heap, o, B + 1) \in Terms
      BY <2>2, <1>1, <1>2 DEF SymbolKinds
    <3>2. PartKinds(kind) = << Terms >>
      BY <2>2, PartKindsAre
    <3> QED BY <3>1, <3>2
  <2> QED BY <2>1, <2>2, <1>1
<1>5. Grown(heap, o, g, p, {B + 1}, B + 1, kind)
  <2>1. a \in Addresses \ DOMAIN heap /\ Sound(heap, o)
    BY NewFacts, ReadyFacts
  <2>2. Ready1(heap, o, a, B + 1, B + 1, kind)
    BY <2>1, <1>3, <1>4, PlaceNumbers DEF Ready1
  <2> QED BY <2>2, Fresh1
<1>6. DOMAIN c = {1} /\ c[1] = Object(kind, << o[B + 1] >>) /\ Len(c) = 1
  OBVIOUS
<1>7. Created(rule, v, new) = c
  BY <1>1, <1>2 DEF Created, IsRule
<1> HIDE DEF c
<1>8. ActReady(rule, v, new, c)
  BY <1>1, <1>7, NewFacts DEF ActReady, IsRule
<1>9. Acted(rule, v, new) = g /\ Result(rule, v, new) = a
  <2>1. Without(FreedNames(rule, v)) = heap
    BY <1>2, WithoutNone, ReadyFacts
  <2>2. /\ Acted(rule, v, new) = With(Without(FreedNames(rule, v)), new[1], c[1])
        /\ Result(rule, v, new) = new[1]
    BY <1>6, <1>8, Acted1
  <2> QED BY <2>1, <2>2, <1>6 DEF With1
<1>10. \A k \in Int : p[k] = IF k = B + 1 THEN a ELSE o[k]
  <2>1. a \in Pointers /\ B + 1 \in Int /\ o \in [Int -> Pointers]
    BY NewFacts, ReadyFacts
  <2> QED BY <2>1, PointersAre DEF Put1, Put
<1> HIDE DEF p, g
<1>11. Left(g, p, o, B, kind, a)
  <2>1. B \in Nat
    BY ReadyFacts
  <2> QED BY <2>1, <1>2, <1>5, <1>10 DEF Left, Grown
<1>12. kind \in {kind}
  OBVIOUS
<1> QED BY <1>9, <1>11, <1>12, ReducedBy

\* Two parts.
LEMMA ActBinary ==
  ASSUME NEW o, NEW B, NEW rule, NEW v, NEW new, ReduceReady(o, B, rule, v, new),
         NEW s, NEW t, NEW kind, IsRule(rule, << s, t >>, kind),
         << s, t, kind >> \in {<<"intExpr", "intExpr", "rexpr">>, <<"term", "term", "bexpr">>,
                              <<"relExpr", "stmt", "while">>}
  PROVE  \E p : Reduced(Acted(rule, v, new), p, o, B, {kind}, Result(rule, v, new))
<1> DEFINE a == new[1]
           g == With2(heap, o, a, B + 1, B + 2, kind)
           p == Put2(o, a, B + 1, B + 2, B + 1)
           c == << Object(kind, << o[B + 1], o[B + 2] >>) >>
<1>1. /\ s \in {"intExpr", "term", "relExpr"} /\ t \in {"intExpr", "term", "stmt"}
      /\ kind \in {"bexpr", "rexpr", "while"}
      /\ s = "relExpr" <=> kind = "while"
      /\ t = "stmt" <=> kind = "while"
  OBVIOUS
<1>2. /\ KindAt(heap, o, B + 1) \in SymbolKinds(s) /\ KindAt(heap, o, B + 2) \in SymbolKinds(t)
      /\ FreedNames(rule, v) = {}
      /\ v = << o[B + 1], o[B + 2] >> /\ \A i \in Int : i > B + 2 => o[i] = 0
  <2>1. s # "NAME" /\ t # "NAME"
    BY <1>1
  <2> QED BY <2>1, Symbols2 DEF IsRule
<1>3. kind \in ObjectKinds \ {"list"} /\ Len(PartKinds(kind)) = 2
  <2>1. kind \in ObjectKinds \ {"list"}
    BY <1>1 DEF ObjectKinds, Exprs, Stmts
  <2>2. CASE kind = "while"
    BY <2>1, <2>2, PartKindsAre
  <2>3. CASE kind \in {"bexpr", "rexpr"}
    <3>1. PartKinds(kind) = << Terms, Terms >>
      BY <2>3, PartKindsAre
    <3> QED BY <2>1, <3>1
  <2> QED BY <2>2, <2>3, <1>1
<1>4. KindAt(heap, o, B + 1) \in PartKinds(kind)[1] /\ KindAt(heap, o, B + 2) \in PartKinds(kind)[2]
  <2>1. CASE kind = "while"
    <3>1. KindAt(heap, o, B + 1) \in {"rexpr"} /\ KindAt(heap, o, B + 2) \in Branches
      BY <2>1, <1>1, <1>2 DEF SymbolKinds
    <3> QED BY <2>1, <3>1, PartKindsAre
  <2>2. CASE kind \in {"bexpr", "rexpr"}
    <3>1. KindAt(heap, o, B + 1) \in Terms /\ KindAt(heap, o, B + 2) \in Terms
      BY <2>2, <1>1, <1>2 DEF SymbolKinds
    <3>2. PartKinds(kind) = << Terms, Terms >>
      BY <2>2, PartKindsAre
    <3> QED BY <3>1, <3>2
  <2> QED BY <2>1, <2>2, <1>1
<1>5. Grown(heap, o, g, p, {B + 1, B + 2}, B + 1, kind)
  <2>1. a \in Addresses \ DOMAIN heap /\ Sound(heap, o)
    BY NewFacts, ReadyFacts
  <2>2. Ready2(heap, o, a, B + 1, B + 2, B + 1, kind)
    BY <2>1, <1>3, <1>4, PlaceNumbers DEF Ready2
  <2> QED BY <2>2, Fresh2
<1>6. DOMAIN c = {1} /\ c[1] = Object(kind, << o[B + 1], o[B + 2] >>) /\ Len(c) = 1
  OBVIOUS
<1>7. Created(rule, v, new) = c
  BY <1>1, <1>2 DEF Created, IsRule
<1> HIDE DEF c
<1>8. ActReady(rule, v, new, c)
  BY <1>1, <1>7, NewFacts DEF ActReady, IsRule
<1>9. Acted(rule, v, new) = g /\ Result(rule, v, new) = a
  <2>1. Without(FreedNames(rule, v)) = heap
    BY <1>2, WithoutNone, ReadyFacts
  <2>2. /\ Acted(rule, v, new) = With(Without(FreedNames(rule, v)), new[1], c[1])
        /\ Result(rule, v, new) = new[1]
    BY <1>6, <1>8, Acted1
  <2> QED BY <2>1, <2>2, <1>6 DEF With2
<1>10. \A k \in Int : p[k] = IF k = B + 1 THEN a ELSE IF k \in {B + 1, B + 2} THEN 0 ELSE o[k]
  <2>1. a \in Pointers /\ B + 1 \in Int /\ B + 2 \in Int /\ o \in [Int -> Pointers]
    BY NewFacts, ReadyFacts
  <2> QED BY <2>1, Placed2
<1> HIDE DEF p, g
<1>11. Left(g, p, o, B, kind, a)
  <2>1. B \in Nat
    BY ReadyFacts
  <2> QED BY <2>1, <1>2, <1>5, <1>10 DEF Left, Grown
<1>12. kind \in {kind}
  OBVIOUS
<1> QED BY <1>9, <1>11, <1>12, ReducedBy

\* An if without and with an else; the program.
LEMMA ActTernary ==
  ASSUME NEW o, NEW B, NEW rule, NEW v, NEW new, ReduceReady(o, B, rule, v, new),
         NEW s, NEW t, NEW last, NEW kind, IsRule(rule, << s, t, last >>, kind),
         << s, t, last, kind >> \in {<<"relExpr", "stmt", "stmt", "if">>,
                                    <<"printDec", "readDec", "funcDec", "prog">>}
  PROVE  \E p : Reduced(Acted(rule, v, new), p, o, B, {kind}, Result(rule, v, new))
<1> DEFINE a == new[1]
           g == With3(heap, o, a, B + 1, B + 2, B + 3, kind)
           p == Put3(o, a, B + 1, B + 2, B + 3, B + 1)
           c == << Object(kind, << o[B + 1], o[B + 2], o[B + 3] >>) >>
<1>1. \/ s = "relExpr" /\ t = "stmt" /\ last = "stmt" /\ kind = "if"
      \/ s = "printDec" /\ t = "readDec" /\ last = "funcDec" /\ kind = "prog"
  OBVIOUS
<1>2. /\ KindAt(heap, o, B + 1) \in SymbolKinds(s) /\ KindAt(heap, o, B + 2) \in SymbolKinds(t)
      /\ KindAt(heap, o, B + 3) \in SymbolKinds(last) /\ FreedNames(rule, v) = {}
      /\ v = << o[B + 1], o[B + 2], o[B + 3] >> /\ \A i \in Int : i > B + 3 => o[i] = 0
  <2>1. s # "NAME" /\ t # "NAME" /\ last # "NAME"
    BY <1>1
  <2> QED BY <2>1, Symbols3 DEF IsRule
<1>3. kind \in ObjectKinds \ {"list"} /\ Len(PartKinds(kind)) = 3
  <2>1. kind \in ObjectKinds \ {"list"}
    BY <1>1 DEF ObjectKinds, Exprs, Stmts
  <2>2. CASE kind = "if"
    BY <2>1, <2>2, PartKindsAre
  <2>3. CASE kind = "prog"
    BY <2>1, <2>3, PartKindsAre
  <2> QED BY <2>2, <2>3, <1>1
<1>4. /\ KindAt(heap, o, B + 1) \in PartKinds(kind)[1]
      /\ KindAt(heap, o, B + 2) \in PartKinds(kind)[2]
      /\ KindAt(heap, o, B + 3) \in PartKinds(kind)[3]
  <2>1. CASE kind = "if"
    <3>1. /\ KindAt(heap, o, B + 1) \in {"rexpr"} /\ KindAt(heap, o, B + 2) \in Branches
          /\ KindAt(heap, o, B + 3) \in Branches
      BY <2>1, <1>1, <1>2 DEF SymbolKinds
    <3>2. PartKinds(kind) = <<{"rexpr"}, Branches, Branches \cup {"NULL"}>>
      BY <2>1, PartKindsAre
    <3> QED BY <3>1, <3>2
  <2>2. CASE kind = "prog"
    <3>1. /\ KindAt(heap, o, B + 1) \in {"extern"} /\ KindAt(heap, o, B + 2) \in {"extern"}
          /\ KindAt(heap, o, B + 3) \in {"func"}
      BY <2>2, <1>1, <1>2 DEF SymbolKinds
    <3>2. PartKinds(kind) = <<{"extern"}, {"extern"}, {"func"}>>
      BY <2>2, PartKindsAre
    <3> QED BY <3>1, <3>2
  <2> QED BY <2>1, <2>2, <1>1
<1>5. Grown(heap, o, g, p, {B + 1, B + 2, B + 3}, B + 1, kind)
  <2>1. a \in Addresses \ DOMAIN heap /\ Sound(heap, o)
    BY NewFacts, ReadyFacts
  <2>2. Ready3(heap, o, a, B + 1, B + 2, B + 3, B + 1, kind)
    BY <2>1, <1>3, <1>4, PlaceNumbers DEF Ready3
  <2> QED BY <2>2, Fresh3
<1>6. DOMAIN c = {1} /\ c[1] = Object(kind, << o[B + 1], o[B + 2], o[B + 3] >>) /\ Len(c) = 1
  OBVIOUS
<1>7. Created(rule, v, new) = c
  <2>1. Len(v) = 3
    BY <1>2
  <2>2. CASE kind = "if"
    BY <2>1, <2>2, <1>2 DEF Created, IsRule, IfParts
  <2>3. CASE kind = "prog"
    BY <2>1, <2>3, <1>2 DEF Created, IsRule
  <2> QED BY <2>2, <2>3, <1>1
<1> HIDE DEF c
<1>8. ActReady(rule, v, new, c)
  BY <1>1, <1>7, NewFacts DEF ActReady, IsRule
<1>9. Acted(rule, v, new) = g /\ Result(rule, v, new) = a
  <2>1. Without(FreedNames(rule, v)) = heap
    BY <1>2, WithoutNone, ReadyFacts
  <2>2. /\ Acted(rule, v, new) = With(Without(FreedNames(rule, v)), new[1], c[1])
        /\ Result(rule, v, new) = new[1]
    BY <1>6, <1>8, Acted1
  <2> QED BY <2>1, <2>2, <1>6 DEF With3
<1>10. \A k \in Int : p[k] = IF k = B + 1 THEN a
                            ELSE IF k \in {B + 1, B + 2, B + 3} THEN 0 ELSE o[k]
  <2>1. a \in Pointers /\ B + 1 \in Int /\ B + 2 \in Int /\ B + 3 \in Int /\ o \in [Int -> Pointers]
    BY NewFacts, ReadyFacts
  <2> QED BY <2>1, Placed3
<1> HIDE DEF p, g
<1>11. Left(g, p, o, B, kind, a)
  <2>1. B \in Nat
    BY ReadyFacts
  <2> QED BY <2>1, <1>2, <1>5, <1>10 DEF Left, Grown
<1>12. kind \in {kind}
  OBVIOUS
<1> QED BY <1>9, <1>11, <1>12, ReducedBy

\* Two values and a third.
LEMMA ThirdAfterTwo ==
  ASSUME NEW x \in Pointers, NEW y \in Pointers, NEW z \in Pointers
  PROVE  Len(<< x, y >>) = 2 /\ Append(<< x, y >>, z) = << x, y, z >>
<1> DEFINE s == << x, y >>
           t == << x, y, z >>
<1>1. s \in Seq(Pointers) /\ Len(s) = 2 /\ s[1] = x /\ s[2] = y
  OBVIOUS
<1>2. t = [k \in 1 .. 3 |-> t[k]] /\ t[1] = x /\ t[2] = y /\ t[3] = z
  OBVIOUS
<1> HIDE DEF s, t
<1>3. /\ Append(s, z) \in Seq(Pointers) /\ DOMAIN Append(s, z) = 1 .. 3 /\ DOMAIN s = 1 .. 2
      /\ \A k \in DOMAIN s : Append(s, z)[k] = s[k]
      /\ Append(s, z)[3] = z
  BY <1>1, SeqAppend
<1>4. Append(s, z) = [k \in 1 .. 3 |-> Append(s, z)[k]]
  <2>1. \A w \in Seq(Pointers) : w = [k \in DOMAIN w |-> w[k]]
    OBVIOUS
  <2> QED BY <2>1, <1>3
<1>5. \A k \in 1 .. 3 : Append(s, z)[k] = t[k]
  BY <1>1, <1>2, <1>3
<1>6. Append(s, z) = t
  BY <1>2, <1>4, <1>5
<1> QED BY <1>1, <1>6 DEF s, t

\* An if without else: its third part is NULL.
LEMMA ActIf ==
  ASSUME NEW o, NEW B, NEW rule, NEW v, NEW new, ReduceReady(o, B, rule, v, new),
         IsRule(rule, <<"relExpr", "stmt">>, "if")
  PROVE  \E p : Reduced(Acted(rule, v, new), p, o, B, {"if"}, Result(rule, v, new))
<1> DEFINE a == new[1]
           g == With3(heap, o, a, B + 1, B + 2, -9, "if")
           p == Put3(o, a, B + 1, B + 2, -9, B + 1)
           c == << Object("if", << o[B + 1], o[B + 2], 0 >>) >>
<1>1. /\ KindAt(heap, o, B + 1) \in {"rexpr"} /\ KindAt(heap, o, B + 2) \in Branches
      /\ FreedNames(rule, v) = {}
      /\ v = << o[B + 1], o[B + 2] >> /\ \A i \in Int : i > B + 2 => o[i] = 0
  <2>1. /\ KindAt(heap, o, B + 1) \in SymbolKinds("relExpr")
        /\ KindAt(heap, o, B + 2) \in SymbolKinds("stmt") /\ FreedNames(rule, v) = {}
        /\ v = << o[B + 1], o[B + 2] >> /\ \A i \in Int : i > B + 2 => o[i] = 0
    BY Symbols2 DEF IsRule
  <2> QED BY <2>1 DEF SymbolKinds
<1>2. o[-9] = 0 /\ KindAt(heap, o, -9) = "NULL"
  BY ReadyFacts, SoundTypes
<1>3. Grown(heap, o, g, p, {B + 1, B + 2, -9}, B + 1, "if")
  <2>1. a \in Addresses \ DOMAIN heap /\ Sound(heap, o)
    BY NewFacts, ReadyFacts
  <2>2. "if" \in ObjectKinds \ {"list"}
    BY DEF ObjectKinds, Stmts
  <2>3. PartKinds("if") = <<{"rexpr"}, Branches, Branches \cup {"NULL"}>>
    BY PartKindsAre
  <2>4. Ready3(heap, o, a, B + 1, B + 2, -9, B + 1, "if")
    BY <2>1, <2>2, <2>3, <1>1, <1>2, PlaceNumbers DEF Ready3
  <2> QED BY <2>4, Fresh3
<1>4. DOMAIN c = {1} /\ c[1] = Object("if", << o[B + 1], o[B + 2], 0 >>) /\ Len(c) = 1
  OBVIOUS
<1>5. Created(rule, v, new) = c
  <2>1. Len(v) = 2 /\ Append(v, 0) = << o[B + 1], o[B + 2], 0 >>
    <3>1. o[B + 1] \in Pointers /\ o[B + 2] \in Pointers /\ 0 \in Pointers
      BY ReadyFacts, PointersAre
    <3> QED BY <3>1, <1>1, ThirdAfterTwo
  <2> QED BY <2>1 DEF Created, IsRule, IfParts
<1> HIDE DEF c
<1>6. ActReady(rule, v, new, c)
  BY <1>5, NewFacts DEF ActReady, IsRule
<1>7. Acted(rule, v, new) = g /\ Result(rule, v, new) = a
  <2>1. Without(FreedNames(rule, v)) = heap
    BY <1>1, WithoutNone, ReadyFacts
  <2>2. /\ Acted(rule, v, new) = With(Without(FreedNames(rule, v)), new[1], c[1])
        /\ Result(rule, v, new) = new[1]
    BY <1>4, <1>6, Acted1
  <2> QED BY <2>1, <2>2, <1>2, <1>4 DEF With3
<1>8. \A k \in Int : p[k] = IF k = B + 1 THEN a ELSE IF k \in {B + 1, B + 2, -9} THEN 0 ELSE o[k]
  <2>1. a \in Pointers /\ B + 1 \in Int /\ B + 2 \in Int /\ -9 \in Int /\ o \in [Int -> Pointers]
    BY NewFacts, ReadyFacts
  <2> QED BY <2>1, Placed3
<1> HIDE DEF p, g
<1>9. Left(g, p, o, B, "if", a)
  <2>1. B \in Nat /\ o[-9] = 0
    BY ReadyFacts
  <2>2. Sound(g, p) /\ KindAt(g, p, B + 1) = "if"
    BY <1>3 DEF Grown
  <2>3. \A i \in Int \ {B + 1, B + 2, -9} : KindAt(g, p, i) = KindAt(heap, o, i)
    BY <1>3 DEF Grown
  <2>4. KindAt(g, p, -9) = "NULL" /\ p[-9] = 0
    <3>1. -9 # B + 1 /\ -9 \in Int
      BY PlaceNumbers
    <3>2. p[-9] = 0
      BY <3>1, <1>8
    <3> QED BY <3>1, <3>2, <2>2, SoundTypes
  <2>5. \A i \in Int : i <= B => KindAt(g, p, i) = KindAt(heap, o, i)
    BY <2>1, <2>3, <2>4, <1>2
  <2> QED BY <2>1, <2>2, <2>5, <1>1, <1>8 DEF Left
<1>10. "if" \in {"if"}
  OBVIOUS
<1> QED BY <1>7, <1>9, <1>10, ReducedBy

\* What is printed, and what is read.
LEMMA ActPrint ==
  ASSUME NEW o, NEW B, NEW rule, NEW v, NEW new, ReduceReady(o, B, rule, v, new),
         IsRule(rule, <<"intExpr">>, "call")
  PROVE  \E p : Reduced(Acted(rule, v, new), p, o, B, {"call"}, Result(rule, v, new))
<1> DEFINE a == new[1]
           b == new[2]
           f == With0(heap, a, "name")
           q == Put0(o, a, -2)
           g == With2(f, q, b, -2, B + 1, "call")
           p == Put2(q, b, -2, B + 1, B + 1)
           c == << Name, Object("call", << a, o[B + 1] >>) >>
<1>1. /\ KindAt(heap, o, B + 1) \in Terms /\ FreedNames(rule, v) = {}
      /\ v = << o[B + 1] >> /\ \A i \in Int : i > B + 1 => o[i] = 0
  <2>1. /\ KindAt(heap, o, B + 1) \in SymbolKinds("intExpr") /\ FreedNames(rule, v) = {}
        /\ v = << o[B + 1] >> /\ \A i \in Int : i > B + 1 => o[i] = 0
    BY Symbols1 DEF IsRule
  <2> QED BY <2>1 DEF SymbolKinds
<1>2. Grown(heap, o, f, q, {}, -2, "name")
  <2>1. Ready0(heap, o, a, -2, "name")
    BY NewFacts, ReadyFacts DEF Ready0
  <2> QED BY <2>1, Fresh0
<1>3. \A k \in Int : q[k] = IF k = -2 THEN a ELSE o[k]
  <2>1. a \in Pointers /\ -2 \in Int /\ o \in [Int -> Pointers]
    BY NewFacts, ReadyFacts
  <2> QED BY <2>1, Placed
<1>4. DOMAIN f = DOMAIN heap \cup {a} /\ With(heap, a, Name) = f
  BY DEF With0, With, Name
<1> HIDE DEF f, q
<1>5. q \in [Int -> Pointers] /\ q[-2] = a /\ q[B + 1] = o[B + 1]
  BY <1>2, <1>3, SoundTypes, PlaceNumbers DEF Grown
<1>6. Grown(f, q, g, p, {-2, B + 1}, B + 1, "call")
  <2>1. b \in Addresses \ DOMAIN f
    BY <1>4, NewFacts
  <2>2. "call" \in ObjectKinds \ {"list"}
    BY DEF ObjectKinds, Stmts
  <2>3. PartKinds("call") = << {"name"}, Terms \cup {"NULL"} >>
    BY PartKindsAre
  <2>4. B + 1 \in Int /\ B + 1 # -2
    BY PlaceNumbers
  <2>5. KindAt(f, q, -2) = "name" /\ KindAt(f, q, B + 1) \in Terms \cup {"NULL"} /\ Sound(f, q)
    BY <2>4, <1>1, <1>2 DEF Grown
  <2>6. Ready2(f, q, b, -2, B + 1, B + 1, "call")
    BY <2>1, <2>2, <2>3, <2>4, <2>5 DEF Ready2
  <2> QED BY <2>6, Fresh2
<1>7. DOMAIN c = {1, 2} /\ c[1] = Name /\ c[2] = Object("call", << a, o[B + 1] >>) /\ Len(c) = 2
  OBVIOUS
<1>8. Created(rule, v, new) = c
  <2>1. Len(v) = 1 /\ v[1] = o[B + 1]
    BY <1>1
  <2> QED BY <2>1 DEF Created, IsRule
<1> HIDE DEF c
<1>9. ActReady(rule, v, new, c)
  BY <1>8, NewFacts DEF ActReady, IsRule
<1>10. Acted(rule, v, new) = g /\ Result(rule, v, new) = b
  <2>1. Without(FreedNames(rule, v)) = heap
    BY <1>1, WithoutNone, ReadyFacts
  <2>2. /\ Acted(rule, v, new) =
             With(With(Without(FreedNames(rule, v)), new[1], c[1]), new[2], c[2])
        /\ Result(rule, v, new) = new[2]
    BY <1>7, <1>9, Acted2
  <2> QED BY <2>1, <2>2, <1>4, <1>5, <1>7 DEF With2
<1>11. \A k \in Int : p[k] = IF k = B + 1 THEN b ELSE IF k \in {-2, B + 1} THEN 0 ELSE q[k]
  <2>1. b \in Pointers /\ B + 1 \in Int /\ -2 \in Int
    BY NewFacts, ReadyFacts
  <2> QED BY <2>1, <1>5, Placed2
<1> HIDE DEF p, g
<1>12. Left(g, p, o, B, "call", b)
  <2>1. B \in Nat /\ o[-2] = 0 /\ KindAt(heap, o, -2) = "NULL"
    BY ReadyFacts, SoundTypes
  <2>2. Sound(g, p) /\ KindAt(g, p, B + 1) = "call"
    BY <1>6 DEF Grown
  <2>3. \A i \in Int \ {-2, B + 1} : KindAt(g, p, i) = KindAt(heap, o, i)
    BY <1>2, <1>6 DEF Grown
  <2>4. KindAt(g, p, -2) = "NULL" /\ p[-2] = 0
    <3>1. -2 # B + 1 /\ -2 \in Int
      BY PlaceNumbers
    <3>2. p[-2] = 0
      BY <3>1, <1>11
    <3> QED BY <3>1, <3>2, <2>2, SoundTypes
  <2>5. \A i \in Int : i <= B => KindAt(g, p, i) = KindAt(heap, o, i)
    BY <2>1, <2>3, <2>4
  <2>6. \A i \in Int : p[i] = IF i = B + 1 THEN b ELSE IF i > B THEN 0 ELSE o[i]
    BY <2>1, <1>1, <1>3, <1>11
  <2> QED BY <2>2, <2>5, <2>6 DEF Left
<1>13. "call" \in {"call"}
  OBVIOUS
<1> QED BY <1>10, <1>12, <1>13, ReducedBy

\* A call of read has no argument.
LEMMA ActRead ==
  ASSUME NEW o, NEW B, NEW rule, NEW v, NEW new, ReduceReady(o, B, rule, v, new),
         IsRule(rule, <<>>, "call")
  PROVE  \E p : Reduced(Acted(rule, v, new), p, o, B, {"call"}, Result(rule, v, new))
<1> DEFINE a == new[1]
           b == new[2]
           f == With0(heap, a, "name")
           q == Put0(o, a, B + 1)
           g == With2(f, q, b, B + 1, -9, "call")
           p == Put2(q, b, B + 1, -9, B + 1)
           c == << Name, Object("call", << a, 0 >>) >>
<1>1. v = << >> /\ FreedNames(rule, v) = {} /\ \A i \in Int : i > B => o[i] = 0
  <2>1. Len(rule.rhs) = 0
    BY DEF IsRule
  <2>2. v = << >>
    BY <2>1, ArgsAre
  <2>3. FreedNames(rule, v) = {}
    BY <2>2 DEF FreedNames
  <2>4. \A i \in Int : i > B + 0 => o[i] = 0
    BY <2>1, NothingAbove, Zenon
  <2> QED BY <2>2, <2>3, <2>4, PlaceNumbers
<1>2. Grown(heap, o, f, q, {}, B + 1, "name")
  <2>1. Ready0(heap, o, a, B + 1, "name")
    BY <1>1, NewFacts, ReadyFacts DEF Ready0
  <2> QED BY <2>1, Fresh0
<1>3. \A k \in Int : q[k] = IF k = B + 1 THEN a ELSE o[k]
  <2>1. a \in Pointers /\ B + 1 \in Int /\ o \in [Int -> Pointers]
    BY NewFacts, ReadyFacts
  <2> QED BY <2>1, Placed
<1>4. DOMAIN f = DOMAIN heap \cup {a} /\ With(heap, a, Name) = f
  BY DEF With0, With, Name
<1> HIDE DEF f, q
<1>5. q \in [Int -> Pointers] /\ q[B + 1] = a /\ q[-9] = 0
  BY <1>2, <1>3, SoundTypes, PlaceNumbers, ReadyFacts DEF Grown
<1>6. Grown(f, q, g, p, {B + 1, -9}, B + 1, "call")
  <2>1. b \in Addresses \ DOMAIN f
    BY <1>4, NewFacts
  <2>2. "call" \in ObjectKinds \ {"list"}
    BY DEF ObjectKinds, Stmts
  <2>3. PartKinds("call") = << {"name"}, Terms \cup {"NULL"} >>
    BY PartKindsAre
  <2>4. B + 1 \in Int /\ B + 1 # -9 /\ -9 \in Int
    BY PlaceNumbers
  <2>5. KindAt(f, q, B + 1) = "name" /\ Sound(f, q)
    BY <1>2 DEF Grown
  <2>6. KindAt(f, q, -9) = "NULL"
    BY <2>4, <2>5, <1>5, SoundTypes
  <2>7. Ready2(f, q, b, B + 1, -9, B + 1, "call")
    BY <2>1, <2>2, <2>3, <2>4, <2>5, <2>6 DEF Ready2
  <2> QED BY <2>7, Fresh2
<1>7. DOMAIN c = {1, 2} /\ c[1] = Name /\ c[2] = Object("call", << a, 0 >>) /\ Len(c) = 2
  OBVIOUS
<1>8. Created(rule, v, new) = c
  <2>1. Len(v) = 0
    BY <1>1
  <2> QED BY <2>1 DEF Created, IsRule
<1> HIDE DEF c
<1>9. ActReady(rule, v, new, c)
  BY <1>8, NewFacts DEF ActReady, IsRule
<1>10. Acted(rule, v, new) = g /\ Result(rule, v, new) = b
  <2>1. Without(FreedNames(rule, v)) = heap
    BY <1>1, WithoutNone, ReadyFacts
  <2>2. /\ Acted(rule, v, new) =
             With(With(Without(FreedNames(rule, v)), new[1], c[1]), new[2], c[2])
        /\ Result(rule, v, new) = new[2]
    BY <1>7, <1>9, Acted2
  <2> QED BY <2>1, <2>2, <1>4, <1>5, <1>7 DEF With2
<1>11. \A k \in Int : p[k] = IF k = B + 1 THEN b ELSE IF k \in {B + 1, -9} THEN 0 ELSE q[k]
  <2>1. b \in Pointers /\ B + 1 \in Int /\ -9 \in Int
    BY NewFacts, ReadyFacts
  <2> QED BY <2>1, <1>5, Placed2
<1> HIDE DEF p, g
<1>12. Left(g, p, o, B, "call", b)
  <2>1. B \in Nat /\ o[-9] = 0 /\ KindAt(heap, o, -9) = "NULL"
    BY ReadyFacts, SoundTypes
  <2>2. Sound(g, p) /\ KindAt(g, p, B + 1) = "call"
    BY <1>6 DEF Grown
  <2>3. \A i \in Int \ {B + 1, -9} : KindAt(g, p, i) = KindAt(heap, o, i)
    BY <1>2, <1>6 DEF Grown
  <2>4. KindAt(g, p, -9) = "NULL" /\ p[-9] = 0
    <3>1. -9 # B + 1 /\ -9 \in Int
      BY PlaceNumbers
    <3>2. p[-9] = 0
      BY <3>1, <1>11
    <3> QED BY <3>1, <3>2, <2>2, SoundTypes
  <2>5. \A i \in Int : i <= B => KindAt(g, p, i) = KindAt(heap, o, i)
    BY <2>1, <2>3, <2>4
  <2>6. \A i \in Int : p[i] = IF i = B + 1 THEN b ELSE IF i > B THEN 0 ELSE o[i]
    BY <2>1, <1>1, <1>3, <1>11
  <2> QED BY <2>2, <2>5, <2>6 DEF Left
<1>13. "call" \in {"call"}
  OBVIOUS
<1> QED BY <1>10, <1>12, <1>13, ReducedBy

\* The main function, without and with a parameter.
LEMMA ActFunc ==
  ASSUME NEW o, NEW B, NEW rule, NEW v, NEW new, ReduceReady(o, B, rule, v, new),
         IsRule(rule, <<"NAME", "block">>, "func")
  PROVE  \E p : Reduced(Acted(rule, v, new), p, o, B, {"func"}, Result(rule, v, new))
<1> DEFINE a == new[1]
           b == new[2]
           h == Minus(heap, o[B + 1])
           u == Put0(o, 0, B + 1)
           f == With0(h, a, "name")
           q == Put0(u, a, B + 1)
           g == With3(f, q, b, B + 1, -9, B + 2, "func")
           p == Put3(q, b, B + 1, -9, B + 2, B + 1)
           c == << Name, Object("func", << a, 0, v[2] >>) >>
<1>1. /\ KindAt(heap, o, B + 1) = "name" /\ FreedNames(rule, v) = {o[B + 1]}
      /\ KindAt(heap, o, B + 2) = "block" /\ Len(v) = 2
      /\ v[2] = o[B + 2] /\ \A i \in Int : i > B + 2 => o[i] = 0
  <2>1. /\ KindAt(heap, o, B + 1) \in SymbolKinds("NAME") /\ FreedNames(rule, v) = {o[B + 1]}
        /\ KindAt(heap, o, B + 2) \in SymbolKinds("block")
        /\ v = << o[B + 1], o[B + 2] >> /\ \A i \in Int : i > B + 2 => o[i] = 0
    BY Symbols2 DEF IsRule
  <2> QED BY <2>1 DEF SymbolKinds
<1>2. Sound(h, u) /\ \A j \in Int \ {B + 1} : KindAt(h, u, j) = KindAt(heap, o, j)
  BY <1>1, ReadyFacts, NameFreed DEF Put0
<1>3. \A k \in Int : u[k] = IF k = B + 1 THEN 0 ELSE o[k]
  <2>1. o \in [Int -> Pointers] /\ B + 1 \in Int /\ 0 \in Pointers
    BY ReadyFacts, PointersAre
  <2> QED BY <2>1, Placed
<1>4. u \in [Int -> Pointers] /\ DOMAIN h \subseteq DOMAIN heap /\ Without({o[B + 1]}) = h
  BY <1>2, SoundTypes, WithoutSome DEF Minus
<1> HIDE DEF u, h
<1>5. Grown(h, u, f, q, {}, B + 1, "name")
  <2>1. a \in Addresses \ DOMAIN h
    BY <1>4, NewFacts
  <2>2. B + 1 \in Int /\ u[B + 1] = 0
    BY <1>3, ReadyFacts
  <2>3. Ready0(h, u, a, B + 1, "name")
    BY <1>2, <2>1, <2>2 DEF Ready0
  <2> QED BY <2>3, Fresh0
<1>6. \A k \in Int : q[k] = IF k = B + 1 THEN a ELSE u[k]
  <2>1. a \in Pointers /\ B + 1 \in Int
    BY NewFacts, ReadyFacts
  <2> QED BY <2>1, <1>4, Placed
<1>7. DOMAIN f = DOMAIN h \cup {a} /\ With(h, a, Name) = f
  BY DEF With0, With, Name
<1> HIDE DEF f, q
<1>8. \A k \in Int : q[k] = IF k = B + 1 THEN a ELSE o[k]
  BY <1>3, <1>6
<1>9. q \in [Int -> Pointers] /\ q[B + 1] = a /\ q[B + 2] = v[2] /\ q[-9] = 0
  <2>1. q \in [Int -> Pointers]
    BY <1>5, SoundTypes DEF Grown
  <2>2. o[-9] = 0
    BY ReadyFacts
  <2> QED BY <2>1, <2>2, <1>1, <1>8, PlaceNumbers
<1>10. KindAt(f, q, B + 1) = "name" /\ KindAt(f, q, -9) = "NULL" /\ KindAt(f, q, B + 2) = "block"
  <2>1. B + 1 \in Int /\ B + 2 \in Int \ {B + 1} /\ -9 \in Int
    BY PlaceNumbers
  <2>2. KindAt(f, q, B + 2) = KindAt(h, u, B + 2) /\ KindAt(h, u, B + 2) = KindAt(heap, o, B + 2)
    BY <2>1, <1>2, <1>5 DEF Grown
  <2>3. Sound(f, q) /\ KindAt(f, q, B + 1) = "name"
    BY <1>5 DEF Grown
  <2>4. KindAt(f, q, -9) = "NULL"
    BY <2>1, <2>3, <1>9, SoundTypes
  <2> QED BY <2>2, <2>3, <2>4, <1>1
<1>11. Grown(f, q, g, p, {B + 1, -9, B + 2}, B + 1, "func")
  <2>1. b \in Addresses \ DOMAIN f
    BY <1>4, <1>7, NewFacts
  <2>2. "func" \in ObjectKinds \ {"list"}
    BY DEF ObjectKinds, Stmts
  <2>3. PartKinds("func") = <<{"name"}, {"NULL", "var"}, {"block"}>>
    BY PartKindsAre
  <2>4. /\ Len(PartKinds("func")) = 3 /\ KindAt(f, q, B + 1) \in PartKinds("func")[1]
        /\ KindAt(f, q, -9) \in PartKinds("func")[2] /\ KindAt(f, q, B + 2) \in PartKinds("func")[3]
    BY <2>3, <1>10
  <2>5. Sound(f, q)
    BY <1>5 DEF Grown
  <2>6. Ready3(f, q, b, B + 1, -9, B + 2, B + 1, "func")
    BY <2>1, <2>2, <2>4, <2>5, PlaceNumbers DEF Ready3
  <2> QED BY <2>6, Fresh3
<1>12. DOMAIN c = {1, 2} /\ c[1] = Name /\ c[2] = Object("func", << a, 0, v[2] >>) /\ Len(c) = 2
  OBVIOUS
<1>13. Created(rule, v, new) = c
  BY <1>1 DEF Created, IsRule
<1> HIDE DEF c
<1>14. ActReady(rule, v, new, c)
  BY <1>13, NewFacts DEF ActReady, IsRule
<1>15. Acted(rule, v, new) = g /\ Result(rule, v, new) = b
  <2>1. /\ Acted(rule, v, new) =
             With(With(Without(FreedNames(rule, v)), new[1], c[1]), new[2], c[2])
        /\ Result(rule, v, new) = new[2]
    BY <1>12, <1>14, Acted2
  <2> QED BY <2>1, <1>1, <1>4, <1>7, <1>9, <1>12 DEF With3
<1>16. \A k \in Int : p[k] = IF k = B + 1 THEN b ELSE IF k \in {B + 1, -9, B + 2} THEN 0 ELSE q[k]
  <2>1. b \in Pointers /\ B + 1 \in Int /\ B + 2 \in Int /\ -9 \in Int
    BY NewFacts, ReadyFacts
  <2> QED BY <2>1, <1>9, Placed3
<1> HIDE DEF p, g
<1>17. Left(g, p, o, B, "func", b)
  <2>1. B \in Nat /\ o[-9] = 0 /\ KindAt(heap, o, -9) = "NULL"
    BY ReadyFacts, SoundTypes
  <2>2. Sound(g, p) /\ KindAt(g, p, B + 1) = "func"
    BY <1>11 DEF Grown
  <2>3. \A i \in Int \ {B + 1, -9, B + 2} : KindAt(g, p, i) = KindAt(heap, o, i)
    BY <1>2, <1>5, <1>11 DEF Grown
  <2>4. KindAt(g, p, -9) = "NULL" /\ p[-9] = 0
    <3>1. -9 # B + 1 /\ -9 \in Int
      BY PlaceNumbers
    <3>2. p[-9] = 0
      BY <3>1, <1>16
    <3> QED BY <3>1, <3>2, <2>2, SoundTypes
  <2>5. \A i \in Int : i <= B => KindAt(g, p, i) = KindAt(heap, o, i)
    BY <2>1, <2>3, <2>4
  <2>6. \A i \in Int : p[i] = IF i = B + 1 THEN b ELSE IF i > B THEN 0 ELSE o[i]
    BY <2>1, <1>1, <1>8, <1>16
  <2> QED BY <2>2, <2>5, <2>6 DEF Left
<1>18. "func" \in {"func"}
  OBVIOUS
<1> QED BY <1>15, <1>17, <1>18, ReducedBy

\* With one: two names are freed.
LEMMA ActFuncOf ==
  ASSUME NEW o, NEW B, NEW rule, NEW v, NEW new, ReduceReady(o, B, rule, v, new),
         IsRule(rule, <<"NAME", "NAME", "block">>, "func")
  PROVE  \E p : Reduced(Acted(rule, v, new), p, o, B, {"func"}, Result(rule, v, new))
<1> DEFINE a == new[1]
           b == new[2]
           d == new[3]
           n == new[4]
           i1 == Minus(heap, o[B + 1])
           t == Put0(o, 0, B + 1)
           h == Minus(i1, o[B + 2])
           u == Put0(t, 0, B + 2)
           e == WithNamed(h, a, b, "var")
           w == Put0(u, b, B + 2)
           f == With0(e, d, "name")
           q == Put0(w, d, B + 1)
           g == With3(f, q, n, B + 1, B + 2, B + 3, "func")
           p == Put3(q, n, B + 1, B + 2, B + 3, B + 1)
           c == << Name, Object("var", << a >>), Name, Object("func", << d, b, v[3] >>) >>
<1>1. /\ KindAt(heap, o, B + 1) = "name" /\ KindAt(heap, o, B + 2) = "name"
      /\ KindAt(heap, o, B + 3) = "block" /\ Len(v) = 3
      /\ FreedNames(rule, v) = {o[B + 1], o[B + 2]}
      /\ v[3] = o[B + 3] /\ \A i \in Int : i > B + 3 => o[i] = 0
  <2>1. /\ KindAt(heap, o, B + 1) \in SymbolKinds("NAME")
        /\ KindAt(heap, o, B + 2) \in SymbolKinds("NAME")
        /\ KindAt(heap, o, B + 3) \in SymbolKinds("block")
        /\ FreedNames(rule, v) = {o[B + 1], o[B + 2]}
        /\ v = << o[B + 1], o[B + 2], o[B + 3] >> /\ \A i \in Int : i > B + 3 => o[i] = 0
    BY Symbols3 DEF IsRule
  <2> QED BY <2>1 DEF SymbolKinds
<1>2. Sound(i1, t) /\ \A j \in Int \ {B + 1} : KindAt(i1, t, j) = KindAt(heap, o, j)
  BY <1>1, ReadyFacts, NameFreed DEF Put0
<1>3. \A k \in Int : t[k] = IF k = B + 1 THEN 0 ELSE o[k]
  <2>1. o \in [Int -> Pointers] /\ B + 1 \in Int /\ 0 \in Pointers
    BY ReadyFacts, PointersAre
  <2> QED BY <2>1, Placed
<1>4. t \in [Int -> Pointers] /\ Without({o[B + 1], o[B + 2]}) = h /\ DOMAIN h \subseteq DOMAIN heap
  <2>1. t \in [Int -> Pointers]
    BY <1>2, SoundTypes
  <2>2. Without({o[B + 1], o[B + 2]}) = h
    BY WithoutSome
  <2>3. DOMAIN h \subseteq DOMAIN heap
    BY DEF Minus
  <2> QED BY <2>1, <2>2, <2>3
<1> HIDE DEF t, i1
<1>5. t[B + 2] = o[B + 2] /\ KindAt(i1, t, B + 2) = "name" /\ B + 2 \in Int
  BY <1>1, <1>2, <1>3, PlaceNumbers
<1>6. Sound(h, u) /\ \A j \in Int \ {B + 2} : KindAt(h, u, j) = KindAt(i1, t, j)
  <2>1. /\ Sound(Minus(i1, t[B + 2]), Put(t, B + 2, 0))
        /\ \A j \in Int \ {B + 2} :
             KindAt(Minus(i1, t[B + 2]), Put(t, B + 2, 0), j) = KindAt(i1, t, j)
    BY <1>2, <1>5, NameFreed
  <2> QED BY <2>1, <1>5 DEF Put0
<1>7. \A k \in Int : u[k] = IF k \in {B + 1, B + 2} THEN 0 ELSE o[k]
  <2>1. 0 \in Pointers
    BY PointersAre
  <2>2. \A k \in Int : u[k] = IF k = B + 2 THEN 0 ELSE t[k]
    BY <2>1, <1>4, <1>5, Placed
  <2> QED BY <2>2, <1>3
<1>8. u \in [Int -> Pointers]
  BY <1>6, SoundTypes
<1> HIDE DEF u, h
<1>9. Grown(h, u, e, w, {}, B + 2, "var")
  <2>1. a \in Addresses \ DOMAIN h /\ b \in Addresses \ DOMAIN h /\ a # b
    BY <1>4, NewFacts
  <2>2. B + 2 \in Int /\ B + 2 # -2 /\ u[B + 2] = 0 /\ u[-2] = 0
    BY <1>7, ReadyFacts, PlaceNumbers
  <2>3. ReadyNamed(h, u, a, b, B + 2, "var")
    BY <1>6, <2>1, <2>2 DEF ReadyNamed
  <2> QED BY <2>3, Named
<1>10. \A k \in Int : w[k] = IF k = B + 2 THEN b ELSE u[k]
  <2>1. b \in Pointers /\ B + 2 \in Int
    BY NewFacts, ReadyFacts
  <2> QED BY <2>1, <1>8, Placed
<1>11. /\ DOMAIN e = DOMAIN h \cup {a, b}
       /\ With(With(h, a, Name), b, Object("var", << a >>)) = e
  BY DEF WithNamed, With
<1> HIDE DEF e, w
<1>12. w \in [Int -> Pointers] /\ w[B + 1] = 0
  <2>1. w \in [Int -> Pointers]
    BY <1>9, SoundTypes DEF Grown
  <2> QED BY <2>1, <1>7, <1>10, PlaceNumbers
<1>13. Grown(e, w, f, q, {}, B + 1, "name")
  <2>1. d \in Addresses \ DOMAIN e
    BY <1>4, <1>11, NewFacts
  <2>2. Sound(e, w)
    BY <1>9 DEF Grown
  <2>3. Ready0(e, w, d, B + 1, "name")
    BY <2>1, <2>2, <1>12, PlaceNumbers DEF Ready0
  <2> QED BY <2>3, Fresh0
<1>14. \A k \in Int : q[k] = IF k = B + 1 THEN d ELSE w[k]
  <2>1. d \in Pointers /\ B + 1 \in Int
    BY NewFacts, ReadyFacts
  <2> QED BY <2>1, <1>12, Placed
<1>15. DOMAIN f = DOMAIN e \cup {d} /\ With(e, d, Name) = f
  BY DEF With0, With, Name
<1> HIDE DEF f, q
<1>16. \A k \in Int : q[k] = IF k = B + 1 THEN d ELSE IF k = B + 2 THEN b ELSE o[k]
  BY <1>7, <1>10, <1>14
<1>17. q \in [Int -> Pointers] /\ q[B + 1] = d /\ q[B + 2] = b /\ q[B + 3] = v[3]
  <2>1. q \in [Int -> Pointers]
    BY <1>13, SoundTypes DEF Grown
  <2> QED BY <2>1, <1>1, <1>16, PlaceNumbers
<1>18. \A k \in Int \ {B + 1, B + 2} : KindAt(f, q, k) = KindAt(heap, o, k)
  BY <1>2, <1>6, <1>9, <1>13 DEF Grown
<1>19. KindAt(f, q, B + 1) = "name" /\ KindAt(f, q, B + 2) = "var" /\ KindAt(f, q, B + 3) = "block"
  <2>1. B + 1 \in Int /\ B + 2 \in Int \ {B + 1} /\ B + 3 \in Int \ {B + 1, B + 2}
    BY PlaceNumbers
  <2>2. KindAt(f, q, B + 2) = KindAt(e, w, B + 2)
    BY <2>1, <1>13 DEF Grown
  <2> QED BY <2>1, <2>2, <1>1, <1>9, <1>13, <1>18 DEF Grown
<1>20. Grown(f, q, g, p, {B + 1, B + 2, B + 3}, B + 1, "func")
  <2>1. n \in Addresses \ DOMAIN f
    BY <1>4, <1>11, <1>15, NewFacts
  <2>2. "func" \in ObjectKinds \ {"list"}
    BY DEF ObjectKinds, Stmts
  <2>3. PartKinds("func") = <<{"name"}, {"NULL", "var"}, {"block"}>>
    BY PartKindsAre
  <2>4. /\ Len(PartKinds("func")) = 3 /\ KindAt(f, q, B + 1) \in PartKinds("func")[1]
        /\ KindAt(f, q, B + 2) \in PartKinds("func")[2]
        /\ KindAt(f, q, B + 3) \in PartKinds("func")[3]
    BY <2>3, <1>19
  <2>5. Sound(f, q)
    BY <1>13 DEF Grown
  <2>6. Ready3(f, q, n, B + 1, B + 2, B + 3, B + 1, "func")
    BY <2>1, <2>2, <2>4, <2>5, PlaceNumbers DEF Ready3
  <2> QED BY <2>6, Fresh3
<1>21. /\ DOMAIN c = {1, 2, 3, 4} /\ Len(c) = 4 /\ c[1] = Name /\ c[2] = Object("var", << a >>)
       /\ c[3] = Name /\ c[4] = Object("func", << d, b, v[3] >>)
  OBVIOUS
<1>22. Created(rule, v, new) = c
  BY <1>1 DEF Created, IsRule
<1> HIDE DEF c
<1>23. ActReady(rule, v, new, c)
  BY <1>22, NewFacts DEF ActReady, IsRule
<1>24. Acted(rule, v, new) = g /\ Result(rule, v, new) = n
  <2>1. /\ Acted(rule, v, new) =
             With(With(With(With(Without(FreedNames(rule, v)), new[1], c[1]), new[2], c[2]),
                       new[3], c[3]), new[4], c[4])
        /\ Result(rule, v, new) = new[4]
    BY <1>21, <1>23, Acted4
  <2>2. With(With(With(h, a, Name), b, Object("var", << a >>)), d, Name) = f
    BY <1>11, <1>15
  <2> QED BY <2>1, <2>2, <1>1, <1>4, <1>17, <1>21 DEF With3
<1>25. \A k \in Int : p[k] = IF k = B + 1 THEN n
                            ELSE IF k \in {B + 1, B + 2, B + 3} THEN 0 ELSE q[k]
  <2>1. n \in Pointers /\ B + 1 \in Int /\ B + 2 \in Int /\ B + 3 \in Int
    BY NewFacts, ReadyFacts
  <2> QED BY <2>1, <1>17, Placed3
<1> HIDE DEF p, g
<1>26. Left(g, p, o, B, "func", n)
  <2>1. B \in Nat
    BY ReadyFacts
  <2>2. Sound(g, p) /\ KindAt(g, p, B + 1) = "func"
    BY <1>20 DEF Grown
  <2>3. \A i \in Int \ {B + 1, B + 2, B + 3} : KindAt(g, p, i) = KindAt(heap, o, i)
    BY <1>18, <1>20 DEF Grown
  <2>4. \A i \in Int : i <= B => KindAt(g, p, i) = KindAt(heap, o, i)
    BY <2>1, <2>3
  <2>5. \A i \in Int : p[i] = IF i = B + 1 THEN n ELSE IF i > B THEN 0 ELSE o[i]
    BY <2>1, <1>1, <1>16, <1>25
  <2> QED BY <2>2, <2>4, <2>5 DEF Left
<1>27. "func" \in {"func"}
  OBVIOUS
<1> QED BY <1>24, <1>26, <1>27, ReducedBy

\* A value passed on.
LEMMA ActPass ==
  ASSUME NEW o, NEW B, NEW rule, NEW v, NEW new, ReduceReady(o, B, rule, v, new),
         NEW s, IsRule(rule, << s >>, "pass"), s # "NAME",
         NEW kinds, SymbolKinds(s) \subseteq kinds
  PROVE  \E p : Reduced(Acted(rule, v, new), p, o, B, kinds, Result(rule, v, new))
<1>1. /\ KindAt(heap, o, B + 1) \in kinds /\ FreedNames(rule, v) = {}
      /\ v = << o[B + 1] >> /\ \A i \in Int : i > B + 1 => o[i] = 0
  BY Symbols1 DEF IsRule
<1>2. Created(rule, v, new) = << >>
  BY DEF Created, IsRule
<1>3. Result(rule, v, new) = o[B + 1]
  <2>1. Len(Created(rule, v, new)) = 0 /\ v[1] = o[B + 1]
    BY <1>1, <1>2
  <2> QED BY <2>1 DEF Result
<1>4. Acted(rule, v, new) = heap
  <2> DEFINE c == << >>
  <2>1. DOMAIN c = {} /\ Created(rule, v, new) = c
    BY <1>2
  <2> HIDE DEF c
  <2>2. /\ \A k \in 1 .. 4 : new[k] \notin DOMAIN heap
        /\ \A j, k \in 1 .. 4 : new[j] = new[k] => j = k
        /\ heap = [a \in DOMAIN heap |-> heap[a]]
    BY ReadyFacts, SoundTypes DEF ReduceReady
  <2>3. ActedReady(heap, rule, v, new, c)
    BY <2>1, <2>2, <1>1 DEF ActedReady, IsRule
  <2> QED BY <2>3, ActedAs
<1>5. Left(heap, o, o, B, KindAt(heap, o, B + 1), o[B + 1])
  BY <1>1, ReadyFacts DEF Left
<1> QED BY <1>1, <1>3, <1>4, <1>5, ReducedBy

\* What Acted is for the actions that change a list.
LEMMA ActedList ==
  ASSUME NEW o, NEW B, NEW rule, NEW v, NEW new, ReduceReady(o, B, rule, v, new),
         NEW s, NEW t, rule.rhs = << s, t >>, s # "NAME", t # "NAME",
         rule.act \in {"append", "join"},
         KindAt(heap, o, B + 1) = "list"
  PROVE  /\ rule.act = "append" =>
              Acted(rule, v, new) = Extended(heap, o[B + 1], Append(heap[o[B + 1]].refs, o[B + 2]))
         /\ rule.act = "join" =>
              Acted(rule, v, new) =
                Minus(Extended(heap, o[B + 1], heap[o[B + 1]].refs \o heap[o[B + 2]].refs),
                      o[B + 2])
         /\ Result(rule, v, new) = o[B + 1]
<1>1. FreedNames(rule, v) = {} /\ v = << o[B + 1], o[B + 2] >>
  BY Symbols2
<1>2. v[1] = o[B + 1] /\ v[2] = o[B + 2]
  BY <1>1
<1>3. Created(rule, v, new) = << >> /\ DOMAIN << >> = {} /\ Len(<< >>) = 0
  BY DEF Created
<1>4. Result(rule, v, new) = o[B + 1]
  BY <1>2, <1>3 DEF Result
<1>5. {new[k] : k \in DOMAIN Created(rule, v, new)} = {}
  BY <1>3
<1> DEFINE gone == IF rule.act = "join" THEN {v[2]} ELSE {}
<1>6. Acted(rule, v, new) =
        [a \in (DOMAIN heap \ gone) |->
           IF a = v[1] THEN Object("list", Listed(rule, v)) ELSE heap[a]]
  <2>1. FreedNames(rule, v) \cup gone = gone
    BY <1>1
  <2> HIDE DEF gone
  <2>2. \A a \in DOMAIN heap \ gone : a \in DOMAIN heap
    OBVIOUS
  <2> QED BY <2>1, <2>2, <1>5 DEF Acted, gone
<1>7. CASE rule.act = "append"
  BY <1>2, <1>4, <1>6, <1>7 DEF Listed, Extended
<1>8. CASE rule.act = "join"
  BY <1>2, <1>4, <1>6, <1>8 DEF Listed, Extended, Minus
<1> QED BY <1>7, <1>8

\* A declaration or a statement goes to the end of its list.
LEMMA ActAppend ==
  ASSUME NEW o, NEW B, NEW rule, NEW v, NEW new, ReduceReady(o, B, rule, v, new),
         NEW s, NEW t, IsRule(rule, << s, t >>, "append"),
         << s, t >> \in {<<"decls", "varDec">>, <<"stmts", "stmt">>}
  PROVE  \E p : Reduced(Acted(rule, v, new), p, o, B, {"list"}, Result(rule, v, new))
<1>1. s \in {"decls", "stmts"} /\ t \in {"varDec", "stmt"} /\ s # "NAME" /\ t # "NAME"
  OBVIOUS
<1>2. /\ KindAt(heap, o, B + 1) = "list" /\ KindAt(heap, o, B + 2) \in Stmts
      /\ \A i \in Int : i > B + 2 => o[i] = 0
  <2>1. /\ KindAt(heap, o, B + 1) \in SymbolKinds(s) /\ KindAt(heap, o, B + 2) \in SymbolKinds(t)
        /\ \A i \in Int : i > B + 2 => o[i] = 0
    BY <1>1, Symbols2 DEF IsRule
  <2>2. SymbolKinds(s) = {"list"} /\ SymbolKinds(t) \subseteq Stmts
    BY <1>1 DEF SymbolKinds, Branches, Stmts
  <2> QED BY <2>1, <2>2
<1> DEFINE g == Extended(heap, o[B + 1], Append(heap[o[B + 1]].refs, o[B + 2]))
           p == Put(o, B + 2, 0)
<1>3. Acted(rule, v, new) = g /\ Result(rule, v, new) = o[B + 1]
  BY <1>1, <1>2, ActedList DEF IsRule
<1>4. Sound(g, p) /\ \A j \in Int \ {B + 2} : KindAt(g, p, j) = KindAt(heap, o, j)
  BY <1>2, ReadyFacts, PlaceNumbers, Appended
<1>5. \A k \in Int : p[k] = IF k = B + 2 THEN 0 ELSE o[k]
  <2>1. B + 2 \in Int /\ o \in [Int -> Pointers] /\ 0 \in Pointers
    BY ReadyFacts, PointersAre
  <2> QED BY <2>1 DEF Put
<1> HIDE DEF g, p
<1>6. Left(g, p, o, B, "list", o[B + 1])
  <2>1. B \in Nat /\ B + 1 # B + 2
    BY ReadyFacts
  <2> QED BY <2>1, <1>2, <1>4, <1>5 DEF Left
<1>7. "list" \in {"list"}
  OBVIOUS
<1> QED BY <1>3, <1>6, <1>7, ReducedBy

\* The statements go to the end of the declarations, and their list is freed.
LEMMA ActJoin ==
  ASSUME NEW o, NEW B, NEW rule, NEW v, NEW new, ReduceReady(o, B, rule, v, new),
         IsRule(rule, <<"decls", "stmts">>, "join")
  PROVE  \E p : Reduced(Acted(rule, v, new), p, o, B, {"list"}, Result(rule, v, new))
<1>1. /\ KindAt(heap, o, B + 1) = "list" /\ KindAt(heap, o, B + 2) = "list"
      /\ \A i \in Int : i > B + 2 => o[i] = 0
  <2>1. /\ KindAt(heap, o, B + 1) \in SymbolKinds("decls")
        /\ KindAt(heap, o, B + 2) \in SymbolKinds("stmts")
        /\ \A i \in Int : i > B + 2 => o[i] = 0
    BY Symbols2 DEF IsRule
  <2> QED BY <2>1 DEF SymbolKinds
<1> DEFINE g == Minus(Extended(heap, o[B + 1], heap[o[B + 1]].refs \o heap[o[B + 2]].refs),
                      o[B + 2])
           p == Put(o, B + 2, 0)
<1>2. Acted(rule, v, new) = g /\ Result(rule, v, new) = o[B + 1]
  BY <1>1, ActedList DEF IsRule
<1>3. Sound(g, p) /\ \A j \in Int \ {B + 2} : KindAt(g, p, j) = KindAt(heap, o, j)
  BY <1>1, ReadyFacts, PlaceNumbers, Joined
<1>4. \A k \in Int : p[k] = IF k = B + 2 THEN 0 ELSE o[k]
  <2>1. o \in [Int -> Pointers] /\ B + 2 \in Int /\ 0 \in Pointers
    BY ReadyFacts, PointersAre
  <2> QED BY <2>1, Placed DEF Put0
<1> HIDE DEF g, p
<1>5. Left(g, p, o, B, "list", o[B + 1])
  <2>1. B \in Nat /\ B + 1 # B + 2
    BY ReadyFacts
  <2> QED BY <2>1, <1>1, <1>3, <1>4 DEF Left
<1>6. "list" \in {"list"}
  OBVIOUS
<1> QED BY <1>2, <1>5, <1>6, ReducedBy

\* A value may be said to be of more kinds than it is.
LEMMA MoreKinds ==
  ASSUME NEW g, NEW p, NEW o, NEW B, NEW kinds, NEW more, NEW value,
         Reduced(g, p, o, B, kinds, value), kinds \subseteq more
  PROVE  Reduced(g, p, o, B, more, value)
BY DEF Reduced

\* The value that an action gives to its symbol is of a kind that this symbol may have.
ActFits(o, B, rule, v, new) ==
  \E p : Reduced(Acted(rule, v, new), p, o, B, SymbolKinds(rule.lhs), Result(rule, v, new))

\* The result of an action is of a kind that its symbol may be.
LEMMA FitsBy ==
  ASSUME NEW o, NEW B, NEW rule, NEW v, NEW new, NEW kinds, kinds \subseteq SymbolKinds(rule.lhs),
         \E p : Reduced(Acted(rule, v, new), p, o, B, kinds, Result(rule, v, new))
  PROVE  ActFits(o, B, rule, v, new)
BY MoreKinds DEF ActFits

\* Every action, on whatever the grammar lets its symbols be.
LEMMA EveryAct ==
  ASSUME NEW o, NEW B, NEW rule, NEW v, NEW new, ReduceReady(o, B, rule, v, new), OneOfThem(rule)
  PROVE  ActFits(o, B, rule, v, new)
<1>1. CASE RuleIs(rule, {"printDec", "readDec"}, {<<>>}, "extern")
  <2>1. IsRule(rule, <<>>, "extern") /\ {"extern"} \subseteq SymbolKinds(rule.lhs)
    BY <1>1 DEF RuleIs, IsRule, SymbolKinds, Terms, Exprs
  <2> QED BY <2>1, ActExtern, FitsBy
<1>2. CASE RuleIs(rule, {"funcDec"}, {<<"NAME", "block">>}, "func")
  <2>1. IsRule(rule, <<"NAME", "block">>, "func") /\ {"func"} \subseteq SymbolKinds(rule.lhs)
    BY <1>2 DEF RuleIs, IsRule, SymbolKinds, Terms, Exprs
  <2> QED BY <2>1, ActFunc, FitsBy
<1>3. CASE RuleIs(rule, {"funcDec"}, {<<"NAME", "NAME", "block">>}, "func")
  <2>1. /\ IsRule(rule, <<"NAME", "NAME", "block">>, "func")
        /\ {"func"} \subseteq SymbolKinds(rule.lhs)
    BY <1>3 DEF RuleIs, IsRule, SymbolKinds, Terms, Exprs
  <2> QED BY <2>1, ActFuncOf, FitsBy
<1>4. CASE RuleIs(rule, {"block"}, {<<"blockBody">>}, "block")
  <2>1. IsRule(rule, <<"blockBody">>, "block") /\ {"block"} \subseteq SymbolKinds(rule.lhs)
    BY <1>4 DEF RuleIs, IsRule, SymbolKinds, Terms, Exprs
  <2> QED BY <2>1, ActUnary, FitsBy
<1>5. CASE RuleIs(rule, {"blockBody"}, {<<"decls", "stmts">>}, "join")
  <2>1. IsRule(rule, <<"decls", "stmts">>, "join") /\ {"list"} \subseteq SymbolKinds(rule.lhs)
    BY <1>5 DEF RuleIs, IsRule, SymbolKinds, Terms, Exprs
  <2> QED BY <2>1, ActJoin, FitsBy
<1>6. CASE RuleIs(rule, {"decls", "stmts"}, {<<>>}, "list")
  <2>1. IsRule(rule, <<>>, "list") /\ {"list"} \subseteq SymbolKinds(rule.lhs) /\ rule.act = "list"
    BY <1>6 DEF RuleIs, IsRule, SymbolKinds, Terms, Exprs
  <2>2. \E p : Reduced(Acted(rule, v, new), p, o, B, {rule.act}, Result(rule, v, new))
    BY <2>1, ActLeaf
  <2>3. \E p : Reduced(Acted(rule, v, new), p, o, B, {"list"}, Result(rule, v, new))
    BY <2>1, <2>2
  <2> QED BY <2>1, <2>3, FitsBy
<1>7. CASE RuleIs(rule, {"decls"}, {<<"decls", "varDec">>}, "append")
  <2>1. IsRule(rule, <<"decls", "varDec">>, "append") /\ {"list"} \subseteq SymbolKinds(rule.lhs)
    BY <1>7 DEF RuleIs, IsRule, SymbolKinds, Terms, Exprs
  <2> QED BY <2>1, ActAppend, FitsBy
<1>8. CASE RuleIs(rule, {"stmts"}, {<<"stmts", "stmt">>}, "append")
  <2>1. IsRule(rule, <<"stmts", "stmt">>, "append") /\ {"list"} \subseteq SymbolKinds(rule.lhs)
    BY <1>8 DEF RuleIs, IsRule, SymbolKinds, Terms, Exprs
  <2> QED BY <2>1, ActAppend, FitsBy
<1>9. CASE RuleIs(rule, {"varDec"}, {<<"NAME">>}, "decl")
  <2>1. IsRule(rule, <<"NAME">>, "decl") /\ {"decl"} \subseteq SymbolKinds(rule.lhs)
    BY <1>9 DEF RuleIs, IsRule, SymbolKinds, Terms, Exprs
  <2> QED BY <2>1, ActName, FitsBy
<1>10. CASE RuleIs(rule, {"stmt"},
                   {<< s >> : s \in {"varAssign", "printStmt", "ifStmt", "whileStmt",
                                    "retStmt", "block"}}, "pass")
  <2>1. PICK s \in {"varAssign", "printStmt", "ifStmt", "whileStmt", "retStmt", "block"} :
          rule.rhs = << s >>
    BY <1>10 DEF RuleIs
  <2>2. IsRule(rule, << s >>, "pass") /\ rule.lhs = "stmt" /\ s # "NAME"
    BY <1>10, <2>1 DEF RuleIs, IsRule
  <2>3. SymbolKinds(s) \subseteq SymbolKinds("stmt")
    BY DEF SymbolKinds, Branches, Stmts
  <2>4. \E p : Reduced(Acted(rule, v, new), p, o, B, SymbolKinds("stmt"), Result(rule, v, new))
    BY <2>2, <2>3, ActPass
  <2> QED BY <2>2, <2>4 DEF ActFits
<1>11. CASE RuleIs(rule, {"varAssign"}, {<<"NAME", "intExpr">>, <<"NAME", "readCall">>}, "asgn")
  <2>1. PICK s \in {"intExpr", "readCall"} : rule.rhs = << "NAME", s >>
    BY <1>11 DEF RuleIs
  <2>2. IsRule(rule, << "NAME", s >>, "asgn") /\ {"asgn"} \subseteq SymbolKinds(rule.lhs)
    BY <1>11, <2>1 DEF RuleIs, IsRule, SymbolKinds
  <2> QED BY <2>2, ActAsgn, FitsBy
<1>12. CASE RuleIs(rule, {"readCall"}, {<<>>}, "call")
  <2>1. IsRule(rule, <<>>, "call") /\ {"call"} \subseteq SymbolKinds(rule.lhs)
    BY <1>12 DEF RuleIs, IsRule, SymbolKinds, Terms, Exprs
  <2> QED BY <2>1, ActRead, FitsBy
<1>13. CASE RuleIs(rule, {"printStmt"}, {<<"intExpr">>}, "call")
  <2>1. IsRule(rule, <<"intExpr">>, "call") /\ {"call"} \subseteq SymbolKinds(rule.lhs)
    BY <1>13 DEF RuleIs, IsRule, SymbolKinds, Terms, Exprs
  <2> QED BY <2>1, ActPrint, FitsBy
<1>14. CASE RuleIs(rule, {"ifStmt"}, {<<"relExpr", "stmt">>}, "if")
  <2>1. IsRule(rule, <<"relExpr", "stmt">>, "if") /\ {"if"} \subseteq SymbolKinds(rule.lhs)
    BY <1>14 DEF RuleIs, IsRule, SymbolKinds, Terms, Exprs
  <2> QED BY <2>1, ActIf, FitsBy
<1>15. CASE RuleIs(rule, {"ifStmt"}, {<<"relExpr", "stmt", "stmt">>}, "if")
  <2>1. IsRule(rule, <<"relExpr", "stmt", "stmt">>, "if") /\ {"if"} \subseteq SymbolKinds(rule.lhs)
    BY <1>15 DEF RuleIs, IsRule, SymbolKinds, Terms, Exprs
  <2> QED BY <2>1, ActTernary, FitsBy
<1>16. CASE RuleIs(rule, {"whileStmt"}, {<<"relExpr", "stmt">>}, "while")
  <2>1. IsRule(rule, <<"relExpr", "stmt">>, "while") /\ {"while"} \subseteq SymbolKinds(rule.lhs)
    BY <1>16 DEF RuleIs, IsRule, SymbolKinds, Terms, Exprs
  <2> QED BY <2>1, ActBinary, FitsBy
<1>17. CASE RuleIs(rule, {"retStmt"}, {<<"intExpr">>}, "ret")
  <2>1. IsRule(rule, <<"intExpr">>, "ret") /\ {"ret"} \subseteq SymbolKinds(rule.lhs)
    BY <1>17 DEF RuleIs, IsRule, SymbolKinds, Terms, Exprs
  <2> QED BY <2>1, ActUnary, FitsBy
<1>18. CASE RuleIs(rule, {"relExpr"}, {<<"intExpr", "intExpr">>}, "rexpr")
  <2>1. IsRule(rule, <<"intExpr", "intExpr">>, "rexpr") /\ {"rexpr"} \subseteq SymbolKinds(rule.lhs)
    BY <1>18 DEF RuleIs, IsRule, SymbolKinds, Terms, Exprs
  <2> QED BY <2>1, ActBinary, FitsBy
<1>19. CASE RuleIs(rule, {"intExpr"}, {<<"term">>}, "pass")
  <2>1. IsRule(rule, <<"term">>, "pass") /\ rule.lhs = "intExpr"
    BY <1>19 DEF RuleIs, IsRule
  <2>2. SymbolKinds("term") \subseteq SymbolKinds("intExpr")
    BY DEF SymbolKinds
  <2>3. \E p : Reduced(Acted(rule, v, new), p, o, B, SymbolKinds("intExpr"), Result(rule, v, new))
    BY <2>1, <2>2, ActPass
  <2> QED BY <2>1, <2>3 DEF ActFits
<1>20. CASE RuleIs(rule, {"intExpr"}, {<<"term", "term">>}, "bexpr")
  <2>1. IsRule(rule, <<"term", "term">>, "bexpr") /\ {"bexpr"} \subseteq SymbolKinds(rule.lhs)
    BY <1>20 DEF RuleIs, IsRule, SymbolKinds, Terms, Exprs
  <2> QED BY <2>1, ActBinary, FitsBy
<1>21. CASE RuleIs(rule, {"term"}, {<<"posTerm">>}, "pass")
  <2>1. IsRule(rule, <<"posTerm">>, "pass") /\ rule.lhs = "term"
    BY <1>21 DEF RuleIs, IsRule
  <2>2. SymbolKinds("posTerm") \subseteq SymbolKinds("term")
    BY DEF SymbolKinds
  <2>3. \E p : Reduced(Acted(rule, v, new), p, o, B, SymbolKinds("term"), Result(rule, v, new))
    BY <2>1, <2>2, ActPass
  <2> QED BY <2>1, <2>3 DEF ActFits
<1>22. CASE RuleIs(rule, {"term"}, {<<"posTerm">>}, "uexpr")
  <2>1. IsRule(rule, <<"posTerm">>, "uexpr") /\ {"uexpr"} \subseteq SymbolKinds(rule.lhs)
    BY <1>22 DEF RuleIs, IsRule, SymbolKinds, Terms, Exprs
  <2> QED BY <2>1, ActUnary, FitsBy
<1>23. CASE RuleIs(rule, {"posTerm"}, {<<"NUM">>}, "cnst")
  <2>1. /\ IsRule(rule, <<"NUM">>, "cnst") /\ rule.act = "cnst"
        /\ {"cnst"} \subseteq SymbolKinds(rule.lhs)
    BY <1>23 DEF RuleIs, IsRule, SymbolKinds, Terms, Exprs
  <2>2. \E p : Reduced(Acted(rule, v, new), p, o, B, {rule.act}, Result(rule, v, new))
    BY <2>1, ActLeaf
  <2>3. \E p : Reduced(Acted(rule, v, new), p, o, B, {"cnst"}, Result(rule, v, new))
    BY <2>1, <2>2
  <2> QED BY <2>1, <2>3, FitsBy
<1>24. CASE RuleIs(rule, {"posTerm"}, {<<"NAME">>}, "var")
  <2>1. IsRule(rule, <<"NAME">>, "var") /\ {"var"} \subseteq SymbolKinds(rule.lhs)
    BY <1>24 DEF RuleIs, IsRule, SymbolKinds, Terms, Exprs
  <2> QED BY <2>1, ActName, FitsBy
<1> QED BY <1>1, <1>2, <1>3, <1>4, <1>5, <1>6, <1>7, <1>8, <1>9, <1>10, <1>11, <1>12,
       <1>13, <1>14, <1>15, <1>16, <1>17, <1>18, <1>19, <1>20, <1>21, <1>22, <1>23, <1>24
    DEF OneOfThem

-----------------------------------------------------------------------------
(***************************************************************************)
(* The parser, step by step.                                               *)
(***************************************************************************)

\* The symbol can be pushed: there is a state to go to, or it is the start symbol.
GoesOn(s, symbol) ==
  \/ Goto(Top(s).state, symbol) # {}
  \/ symbol = "program" /\ Len(s) = 1

\* What a stack is after a push and after symbols have been popped.
LEMMA Pushed ==
  ASSUME NEW s, StackOK(s), NEW symbol \in Symbols, NEW value \in Pointers, GoesOn(s, symbol)
  PROVE  /\ StackOK(Push(s, symbol, value)) /\ Len(Push(s, symbol, value)) = Len(s) + 1
         /\ \A k \in 1 .. Len(s) : Push(s, symbol, value)[k] = s[k]
         /\ Push(s, symbol, value)[Len(s) + 1].symbol = symbol
         /\ Push(s, symbol, value)[Len(s) + 1].value = value
<1> DEFINE c == [state |-> Goto(Top(s).state, symbol), symbol |-> symbol, value |-> value]
           t == Append(s, c)
<1>1. s \in Seq(Cell) /\ Len(s) \in Nat /\ Len(s) > 0 /\ Len(s) \in 1 .. Len(s)
  BY CellFacts DEF StackOK
<1>2. s[Len(s)].state \in SUBSET Items
  BY <1>1, CellFacts
<1>3. Goto(Top(s).state, symbol) \in SUBSET Items
  BY <1>2, GotoFacts DEF Top
<1>4. c \in Cell
  BY <1>3 DEF Cell
<1>5. c.state = Goto(s[Len(s)].state, symbol) /\ c.symbol = symbol /\ c.value = value
  BY DEF Top
<1> HIDE DEF c
<1>6. /\ t \in Seq(Cell) /\ Len(t) = Len(s) + 1 /\ t[Len(s) + 1] = c
      /\ \A k \in 1 .. Len(s) : t[k] = s[k]
  BY <1>1, <1>4
<1> HIDE DEF t
<1>7. s[Len(s)].state # {} \/ (symbol = "program" /\ Len(s) = 1)
  BY <1>2, GotoFacts DEF Top, GoesOn
<1>8. ASSUME NEW k \in 2 .. Len(t)
      PROVE  /\ t[k].symbol \in Symbols
             /\ t[k].state = Goto(t[k - 1].state, t[k].symbol)
             /\ t[k].state # {} \/ (t[k].symbol = "program" /\ k = 2 /\ Len(t) = 2)
  <2>1. CASE k = Len(s) + 1
    <3>1. t[k] = c /\ t[k - 1] = s[Len(s)]
      BY <2>1, <1>1, <1>6
    <3>2. c.state # {} \/ (symbol = "program" /\ Len(s) = 1)
      BY <1>5 DEF Top, GoesOn
    <3> QED BY <3>1, <3>2, <1>5, <2>1, <1>6, <1>1
  <2>2. CASE k # Len(s) + 1
    <3>1. k \in 2 .. Len(s) /\ k - 1 \in 1 .. Len(s) /\ k \in 1 .. Len(s)
      BY <2>2, <1>1, <1>6
    <3>2. t[k] = s[k] /\ t[k - 1] = s[k - 1]
      BY <3>1, <1>6
    <3>3. /\ s[k].symbol \in Symbols /\ s[k].state = Goto(s[k - 1].state, s[k].symbol)
          /\ s[k].state # {} \/ (s[k].symbol = "program" /\ k = 2 /\ Len(s) = 2)
      BY <3>1 DEF StackOK
    <3>4. s[k].state # {}
      BY <3>1, <3>3, <1>7, <1>1
    <3> QED BY <3>2, <3>3, <3>4
  <2> QED BY <2>1, <2>2
<1>9. t[1] = [state |-> {<< 1, 0 >>}, symbol |-> "start", value |-> 0]
  BY <1>1, <1>6 DEF StackOK
<1>10. StackOK(t)
  BY <1>6, <1>8, <1>9, <1>1 DEF StackOK
<1> QED BY <1>5, <1>6, <1>10 DEF t, c, Push

\* The symbols below those that have been popped.
LEMMA Popped ==
  ASSUME NEW s, StackOK(s), NEW n \in Nat, n < Len(s)
  PROVE  /\ StackOK(Below(s, n)) /\ Len(Below(s, n)) = Len(s) - n
         /\ \A k \in 1 .. Len(s) - n : Below(s, n)[k] = s[k]
<1> DEFINE t == Below(s, n)
<1>1. s \in Seq(Cell) /\ Len(s) \in Nat /\ Len(s) > 0 /\ Len(s) - n \in 1 .. Len(s)
  BY CellFacts DEF StackOK
<1>2. t = [k \in 1 .. Len(s) - n |-> s[k]]
  BY <1>1 DEF Below
<1>3. \A k \in 1 .. Len(s) - n : s[k] \in Cell
  BY <1>1, CellFacts
<1>4. /\ t \in Seq(Cell) /\ Len(t) = Len(s) - n /\ \A k \in 1 .. Len(s) - n : t[k] = s[k]
  BY <1>1, <1>2, <1>3
<1> HIDE DEF t
<1>5. ASSUME NEW k \in 2 .. Len(t)
      PROVE  /\ t[k].symbol \in Symbols
             /\ t[k].state = Goto(t[k - 1].state, t[k].symbol)
             /\ t[k].state # {} \/ (t[k].symbol = "program" /\ k = 2 /\ Len(t) = 2)
  <2>1. k \in 2 .. Len(s) /\ k - 1 \in 1 .. Len(s) - n /\ k \in 1 .. Len(s) - n
    BY <1>1, <1>4
  <2>2. t[k] = s[k] /\ t[k - 1] = s[k - 1]
    BY <2>1, <1>4
  <2>3. /\ s[k].symbol \in Symbols /\ s[k].state = Goto(s[k - 1].state, s[k].symbol)
        /\ s[k].state # {} \/ (s[k].symbol = "program" /\ k = 2 /\ Len(s) = 2)
    BY <2>1 DEF StackOK
  <2> QED BY <2>1, <2>2, <2>3, <1>1, <1>4
<1>6. t[1] = s[1]
  BY <1>1, <1>4
<1>7. StackOK(t)
  BY <1>1, <1>4, <1>5, <1>6 DEF StackOK
<1> QED BY <1>4, <1>7 DEF t

\* The program has been read: nothing can follow.
ProgramRead(s) == Len(s) = 2 /\ s[2].symbol = "program"

\* No item is left when it has been read.
LEMMA NothingFollows ==
  ASSUME NEW s, StackOK(s), ProgramRead(s)
  PROVE  Top(s).state = {}
<1>1. 2 \in 2 .. Len(s) /\ 2 - 1 = 1 /\ 1 \in 1 .. Len(s)
  BY DEF ProgramRead
<1>2. s[2].state = Goto(s[1].state, "program") /\ s[1].state \in SUBSET Items
  BY <1>1, CellFacts DEF ProgramRead
<1> QED BY <1>2, GotoFacts DEF Top, ProgramRead

\* The pointers from outside, place by place.
LEMMA OutsideAt ==
  ASSUME NEW s, StackOK(s), NEW l, NEW r
  PROVE  /\ Outside(s, l, r)[0] = l /\ Outside(s, l, r)[-1] = r
         /\ \A k \in 1 .. Len(s) : k \in Int /\ Outside(s, l, r)[k] = s[k].value
         /\ \A i \in Int : i < -1 \/ i > Len(s) => Outside(s, l, r)[i] = 0
BY CellFacts DEF Outside

\* Pointers that are at those places.
LEMMA OutsideIs ==
  ASSUME NEW s, StackOK(s), NEW l, NEW r, NEW p \in [Int -> Pointers],
         p[0] = l, p[-1] = r, \A k \in 1 .. Len(s) : p[k] = s[k].value,
         \A i \in Int : i < -1 \/ i > Len(s) => p[i] = 0
  PROVE  p = Outside(s, l, r)
<1>1. DOMAIN s = 1 .. Len(s) /\ Len(s) \in Nat
  BY CellFacts
<1>2. \A i \in Int : p[i] = Outside(s, l, r)[i]
  BY <1>1 DEF Outside
<1>3. p = [i \in Int |-> p[i]] /\ Outside(s, l, r) = [i \in Int |-> Outside(s, l, r)[i]]
  BY DEF Outside
<1> QED BY <1>2, <1>3

\* The values on the stack are of the kinds of their symbols.
KindsOK(h, s) == \A k \in 1 .. Len(s) : Kind(h, s[k].value) \in SymbolKinds(s[k].symbol)

(***************************************************************************)
(* The parser, in one formula: the heap with the pointers into it is       *)
(* sound; the states on the stack follow from its symbols, and its values  *)
(* are of the kinds of its symbols.                                        *)
(***************************************************************************)
ParserIInv ==
  /\ parsed \in {"no", "accepted", "failed"}
  /\ Sound(heap, Outside(stack, lookahead, root))
  /\ Kind(heap, lookahead) \in {"name", "NULL"}
  /\ Parsing => StackOK(stack) /\ KindsOK(heap, stack) /\ (root # 0 <=> ProgramRead(stack))
  /\ ~Parsing => stack = <<>> /\ lookahead = 0

\* The invariant while the parser runs.
Standing(h, s, l, r) ==
  /\ StackOK(s) /\ Sound(h, Outside(s, l, r)) /\ KindsOK(h, s)
  /\ Kind(h, l) \in {"name", "NULL"} /\ (r # 0 <=> ProgramRead(s))

\* That is the invariant, as long as yyparse has not returned.
LEMMA StandingIs ==
  /\ ParserIInv /\ Parsing => Standing(heap, stack, lookahead, root)
  /\ Parsing' /\ Standing(heap', stack', lookahead', root') => ParserIInv'
BY DEF ParserIInv, Standing, Parsing

\* The symbols without a value, and NAME.
LEMMA StartKinds == SymbolKinds("start") = {"NULL"} /\ SymbolKinds("program") = {"NULL"}
                      /\ SymbolKinds("NUM") = {"NULL"} /\ SymbolKinds("NAME") = {"name"}
BY DEF SymbolKinds

\* A pointer somewhere else, and its kind there.
LEMMA KindOutside ==
  ASSUME NEW h, NEW s, StackOK(s), NEW l, NEW r
  PROVE  /\ KindAt(h, Outside(s, l, r), 0) = Kind(h, l)
         /\ KindAt(h, Outside(s, l, r), -1) = Kind(h, r)
         /\ \A k \in 1 .. Len(s) : KindAt(h, Outside(s, l, r), k) = Kind(h, s[k].value)
BY OutsideAt DEF KindAt

\* A scanned name is owned by the lookahead.
LEMMA ScanStep ==
  ASSUME ParserIInv, ScanName
  PROVE  ParserIInv'
<1> DEFINE o == Outside(stack, lookahead, root)
           p == Put0(o, Strdup, 0)
<1>1. Standing(heap, stack, lookahead, root) /\ lookahead = 0 /\ Room /\ Parsing
  BY StandingIs DEF ScanName
<1>2. Strdup \in Addresses \ DOMAIN heap
  BY <1>1, StrdupFacts
<1>3. heap' = With0(heap, Strdup, "name")
  BY <1>2 DEF ScanName, With0, With, Name
<1>4. /\ StackOK(stack) /\ Sound(heap, o) /\ o[0] = 0 /\ o[-1] = root
      /\ \A k \in 1 .. Len(stack) : k \in Int /\ o[k] = stack[k].value
      /\ \A i \in Int : i < -1 \/ i > Len(stack) => o[i] = 0
  BY <1>1, OutsideAt DEF Standing
<1> HIDE DEF o
<1>5. o \in [Int -> Pointers]
  BY <1>4, SoundTypes
<1>6. Ready0(heap, o, Strdup, 0, "name")
  BY <1>2, <1>4 DEF Ready0
<1>7. Grown(heap, o, heap', p, {}, 0, "name")
  BY <1>3, <1>6, Fresh0
<1>8. p \in [Int -> Pointers] /\ p[0] = Strdup /\ \A i \in Int \ {0} : p[i] = o[i]
  <2>1. Strdup \in Pointers /\ 0 \in Int
    BY <1>2, PointersAre
  <2> QED BY <2>1, <1>5, Placed
<1> HIDE DEF p
<1>9. p = Outside(stack, Strdup, root)
  <2>1. Len(stack) \in Nat /\ \A k \in 1 .. Len(stack) : p[k] = stack[k].value
    BY <1>4, <1>8, CellFacts
  <2>2. \A i \in Int : i < -1 \/ i > Len(stack) => p[i] = 0
    BY <2>1, <1>4, <1>8
  <2>3. p[0] = Strdup /\ p[-1] = root
    BY <1>4, <1>8
  <2> QED BY <2>1, <2>2, <2>3, <1>4, <1>8, OutsideIs
<1>10. stack' = stack /\ root' = root /\ lookahead' = Strdup /\ parsed' = parsed
  BY DEF ScanName
<1>11. Sound(heap', Outside(stack', lookahead', root'))
  BY <1>7, <1>9, <1>10 DEF Grown
<1>12. Kind(heap', lookahead') = "name"
  BY <1>4, <1>7, <1>9, <1>10, KindOutside DEF Grown
<1>13. KindsOK(heap', stack')
  <2> SUFFICES ASSUME NEW k \in 1 .. Len(stack)
               PROVE  Kind(heap', stack[k].value) \in SymbolKinds(stack[k].symbol)
    BY <1>10 DEF KindsOK
  <2>1. k \in Int \ {0}
    BY <1>4
  <2>2. KindAt(heap', p, k) = KindAt(heap, o, k)
    BY <2>1, <1>7 DEF Grown
  <2>3. KindAt(heap', p, k) = Kind(heap', stack[k].value)
    BY <1>4, <1>9, KindOutside
  <2>4. KindAt(heap, o, k) = Kind(heap, stack[k].value)
    BY <1>4, KindOutside DEF o
  <2> QED BY <2>2, <2>3, <2>4, <1>1 DEF Standing, KindsOK
<1>14. Standing(heap', stack', lookahead', root')
  BY <1>1, <1>10, <1>11, <1>12, <1>13 DEF Standing
<1> QED BY <1>1, <1>10, <1>14, StandingIs DEF Parsing

\* The kinds of a stack with one more symbol, and what it says of root.
LEMMA PushedKinds ==
  ASSUME NEW s, StackOK(s), NEW symbol \in Symbols, NEW value \in Pointers, NEW h, NEW g,
         GoesOn(s, symbol), KindsOK(h, s),
         \A k \in 1 .. Len(s) : Kind(g, s[k].value) = Kind(h, s[k].value),
         Kind(g, value) \in SymbolKinds(symbol)
  PROVE  /\ KindsOK(g, Push(s, symbol, value))
         /\ ProgramRead(Push(s, symbol, value)) => symbol = "program"
<1> DEFINE t == Push(s, symbol, value)
<1>1. /\ StackOK(t) /\ Len(t) = Len(s) + 1 /\ \A k \in 1 .. Len(s) : t[k] = s[k]
      /\ t[Len(s) + 1].symbol = symbol /\ t[Len(s) + 1].value = value
  BY Pushed
<1> HIDE DEF t
<1>2. Len(s) \in Nat
  BY CellFacts
<1>3. ASSUME NEW k \in 1 .. Len(t)
      PROVE  Kind(g, t[k].value) \in SymbolKinds(t[k].symbol)
  <2>1. CASE k = Len(s) + 1
    BY <1>1, <2>1
  <2>2. CASE k # Len(s) + 1
    <3>1. k \in 1 .. Len(s)
      BY <1>1, <1>2, <2>2
    <3>2. t[k] = s[k] /\ Kind(g, s[k].value) = Kind(h, s[k].value)
      BY <3>1, <1>1
    <3>3. Kind(h, s[k].value) \in SymbolKinds(s[k].symbol)
      BY <3>1 DEF KindsOK
    <3> QED BY <3>2, <3>3
  <2> QED BY <2>1, <2>2
<1>4. ProgramRead(t) => symbol = "program"
  BY <1>1, <1>2 DEF ProgramRead
<1> QED BY <1>3, <1>4 DEF KindsOK, t

\* From no state there is nowhere to go.
LEMMA NoGoto == \A symbol : Goto({}, symbol) = {}
<1>1. {} \in SUBSET Items
  OBVIOUS
<1> QED BY <1>1, GotoFacts

\* A shifted name is owned by the stack, the lookahead is empty again.
LEMMA ShiftNameStep ==
  ASSUME ParserIInv, ShiftName
  PROVE  ParserIInv'
<1> DEFINE o == Outside(stack, lookahead, root)
           n == Len(stack) + 1
           p == Put(Put(o, n, o[0]), 0, 0)
           t == Push(stack, "NAME", lookahead)
<1>1. /\ Standing(heap, stack, lookahead, root) /\ Parsing /\ lookahead # 0
      /\ Goto(Top(stack).state, "NAME") # {} /\ GoesOn(stack, "NAME")
  BY StandingIs DEF ShiftName, Shift, GoesOn
<1>2. stack' = t /\ lookahead' = 0 /\ heap' = heap /\ root' = root /\ parsed' = parsed
  BY DEF ShiftName, Shift
<1>3. /\ StackOK(stack) /\ Sound(heap, o) /\ o[0] = lookahead /\ o[-1] = root
      /\ \A k \in 1 .. Len(stack) : k \in Int /\ o[k] = stack[k].value
      /\ \A i \in Int : i < -1 \/ i > Len(stack) => o[i] = 0
  BY <1>1, OutsideAt DEF Standing
<1>4. \A k \in 1 .. Len(stack) : KindAt(heap, o, k) = Kind(heap, stack[k].value)
  BY <1>3, KindOutside
<1>5. KindAt(heap, o, 0) = Kind(heap, lookahead)
  BY <1>3, KindOutside
<1> HIDE DEF o
<1>6. o \in [Int -> Pointers] /\ Len(stack) \in Nat /\ n \in Int /\ n # 0 /\ o[n] = 0
  BY <1>3, SoundTypes, CellFacts
<1>7. lookahead \in Pointers /\ o[0] \in Pointers
  BY <1>3, <1>6
<1>8. Kind(heap, lookahead) = "name"
  BY <1>1, <1>3, <1>5, SoundTypes DEF Standing
<1>9. Sound(heap, p)
  BY <1>3, <1>6, Moved
<1>10. /\ p \in [Int -> Pointers] /\ p[0] = 0 /\ p[n] = lookahead
       /\ \A i \in Int \ {0, n} : p[i] = o[i]
  <2>1. /\ Put(o, n, o[0]) \in [Int -> Pointers] /\ Put(o, n, o[0])[n] = lookahead
        /\ \A k \in Int \ {n} : Put(o, n, o[0])[k] = o[k]
    <3>1. /\ Put(o, n, o[0]) \in [Int -> Pointers] /\ Put(o, n, o[0])[n] = o[0]
          /\ \A k \in Int \ {n} : Put(o, n, o[0])[k] = o[k]
      BY <1>6, <1>7, PutFacts
    <3> QED BY <3>1, <1>3
  <2>2. 0 \in Pointers /\ 0 \in Int
    BY PointersAre
  <2> QED BY <2>1, <2>2, <1>6, PutFacts
<1> HIDE DEF p
<1>11. "NAME" \in Symbols /\ "NAME" # "program"
  BY SymbolsAre
<1>12. /\ StackOK(t) /\ Len(t) = n /\ \A k \in 1 .. Len(stack) : t[k] = stack[k]
       /\ t[n].value = lookahead
  BY <1>1, <1>3, <1>7, <1>11, Pushed
<1>13. KindsOK(heap, t) /\ ~ProgramRead(t)
  <2>1. Kind(heap, lookahead) \in SymbolKinds("NAME")
    BY <1>8, StartKinds
  <2> QED BY <2>1, <1>1, <1>3, <1>7, <1>11, PushedKinds DEF Standing
<1> HIDE DEF t
<1>14. p = Outside(t, 0, root)
  <2>1. \A k \in 1 .. Len(t) : p[k] = t[k].value
    <3> SUFFICES ASSUME NEW k \in 1 .. Len(t) PROVE p[k] = t[k].value
      OBVIOUS
    <3>1. k = n \/ (k \in 1 .. Len(stack) /\ k \in Int \ {0, n})
      BY <1>6, <1>12
    <3> QED BY <3>1, <1>3, <1>10, <1>12
  <2>2. \A i \in Int : i < -1 \/ i > Len(t) => p[i] = 0
    BY <1>3, <1>6, <1>10, <1>12
  <2>3. p[0] = 0 /\ p[-1] = root
    BY <1>3, <1>6, <1>10
  <2> QED BY <2>1, <2>2, <2>3, <1>10, <1>12, OutsideIs
<1>15. root = 0
  BY <1>1, <1>3, NothingFollows, NoGoto DEF Standing
<1>16. Standing(heap', stack', lookahead', root')
  BY <1>2, <1>9, <1>12, <1>13, <1>14, <1>15 DEF Standing, Kind
<1> QED BY <1>1, <1>2, <1>16, StandingIs DEF Parsing

\* A number has no value on the heap.
LEMMA ShiftNumStep ==
  ASSUME ParserIInv, ShiftNum
  PROVE  ParserIInv'
<1> DEFINE o == Outside(stack, lookahead, root)
           n == Len(stack) + 1
           t == Push(stack, "NUM", 0)
<1>1. /\ Standing(heap, stack, lookahead, root) /\ Parsing /\ lookahead = 0
      /\ Goto(Top(stack).state, "NUM") # {} /\ GoesOn(stack, "NUM")
  BY StandingIs DEF ShiftNum, Shift, GoesOn
<1>2. stack' = t /\ lookahead' = 0 /\ heap' = heap /\ root' = root /\ parsed' = parsed
  BY DEF ShiftNum, Shift
<1>3. /\ StackOK(stack) /\ Sound(heap, o) /\ o[0] = lookahead /\ o[-1] = root
      /\ \A k \in 1 .. Len(stack) : k \in Int /\ o[k] = stack[k].value
      /\ \A i \in Int : i < -1 \/ i > Len(stack) => o[i] = 0
  BY <1>1, OutsideAt DEF Standing
<1> HIDE DEF o
<1>4. o \in [Int -> Pointers] /\ Len(stack) \in Nat /\ n \in Int /\ n # 0 /\ o[n] = 0
  BY <1>3, SoundTypes, CellFacts
<1>5. "NUM" \in Symbols /\ "NUM" # "program" /\ 0 \in Pointers
  BY SymbolsAre, PointersAre
<1>6. /\ StackOK(t) /\ Len(t) = n /\ \A k \in 1 .. Len(stack) : t[k] = stack[k]
      /\ t[n].value = 0
  BY <1>1, <1>3, <1>5, Pushed
<1>7. KindsOK(heap, t) /\ ~ProgramRead(t)
  <2>1. Kind(heap, 0) \in SymbolKinds("NUM")
    BY StartKinds DEF Kind
  <2> QED BY <2>1, <1>1, <1>3, <1>5, PushedKinds DEF Standing
<1> HIDE DEF t
<1>8. o = Outside(t, 0, root)
  <2>1. \A k \in 1 .. Len(t) : o[k] = t[k].value
    <3> SUFFICES ASSUME NEW k \in 1 .. Len(t) PROVE o[k] = t[k].value
      OBVIOUS
    <3>1. k = n \/ (k \in 1 .. Len(stack) /\ k \in Int \ {0, n})
      BY <1>4, <1>6
    <3> QED BY <3>1, <1>3, <1>4, <1>6
  <2>2. \A i \in Int : i < -1 \/ i > Len(t) => o[i] = 0
    BY <1>3, <1>4, <1>6
  <2>3. o[0] = 0 /\ o[-1] = root
    BY <1>1, <1>3
  <2> QED BY <2>1, <2>2, <2>3, <1>4, <1>6, OutsideIs
<1>9. root = 0
  BY <1>1, <1>3, NothingFollows, NoGoto DEF Standing
<1>10. Standing(heap', stack', lookahead', root')
  BY <1>2, <1>3, <1>6, <1>7, <1>8, <1>9 DEF Standing, Kind
<1> QED BY <1>1, <1>2, <1>10, StandingIs DEF Parsing

\* What an action finds: its symbols on top of the stack, fresh addresses.
LEMMA ReductionReady ==
  ASSUME ParserIInv, NEW p \in Rules, Complete(p), Room
  PROVE  /\ Standing(heap, stack, lookahead, root) /\ Parsing /\ root = 0
         /\ Len(stack) \in Nat /\ Len(Rhs(p)) \in 0 .. 3 /\ Len(Rhs(p)) < Len(stack)
         /\ << p, 0 >> \in Closure(stack[Len(stack) - Len(Rhs(p))].state)
         /\ ReduceReady(Outside(stack, lookahead, root), Len(stack) - Len(Rhs(p)),
                        Productions[p], Args(p), Calloc)
<1> DEFINE o == Outside(stack, lookahead, root)
           n == Len(Rhs(p))
           B == Len(stack) - n
<1>1. Standing(heap, stack, lookahead, root) /\ Parsing
  BY StandingIs DEF Complete
<1>2. /\ StackOK(stack) /\ Sound(heap, o) /\ o[0] = lookahead /\ o[-1] = root
      /\ \A k \in 1 .. Len(stack) : k \in Int /\ o[k] = stack[k].value
      /\ \A i \in Int : i < -1 \/ i > Len(stack) => o[i] = 0
  BY <1>1, OutsideAt DEF Standing
<1>3. \A k \in 1 .. Len(stack) : KindAt(heap, o, k) = Kind(heap, stack[k].value)
  BY <1>2, KindOutside
<1> HIDE DEF o
<1>4. << p, n >> \in Closure(stack[Len(stack)].state)
  BY DEF Complete, Top
<1>5. /\ n < Len(stack) /\ << p, 0 >> \in Closure(stack[B].state)
      /\ \A k \in 1 .. n : stack[B + k].symbol = Rhs(p)[k]
  BY <1>2, <1>4, WholeBack
<1>6. Len(stack) \in Nat /\ n \in 0 .. 3 /\ DOMAIN Rhs(p) = 1 .. n /\ Rhs(p) = Productions[p].rhs
  BY <1>2, CellFacts, RhsFacts DEF Rhs
<1>7. root = 0
  <2>1. Closure(Top(stack).state) # {}
    BY <1>4 DEF Top
  <2>2. Closure({}) = {}
    BY <1>2, CellFacts, GotoFacts DEF StackOK
  <2> QED BY <1>1, <1>2, <2>1, <2>2, NothingFollows DEF Standing
<1>8. B \in Nat /\ B + n = Len(stack) /\ \A k \in 1 .. n : B + k \in 1 .. Len(stack)
  BY <1>5, <1>6
<1>9. Args(p) = [k \in 1 .. n |-> o[B + k]]
  BY <1>2, <1>6, <1>8 DEF Args
<1>10. \A k \in 1 .. n : KindAt(heap, o, B + k) \in SymbolKinds(Rhs(p)[k])
  BY <1>1, <1>3, <1>5, <1>8 DEF Standing, KindsOK
<1>11. /\ \A k \in 1 .. 4 : Calloc[k] \in Addresses \ DOMAIN heap
       /\ \A j, k \in 1 .. 4 : Calloc[j] = Calloc[k] => j = k
  BY CallocFacts
<1>12. \A i \in Int : i < -1 \/ i > B + n => o[i] = 0
  BY <1>2, <1>8
<1>13. ReduceReady(o, B, Productions[p], Args(p), Calloc)
  BY <1>2, <1>6, <1>8, <1>9, <1>10, <1>11, <1>12 DEF ReduceReady
<1> QED BY <1>1, <1>5, <1>6, <1>7, <1>13 DEF o

\* p is where the pointers are when n symbols have been popped and another has been pushed.
PlacesAfter(p, s, n, value, l, r) ==
  /\ p \in [Int -> Pointers] /\ p[0] = l /\ p[-1] = r
  /\ \A k \in 1 .. Len(s) - n : p[k] = s[k].value
  /\ p[Len(s) - n + 1] = value
  /\ \A i \in Int : i < -1 \/ i > Len(s) - n + 1 => p[i] = 0

\* There are n symbols to be popped, and the other one can be pushed.
CanReduce(s, n, symbol, value) ==
  /\ StackOK(s) /\ n \in Nat /\ n < Len(s)
  /\ symbol \in Symbols /\ value \in Pointers /\ GoesOn(Below(s, n), symbol)

\* The stack after a reduction, and the pointers that there are then.
LEMMA ReducedStack ==
  ASSUME NEW s, NEW n, NEW symbol, NEW value, CanReduce(s, n, symbol, value),
         NEW p, NEW l, NEW r, PlacesAfter(p, s, n, value, l, r)
  PROVE  /\ StackOK(Push(Below(s, n), symbol, value))
         /\ p = Outside(Push(Below(s, n), symbol, value), l, r)
<1> DEFINE b == Below(s, n)
           t == Push(b, symbol, value)
<1>1. StackOK(s) /\ n \in Nat /\ n < Len(s)
  BY DEF CanReduce
<1>2. StackOK(b) /\ Len(b) = Len(s) - n /\ \A k \in 1 .. Len(s) - n : b[k] = s[k]
  BY <1>1, Popped
<1>3. /\ StackOK(t) /\ Len(t) = Len(b) + 1 /\ \A k \in 1 .. Len(b) : t[k] = b[k]
      /\ t[Len(b) + 1].value = value
  <2>1. StackOK(b) /\ symbol \in Symbols /\ value \in Pointers /\ GoesOn(b, symbol)
    BY <1>2 DEF CanReduce
  <2> HIDE DEF b
  <2> QED BY <2>1, Pushed
<1> HIDE DEF b
<1> HIDE DEF t
<1>4. Len(s) \in Nat /\ Len(b) \in Nat
  BY <1>1, <1>2, CellFacts
<1>5. \A k \in 1 .. Len(t) : p[k] = t[k].value
  <2> SUFFICES ASSUME NEW k \in 1 .. Len(t) PROVE p[k] = t[k].value
    OBVIOUS
  <2>1. k = Len(b) + 1 \/ k \in 1 .. Len(b)
    BY <1>3, <1>4
  <2>2. p[Len(b) + 1] = value /\ \A j \in 1 .. Len(b) : p[j] = s[j].value
    BY <1>2 DEF PlacesAfter
  <2> QED BY <2>1, <2>2, <1>2, <1>3
<1>6. \A i \in Int : i < -1 \/ i > Len(t) => p[i] = 0
  BY <1>2, <1>3 DEF PlacesAfter
<1>7. p \in [Int -> Pointers] /\ p[0] = l /\ p[-1] = r
  BY DEF PlacesAfter
<1>8. p = Outside(t, l, r)
  BY <1>3, <1>5, <1>6, <1>7, OutsideIs
<1> QED BY <1>3, <1>8 DEF t, b

\* Every reduction: the action, and the stack with its result.
LEMMA ReduceStep ==
  ASSUME ParserIInv, NEW p \in Rules, Reduce(p)
  PROVE  ParserIInv'
<1> DEFINE o == Outside(stack, lookahead, root)
           n == Len(Rhs(p))
           B == Len(stack) - n
           rule == Productions[p]
           value == Result(rule, Args(p), Calloc)
           b == Below(stack, n)
           t == Push(b, Lhs(p), value)
<1>1. Complete(p) /\ p # 1 /\ Room
  BY DEF Reduce
<1>2. heap' = Acted(rule, Args(p), Calloc) /\ stack' = t
  BY DEF Reduce
<1>3. lookahead' = lookahead /\ root' = root /\ parsed' = parsed
  BY DEF Reduce
<1>4. /\ Standing(heap, stack, lookahead, root) /\ Parsing /\ root = 0
      /\ Len(stack) \in Nat /\ n \in 0 .. 3 /\ n < Len(stack)
      /\ << p, 0 >> \in Closure(stack[B].state)
      /\ ReduceReady(o, B, rule, Args(p), Calloc)
  BY <1>1, ReductionReady
<1>5. /\ StackOK(stack) /\ o[0] = lookahead /\ o[-1] = root
      /\ \A k \in 1 .. Len(stack) : k \in Int /\ o[k] = stack[k].value
  BY <1>4, OutsideAt DEF Standing
<1>6. /\ \A k \in 1 .. Len(stack) : KindAt(heap, o, k) = Kind(heap, stack[k].value)
      /\ KindAt(heap, o, 0) = Kind(heap, lookahead)
  BY <1>5, KindOutside
<1> HIDE DEF o
<1>7. ActFits(o, B, rule, Args(p), Calloc)
  <2>1. OneOfThem(rule)
    BY <1>1, RuleCases
  <2> QED BY <2>1, <1>4, EveryAct
<1>8. PICK q : Reduced(heap', q, o, B, SymbolKinds(Lhs(p)), value)
  <2>1. rule.lhs = Lhs(p)
    BY DEF Lhs
  <2> QED BY <2>1, <1>2, <1>7 DEF ActFits
<1> HIDE DEF value
<1>9. B \in Nat /\ B >= 1 /\ n \in Nat /\ B \in 1 .. Len(stack)
  BY <1>4
<1>10. /\ Sound(heap', q)
       /\ \A i \in Int : -2 < i /\ i <= B => q[i] = o[i] /\ KindAt(heap', q, i) = KindAt(heap, o, i)
       /\ q[B + 1] = value /\ KindAt(heap', q, B + 1) \in SymbolKinds(Lhs(p))
       /\ \A i \in Int : i < -1 \/ i > B + 1 => q[i] = 0
  BY <1>8 DEF Reduced
<1>11. q \in [Int -> Pointers] /\ value \in Pointers
  <2>1. q \in [Int -> Pointers] /\ B + 1 \in Int
    BY <1>9, <1>10, SoundTypes
  <2> QED BY <2>1, <1>10
<1>12. Lhs(p) \in Symbols /\ Lhs(p) # "program"
  BY <1>1, RhsFacts
<1>13. StackOK(b) /\ Len(b) = B /\ \A k \in 1 .. B : b[k] = stack[k]
  BY <1>4, <1>5, <1>9, Popped
<1>14. GoesOn(b, Lhs(p))
  <2>1. Goto(stack[B].state, Lhs(p)) # {}
    BY <1>1, <1>4, <1>5, <1>9, StateToGo
  <2>2. Top(b) = stack[B]
    BY <1>9, <1>13 DEF Top
  <2> QED BY <2>1, <2>2 DEF GoesOn
<1>15. StackOK(t) /\ q = Outside(t, lookahead, root)
  <2>1. \A k \in 1 .. B : q[k] = stack[k].value
    <3> SUFFICES ASSUME NEW k \in 1 .. B PROVE q[k] = stack[k].value
      OBVIOUS
    <3>1. k \in Int /\ -2 < k /\ k <= B /\ k \in 1 .. Len(stack)
      BY <1>4, <1>9
    <3> QED BY <3>1, <1>5, <1>10
  <2>2. q[0] = lookahead /\ q[-1] = root
    BY <1>5, <1>9, <1>10
  <2>3. PlacesAfter(q, stack, n, value, lookahead, root)
    BY <2>1, <2>2, <1>10, <1>11 DEF PlacesAfter
  <2>4. CanReduce(stack, n, Lhs(p), value)
    BY <1>4, <1>5, <1>9, <1>11, <1>12, <1>14 DEF CanReduce
  <2> QED BY <2>3, <2>4, ReducedStack
<1>16. KindsOK(heap', t) /\ ~ProgramRead(t)
  <2>1. KindsOK(heap, b)
    <3>1. \A k \in 1 .. B : k \in 1 .. Len(stack)
      BY <1>4, <1>9
    <3> QED BY <3>1, <1>4, <1>13 DEF Standing, KindsOK
  <2>2. \A k \in 1 .. Len(t) : KindAt(heap', q, k) = Kind(heap', t[k].value)
    BY <1>15, KindOutside
  <2>3. \A k \in 1 .. Len(b) : Kind(heap', b[k].value) = Kind(heap, b[k].value)
    <3> SUFFICES ASSUME NEW k \in 1 .. B PROVE Kind(heap', b[k].value) = Kind(heap, b[k].value)
      BY <1>13
    <3>1. k \in Int /\ -2 < k /\ k <= B /\ k \in 1 .. Len(stack)
      BY <1>4, <1>9
    <3>2. KindAt(heap', q, k) = KindAt(heap, o, k) /\ q[k] = o[k]
      BY <3>1, <1>10
    <3>3. KindAt(heap', q, k) = Kind(heap', b[k].value)
      BY <3>1, <3>2, <1>5, <1>13 DEF KindAt
    <3> QED BY <3>1, <3>2, <3>3, <1>6, <1>13
  <2>4. Kind(heap', value) \in SymbolKinds(Lhs(p))
    BY <1>10 DEF KindAt
  <2> QED BY <2>1, <2>3, <2>4, <1>11, <1>12, <1>13, <1>14, PushedKinds
<1>17. Kind(heap', lookahead) \in {"name", "NULL"}
  <2>1. KindAt(heap', q, 0) = KindAt(heap, o, 0) /\ q[0] = o[0]
    BY <1>9, <1>10
  <2>2. KindAt(heap', q, 0) = Kind(heap', lookahead)
    BY <2>1, <1>5 DEF KindAt
  <2> QED BY <2>1, <2>2, <1>4, <1>6 DEF Standing
<1> HIDE DEF t
<1>18. Sound(heap', Outside(t, lookahead, root))
  BY <1>10, <1>15
<1>19. Standing(heap', stack', lookahead', root')
  BY <1>2, <1>3, <1>4, <1>15, <1>16, <1>17, <1>18 DEF Standing
<1> QED BY <1>3, <1>4, <1>19, StandingIs DEF Parsing

(***************************************************************************)
(* The action of the start symbol: its node is $$ to begin with, and then  *)
(* root, which was NULL.                                                   *)
(***************************************************************************)
LEMMA ReduceProgramStep ==
  ASSUME ParserIInv, ReduceProgram
  PROVE  ParserIInv'
<1> DEFINE o == Outside(stack, lookahead, root)
           rule == Productions[1]
           value == Result(rule, Args(1), Calloc)
           b == Below(stack, 3)
           t == Push(b, "program", 0)
<1>1. Complete(1) /\ Room
  BY DEF ReduceProgram
<1>2. heap' = Acted(rule, Args(1), Calloc) /\ stack' = t /\ root' = value
  BY DEF ReduceProgram
<1>3. lookahead' = lookahead /\ parsed' = parsed
  BY DEF ReduceProgram
<1>4. 1 \in Rules /\ Rhs(1) = <<"printDec", "readDec", "funcDec">> /\ Len(Rhs(1)) = 3
      /\ Lhs(1) = "program" /\ "program" \in Symbols
      /\ IsRule(rule, <<"printDec", "readDec", "funcDec">>, "prog")
  <2>1. 1 \in Rules /\ "program" \in Symbols
    BY RulesAre, SymbolsAre
  <2>2. rule = Rule("program", <<"printDec", "readDec", "funcDec">>, "prog")
    BY FirstRule
  <2> QED BY <2>1, <2>2 DEF Rhs, Lhs, Rule, IsRule
<1>5. /\ Standing(heap, stack, lookahead, root) /\ Parsing /\ root = 0
      /\ Len(stack) \in Nat /\ 3 < Len(stack)
      /\ << 1, 0 >> \in Closure(stack[Len(stack) - 3].state)
      /\ ReduceReady(o, Len(stack) - 3, rule, Args(1), Calloc)
  BY <1>1, <1>4, ReductionReady
<1>6. /\ StackOK(stack) /\ o[0] = lookahead /\ o[-1] = 0
      /\ \A k \in 1 .. Len(stack) : k \in Int /\ o[k] = stack[k].value
  BY <1>5, OutsideAt DEF Standing
<1>7. KindAt(heap, o, 0) = Kind(heap, lookahead)
  BY <1>6, KindOutside
<1> HIDE DEF o
<1>8. Len(stack) = 4
  <2>1. Len(stack) - 3 \in 1 .. Len(stack)
    BY <1>5
  <2>2. Len(stack) - 3 = 1
    BY <2>1, <1>4, <1>5, <1>6, StateToGo
  <2> QED BY <2>2, <1>5
<1>9. ReduceReady(o, 1, rule, Args(1), Calloc)
  <2>1. Len(stack) - 3 = 1
    BY <1>8
  <2> QED BY <2>1, <1>5
<1>10. PICK q : Reduced(heap', q, o, 1, {"prog"}, value)
  <2>1. \E q : Reduced(Acted(rule, Args(1), Calloc), q, o, 1, {"prog"}, value)
    BY <1>4, <1>9, ActTernary
  <2> QED BY <2>1, <1>2
<1> HIDE DEF value
<1>11. /\ Sound(heap', q)
       /\ q[0] = o[0] /\ q[-1] = o[-1] /\ q[1] = o[1]
       /\ KindAt(heap', q, 0) = KindAt(heap, o, 0)
       /\ q[2] = value /\ KindAt(heap', q, 2) = "prog"
       /\ \A i \in Int : i < -1 \/ i > 2 => q[i] = 0
  BY <1>10 DEF Reduced
<1>12. /\ q \in [Int -> Pointers] /\ q[2] # 0
       /\ o[1] = 0 /\ q[1] = 0 /\ q[-1] = 0 /\ q[0] = lookahead
  <2>1. q \in [Int -> Pointers] /\ q[2] # 0
    BY <1>11, SoundTypes
  <2>2. stack[1].value = 0 /\ 1 \in 1 .. Len(stack)
    BY <1>6, <1>8 DEF StackOK
  <2> QED BY <2>1, <2>2, <1>6, <1>11
<1> DEFINE p == Put(Put(q, -1, q[2]), 2, 0)
<1>13. Sound(heap', p)
  BY <1>11, <1>12, Moved
<1>14. /\ p \in [Int -> Pointers] /\ p[-1] = value /\ p[2] = 0
       /\ \A i \in Int \ {-1, 2} : p[i] = q[i]
  <2>1. /\ Put(q, -1, q[2]) \in [Int -> Pointers] /\ Put(q, -1, q[2])[-1] = q[2]
        /\ \A k \in Int \ {-1} : Put(q, -1, q[2])[k] = q[k]
    <3>1. -1 \in Int /\ q[2] \in Pointers
      BY <1>12
    <3> QED BY <3>1, <1>12, PutFacts
  <2>2. 0 \in Pointers /\ 2 \in Int
    BY PointersAre
  <2> QED BY <2>1, <2>2, <1>11, PutFacts
<1> HIDE DEF p
<1>15. StackOK(b) /\ Len(b) = 1 /\ GoesOn(b, "program")
  <2>2. 3 \in Nat /\ 3 < Len(stack)
    BY <1>8
  <2>1. StackOK(b) /\ Len(b) = Len(stack) - 3
    BY <2>2, <1>6, Popped
  <2> QED BY <2>1, <1>8 DEF GoesOn
<1>16. 0 \in Pointers
  BY PointersAre
<1>17. StackOK(t) /\ p = Outside(t, lookahead, value)
  <2>1. p[0] = lookahead /\ p[-1] = value
    BY <1>12, <1>14
  <2>2. \A k \in 1 .. Len(stack) - 3 : p[k] = stack[k].value
    <3> SUFFICES p[1] = stack[1].value
      BY <1>8
    <3> QED BY <1>6, <1>8, <1>12, <1>14
  <2>3. p[Len(stack) - 3 + 1] = 0
    BY <1>8, <1>14
  <2>4. \A i \in Int : i < -1 \/ i > Len(stack) - 3 + 1 => p[i] = 0
    BY <1>8, <1>11, <1>14
  <2>5. 3 \in Nat /\ 3 < Len(stack)
    BY <1>8
  <2>6. PlacesAfter(p, stack, 3, 0, lookahead, value)
    BY <2>1, <2>2, <2>3, <2>4, <1>14 DEF PlacesAfter
  <2>7. CanReduce(stack, 3, "program", 0)
    BY <2>5, <1>4, <1>6, <1>15, <1>16 DEF CanReduce
  <2> QED BY <2>6, <2>7, ReducedStack
<1>18. /\ Len(t) = 2 /\ t[1] = b[1] /\ t[2].symbol = "program" /\ t[2].value = 0
  <2>1. /\ Len(t) = Len(b) + 1 /\ \A k \in 1 .. Len(b) : t[k] = b[k]
        /\ t[Len(b) + 1].symbol = "program" /\ t[Len(b) + 1].value = 0
    BY <1>4, <1>15, <1>16, Pushed
  <2> HIDE DEF t, b
  <2>2. Len(b) = 1
    BY <1>15
  <2> QED BY <2>1, <2>2
<1> HIDE DEF t
<1>19. KindsOK(heap', t) /\ ProgramRead(t)
  <2>1. t[1].symbol = "start" /\ t[1].value = 0
    BY <1>17 DEF StackOK
  <2>2. \A k \in 1 .. Len(t) : k = 1 \/ k = 2
    BY <1>18
  <2>3. Kind(heap', 0) = "NULL"
    BY DEF Kind
  <2> QED BY <2>1, <2>2, <2>3, <1>18, StartKinds DEF KindsOK, ProgramRead
<1>20. Kind(heap', lookahead) \in {"name", "NULL"}
  <2>1. KindAt(heap', q, 0) = Kind(heap', lookahead)
    BY <1>12 DEF KindAt
  <2> QED BY <2>1, <1>5, <1>7, <1>11 DEF Standing
<1>21. value # 0 /\ Sound(heap', Outside(t, lookahead, value))
  BY <1>11, <1>12, <1>13, <1>17
<1>22. Standing(heap', stack', lookahead', root')
  BY <1>2, <1>3, <1>17, <1>19, <1>20, <1>21 DEF Standing
<1> QED BY <1>3, <1>5, <1>22, StandingIs DEF Parsing

\* The pointers when the stack is gone.
Alone(l, r) == Outside(<<>>, l, r)

\* Only the lookahead and root point to anything.
LEMMA AloneAt ==
  ASSUME NEW l \in Pointers, NEW r \in Pointers
  PROVE  /\ Alone(l, r) \in [Int -> Pointers]
         /\ Alone(l, r)[0] = l /\ Alone(l, r)[-1] = r
         /\ \A i \in Int : i # 0 /\ i # -1 => Alone(l, r)[i] = 0
BY PointersAre DEF Alone, Outside

\* With nothing allocated there is nothing to own.
LEMMA NothingLeft ==
  ASSUME NEW h, DOMAIN h = {}, h = [a \in DOMAIN h |-> h[a]]
  PROVE  Sound(h, Alone(0, 0))
<1> DEFINE o == Alone(0, 0)
<1>1. o \in [Int -> Pointers] /\ \A i \in Int : o[i] = 0
  BY PointersAre, AloneAt
<1> HIDE DEF o
<1>2. HeapTypes(h, o)
  BY <1>1 DEF HeapTypes
<1>3. OnceOutside(o) /\ OnceEither(h, o) /\ OnceInside(h) /\ There(h, o) /\ Held(h, o) /\ Fitting(h)
  BY <1>1 DEF OnceOutside, OnceEither, OnceInside, There, Held, Fitting
<1>4. Acyclic(h)
  <2> DEFINE rank == [a \in DOMAIN h |-> 0]
  <2>1. rank \in [DOMAIN h -> 0 .. 0] /\ 0 \in Nat
    OBVIOUS
  <2>2. Ranked(h, rank)
    BY DEF Ranked
  <2> QED BY <2>1, <2>2 DEF Acyclic
<1> QED BY <1>2, <1>3, <1>4 DEF Sound, o

\* Once the program has been read, its stack holds nothing.
LEMMA ReadHoldsNothing ==
  ASSUME NEW h, NEW s, NEW l, NEW r, Standing(h, s, l, r), ProgramRead(s)
  PROVE  /\ Outside(s, l, r) = Alone(l, r) /\ l \in Pointers /\ r \in Pointers
         /\ {k \in DOMAIN s : s[k].symbol \in Typed} = {}
<1>1. /\ StackOK(s) /\ Outside(s, l, r)[0] = l /\ Outside(s, l, r)[-1] = r
      /\ \A k \in 1 .. Len(s) : k \in Int /\ Outside(s, l, r)[k] = s[k].value
      /\ \A i \in Int : i < -1 \/ i > Len(s) => Outside(s, l, r)[i] = 0
  BY OutsideAt DEF Standing
<1>2. \A k \in 1 .. Len(s) : KindAt(h, Outside(s, l, r), k) = Kind(h, s[k].value)
  BY <1>1, KindOutside
<1> DEFINE o == Outside(s, l, r)
<1>3. Sound(h, o)
  BY DEF Standing
<1> HIDE DEF o
<1>4. o \in [Int -> Pointers] /\ \A i \in Int : KindAt(h, o, i) = "NULL" => o[i] = 0
  BY <1>3, SoundTypes
<1>5. l \in Pointers /\ r \in Pointers
  <2>1. o[0] \in Pointers /\ o[-1] \in Pointers
    BY <1>4
  <2> QED BY <2>1, <1>1 DEF o
<1>6. Len(s) = 2 /\ s[2].symbol = "program" /\ DOMAIN s = 1 .. 2
  BY <1>1, CellFacts DEF ProgramRead
<1>7. s[1].symbol = "start" /\ s[1].value = 0
  BY <1>1 DEF StackOK
<1>8. s[2].value = 0
  <2>1. Kind(h, s[2].value) \in SymbolKinds(s[2].symbol)
    BY <1>6 DEF Standing, KindsOK
  <2>2. KindAt(h, o, 2) = "NULL" /\ o[2] = s[2].value
    BY <2>1, <1>1, <1>2, <1>6, StartKinds DEF o
  <2> QED BY <2>2, <1>4
<1>9. \A i \in Int : o[i] = Alone(l, r)[i]
  <2>1. \A i \in Int : i # 0 /\ i # -1 => o[i] = 0
    <3> SUFFICES ASSUME NEW i \in Int, i # 0, i # -1 PROVE o[i] = 0
      OBVIOUS
    <3>1. i = 1 \/ i = 2 \/ i < -1 \/ i > Len(s)
      BY <1>6
    <3> QED BY <3>1, <1>1, <1>6, <1>7, <1>8 DEF o
  <2>2. o[0] = l /\ o[-1] = r
    BY <1>1 DEF o
  <2>3. /\ Alone(l, r)[0] = l /\ Alone(l, r)[-1] = r
        /\ \A i \in Int : i # 0 /\ i # -1 => Alone(l, r)[i] = 0
    BY <1>5, AloneAt
  <2> QED BY <2>1, <2>2, <2>3
<1>10. o = Alone(l, r)
  <2>1. Alone(l, r) \in [Int -> Pointers]
    BY <1>5, AloneAt
  <2> QED BY <2>1, <1>4, <1>9
<1>11. "start" \notin Typed /\ "program" \notin Typed
  BY SymbolsAre DEF Typed
<1> QED BY <1>5, <1>6, <1>7, <1>10, <1>11 DEF o

\* When the input is accepted the stack holds nothing.
LEMMA AcceptStep ==
  ASSUME ParserIInv, AcceptInput
  PROVE  ParserIInv'
<1>1. Standing(heap, stack, lookahead, root) /\ Top(stack).symbol = "program" /\ lookahead = 0
  BY StandingIs DEF AcceptInput
<1>2. StackOK(stack) /\ stack[1].symbol = "start" /\ Len(stack) \in Nat /\ Len(stack) > 0
  BY <1>1, CellFacts DEF Standing, StackOK
<1>3. ProgramRead(stack)
  <2>1. Len(stack) \in 2 .. Len(stack) /\ Len(stack) - 1 \in 1 .. Len(stack)
    BY <1>1, <1>2 DEF Top
  <2>2. /\ stack[Len(stack)].state = Goto(stack[Len(stack) - 1].state, "program")
        /\ \/ stack[Len(stack)].state # {}
           \/ Len(stack) = 2
    BY <2>1, <1>1, <1>2 DEF StackOK, Top
  <2>3. stack[Len(stack) - 1].state \in SUBSET Items
    BY <2>1, <1>2, CellFacts
  <2>4. stack[Len(stack)].state = {}
    BY <2>2, <2>3, GotoFacts
  <2> QED BY <2>2, <2>4, <1>1 DEF ProgramRead, Top
<1>4. stack' = <<>> /\ lookahead' = 0 /\ heap' = heap /\ root' = root /\ parsed' = "accepted"
  BY <1>1 DEF AcceptInput
<1>5. Sound(heap', Outside(stack', lookahead', root'))
  BY <1>1, <1>3, <1>4, ReadHoldsNothing DEF Standing, Alone
<1> QED BY <1>4, <1>5 DEF ParserIInv, Parsing, Kind

\* After an error nothing is left, or the tree alone if the program had already been read.
LEMMA GiveUpStep ==
  ASSUME ParserIInv, GiveUp
  PROVE  ParserIInv'
<1> DEFINE o == Outside(stack, lookahead, root)
           typed == {k \in DOMAIN stack : stack[k].symbol \in Typed}
           popped == {stack[k].value : k \in typed}
           roots == (popped \cup {lookahead}) \ {0, root}
<1>1. Standing(heap, stack, lookahead, root) /\ Sound(heap, o)
  BY StandingIs DEF GiveUp, Standing
<1>2. /\ stack' = <<>> /\ lookahead' = 0 /\ root' = root /\ parsed' = "failed"
      /\ heap' = Without(FreedWith(roots))
  BY DEF GiveUp
<1>3. /\ StackOK(stack) /\ o[0] = lookahead /\ o[-1] = root
      /\ \A k \in 1 .. Len(stack) : k \in Int /\ o[k] = stack[k].value
      /\ \A i \in Int : i < -1 \/ i > Len(stack) => o[i] = 0
  BY <1>1, OutsideAt DEF Standing
<1>4. \A k \in 1 .. Len(stack) : KindAt(heap, o, k) = Kind(heap, stack[k].value)
  BY <1>3, KindOutside
<1>5. KindAt(heap, o, 0) = Kind(heap, lookahead)
  BY <1>3, KindOutside
<1>6. /\ o \in [Int -> Pointers]
      /\ \A i \in Int : o[i] # 0 => o[i] \in DOMAIN heap
      /\ \A i, j \in Int : o[i] = o[j] /\ o[i] # 0 => i = j
      /\ \A i \in Int : KindAt(heap, o, i) = "NULL" => o[i] = 0
  BY <1>1, SoundTypes
<1>7. Sound(heap', Alone(0, root))
  <2>1. CASE root = 0
    <3>1. ASSUME NEW i \in Int, o[i] # 0 PROVE o[i] \in roots
      <4>1. i = 0 \/ i \in 1 .. Len(stack)
        BY <3>1, <2>1, <1>3, CellFacts
      <4>2. CASE i = 0
        BY <4>2, <3>1, <2>1, <1>3
      <4>3. CASE i \in 1 .. Len(stack)
        <5>1. o[i] = stack[i].value /\ i \in DOMAIN stack
          BY <4>3, <1>3, CellFacts
        <5>2. stack[i].symbol \in Symbols \cup {"start"}
          BY <4>3, <1>3, CellFacts
        <5>3. Kind(heap, stack[i].value) \in SymbolKinds(stack[i].symbol)
          BY <4>3, <1>1 DEF Standing, KindsOK
        <5>4. Kind(heap, stack[i].value) # "NULL"
          BY <3>1, <4>3, <1>4, <1>6
        <5>5. stack[i].symbol \notin {"start", "program", "NUM"}
          BY <5>3, <5>4, StartKinds
        <5>6. i \in typed
          BY <5>1, <5>2, <5>5 DEF Typed
        <5> QED BY <5>1, <5>6, <3>1, <2>1
      <4> QED BY <4>1, <4>2, <4>3
    <3>2. roots \in SUBSET DOMAIN heap
      <4> SUFFICES ASSUME NEW a \in roots PROVE a \in DOMAIN heap
        OBVIOUS
      <4>1. a # 0
        OBVIOUS
      <4>2. a = lookahead \/ \E k \in DOMAIN stack : a = stack[k].value
        OBVIOUS
      <4>3. DOMAIN stack = 1 .. Len(stack)
        BY <1>3, CellFacts
      <4>4. \E i \in Int : o[i] = a
        BY <4>2, <4>3, <1>3
      <4> QED BY <4>1, <4>4, <1>6
    <3> HIDE DEF roots, o
    <3>3. DOMAIN heap \subseteq FreedWith(roots)
      BY <3>1, <3>2, <1>1, AllFreed
    <3>4. DOMAIN heap' = {} /\ heap' = [a \in DOMAIN heap' |-> heap'[a]]
      BY <3>3, <1>2 DEF Without
    <3> QED BY <3>4, <2>1, NothingLeft
  <2>2. CASE root # 0
    <3>1. ProgramRead(stack)
      BY <2>2, <1>1 DEF Standing
    <3>2. o = Alone(lookahead, root) /\ typed = {} /\ lookahead \in Pointers /\ root \in Pointers
      BY <3>1, <1>1, ReadHoldsNothing
    <3>3. lookahead = 0 \/ lookahead # root
      <4>1. -1 \in Int /\ 0 \in Int
        OBVIOUS
      <4> QED BY <4>1, <1>3, <1>6, <2>2
    <3>4. CASE lookahead = 0
      <4>1. roots = {}
        BY <3>2, <3>4
      <4>2. FreedWith(roots) = {}
        BY <4>1 DEF FreedWith
      <4>3. heap' = heap
        BY <4>2, <1>1, <1>2, WithoutNone
      <4> QED BY <4>3, <3>2, <3>4, <1>1
    <3>5. CASE lookahead # 0
      <4>1. roots = {lookahead}
        BY <3>2, <3>3, <3>5
      <4>2. Kind(heap, lookahead) = "name"
        BY <3>5, <1>1, <1>3, <1>5, <1>6 DEF Standing
      <4>3. heap[lookahead].kind = "name" /\ lookahead \in DOMAIN heap
        BY <4>2, <3>5, <1>3, <1>6 DEF Kind
      <4>4. FreedWith(roots) = {lookahead}
        BY <4>1, <4>3, <1>1, NameFreedAlone
      <4>5. heap' = Minus(heap, lookahead)
        BY <4>4, <1>2, WithoutSome
      <4>6. Sound(Minus(heap, o[0]), Put(o, 0, 0))
        <5>1. 0 \in Int /\ KindAt(heap, o, 0) = "name"
          BY <4>2, <1>5
        <5> HIDE DEF o
        <5> QED BY <5>1, <1>1, NameFreed
      <4>7. Put(o, 0, 0) = Alone(0, root)
        <5> HIDE DEF o
        <5>1. 0 \in Pointers /\ 0 \in Int
          BY PointersAre
        <5>2. /\ Put(o, 0, 0) \in [Int -> Pointers] /\ Put(o, 0, 0)[0] = 0
              /\ \A j \in Int \ {0} : Put(o, 0, 0)[j] = o[j]
          BY <5>1, <1>6, PutFacts
        <5>3. /\ Alone(0, root) \in [Int -> Pointers]
              /\ Alone(0, root)[0] = 0 /\ Alone(0, root)[-1] = root
              /\ \A i \in Int : i # 0 /\ i # -1 => Alone(0, root)[i] = 0
          BY <5>1, <3>2, AloneAt
        <5>4. /\ o[-1] = root
              /\ \A i \in Int : i # 0 /\ i # -1 => o[i] = 0
          <6>1. /\ Alone(lookahead, root)[-1] = root
                /\ \A i \in Int : i # 0 /\ i # -1 => Alone(lookahead, root)[i] = 0
            BY <3>2, AloneAt
          <6> QED BY <6>1, <3>2
        <5> QED BY <5>2, <5>3, <5>4
      <4> QED BY <4>5, <4>6, <4>7, <1>3
    <3> QED BY <3>4, <3>5
  <2> QED BY <2>1, <2>2
<1> HIDE DEF roots
<1>8. Sound(heap', Outside(stack', lookahead', root'))
  BY <1>2, <1>7 DEF Alone
<1> QED BY <1>2, <1>8 DEF ParserIInv, Parsing, Kind

\* To begin with nothing is allocated.
LEMMA ParserStarts == ParserInit => ParserIInv
<1> SUFFICES ASSUME ParserInit PROVE ParserIInv
  OBVIOUS
<1>1. /\ stack = << [state |-> {<< 1, 0 >>}, symbol |-> "start", value |-> 0] >>
      /\ lookahead = 0 /\ root = 0 /\ parsed = "no" /\ heap = [a \in {} |-> 0]
  BY DEF ParserInit
<1>2. Len(stack) = 1 /\ stack[1] = [state |-> {<< 1, 0 >>}, symbol |-> "start", value |-> 0]
  BY <1>1
<1>3. StackOK(stack)
  <2>1. << 1, 0 >> \in Items
    BY RulesAre, RhsFacts DEF Items
  <2>2. stack[1] \in Cell
    BY <2>1, <1>2, PointersAre DEF Cell
  <2>3. stack \in Seq(Cell)
    BY <2>2, <1>1, <1>2
  <2>4. 2 .. Len(stack) = {}
    BY <1>2
  <2> QED BY <2>3, <2>4, <1>2 DEF StackOK
<1>4. KindsOK(heap, stack) /\ ~ProgramRead(stack)
  BY <1>1, <1>2, StartKinds DEF KindsOK, ProgramRead, Kind
<1>5. Sound(heap, Alone(0, 0))
  <2>1. DOMAIN heap = {} /\ heap = [a \in DOMAIN heap |-> heap[a]]
    BY <1>1
  <2> QED BY <2>1, NothingLeft
<1>6. Outside(stack, 0, 0) = Alone(0, 0)
  <2>1. Outside(stack, 0, 0)[0] = 0 /\ Outside(stack, 0, 0)[-1] = 0
    BY DEF Outside
  <2>2. \A i \in Int : i \in DOMAIN stack => i = 1
    BY <1>1
  <2>3. \A i \in Int : Outside(stack, 0, 0)[i] = 0
    BY <2>2, <1>2 DEF Outside
  <2>4. \A i \in Int : Alone(0, 0)[i] = 0
    BY PointersAre, AloneAt
  <2>5. /\ Outside(stack, 0, 0) = [i \in Int |-> Outside(stack, 0, 0)[i]]
        /\ Alone(0, 0) = [i \in Int |-> Alone(0, 0)[i]]
    BY DEF Outside, Alone
  <2> QED BY <2>3, <2>4, <2>5
<1> QED BY <1>1, <1>3, <1>4, <1>5, <1>6 DEF ParserIInv, Parsing, Kind

\* Every step of the parser.
LEMMA ParseStep ==
  ASSUME ParserIInv, Parse
  PROVE  ParserIInv'
<1>1. CASE ScanName
  BY <1>1, ScanStep
<1>2. CASE ShiftName
  BY <1>2, ShiftNameStep
<1>3. CASE ShiftNum
  BY <1>3, ShiftNumStep
<1>4. CASE \E p \in Rules : Reduce(p)
  BY <1>4, ReduceStep
<1>5. CASE ReduceProgram
  BY <1>5, ReduceProgramStep
<1>6. CASE AcceptInput
  BY <1>6, AcceptStep
<1>7. CASE GiveUp
  BY <1>7, GiveUpStep
<1> QED BY <1>1, <1>2, <1>3, <1>4, <1>5, <1>6, <1>7 DEF Parse

\* And every step of others.
LEMMA ParserStays == ParserIInv /\ UNCHANGED parservars => ParserIInv'
BY DEF ParserIInv, parservars, Parsing

\* The invariant holds.
LEMMA ParserInductive == ParserSpec => []ParserIInv
<1>1. ParserIInv /\ [ParserNext]_parservars => ParserIInv'
  BY ParseStep, ParserStays DEF ParserNext, ParserDone
<1> QED BY <1>1, ParserStarts, PTL DEF ParserSpec

\* What the invariant says of the types.
LEMMA ParserTypes == ParserIInv => ParserTypeOK
<1> SUFFICES ASSUME ParserIInv PROVE ParserTypeOK
  OBVIOUS
<1> DEFINE o == Outside(stack, lookahead, root)
<1>1. Sound(heap, o) /\ parsed \in {"no", "accepted", "failed"}
  BY DEF ParserIInv
<1>2. o[0] = lookahead /\ o[-1] = root
  BY DEF Outside
<1> HIDE DEF o
<1>3. lookahead \in Pointers /\ root \in Pointers
  <2>1. o[0] \in Pointers /\ o[-1] \in Pointers
    BY <1>1, SoundTypes
  <2> QED BY <2>1, <1>2
<1>4. DOMAIN heap \subseteq Addresses /\ \A a \in DOMAIN heap : heap[a].refs \in Seq(Pointers)
  BY <1>1 DEF Sound, HeapTypes
<1>5. ASSUME NEW k \in DOMAIN stack
      PROVE  /\ stack[k].state # {} \/ stack[k].symbol = "program"
             /\ \A item \in stack[k].state : item[1] \in Rules /\ item[2] \in 0 .. Len(Rhs(item[1]))
             /\ stack[k].symbol \in Symbols \cup {"start"} /\ stack[k].value \in Pointers
  <2>1. StackOK(stack)
    BY DEF ParserIInv
  <2>2. k \in 1 .. Len(stack) /\ Len(stack) \in Nat
    BY <2>1, CellFacts
  <2>3. /\ stack[k].state \in SUBSET Items /\ stack[k].value \in Pointers
        /\ stack[k].symbol \in Symbols \cup {"start"}
    BY <2>1, <2>2, CellFacts
  <2>4. \A item \in Items : item[1] \in Rules /\ item[2] \in 0 .. Len(Rhs(item[1]))
    <3> SUFFICES ASSUME NEW item \in Items
                 PROVE  item[1] \in Rules /\ item[2] \in 0 .. Len(Rhs(item[1]))
      OBVIOUS
    <3>1. item[1] \in Rules /\ item[2] \in 0 .. 3 /\ item[2] <= Len(Rhs(item[1]))
      BY DEF Items
    <3>2. Len(Rhs(item[1])) \in 0 .. 3
      BY <3>1, RhsFacts
    <3> QED BY <3>1, <3>2
  <2>5. stack[k].state # {} \/ stack[k].symbol = "program"
    <3>1. CASE k = 1
      <4>1. stack[k].state = {<< 1, 0 >>}
        BY <3>1, <2>1 DEF StackOK
      <4> QED BY <4>1
    <3>2. CASE k # 1
      <4>1. k \in 2 .. Len(stack)
        BY <3>2, <2>2
      <4> QED BY <4>1, <2>1 DEF StackOK
    <3> QED BY <3>1, <3>2
  <2> QED BY <2>3, <2>4, <2>5
<1> QED BY <1>1, <1>3, <1>4, <1>5 DEF ParserTypeOK

\* Whatever is sound is owned once and well shaped.
LEMMA ParserOwns == ParserIInv => OwnedOnce /\ Shaped
<1> SUFFICES ASSUME ParserIInv PROVE OwnedOnce /\ Shaped
  OBVIOUS
<1>1. DOMAIN stack \subseteq Nat \ {0}
  <2>1. CASE Parsing
    BY <2>1, CellFacts DEF ParserIInv
  <2>2. CASE ~Parsing
    BY <2>2 DEF ParserIInv
  <2> QED BY <2>1, <2>2
<1>2. OwnedOnce
  BY <1>1, OwnedFrom DEF ParserIInv
<1>3. Shaped
  BY ShapedFrom DEF ParserIInv, Sound
<1> QED BY <1>2, <1>3

(***************************************************************************)
(* yyparse (parser.y) keeps its types, however long the input is: in       *)
(* particular Bison has a state to go to after every reduction, whichever  *)
(* tokens it has read so far, and every symbol that is popped for a        *)
(* reduction is there.                                                     *)
(***************************************************************************)
THEOREM ParserTypeOKTheorem == ParserSpec => []ParserTypeOK
BY ParserInductive, ParserTypes, PTL

(***************************************************************************)
(* Whatever the parser has allocated and not yet freed is owned once:      *)
(* after every action (parser.y, ast.cpp), after every token and after a   *)
(* syntax error at any point. So nothing is lost, nothing is freed twice,  *)
(* and nothing that has been freed is used.                                *)
(***************************************************************************)
THEOREM OwnedOnceTheorem == ParserSpec => []OwnedOnce
<1>1. ParserIInv => OwnedOnce
  BY ParserOwns
<1> QED BY <1>1, ParserInductive, PTL

(***************************************************************************)
(* The create functions (ast.cpp) are only ever given parts of the kinds   *)
(* that the free functions assert: the analyses and the IR builder may     *)
(* take the tree for what they do.                                         *)
(***************************************************************************)
THEOREM ShapedTheorem == ParserSpec => []Shaped
<1>1. ParserIInv => Shaped
  BY ParserOwns
<1> QED BY <1>1, ParserInductive, PTL

-----------------------------------------------------------------------------
(***************************************************************************)
(* The driver.                                                             *)
(***************************************************************************)

\* The status from stage to stage: 0 until something fails, and 0 in the end only if the
\* code has been generated.
StatusIInv ==
  /\ result \in 0 .. 2 /\ generated \in BOOLEAN
  /\ stage \in Stages
  /\ stage \in {"open", "parse", "analyze", "compile", "output", "generate", "aborted"}
       => result = 0 /\ ~generated
  /\ stage \in {"analyze", "compile", "output", "generate"} => parsed = "accepted"
  /\ stage \in {"release", "exit"} => (result = 0 <=> generated)
  /\ generated => parsed = "accepted"
  /\ "output" \in held => stage = "generate" \/ generated
  /\ stage \in {"output", "generate"} => "module" \in held

\* Every step of main.
LEMMA StatusStep ==
  ASSUME StatusIInv, Compile
  PROVE  StatusIInv'
<1> USE DEF StatusIInv, GoTo, Stages
<1>1. CASE OpenInput
  BY <1>1 DEF OpenInput, parservars
<1>2. CASE NoInput
  BY <1>2 DEF NoInput, parservars
<1>3. CASE RunParser
  BY <1>3 DEF RunParser
<1>4. CASE ParseResult
  BY <1>4 DEF ParseResult, parservars
<1>5. CASE AnalyzeTree
  BY <1>5 DEF AnalyzeTree, parservars
<1>6. CASE CompileTree
  BY <1>6 DEF CompileTree, parservars
<1>7. CASE OpenOutput
  BY <1>7 DEF OpenOutput, parservars
<1>8. CASE NoOutput
  BY <1>8 DEF NoOutput, parservars
<1>9. CASE Generate
  BY <1>9 DEF Generate, parservars
<1>10. CASE Release
  BY <1>10 DEF Release
<1>11. CASE NoModule
  BY <1>11 DEF NoModule, parservars
<1>12. CASE Abort
  BY <1>12 DEF Abort, parservars
<1> QED BY <1>1, <1>2, <1>3, <1>4, <1>5, <1>6, <1>7, <1>8, <1>9, <1>10, <1>11, <1>12 DEF Compile

\* That invariant holds.
LEMMA StatusInductive == DriverSpec => []StatusIInv
<1>1. DriverInit => StatusIInv
  <2> SUFFICES ASSUME DriverInit PROVE StatusIInv
    OBVIOUS
  <2>1. stage = "open" /\ result = 0 /\ held = {} /\ generated = FALSE
    BY DEF DriverInit
  <2>2. generated \in BOOLEAN /\ ~generated
    BY <2>1
  <2> QED BY <2>1, <2>2 DEF StatusIInv, Stages
<1>2. StatusIInv /\ [DriverNext]_drivervars => StatusIInv'
  <2> SUFFICES ASSUME StatusIInv, [DriverNext]_drivervars PROVE StatusIInv'
    OBVIOUS
  <2>1. CASE Compile
    BY <2>1, StatusStep
  <2>2. CASE Exited \/ UNCHANGED drivervars
    BY <2>2 DEF Exited, drivervars, mainvars, parservars, StatusIInv
  <2> QED BY <2>1, <2>2 DEF DriverNext
<1> QED BY <1>1, <1>2, PTL DEF DriverSpec

(***************************************************************************)
(* main (compiler.cpp) returns 0 exactly if it has generated the assembly, *)
(* and it opens the output file only for a program that has been accepted, *)
(* on every path through it: for inputs of every length, although a run    *)
(* bounds them.                                                            *)
(***************************************************************************)
THEOREM StatusTellsTheorem == DriverSpec => []StatusTells
<1>1. StatusIInv => StatusTells
  BY DEF StatusIInv, StatusTells, Stages
<1> QED BY <1>1, StatusInductive, PTL

\* The driver: until the input is open nothing is allocated, nothing is left of the parse
\* but the tree once yyparse has returned, and nothing at all in the end.
DriverIInv ==
  /\ ParserIInv
  /\ held \subseteq {"input", "output", "scanner", "module"}
  /\ stage = "open" => held = {} /\ DOMAIN heap = {}
  /\ stage \notin {"open", "parse", "exit"} => ~Parsing
  /\ stage = "exit" => held = {} /\ DOMAIN heap = {}

\* Release frees the whole tree, and there is nothing else.
LEMMA ReleaseStep ==
  ASSUME DriverIInv, Release
  PROVE  DriverIInv'
<1> DEFINE o == Outside(stack, lookahead, root)
<1>1. ParserIInv /\ ~Parsing /\ stack = <<>> /\ lookahead = 0 /\ Sound(heap, o)
  BY DEF DriverIInv, Release, ParserIInv
<1>2. o[0] = 0 /\ o[-1] = root /\ \A i \in Int : i # 0 /\ i # -1 => o[i] = 0
  BY <1>1 DEF Outside
<1> HIDE DEF o
<1>3. DOMAIN heap' = {} /\ heap' = [a \in DOMAIN heap' |-> heap'[a]]
  <2>1. CASE root = 0
    <3>1. \A i \in Int : o[i] # 0 => o[i] \in {}
      BY <2>1, <1>2
    <3>2. {} \in SUBSET DOMAIN heap
      OBVIOUS
    <3>3. DOMAIN heap \subseteq FreedWith({})
      BY <3>1, <3>2, <1>1, AllFreed
    <3>4. FreedWith({}) = {}
      BY DEF FreedWith
    <3>5. heap' = heap /\ heap = [a \in DOMAIN heap |-> heap[a]]
      BY <2>1, <1>1, SoundTypes DEF Release
    <3> QED BY <3>3, <3>4, <3>5
  <2>2. CASE root # 0
    <3>1. \A i \in Int : o[i] # 0 => o[i] \in {root}
      BY <1>2
    <3>2. {root} \in SUBSET DOMAIN heap
      <4>1. -1 \in Int
        OBVIOUS
      <4> QED BY <4>1, <2>2, <1>1, <1>2, SoundTypes
    <3>3. DOMAIN heap \subseteq FreedWith({root})
      BY <3>1, <3>2, <1>1, AllFreed
    <3>4. heap' = Without(FreedWith({root}))
      BY <2>2 DEF Release
    <3> QED BY <3>3, <3>4 DEF Without
  <2> QED BY <2>1, <2>2
<1>4. Sound(heap', Alone(0, 0))
  BY <1>3, NothingLeft
<1>5. /\ root' = 0 /\ stack' = <<>> /\ lookahead' = 0 /\ parsed' = parsed /\ stage' = "exit"
      /\ held' = held \ {"scanner", "module", "output", "input"}
  BY <1>1 DEF Release, GoTo
<1>6. ParserIInv'
  BY <1>1, <1>4, <1>5 DEF ParserIInv, Alone, Parsing, Kind
<1>7. held' = {}
  BY <1>5 DEF DriverIInv
<1> QED BY <1>3, <1>5, <1>6, <1>7 DEF DriverIInv

\* Every step of main, those of the parser among them.
LEMMA DriverStep ==
  ASSUME DriverIInv, Compile
  PROVE  DriverIInv'
<1> USE DEF GoTo
<1>1. CASE Release
  BY <1>1, ReleaseStep
<1>2. CASE RunParser
  <2>1. ParserIInv' /\ stage' = "parse" /\ held' = held \cup {"scanner"}
    BY <1>2, ParseStep DEF DriverIInv, RunParser
  <2> QED BY <2>1 DEF DriverIInv
<1>3. CASE UNCHANGED parservars
  <2>1. ParserIInv' /\ (Parsing' <=> Parsing) /\ heap' = heap
    BY <1>3, ParserStays DEF DriverIInv, parservars, Parsing
  <2>2. CASE OpenInput
    BY <2>1, <2>2 DEF DriverIInv, OpenInput
  <2>3. CASE NoInput
    BY <2>1, <2>3 DEF DriverIInv, NoInput
  <2>4. CASE ParseResult
    BY <2>1, <2>4 DEF DriverIInv, ParseResult
  <2>5. CASE AnalyzeTree
    BY <2>1, <2>5 DEF DriverIInv, AnalyzeTree
  <2>6. CASE CompileTree
    BY <2>1, <2>6 DEF DriverIInv, CompileTree
  <2>7. CASE OpenOutput
    BY <2>1, <2>7 DEF DriverIInv, OpenOutput
  <2>8. CASE NoOutput
    BY <2>1, <2>8 DEF DriverIInv, NoOutput
  <2>9. CASE Generate
    BY <2>1, <2>9 DEF DriverIInv, Generate
  <2>10. CASE NoModule
    BY <2>1, <2>10 DEF DriverIInv, NoModule
  <2>11. CASE Abort
    BY <2>1, <2>11 DEF DriverIInv, Abort
  <2> QED BY <2>2, <2>3, <2>4, <2>5, <2>6, <2>7, <2>8, <2>9, <2>10, <2>11, <1>1, <1>2 DEF Compile
<1>4. Release \/ RunParser \/ UNCHANGED parservars
  BY DEF Compile, OpenInput, NoInput, ParseResult, AnalyzeTree, CompileTree, NoModule, Abort,
         OpenOutput, NoOutput, Generate
<1> QED BY <1>1, <1>2, <1>3, <1>4

\* The invariant holds.
LEMMA DriverInductive == DriverSpec => []DriverIInv
<1>1. DriverInit => DriverIInv
  <2> SUFFICES ASSUME DriverInit PROVE DriverIInv
    OBVIOUS
  <2>1. ParserIInv /\ stage = "open" /\ held = {}
    BY ParserStarts DEF DriverInit
  <2>2. DOMAIN heap = {}
    BY DEF DriverInit, ParserInit
  <2> QED BY <2>1, <2>2 DEF DriverIInv
<1>2. DriverIInv /\ [DriverNext]_drivervars => DriverIInv'
  <2> SUFFICES ASSUME DriverIInv, [DriverNext]_drivervars PROVE DriverIInv'
    OBVIOUS
  <2>1. CASE Compile
    BY <2>1, DriverStep
  <2>2. CASE Exited \/ UNCHANGED drivervars
    <3>1. UNCHANGED parservars /\ stage' = stage /\ held' = held
      BY <2>2 DEF Exited, drivervars, mainvars
    <3>2. ParserIInv' /\ (Parsing' <=> Parsing) /\ heap' = heap
      BY <3>1, ParserStays DEF DriverIInv, parservars, Parsing
    <3> QED BY <3>1, <3>2 DEF DriverIInv
  <2> QED BY <2>1, <2>2 DEF DriverNext
<1> QED BY <1>1, <1>2, PTL DEF DriverSpec

(***************************************************************************)
(* main (compiler.cpp) keeps its types, and so does the parser it runs.    *)
(***************************************************************************)
THEOREM DriverTypeOKTheorem == DriverSpec => []DriverTypeOK
<1>1. StatusIInv /\ DriverIInv => DriverTypeOK
  BY ParserTypes DEF StatusIInv, DriverIInv, DriverTypeOK
<1> QED BY <1>1, StatusInductive, DriverInductive, PTL

(***************************************************************************)
(* Whichever way main (compiler.cpp) returns, whatever has failed, it has  *)
(* released all it holds: no object of the tree is left, no name from the  *)
(* scanner, no file, no module.                                            *)
(***************************************************************************)
THEOREM ReleasedAtExitTheorem == DriverSpec => []ReleasedAtExit
<1>1. DriverIInv => ReleasedAtExit
  BY DEF DriverIInv, ReleasedAtExit
<1> QED BY <1>1, DriverInductive, PTL
=============================================================================
