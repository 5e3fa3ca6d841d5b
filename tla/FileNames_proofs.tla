-------------------------- MODULE FileNames_proofs --------------------------
(***************************************************************************)
(* Theorems about FileNames for every number of programs, every depth of   *)
(* the disk and every set of paths. What a program has seen stays known to *)
(* it as the set there[s]; the argument is about what lies below the place *)
(* it acts on. What normalizePath computes is followed position by         *)
(* position, along the walk that the path means.                           *)
(***************************************************************************)
EXTENDS FileNames, SequenceTheorems, WellFoundedInduction, TLAPS
-----------------------------------------------------------------------------
(* Folds. FoldLeft is a recursive function of the sets of positions that    *)
(* are still to be folded. Here it is found along the sets 1..k.            *)

LEMMA LeastExists ==
  ASSUME NEW S \in SUBSET Nat, S # {}
  PROVE  \E x \in S : \A y \in S : x <= y
  <1>1. PICK x \in S : \A y \in S : ~(<<y, x>> \in OpToRel(<, Nat))
    BY NatLessThanWellFounded, WFMin
  <1>2. ASSUME NEW y \in S PROVE x <= y
    <2>1. <<y, x>> \in Nat \X Nat OBVIOUS
    <2>2. ~(y < x) BY <1>1, <2>1 DEF OpToRel
    <2> QED BY <2>2
  <1> QED BY <1>2

LEMMA MaxOf ==
  ASSUME NEW N \in Nat, NEW S \in SUBSET (1..N), S # {}
  PROVE  Max(S) \in S /\ \A y \in S : y <= Max(S)
  <1> DEFINE T == {m \in Nat : N - m \in S}
  <1>1. \A k \in S : N - k \in T
    <2> SUFFICES ASSUME NEW k \in S PROVE N - k \in T OBVIOUS
    <2>1. k \in 1..N OBVIOUS
    <2>2. N - k \in Nat /\ N - (N - k) = k BY <2>1
    <2> QED BY <2>2
  <1>2. T \in SUBSET Nat /\ T # {} BY <1>1
  <1>3. PICK m \in T : \A y \in T : m <= y
    <2> HIDE DEF T
    <2> QED BY <1>2, LeastExists
  <1>4. m \in Nat /\ N - m \in S OBVIOUS
  <1>5. ASSUME NEW y \in S PROVE N - m >= y
    <2>1. m <= N - y BY <1>1, <1>3
    <2>2. y \in 1..N OBVIOUS
    <2> QED BY <1>4, <2>1, <2>2
  <1>6. \E x \in S : \A y \in S : x >= y BY <1>4, <1>5
  <1>7. Max(S) \in S /\ \A y \in S : Max(S) >= y BY <1>6 DEF Max
  <1>8. \A y \in S : y \in Int BY <1>4
  <1> QED BY <1>7, <1>8

LEMMA MaxOfInterval ==
  ASSUME NEW k \in Nat, k # 0
  PROVE  Max(1..k) = k /\ (1..k) \ {Max(1..k)} = 1..(k - 1) /\ 1..k # {}
  <1>1. k \in 1..k /\ 1..k \in SUBSET (1..k) OBVIOUS
  <1>2. Max(1..k) \in 1..k /\ k <= Max(1..k) BY <1>1, MaxOf
  <1>3. Max(1..k) = k BY <1>2
  <1>4. (1..k) \ {k} = 1..(k - 1) OBVIOUS
  <1> QED BY <1>1, <1>3, <1>4

\* it folds g from base over the positions 1..N.
IsFold(it, g, base, N) ==
    it = [s \in SUBSET (1..N) |->
              IF s = {} THEN base ELSE g[<<it[s \ {Max(s)}], Max(s)>>]]

LEMMA FoldExists ==
  ASSUME NEW N \in Nat, NEW V, NEW base \in V, NEW g \in [V \X (1..N) -> V]
  PROVE  \E it \in [SUBSET (1..N) -> V] : IsFold(it, g, base, N)
  <1> DEFINE Fine(n) == \E it \in [SUBSET (1..n) -> V] : IsFold(it, g, base, n)
             Bad == {n \in Nat : n <= N /\ ~Fine(n)}
  <1>1. Fine(0)
    <2> DEFINE it == [s \in SUBSET (1..0) |-> base]
    <2>1. \A s \in SUBSET (1..0) : s = {} OBVIOUS
    <2>2. it \in [SUBSET (1..0) -> V] OBVIOUS
    <2>3. IsFold(it, g, base, 0) BY <2>1 DEF IsFold
    <2> QED BY <2>2, <2>3
  <1>2. ASSUME NEW n \in Nat, n # 0, n <= N, Fine(n - 1) PROVE Fine(n)
    <2>1. PICK f \in [SUBSET (1..(n - 1)) -> V] : IsFold(f, g, base, n - 1)
      BY <1>2
    <2> DEFINE it == [s \in SUBSET (1..n) |->
                         IF n \in s THEN g[<<f[s \ {n}], n>>] ELSE f[s]]
    <2>2. \A s \in SUBSET (1..n) : s \ {n} \in SUBSET (1..(n - 1))
      BY <1>2
    <2>3. n \in 1..N BY <1>2
    <2>4. it \in [SUBSET (1..n) -> V]
      <3> SUFFICES ASSUME NEW s \in SUBSET (1..n)
          PROVE  (IF n \in s THEN g[<<f[s \ {n}], n>>] ELSE f[s]) \in V
        OBVIOUS
      <3>1. s \ {n} \in SUBSET (1..(n - 1)) BY <2>2
      <3>2. n \notin s => s \ {n} = s OBVIOUS
      <3>3. f[s \ {n}] \in V BY <3>1
      <3> QED BY <2>3, <3>2, <3>3
    <2>5. ASSUME NEW s \in SUBSET (1..n), s # {}
          PROVE  it[s] = g[<<it[s \ {Max(s)}], Max(s)>>]
      <3>1. Max(s) \in s /\ \A y \in s : y <= Max(s) BY <1>2, <2>5, MaxOf
      <3>2. CASE n \in s
        <4>1. Max(s) = n
          <5>1. n <= Max(s) /\ Max(s) \in 1..n BY <3>1, <3>2
          <5> QED BY <1>2, <5>1
        <4>2. s \ {n} \in SUBSET (1..n) /\ n \notin s \ {n} OBVIOUS
        <4>3. it[s \ {n}] = f[s \ {n}] BY <4>2
        <4>4. it[s] = g[<<f[s \ {n}], n>>] BY <3>2
        <4> HIDE DEF it
        <4> QED BY <4>1, <4>3, <4>4
      <3>3. CASE n \notin s
        <4>1. s \in SUBSET (1..(n - 1)) BY <1>2, <3>3
        <4>2. f[s] = g[<<f[s \ {Max(s)}], Max(s)>>] BY <2>1, <2>5, <4>1 DEF IsFold
        <4>3. s \ {Max(s)} \in SUBSET (1..n) /\ n \notin s \ {Max(s)} BY <3>3
        <4>4. it[s \ {Max(s)}] = f[s \ {Max(s)}] BY <4>3
        <4>5. it[s] = f[s] BY <3>3
        <4> HIDE DEF it
        <4> QED BY <4>2, <4>4, <4>5
      <3> QED BY <3>2, <3>3
    <2>6. it[{}] = base
      <3>1. {} \in SUBSET (1..n) /\ n \notin {} /\ {} \in SUBSET (1..(n - 1)) OBVIOUS
      <3>2. f[{}] = base BY <2>1, <3>1 DEF IsFold
      <3>3. it[{}] = f[{}] BY <3>1
      <3> HIDE DEF it
      <3> QED BY <3>2, <3>3
    <2>7. it = [s \in SUBSET (1..n) |-> it[s]] OBVIOUS
    <2> HIDE DEF it
    <2>8. IsFold(it, g, base, n) BY <2>5, <2>6, <2>7 DEF IsFold
    <2> QED BY <2>4, <2>8
  <1>3. ASSUME Bad # {} PROVE FALSE
    <2>1. PICK x \in Bad : \A y \in Bad : x <= y
      <3>1. Bad \in SUBSET Nat OBVIOUS
      <3> HIDE DEF Bad
      <3> QED BY <1>3, <3>1, LeastExists
    <2>2. x \in Nat /\ x <= N /\ ~Fine(x) OBVIOUS
    <2> HIDE DEF Fine
    <2>3. x # 0 BY <1>1, <2>2
    <2>4. x - 1 \in Nat /\ x - 1 <= N /\ ~(x <= x - 1) BY <2>2, <2>3
    <2>5. Fine(x - 1) BY <2>1, <2>4
    <2> QED BY <1>2, <2>2, <2>3, <2>5
  <1>4. Fine(N)
    <2> HIDE DEF Fine
    <2> QED BY <1>3
  <1> QED BY <1>4
-----------------------------------------------------------------------------
(* The folds of Paths, step by step.                                        *)

Name == FileNames \cup Labels

Down(names, t) ==
    IF t \in Separators \cup {"."} THEN names
    ELSE IF t # ".." THEN Append(names, t)
    ELSE IF names = <<>> THEN names ELSE Front(names)

LEMMA DownIsNames ==
  ASSUME NEW names \in Seq(Name), NEW t \in Tokens
  PROVE  Down(names, t) \in Seq(Name)
  <1>1. CASE t \in Separators \cup {"."} BY <1>1 DEF Down
  <1>2. CASE t \notin Separators \cup {".", ".."}
    <2>1. t \in Name BY <1>2 DEF Tokens, Name
    <2>2. Down(names, t) = Append(names, t) BY <1>2 DEF Down
    <2> QED BY <2>1, <2>2, AppendProperties
  <1>3. CASE t = ".." /\ t \notin Separators \cup {"."}
    <2>1. CASE names = <<>> BY <1>3, <2>1 DEF Down
    <2>2. CASE names # <<>>
      <3>1. Down(names, t) = SubSeq(names, 1, Len(names) - 1) BY <1>3, <2>2 DEF Down, Front
      <3>2. Len(names) \in Nat BY LenProperties
      <3>3. \A i \in 1..(Len(names) - 1) : names[i] \in Name
        BY <3>2, ElementOfSeq
      <3> QED BY <3>1, <3>2, <3>3, SubSeqProperties
    <2> QED BY <2>1, <2>2
  <1> QED BY <1>1, <1>2, <1>3

LEMMA WalkFold ==
  ASSUME NEW place, place.names \in Seq(Name), NEW toks \in Seq(Tokens)
  PROVE  \E w : /\ w[0] = place.names
                /\ \A k \in 1..Len(toks) : w[k] = Down(w[k - 1], toks[k])
                /\ WalkFrom(place, toks) = [place EXCEPT !.names = w[Len(toks)]]
  <1> DEFINE N == Len(toks)
             V == Seq(Name)
             base == place.names
             g == [p \in V \X (1..N) |-> Down(p[1], toks[p[2]])]
             Eq(it) == it = [s \in SUBSET (1..N) |->
                                IF s = {} THEN base
                                ELSE Down(it[s \ {Max(s)}], toks[Max(s)])]
             it == CHOOSE it : Eq(it)
             w == [k \in 0..N |-> it[1..k]]
  <1>1. N \in Nat /\ \A i \in 1..N : toks[i] \in Tokens
    BY LenProperties, ElementOfSeq
  <1>2. g \in [V \X (1..N) -> V]
    <2>1. \A p \in V \X (1..N) : Down(p[1], toks[p[2]]) \in V BY <1>1, DownIsNames
    <2> QED BY <2>1
  <1>3. \E f : Eq(f)
    <2>1. \A v \in V, i \in 1..N : g[<<v, i>>] = Down(v, toks[i]) OBVIOUS
    <2>2. base \in V OBVIOUS
    <2> HIDE DEF g, V, base, N
    <2>3. PICK f \in [SUBSET (1..N) -> V] : IsFold(f, g, base, N)
      BY <1>1, <1>2, <2>2, FoldExists
    <2>4. ASSUME NEW s \in SUBSET (1..N), s # {}
          PROVE  f[s] = Down(f[s \ {Max(s)}], toks[Max(s)])
      <3>1. Max(s) \in 1..N BY <1>1, <2>4, MaxOf
      <3>2. f[s \ {Max(s)}] \in V BY <2>3
      <3>3. f[s] = g[<<f[s \ {Max(s)}], Max(s)>>] BY <2>3, <2>4 DEF IsFold
      <3> QED BY <2>1, <3>1, <3>2, <3>3
    <2>5. f[{}] = base BY <2>3 DEF IsFold
    <2>6. f = [s \in SUBSET (1..N) |-> f[s]] BY <2>3
    <2>7. Eq(f) BY <2>4, <2>5, <2>6
    <2> QED BY <2>7
  <1>4. Eq(it)
    <2> HIDE DEF Eq
    <2> QED BY <1>3
  <1>5. WalkFrom(place, toks) = [place EXCEPT !.names = it[1..N]]
    <2>1. DOMAIN toks = 1..N BY LenProperties
    <2> QED BY <2>1 DEF WalkFrom, FoldLeft, MapThenFoldSet, Down
  <1> HIDE DEF it
  <1>6. w[0] = base
    <2>1. 1..0 = {} /\ {} \in SUBSET (1..N) /\ 0 \in 0..N BY <1>1
    <2> QED BY <1>4, <2>1
  <1>7. ASSUME NEW k \in 1..N PROVE w[k] = Down(w[k - 1], toks[k])
    <2>1. k \in Nat /\ k # 0 /\ k \in 0..N /\ k - 1 \in 0..N /\ 1..k \in SUBSET (1..N)
      BY <1>1
    <2>2. Max(1..k) = k /\ (1..k) \ {Max(1..k)} = 1..(k - 1) /\ 1..k # {}
      BY <2>1, MaxOfInterval
    <2>3. it[1..k] = Down(it[1..(k - 1)], toks[k]) BY <1>4, <2>1, <2>2
    <2> QED BY <2>1, <2>3
  <1>8. w[N] = it[1..N] BY <1>1
  <1> QED BY <1>5, <1>6, <1>7, <1>8

LEMMA NamesFold ==
  ASSUME NEW path, SubSeq(path, 3, Len(path)) \in Seq(Tokens)
  PROVE  \E w : /\ w[0] = <<>>
                /\ \A k \in 1..Len(SubSeq(path, 3, Len(path))) :
                      w[k] = IF SubSeq(path, 3, Len(path))[k] = pathSeparator THEN w[k - 1]
                             ELSE Append(w[k - 1], SubSeq(path, 3, Len(path))[k])
                /\ PlaceOf(path) = [label |-> path[1],
                                    names |-> w[Len(SubSeq(path, 3, Len(path)))]]
  <1> DEFINE toks == SubSeq(path, 3, Len(path))
             N == Len(toks)
             V == Seq(Tokens)
             Op(names, t) == IF t = pathSeparator THEN names ELSE Append(names, t)
             g == [p \in V \X (1..N) |-> Op(p[1], toks[p[2]])]
             Eq(it) == it = [s \in SUBSET (1..N) |->
                                IF s = {} THEN <<>>
                                ELSE Op(it[s \ {Max(s)}], toks[Max(s)])]
             it == CHOOSE it : Eq(it)
             w == [k \in 0..N |-> it[1..k]]
  <1>1. N \in Nat /\ (\A i \in 1..N : toks[i] \in Tokens) /\ DOMAIN toks = 1..N
    BY LenProperties, ElementOfSeq
  <1>2. PlaceOf(path) = [label |-> path[1], names |-> it[1..N]]
    BY <1>1 DEF PlaceOf, FoldLeft, MapThenFoldSet
  <1>3. \E f : Eq(f)
    <2>1. \A v \in V, t \in Tokens : Op(v, t) \in V BY AppendProperties
    <2>2. <<>> \in V OBVIOUS
    <2> HIDE DEF V, N, toks, Op
    <2>3. g \in [V \X (1..N) -> V] BY <1>1, <2>1
    <2>4. \A v \in V, i \in 1..N : g[<<v, i>>] = Op(v, toks[i]) OBVIOUS
    <2> HIDE DEF g
    <2>5. PICK f \in [SUBSET (1..N) -> V] : IsFold(f, g, <<>>, N)
      BY <1>1, <2>2, <2>3, FoldExists
    <2>6. ASSUME NEW s \in SUBSET (1..N), s # {}
          PROVE  f[s] = Op(f[s \ {Max(s)}], toks[Max(s)])
      <3>1. Max(s) \in 1..N BY <1>1, <2>6, MaxOf
      <3>2. f[s \ {Max(s)}] \in V BY <2>5
      <3>3. f[s] = g[<<f[s \ {Max(s)}], Max(s)>>] BY <2>5, <2>6 DEF IsFold
      <3> QED BY <2>4, <3>1, <3>2, <3>3
    <2>7. f[{}] = <<>> BY <2>5 DEF IsFold
    <2>8. f = [s \in SUBSET (1..N) |-> f[s]] BY <2>5
    <2>9. Eq(f) BY <2>6, <2>7, <2>8
    <2> QED BY <2>9
  <1>4. Eq(it)
    <2> HIDE DEF Eq
    <2> QED BY <1>3
  <1> HIDE DEF it, toks
  <1>5. w[0] = <<>>
    <2>1. 1..0 = {} /\ {} \in SUBSET (1..N) /\ 0 \in 0..N BY <1>1
    <2> QED BY <1>4, <2>1
  <1>6. ASSUME NEW k \in 1..N PROVE w[k] = Op(w[k - 1], toks[k])
    <2>1. k \in Nat /\ k # 0 /\ k \in 0..N /\ k - 1 \in 0..N /\ 1..k \in SUBSET (1..N)
      BY <1>1
    <2>2. Max(1..k) = k /\ (1..k) \ {Max(1..k)} = 1..(k - 1) /\ 1..k # {}
      BY <2>1, MaxOfInterval
    <2>3. it[1..k] = Op(it[1..(k - 1)], toks[k]) BY <1>4, <2>1, <2>2
    <2> QED BY <2>1, <2>3
  <1>7. w[N] = it[1..N] BY <1>1
  <1> QED BY <1>2, <1>5, <1>6, <1>7 DEF toks

AddName(path, name) == IF path = <<>> THEN <<name>> ELSE path \o <<pathSeparator, name>>

LEMMA PathFold ==
  ASSUME NEW place, place.names \in Seq(Name)
  PROVE  \E w : /\ w[0] = <<>>
                /\ \A k \in 1..Len(place.names) : w[k] = AddName(w[k - 1], place.names[k])
                /\ PathOf(place) = <<place.label, pathSeparator>> \o w[Len(place.names)]
  <1> DEFINE toks == place.names
             N == Len(toks)
             V == Seq(Tokens)
             g == [p \in V \X (1..N) |-> AddName(p[1], toks[p[2]])]
             Eq(it) == it = [s \in SUBSET (1..N) |->
                                IF s = {} THEN <<>>
                                ELSE AddName(it[s \ {Max(s)}], toks[Max(s)])]
             it == CHOOSE it : Eq(it)
             w == [k \in 0..N |-> it[1..k]]
  <1>1. N \in Nat /\ (\A i \in 1..N : toks[i] \in Name) /\ DOMAIN toks = 1..N
    BY LenProperties, ElementOfSeq
  <1>2. PathOf(place) = <<place.label, pathSeparator>> \o it[1..N]
    BY <1>1 DEF PathOf, FoldLeft, MapThenFoldSet, AddName
  <1>3. \E f : Eq(f)
    <2>1. ASSUME NEW v \in V, NEW t \in Name PROVE AddName(v, t) \in V
      <3>1. t \in Tokens /\ pathSeparator \in Tokens BY DEF Name, Tokens, Separators
      <3>2. <<t>> \in V /\ <<pathSeparator, t>> \in V BY <3>1
      <3> QED BY <3>2, ConcatProperties DEF AddName
    <2>2. <<>> \in V OBVIOUS
    <2> HIDE DEF V, N, toks
    <2>3. g \in [V \X (1..N) -> V] BY <1>1, <2>1
    <2>4. \A v \in V, i \in 1..N : g[<<v, i>>] = AddName(v, toks[i]) OBVIOUS
    <2> HIDE DEF g
    <2>5. PICK f \in [SUBSET (1..N) -> V] : IsFold(f, g, <<>>, N)
      BY <1>1, <2>2, <2>3, FoldExists
    <2>6. ASSUME NEW s \in SUBSET (1..N), s # {}
          PROVE  f[s] = AddName(f[s \ {Max(s)}], toks[Max(s)])
      <3>1. Max(s) \in 1..N BY <1>1, <2>6, MaxOf
      <3>2. f[s \ {Max(s)}] \in V BY <2>5
      <3>3. f[s] = g[<<f[s \ {Max(s)}], Max(s)>>] BY <2>5, <2>6 DEF IsFold
      <3> QED BY <2>4, <3>1, <3>2, <3>3
    <2>7. f[{}] = <<>> BY <2>5 DEF IsFold
    <2>8. f = [s \in SUBSET (1..N) |-> f[s]] BY <2>5
    <2>9. Eq(f) BY <2>6, <2>7, <2>8
    <2> QED BY <2>9
  <1>4. Eq(it)
    <2> HIDE DEF Eq
    <2> QED BY <1>3
  <1> HIDE DEF it
  <1>5. w[0] = <<>>
    <2>1. 1..0 = {} /\ {} \in SUBSET (1..N) /\ 0 \in 0..N BY <1>1
    <2> QED BY <1>4, <2>1
  <1>6. ASSUME NEW k \in 1..N PROVE w[k] = AddName(w[k - 1], toks[k])
    <2>1. k \in Nat /\ k # 0 /\ k \in 0..N /\ k - 1 \in 0..N /\ 1..k \in SUBSET (1..N)
      BY <1>1
    <2>2. Max(1..k) = k /\ (1..k) \ {Max(1..k)} = 1..(k - 1) /\ 1..k # {}
      BY <2>1, MaxOfInterval
    <2>3. it[1..k] = AddName(it[1..(k - 1)], toks[k]) BY <1>4, <2>1, <2>2
    <2> QED BY <2>1, <2>3
  <1>7. w[N] = it[1..N] BY <1>1
  <1> QED BY <1>2, <1>5, <1>6, <1>7

\* One turn of removeDots' loop, and what follows the loop.
Turn(path, start, r, i) ==
    IF i >= start /\ path[i] = pathSeparator THEN TakePart(r, i) ELSE r

Finish(r, n) ==
    LET last == SubSeq(r.buf, r.src, n)
    IN  IF last = <<".">> THEN SubSeq(r.buf, 1, r.dst - 1)
        ELSE IF last = <<"..">> THEN SubSeq(r.buf, 1, Climb(r).dst - 1)
        ELSE SubSeq(r.buf, 1, r.dst - 1) \o last

Cursors(n) == [buf : [1..n -> Tokens], src : 1..(n + 1), dst : Nat, depth : Nat]

LEMMA OneUpIs ==
  ASSUME NEW buf, NEW dst \in Nat
  PROVE  /\ OneUp(buf, dst) \in {2} \cup {i \in 3..(dst - 1) : buf[i - 1] = pathSeparator}
         /\ \A i \in 3..(dst - 1) : buf[i - 1] = pathSeparator => i <= OneUp(buf, dst)
         /\ OneUp(buf, dst) \in Nat
  <1> DEFINE S == {2} \cup {i \in 3..(dst - 1) : buf[i - 1] = pathSeparator}
  <1>1. S \in SUBSET (1..(dst + 2)) /\ dst + 2 \in Nat /\ S # {} OBVIOUS
  <1>2. OneUp(buf, dst) = Max(S) BY DEF OneUp
  <1> HIDE DEF S
  <1>3. Max(S) \in S /\ \A i \in S : i <= Max(S) BY <1>1, MaxOf
  <1>4. Max(S) \in Nat
    <2>1. Max(S) \in 1..(dst + 2) BY <1>1, <1>3
    <2> HIDE DEF S
    <2> QED BY <1>1, <2>1
  <1> QED BY <1>2, <1>3, <1>4 DEF S

LEMMA TakePartIsCursors ==
  ASSUME NEW n \in Nat, NEW r \in Cursors(n), NEW i \in 1..n
  PROVE  TakePart(r, i) \in Cursors(n)
  <1> DEFINE part == SubSeq(r.buf, r.src, i - 1)
             done == IF part \in {<<>>, <<".">>} THEN r
                     ELSE IF part = <<"..">> THEN Climb(r)
                     ELSE AppendPart(r, part)
  <1>1. /\ r.buf \in [1..n -> Tokens] /\ r.src \in 1..(n + 1)
        /\ r.dst \in Nat /\ r.depth \in Nat /\ DOMAIN r = {"buf", "src", "dst", "depth"}
        /\ r = [buf |-> r.buf, src |-> r.src, dst |-> r.dst, depth |-> r.depth]
    BY DEF Cursors
  <1>2. part \in Seq(Tokens) /\ Len(part) \in Nat
        /\ \A k \in 1..Len(part) : part[k] \in Tokens
    <2>1. \A k \in r.src..(i - 1) : r.buf[k] \in Tokens BY <1>1
    <2>2. part \in Seq(Tokens) BY <1>1, <2>1, SubSeqProperties
    <2> QED BY <2>2, LenProperties, ElementOfSeq
  <1> HIDE DEF part
  <1>3. Climb(r) \in Cursors(n)
    <2>1. OneUp(r.buf, r.dst) \in Nat BY <1>1, OneUpIs
    <2>2. r.depth # 0 => r.depth - 1 \in Nat BY <1>1
    <2> QED BY <1>1, <2>1, <2>2 DEF Climb, Cursors
  <1>4. AppendPart(r, part) \in Cursors(n)
    <2> DEFINE new == [j \in DOMAIN r.buf |->
                          IF j < r.dst \/ j > r.dst + Len(part) THEN r.buf[j]
                          ELSE IF j = r.dst + Len(part) THEN pathSeparator
                          ELSE part[j - r.dst + 1]]
    <2>1. new \in [1..n -> Tokens]
      <3> SUFFICES ASSUME NEW j \in 1..n PROVE new[j] \in Tokens BY <1>1
      <3>1. CASE j < r.dst \/ j > r.dst + Len(part) BY <1>1, <3>1
      <3>2. CASE j = r.dst + Len(part)
        <4>1. pathSeparator \in Tokens BY DEF Tokens, Separators
        <4> QED BY <1>1, <1>2, <3>2, <4>1
      <3>3. CASE ~(j < r.dst \/ j > r.dst + Len(part)) /\ j # r.dst + Len(part)
        <4>1. j - r.dst + 1 \in 1..Len(part) BY <1>1, <1>2, <3>3
        <4> QED BY <1>1, <1>2, <3>3, <4>1
      <3> QED BY <3>1, <3>2, <3>3
    <2>2. AppendPart(r, part) = [buf |-> new, src |-> r.src,
                                 dst |-> r.dst + Len(part) + 1, depth |-> r.depth + 1]
      <3>1. AppendPart(r, part) = [r EXCEPT !.buf = new, !.dst = r.dst + Len(part) + 1,
                                            !.depth = r.depth + 1]
        BY DEF AppendPart
      <3> HIDE DEF new
      <3> QED BY <1>1, <3>1
    <2> HIDE DEF new
    <2> QED BY <1>1, <1>2, <2>1, <2>2 DEF Cursors
  <1>5. done \in Cursors(n) BY <1>3, <1>4
  <1>6. TakePart(r, i) = [done EXCEPT !.src = i + 1] BY DEF TakePart, part
  <1> HIDE DEF done
  <1>7. /\ done.buf \in [1..n -> Tokens] /\ done.dst \in Nat /\ done.depth \in Nat
        /\ done = [buf |-> done.buf, src |-> done.src, dst |-> done.dst, depth |-> done.depth]
    BY <1>5 DEF Cursors
  <1>8. TakePart(r, i) = [buf |-> done.buf, src |-> i + 1, dst |-> done.dst, depth |-> done.depth]
    BY <1>6, <1>7
  <1>9. i + 1 \in 1..(n + 1) OBVIOUS
  <1> QED BY <1>7, <1>8, <1>9 DEF Cursors

LEMMA DotsFold ==
  ASSUME NEW path \in Seq(Tokens), NEW label \in 1..Len(path), label < Len(path)
  PROVE  \E h : /\ h[0] = [buf |-> path, src |-> label + 2, dst |-> label + 2, depth |-> 0]
                /\ \A i \in 1..Len(path) : h[i] = Turn(path, label + 2, h[i - 1], i)
                /\ removeDots(path, label) = Finish(h[Len(path)], Len(path))
  <1> DEFINE N == Len(path)
             start == label + 2
             V == Cursors(N)
             base == [buf |-> path, src |-> start, dst |-> start, depth |-> 0]
             Op(r, i) == Turn(path, start, r, i)
             g == [p \in V \X (1..N) |-> Op(p[1], p[2])]
             dom == [i \in DOMAIN path |-> i]
             Eq(it) == it = [s \in SUBSET (DOMAIN dom) |->
                                IF s = {} THEN base ELSE Op(it[s \ {Max(s)}], dom[Max(s)])]
             it == CHOOSE it : Eq(it)
             w == [k \in 0..N |-> it[1..k]]
  <1>1. N \in Nat /\ (\A i \in 1..N : path[i] \in Tokens) /\ DOMAIN path = 1..N
        /\ DOMAIN dom = 1..N
    BY LenProperties, ElementOfSeq
  <1>2. removeDots(path, label) = Finish(it[1..N], N)
    <2>1. removeDots(path, label) = Finish(FoldLeftDomain(Op, base, path), N)
      BY DEF removeDots, Finish, Turn
    <2>2. FoldLeftDomain(Op, base, path) = it[DOMAIN dom]
      BY DEF FoldLeftDomain, FoldLeft, MapThenFoldSet
    <2> QED BY <1>1, <2>1, <2>2
  <1>3. \E f : Eq(f)
    <2>1. \A v \in V, i \in 1..N : Op(v, i) \in V BY <1>1, TakePartIsCursors DEF Turn
    <2>2. base \in V
      <3>1. path \in [1..N -> Tokens] BY LenProperties
      <3>2. start \in 1..(N + 1) /\ start \in Nat BY <1>1
      <3> QED BY <3>1, <3>2 DEF Cursors
    <2>0. \A i \in 1..N : dom[i] = i BY <1>1
    <2> HIDE DEF V, N, Op, base, dom
    <2>3. g \in [V \X (1..N) -> V] BY <1>1, <2>1
    <2>4. \A v \in V, i \in 1..N : g[<<v, i>>] = Op(v, i) OBVIOUS
    <2> HIDE DEF g
    <2>5. PICK f \in [SUBSET (1..N) -> V] : IsFold(f, g, base, N)
      BY <1>1, <2>2, <2>3, FoldExists
    <2>6. ASSUME NEW s \in SUBSET (1..N), s # {}
          PROVE  f[s] = Op(f[s \ {Max(s)}], dom[Max(s)])
      <3>1. Max(s) \in 1..N BY <1>1, <2>6, MaxOf
      <3>2. f[s \ {Max(s)}] \in V BY <2>5
      <3>3. f[s] = g[<<f[s \ {Max(s)}], Max(s)>>] BY <2>5, <2>6 DEF IsFold
      <3> QED BY <2>4, <2>0, <3>1, <3>2, <3>3
    <2>7. f[{}] = base BY <2>5 DEF IsFold
    <2>8. f = [s \in SUBSET (1..N) |-> f[s]] BY <2>5
    <2>9. Eq(f) BY <1>1, <2>6, <2>7, <2>8
    <2> QED BY <2>9
  <1>4. Eq(it)
    <2> HIDE DEF Eq
    <2> QED BY <1>3
  <1>0. \A i \in 1..N : dom[i] = i BY <1>1
  <1> HIDE DEF it, base, Op, dom
  <1>5. w[0] = base
    <2>1. 1..0 = {} /\ {} \in SUBSET (1..N) /\ 0 \in 0..N BY <1>1
    <2> QED BY <1>1, <1>4, <2>1
  <1>6. ASSUME NEW k \in 1..N PROVE w[k] = Op(w[k - 1], k)
    <2>1. k \in Nat /\ k # 0 /\ k \in 0..N /\ k - 1 \in 0..N /\ 1..k \in SUBSET (1..N)
      BY <1>1
    <2>2. Max(1..k) = k /\ (1..k) \ {Max(1..k)} = 1..(k - 1) /\ 1..k # {}
      BY <2>1, MaxOfInterval
    <2>3. \A s \in SUBSET (1..N) : s # {} => it[s] = Op(it[s \ {Max(s)}], dom[Max(s)])
      BY <1>1, <1>4
    <2>4. it[1..k] = Op(it[1..(k - 1)], dom[k]) BY <2>1, <2>2, <2>3
    <2>5. dom[k] = k BY <1>0
    <2>6. it[1..k] = Op(it[1..(k - 1)], k) BY <2>4, <2>5
    <2> QED BY <2>1, <2>6
  <1>7. w[N] = it[1..N] BY <1>1
  <1> QED BY <1>2, <1>5, <1>6, <1>7 DEF Op, base
-----------------------------------------------------------------------------
(* Normalised paths. A normalised path is a label and a separator, and then *)
(* names with a separator between two of them.                              *)

\* The positions behind the root of buf hold the names, with a separator
\* after each but the last.
HasNames(buf, label, names) ==
    /\ buf[1] = label /\ buf[2] = pathSeparator
    /\ \A k \in 1..Len(names) : buf[2 * k + 1] = names[k]
    /\ \A k \in 1..(Len(names) - 1) : buf[2 * k + 2] = pathSeparator

IsPlain(path, label, names) ==
    /\ path \in Seq(Tokens)
    /\ Len(path) = IF names = <<>> THEN 2 ELSE 2 * Len(names) + 1
    /\ HasNames(path, label, names)

\* With a separator at the end, too.
IsSlashed(path, label, names) ==
    /\ path \in Seq(Tokens)
    /\ Len(path) = 2 * Len(names) + 2
    /\ HasNames(path, label, names)
    /\ path[Len(path)] = pathSeparator

LEMMA Parity ==
  ASSUME NEW j \in Nat
  PROVE  \E k \in Nat : j = 2 * k \/ j = 2 * k + 1
  <1>1. j \div 2 \in Nat /\ (j = 2 * (j \div 2) \/ j = 2 * (j \div 2) + 1)
    OBVIOUS
  <1> QED BY <1>1

LEMMA NameIsNoMark ==
  ASSUME NEW t \in Name
  PROVE  t \notin Separators /\ t \notin {".", "..", pathSeparator} /\ t \in Tokens
  BY PathsAssumption DEF Name, Tokens, Separators

LEMMA LenOfNames ==
  ASSUME NEW names \in Seq(Name)
  PROVE  /\ Len(names) \in Nat
         /\ names = <<>> <=> Len(names) = 0
         /\ \A k \in 1..Len(names) : names[k] \in Name
  BY LenProperties, ElementOfSeq, EmptySeq

LEMMA PlainIsUnique ==
  ASSUME NEW l, NEW names \in Seq(Name), NEW p, NEW q,
         IsPlain(p, l, names), IsPlain(q, l, names)
  PROVE  p = q
  <1>1. p \in Seq(Tokens) /\ q \in Seq(Tokens) /\ Len(p) = Len(q) BY DEF IsPlain
  <1>2. Len(names) \in Nat /\ (names = <<>> <=> Len(names) = 0) BY LenOfNames
  <1>3. ASSUME NEW j \in 1..Len(p) PROVE p[j] = q[j]
    <2>1. PICK k \in Nat : j = 2 * k \/ j = 2 * k + 1
      <3>1. j \in Nat BY <1>1, LenProperties
      <3> QED BY <3>1, Parity
    <2>2. Len(p) = IF names = <<>> THEN 2 ELSE 2 * Len(names) + 1 BY DEF IsPlain
    <2>3. HasNames(p, l, names) /\ HasNames(q, l, names) BY DEF IsPlain
    <2>4. CASE j = 1 \/ j = 2 BY <2>3, <2>4 DEF HasNames
    <2>5. CASE j > 2 /\ j = 2 * k
      <3>1. k - 1 \in 1..(Len(names) - 1) /\ j = 2 * (k - 1) + 2 BY <1>2, <2>2, <2>5
      <3> QED BY <2>3, <3>1 DEF HasNames
    <2>6. CASE j > 2 /\ j = 2 * k + 1
      <3>1. k \in 1..Len(names) BY <1>2, <2>2, <2>6
      <3> QED BY <2>3, <2>6, <3>1 DEF HasNames
    <2> QED BY <2>1, <2>4, <2>5, <2>6
  <1> QED BY <1>1, <1>3, SeqEqual

\* What follows from one position to the next holds at every position.
LEMMA Along ==
  ASSUME NEW from \in Nat, NEW N \in Nat, NEW Good \in SUBSET Nat,
         from \in Good,
         \A k \in from..(N - 1) : k \in Good => k + 1 \in Good
  PROVE  \A k \in from..N : k \in Good
  <1> DEFINE Bad == {k \in from..N : k \notin Good}
  <1>1. ASSUME Bad # {} PROVE FALSE
    <2>1. PICK x \in Bad : \A y \in Bad : x <= y
      <3>1. Bad \in SUBSET Nat OBVIOUS
      <3> HIDE DEF Bad
      <3> QED BY <1>1, <3>1, LeastExists
    <2>2. x \in from..N /\ x \notin Good /\ x # from OBVIOUS
    <2>3. x - 1 \in from..(N - 1) /\ ~(x <= x - 1) /\ x - 1 \in from..N
          /\ x - 1 + 1 = x
      BY <2>2
    <2>4. x - 1 \notin Bad
      <3> HIDE DEF Bad
      <3> QED BY <2>1, <2>3
    <2>5. x - 1 \in Good BY <2>3, <2>4
    <2> QED BY <2>2, <2>3, <2>5
  <1> QED BY <1>1

LEMMA PathOfIsPlain ==
  ASSUME NEW l \in Labels, NEW names \in Seq(Name)
  PROVE  IsPlain(PathOf([label |-> l, names |-> names]), l, names)
  <1> DEFINE place == [label |-> l, names |-> names]
             N == Len(names)
  <1>1. N \in Nat /\ (names = <<>> <=> N = 0) /\ \A k \in 1..N : names[k] \in Name
    BY LenOfNames
  <1>2. PICK w : /\ w[0] = <<>>
                 /\ \A k \in 1..N : w[k] = AddName(w[k - 1], names[k])
                 /\ PathOf(place) = <<l, pathSeparator>> \o w[N]
    <2>1. place.names = names /\ place.label = l OBVIOUS
    <2> HIDE DEF place
    <2> QED BY <2>1, PathFold
  <1> DEFINE Upto(k) == /\ w[k] \in Seq(Tokens)
                        /\ Len(w[k]) = IF k = 0 THEN 0 ELSE 2 * k - 1
                        /\ \A j \in 1..k : w[k][2 * j - 1] = names[j]
                        /\ \A j \in 1..(k - 1) : w[k][2 * j] = pathSeparator
             Good == {k \in Nat : Upto(k)}
  <1>3. Upto(0) BY <1>2, EmptySeq
  <1>4. ASSUME NEW k \in 0..(N - 1), Upto(k) PROVE Upto(k + 1)
    <2>1. k \in Nat /\ k + 1 \in 1..N /\ k + 1 - 1 = k BY <1>1
    <2>2. w[k + 1] = AddName(w[k], names[k + 1]) BY <1>2, <2>1
    <2>3. names[k + 1] \in Tokens /\ pathSeparator \in Tokens
      <3>1. names[k + 1] \in Name BY <1>1, <2>1
      <3> QED BY <3>1 DEF Name, Tokens, Separators
    <2>4. CASE k = 0
      <3>1. w[k + 1] = <<names[k + 1]>> BY <1>2, <2>2, <2>4 DEF AddName
      <3> QED BY <2>1, <2>3, <2>4, <3>1
    <2>5. CASE k # 0
      <3>1. w[k] # <<>> BY <1>4, <2>1, <2>5, EmptySeq
      <3> DEFINE two == <<pathSeparator, names[k + 1]>>
      <3>2. two \in Seq(Tokens) /\ Len(two) = 2 /\ two[1] = pathSeparator /\ two[2] = names[k + 1]
        BY <2>3
      <3>3. w[k + 1] = w[k] \o two BY <2>2, <3>1 DEF AddName
      <3> HIDE DEF two
      <3>4. /\ w[k + 1] \in Seq(Tokens) /\ Len(w[k + 1]) = 2 * k - 1 + 2
            /\ \A i \in 1..(2 * k - 1 + 2) :
                  w[k + 1][i] = IF i <= 2 * k - 1 THEN w[k][i] ELSE two[i - (2 * k - 1)]
        <4>1. w[k] \in Seq(Tokens) /\ Len(w[k]) = 2 * k - 1 BY <1>4, <2>5
        <4>2. /\ w[k] \o two \in Seq(Tokens) /\ Len(w[k] \o two) = Len(w[k]) + Len(two)
              /\ \A i \in 1..(Len(w[k]) + Len(two)) :
                    (w[k] \o two)[i] = IF i <= Len(w[k]) THEN w[k][i] ELSE two[i - Len(w[k])]
          BY <3>2, <4>1, ConcatProperties
        <4> HIDE DEF Upto
        <4> QED BY <3>2, <3>3, <4>1, <4>2
      <3>5. Len(w[k + 1]) = 2 * (k + 1) - 1 BY <2>1, <3>4
      <3>6. ASSUME NEW j \in 1..(k + 1) PROVE w[k + 1][2 * j - 1] = names[j]
        <4>1. CASE j = k + 1
          <5>1. 2 * j - 1 \in 1..(2 * k - 1 + 2) /\ ~(2 * j - 1 <= 2 * k - 1)
                /\ 2 * j - 1 - (2 * k - 1) = 2
            BY <2>1, <4>1
          <5> QED BY <3>2, <3>4, <4>1, <5>1
        <4>2. CASE j # k + 1
          <5>1. 2 * j - 1 \in 1..(2 * k - 1 + 2) /\ 2 * j - 1 <= 2 * k - 1 /\ j \in 1..k
            BY <2>1, <4>2
          <5> QED BY <1>4, <3>4, <5>1
        <4> QED BY <4>1, <4>2
      <3>7. ASSUME NEW j \in 1..(k + 1 - 1) PROVE w[k + 1][2 * j] = pathSeparator
        <4>1. CASE j = k
          <5>1. 2 * j \in 1..(2 * k - 1 + 2) /\ ~(2 * j <= 2 * k - 1)
                /\ 2 * j - (2 * k - 1) = 1
            BY <2>1, <4>1
          <5> QED BY <3>2, <3>4, <5>1
        <4>2. CASE j # k
          <5>1. 2 * j \in 1..(2 * k - 1 + 2) /\ 2 * j <= 2 * k - 1 /\ j \in 1..(k - 1)
            BY <2>1, <4>2
          <5> QED BY <1>4, <3>4, <5>1
        <4> QED BY <4>1, <4>2
      <3> QED BY <2>1, <3>4, <3>5, <3>6, <3>7
    <2> QED BY <2>4, <2>5
  <1>5. Upto(N)
    <2>1. 0 \in Good /\ Good \in SUBSET Nat BY <1>3
    <2>2. \A k \in 0..(N - 1) : k \in Good => k + 1 \in Good BY <1>4
    <2>3. N \in 0..N /\ 0 \in Nat BY <1>1
    <2>4. N \in Good
      <3> HIDE DEF Good, N
      <3> QED BY <1>1, <2>1, <2>2, <2>3, Along
    <2> QED BY <2>4
  <1> DEFINE root == <<l, pathSeparator>>
             p == PathOf(place)
  <1>6. root \in Seq(Tokens) /\ Len(root) = 2 /\ root[1] = l /\ root[2] = pathSeparator
    BY DEF Tokens, Separators
  <1>7. p = root \o w[N] BY <1>2
  <1> HIDE DEF root, p
  <1>8. /\ p \in Seq(Tokens) /\ Len(p) = 2 + Len(w[N])
        /\ \A i \in 1..(2 + Len(w[N])) : p[i] = IF i <= 2 THEN root[i] ELSE w[N][i - 2]
    <2>1. w[N] \in Seq(Tokens) BY <1>5
    <2>2. /\ root \o w[N] \in Seq(Tokens) /\ Len(root \o w[N]) = Len(root) + Len(w[N])
          /\ \A i \in 1..(Len(root) + Len(w[N])) :
                (root \o w[N])[i] = IF i <= Len(root) THEN root[i] ELSE w[N][i - Len(root)]
      BY <1>6, <2>1, ConcatProperties
    <2> HIDE DEF Upto
    <2> QED BY <1>6, <1>7, <2>1, <2>2
  <1>9. Len(p) = IF names = <<>> THEN 2 ELSE 2 * N + 1 BY <1>1, <1>5, <1>8
  <1>10. Len(w[N]) \in Nat BY <1>5, LenProperties
  <1>11. p[1] = l /\ p[2] = pathSeparator BY <1>6, <1>8, <1>10
  <1>12. ASSUME NEW k \in 1..N PROVE p[2 * k + 1] = names[k]
    <2>1. 2 * k + 1 \in 1..(2 + Len(w[N])) /\ ~(2 * k + 1 <= 2) /\ 2 * k + 1 - 2 = 2 * k - 1
      BY <1>1, <1>5
    <2> QED BY <1>5, <1>8, <2>1
  <1>13. ASSUME NEW k \in 1..(N - 1) PROVE p[2 * k + 2] = pathSeparator
    <2>1. 2 * k + 2 \in 1..(2 + Len(w[N])) /\ ~(2 * k + 2 <= 2) /\ 2 * k + 2 - 2 = 2 * k
      BY <1>1, <1>5
    <2>2. p[2 * k + 2] = w[N][2 * k]
      <3> HIDE DEF Upto
      <3> QED BY <1>8, <2>1
    <2>3. w[N][2 * k] = pathSeparator BY <1>5
    <2> QED BY <2>2, <2>3
  <1> QED BY <1>8, <1>9, <1>11, <1>12, <1>13 DEF IsPlain, HasNames, p
-----------------------------------------------------------------------------
LEMMA PrefixGrows ==
  ASSUME NEW S, NEW s \in Seq(S), NEW k \in 0..(Len(s) - 1)
  PROVE  /\ SubSeq(s, 1, k + 1) = Append(SubSeq(s, 1, k), s[k + 1])
         /\ SubSeq(s, 1, k) \in Seq(S)
  <1>1. Len(s) \in Nat /\ s[k + 1] \in S /\ (\A i \in 1..k : s[i] \in S)
        /\ k + 1 \in 1..Len(s) /\ k + 1 - 1 = k
    BY LenProperties, ElementOfSeq
  <1>2. SubSeq(s, 1, k) \in Seq(S) BY <1>1, SubSeqProperties
  <1>3. 1 \in 1..Len(s) /\ k + 1 \in 1..Len(s) BY <1>1
  <1>4. SubSeq(s, 1, k + 1) = SubSeq(s, 1, k + 1 - 1) \o <<s[k + 1]>>
    BY <1>1, <1>3, SubSeqRecursiveSecond
  <1>5. Append(SubSeq(s, 1, k), s[k + 1]) = SubSeq(s, 1, k) \o <<s[k + 1]>>
    BY <1>1, <1>2, AppendIsConcat
  <1> QED BY <1>1, <1>2, <1>4, <1>5

LEMMA PlaceOfPlain ==
  ASSUME NEW l, NEW names \in Seq(Name), NEW p, IsPlain(p, l, names)
  PROVE  PlaceOf(p) = [label |-> l, names |-> names]
  <1> DEFINE N == Len(names)
             toks == SubSeq(p, 3, Len(p))
  <1>1. N \in Nat /\ (names = <<>> <=> N = 0) /\ \A k \in 1..N : names[k] \in Name
    BY LenOfNames
  <1>2. p \in Seq(Tokens) /\ (Len(p) = IF N = 0 THEN 2 ELSE 2 * N + 1) /\ HasNames(p, l, names)
    BY <1>1 DEF IsPlain
  <1>3. /\ toks \in Seq(Tokens)
        /\ Len(toks) = IF N = 0 THEN 0 ELSE 2 * N - 1
        /\ \A i \in 1..Len(toks) : toks[i] = p[i + 2]
    <2>1. \A i \in 3..Len(p) : p[i] \in Tokens BY <1>1, <1>2, ElementOfSeq
    <2>2. Len(p) \in Int /\ 3 \in Int BY <1>1, <1>2
    <2>3. /\ toks \in Seq(Tokens)
          /\ Len(toks) = IF 3 <= Len(p) THEN Len(p) - 3 + 1 ELSE 0
          /\ \A i \in 1..(Len(p) - 3 + 1) : toks[i] = p[3 + i - 1]
      BY <2>1, <2>2, SubSeqProperties
    <2> HIDE DEF toks
    <2> QED BY <1>1, <1>2, <2>3
  <1>4. PICK w : /\ w[0] = <<>>
                 /\ \A k \in 1..Len(toks) :
                       w[k] = IF toks[k] = pathSeparator THEN w[k - 1]
                              ELSE Append(w[k - 1], toks[k])
                 /\ PlaceOf(p) = [label |-> p[1], names |-> w[Len(toks)]]
    BY <1>3, NamesFold
  <1> HIDE DEF toks
  <1>5. p[1] = l BY <1>2 DEF HasNames
  <1>6. CASE N = 0 BY <1>1, <1>3, <1>4, <1>5, <1>6
  <1>7. CASE N # 0
    <2> DEFINE Good == {k \in Nat : w[2 * k - 1] = SubSeq(names, 1, k)}
    <2>1. ASSUME NEW k \in 1..N PROVE toks[2 * k - 1] = names[k] /\ names[k] # pathSeparator
      <3>1. 2 * k - 1 \in 1..Len(toks) /\ 2 * k - 1 + 2 = 2 * k + 1 BY <1>1, <1>3, <1>7
      <3>2. toks[2 * k - 1] = p[2 * k + 1] BY <1>3, <3>1
      <3>3. p[2 * k + 1] = names[k] BY <1>2 DEF HasNames
      <3>4. names[k] \in Name BY <1>1
      <3> QED BY <3>2, <3>3, <3>4, NameIsNoMark
    <2>2. ASSUME NEW k \in 1..(N - 1) PROVE toks[2 * k] = pathSeparator
      <3>1. 2 * k \in 1..Len(toks) BY <1>1, <1>3, <1>7
      <3>2. toks[2 * k] = p[2 * k + 2] BY <1>3, <3>1
      <3>3. p[2 * k + 2] = pathSeparator BY <1>2 DEF HasNames
      <3> QED BY <3>2, <3>3
    <2>3. 1 \in Good
      <3>1. 1 \in 1..N /\ 1 \in 1..Len(toks) /\ 2 * 1 - 1 = 1 /\ 1 - 1 = 0
            /\ 0 \in 0..(N - 1) /\ 0 + 1 = 1
        BY <1>1, <1>3, <1>7
      <3>2. w[1] = Append(<<>>, names[1])
        <4>1. toks[1] = names[1] /\ names[1] # pathSeparator BY <2>1, <3>1
        <4>2. w[1] = IF toks[1] = pathSeparator THEN w[0] ELSE Append(w[0], toks[1])
          BY <1>4, <3>1
        <4> QED BY <1>4, <4>1, <4>2
      <3>3. SubSeq(names, 1, 1) = Append(SubSeq(names, 1, 0), names[1])
        BY <3>1, PrefixGrows
      <3>4. SubSeq(names, 1, 0) = <<>>
        <4>1. 0 < 1 /\ 0 \in Int /\ 1 \in Int OBVIOUS
        <4> QED BY <4>1, SubSeqEmpty
      <3> QED BY <3>1, <3>2, <3>3, <3>4
    <2>4. ASSUME NEW k \in 1..(N - 1), k \in Good PROVE k + 1 \in Good
      <3>1. /\ k \in 0..(N - 1) /\ k + 1 \in 1..N /\ k + 1 \in Nat
            /\ 2 * k \in 1..Len(toks) /\ 2 * (k + 1) - 1 \in 1..Len(toks)
            /\ 2 * (k + 1) - 1 - 1 = 2 * k
        BY <1>1, <1>3, <1>7
      <3>2. w[2 * k] = w[2 * k - 1] BY <1>4, <2>2, <3>1
      <3>3. toks[2 * (k + 1) - 1] = names[k + 1] /\ names[k + 1] # pathSeparator
        BY <2>1, <3>1
      <3>4. w[2 * (k + 1) - 1] = Append(w[2 * k], names[k + 1])
        <4> DEFINE i == 2 * (k + 1) - 1
        <4>1. i \in 1..Len(toks) /\ i - 1 = 2 * k /\ toks[i] = names[k + 1] BY <3>1, <3>3
        <4> HIDE DEF i
        <4>2. w[i] = Append(w[2 * k], names[k + 1]) BY <1>4, <3>3, <4>1
        <4> QED BY <4>2 DEF i
      <3>5. SubSeq(names, 1, k + 1) = Append(SubSeq(names, 1, k), names[k + 1])
        BY <3>1, PrefixGrows
      <3> QED BY <2>4, <3>1, <3>2, <3>4, <3>5
    <2>5. N \in Good
      <3>1. Good \in SUBSET Nat /\ 1 \in Nat /\ N \in 1..N BY <1>1, <1>7
      <3> HIDE DEF Good, N
      <3> QED BY <1>1, <2>3, <2>4, <3>1, Along
    <2>6. Len(toks) = 2 * N - 1 BY <1>3, <1>7
    <2>7. SubSeq(names, 1, N) = names BY SubSeqFull
    <2> QED BY <1>4, <1>5, <2>5, <2>6, <2>7
  <1> QED BY <1>6, <1>7
-----------------------------------------------------------------------------
(* Where a path leads when it is walked part by part.                       *)

\* W gives the names of the place that is reached behind each position of an
\* absolute path.
IsWalk(W, path) ==
    /\ W[2] = <<>>
    /\ \A j \in 3..Len(path) : W[j] = Down(W[j - 1], path[j])

LEMMA WalkExists ==
  ASSUME NEW path \in Seq(Tokens), 2 <= Len(path)
  PROVE  \E W : IsWalk(W, path)
  <1> DEFINE toks == SubSeq(path, 3, Len(path))
             place == [label |-> path[1], names |-> <<>>]
  <1>1. Len(path) \in Nat BY LenProperties
  <1>2. /\ toks \in Seq(Tokens)
        /\ Len(toks) = Len(path) - 2
        /\ \A i \in 1..Len(toks) : toks[i] = path[i + 2]
    <2>1. \A i \in 3..Len(path) : path[i] \in Tokens BY <1>1, ElementOfSeq
    <2>2. Len(path) \in Int /\ 3 \in Int BY <1>1
    <2>3. /\ toks \in Seq(Tokens)
          /\ Len(toks) = IF 3 <= Len(path) THEN Len(path) - 3 + 1 ELSE 0
          /\ \A i \in 1..(Len(path) - 3 + 1) : toks[i] = path[3 + i - 1]
      BY <2>1, <2>2, SubSeqProperties
    <2> HIDE DEF toks
    <2>4. Len(toks) = Len(path) - 2
      <3>1. PICK n \in Nat : n = Len(path) BY <1>1
      <3>2. 2 <= n /\ Len(toks) = IF 3 <= n THEN n - 3 + 1 ELSE 0 BY <2>3, <3>1
      <3>3. Len(toks) = n - 2
        <4>1. n = 2 \/ 3 <= n BY <3>2
        <4>2. n - 3 + 1 = n - 2 BY <3>1
        <4> QED BY <3>2, <4>1, <4>2
      <3> QED BY <3>1, <3>3
    <2>5. \A i \in 1..Len(toks) : i \in 1..(Len(path) - 3 + 1) /\ 3 + i - 1 = i + 2
      BY <1>1, <2>4
    <2> QED BY <2>3, <2>4, <2>5
  <1>3. place.names \in Seq(Name) BY EmptySeq
  <1>4. PICK w : /\ w[0] = place.names
                 /\ \A k \in 1..Len(toks) : w[k] = Down(w[k - 1], toks[k])
    <2> HIDE DEF place, toks
    <2> QED BY <1>2, <1>3, WalkFold
  <1> DEFINE W == [j \in 2..Len(path) |-> w[j - 2]]
  <1>5. W[2] = <<>> BY <1>1, <1>4
  <1>6. ASSUME NEW j \in 3..Len(path) PROVE W[j] = Down(W[j - 1], path[j])
    <2> HIDE DEF toks
    <2>1. j - 2 \in 1..Len(toks) /\ j - 2 + 2 = j /\ j - 1 \in 2..Len(path)
          /\ j \in 2..Len(path) /\ j - 1 - 2 = j - 2 - 1
      BY <1>1, <1>2
    <2>2. w[j - 2] = Down(w[j - 2 - 1], path[j]) BY <1>2, <1>4, <2>1
    <2> QED BY <2>1, <2>2
  <1> QED BY <1>5, <1>6 DEF IsWalk

LEMMA WalkIsNames ==
  ASSUME NEW path \in Seq(Tokens), 2 <= Len(path), NEW W, IsWalk(W, path)
  PROVE  \A j \in 2..Len(path) : W[j] \in Seq(Name)
  <1> DEFINE Good == {j \in Nat : W[j] \in Seq(Name)}
  <1>1. Len(path) \in Nat BY LenProperties
  <1>2. 2 \in Good BY EmptySeq DEF IsWalk
  <1>3. ASSUME NEW j \in 2..(Len(path) - 1), j \in Good PROVE j + 1 \in Good
    <2>1. j + 1 \in 3..Len(path) /\ j + 1 \in 1..Len(path) /\ j + 1 - 1 = j /\ j + 1 \in Nat
      BY <1>1
    <2>2. W[j + 1] = Down(W[j], path[j + 1]) BY <2>1 DEF IsWalk
    <2>3. path[j + 1] \in Tokens BY <2>1, ElementOfSeq
    <2> QED BY <1>3, <2>1, <2>2, <2>3, DownIsNames
  <1>4. \A j \in 2..Len(path) : j \in Good
    <2>1. Good \in SUBSET Nat /\ 2 \in Nat OBVIOUS
    <2> HIDE DEF Good
    <2> QED BY <1>1, <1>2, <1>3, <2>1, Along
  <1> QED BY <1>4

LEMMA WalkOfNames ==
  ASSUME NEW path \in Seq(Tokens), NEW W, IsWalk(W, path),
         NEW l, NEW names \in Seq(Name), HasNames(path, l, names),
         (IF names = <<>> THEN 2 ELSE 2 * Len(names) + 1) <= Len(path)
  PROVE  W[IF names = <<>> THEN 2 ELSE 2 * Len(names) + 1] = names
  <1> DEFINE N == Len(names)
             Good == {k \in Nat : W[2 * k + 1] = SubSeq(names, 1, k)}
  <1>1. N \in Nat /\ (names = <<>> <=> N = 0) /\ (\A k \in 1..N : names[k] \in Name)
        /\ Len(path) \in Nat
    BY LenOfNames, LenProperties
  <1>2. CASE N = 0 BY <1>1, <1>2 DEF IsWalk
  <1>3. CASE N # 0
    <2>1. ASSUME NEW k \in 1..N, NEW v, v = W[2 * k]
          PROVE  W[2 * k + 1] = Append(v, names[k])
      <3>1. names[k] \in Name /\ path[2 * k + 1] = names[k] BY <1>1 DEF HasNames
      <3>2. names[k] \notin Separators \cup {"."} /\ names[k] # ".." BY <3>1, NameIsNoMark
      <3>3. 2 * k + 1 \in 3..Len(path) /\ 2 * k + 1 - 1 = 2 * k BY <1>1, <1>3
      <3>4. W[2 * k + 1] = Down(v, names[k]) BY <2>1, <3>1, <3>3 DEF IsWalk
      <3> QED BY <3>2, <3>4 DEF Down
    <2>2. 1 \in Good
      <3>1. 1 \in 1..N /\ 0 \in 0..(N - 1) /\ 0 + 1 = 1 /\ 2 * 1 = 2 BY <1>1, <1>3
      <3>2. W[2 * 1 + 1] = Append(<<>>, names[1]) BY <2>1, <3>1 DEF IsWalk
      <3>3. SubSeq(names, 1, 1) = Append(SubSeq(names, 1, 0), names[1])
        BY <3>1, PrefixGrows
      <3>4. SubSeq(names, 1, 0) = <<>>
        <4>1. 0 < 1 /\ 0 \in Int /\ 1 \in Int OBVIOUS
        <4> QED BY <4>1, SubSeqEmpty
      <3> QED BY <3>2, <3>3, <3>4
    <2>3. ASSUME NEW k \in 1..(N - 1), k \in Good PROVE k + 1 \in Good
      <3>1. /\ k \in 0..(N - 1) /\ k + 1 \in 1..N /\ k + 1 \in Nat
            /\ 2 * k + 2 \in 3..Len(path) /\ 2 * k + 2 - 1 = 2 * k + 1
            /\ 2 * (k + 1) = 2 * k + 2
        BY <1>1, <1>3
      <3>2. path[2 * k + 2] = pathSeparator BY DEF HasNames
      <3>3. W[2 * k + 2] = W[2 * k + 1]
        BY <3>1, <3>2 DEF IsWalk, Down, Separators
      <3>4. W[2 * (k + 1) + 1] = Append(W[2 * k + 1], names[k + 1])
        BY <2>1, <3>1, <3>3
      <3>5. SubSeq(names, 1, k + 1) = Append(SubSeq(names, 1, k), names[k + 1])
        BY <3>1, PrefixGrows
      <3> QED BY <2>3, <3>1, <3>4, <3>5
    <2>4. N \in Good
      <3>1. Good \in SUBSET Nat /\ 1 \in Nat /\ N \in 1..N BY <1>1, <1>3
      <3> HIDE DEF Good, N
      <3> QED BY <1>1, <2>2, <2>3, <3>1, Along
    <2>5. SubSeq(names, 1, N) = names BY SubSeqFull
    <2> QED BY <1>1, <1>3, <2>4, <2>5
  <1> QED BY <1>2, <1>3
-----------------------------------------------------------------------------
(* removeDots: its two cursors and the buffer behind them.                  *)

\* The buffer holds a root, the names, and a separator after each.
Rooted(buf, l, names) ==
    HasNames(buf, l, names) /\ buf[2 * Len(names) + 2] = pathSeparator

\* No two names, labels or dots stand next to each other.
Separated(path) ==
    \A i \in 1..(Len(path) - 1) : path[i] = pathSeparator \/ path[i + 1] = pathSeparator

\* The cursors stand as the names demand, and the buffer holds the names.
At(r, l, names) ==
    /\ r.dst = 2 * Len(names) + 3 /\ r.depth = Len(names)
    /\ Rooted(r.buf, l, names)

LEMMA CursorsFields ==
  ASSUME NEW N \in Nat, NEW r \in Cursors(N)
  PROVE  /\ r.buf \in [1..N -> Tokens] /\ r.src \in 1..(N + 1)
         /\ r.dst \in Nat /\ r.depth \in Nat /\ DOMAIN r.buf = 1..N
         /\ DOMAIN r = {"buf", "src", "dst", "depth"}
  BY DEF Cursors

LEMMA ClimbGoesUp ==
  ASSUME NEW N \in Nat, NEW r \in Cursors(N), NEW l, NEW names \in Seq(Name),
         At(r, l, names)
  PROVE  /\ At(Climb(r), l, Down(names, "..")) /\ Climb(r).dst <= r.dst
         /\ Climb(r).buf = r.buf /\ Climb(r).src = r.src
         /\ Climb(r) \in Cursors(N)
         /\ Len(Down(names, "..")) \in Nat
         /\ Down(names, "..") # <<>> => r.dst > 3
  <1> DEFINE n == Len(names)
             up == Down(names, "..")
  <1>1. n \in Nat /\ (names = <<>> <=> n = 0) /\ \A k \in 1..n : names[k] \in Name
    BY LenOfNames
  <1>2. ".." \notin Separators \cup {"."} BY DEF Separators, pathSeparator
  <1>3. /\ r.buf \in [1..N -> Tokens] /\ r.src \in 1..(N + 1) /\ r.dst \in Nat /\ r.depth \in Nat
        /\ DOMAIN r = {"buf", "src", "dst", "depth"}
    BY CursorsFields
  <1>4. CASE n = 0
    <2>1. up = names BY <1>1, <1>2, <1>4 DEF Down
    <2>2. Climb(r) = r BY <1>4 DEF Climb, At
    <2>3. Len(up) \in Nat /\ up = <<>> BY <1>1, <1>4, <2>1
    <2> QED BY <1>3, <2>1, <2>2, <2>3
  <1>5. CASE n # 0
    <2>1. up = SubSeq(names, 1, n - 1) BY <1>1, <1>2, <1>5 DEF Down, Front
    <2>2. Len(up) = n - 1 /\ \A k \in 1..(n - 1) : up[k] = names[k]
      <3>1. n - 1 \in Int /\ 1 \in Int /\ \A i \in 1..(n - 1) : names[i] \in Name BY <1>1
      <3>2. /\ Len(up) = IF 1 <= n - 1 THEN n - 1 - 1 + 1 ELSE 0
            /\ \A i \in 1..(n - 1 - 1 + 1) : up[i] = names[1 + i - 1]
        BY <2>1, <3>1, SubSeqProperties
      <3>3. \A k \in 1..(n - 1) : k \in 1..(n - 1 - 1 + 1) /\ 1 + k - 1 = k BY <1>1
      <3> HIDE DEF up
      <3>4. Len(up) = n - 1
        <4>1. CASE n = 1 BY <3>2, <4>1
        <4>2. CASE n # 1
          <5>1. 1 <= n - 1 BY <1>1, <1>5, <4>2
          <5>2. n - 1 - 1 + 1 = n - 1 BY <1>1
          <5> QED BY <3>2, <5>1, <5>2
        <4> QED BY <4>1, <4>2
      <3> QED BY <3>2, <3>3, <3>4
    <2>3. OneUp(r.buf, r.dst) = 2 * n + 1
      <3> DEFINE d == 2 * n + 3
                 u == OneUp(r.buf, d)
      <3>1. d = r.dst /\ d \in Nat BY <1>1 DEF At
      <3>2. /\ u \in {2} \cup {i \in 3..(d - 1) : r.buf[i - 1] = pathSeparator}
            /\ \A i \in 3..(d - 1) : r.buf[i - 1] = pathSeparator => i <= u
            /\ u \in Nat
        BY <3>1, OneUpIs
      <3>3. r.buf[2 * n] = pathSeparator
        <4>1. CASE n = 1 BY <4>1 DEF At, Rooted, HasNames
        <4>2. CASE n # 1
          <5>1. n - 1 \in 1..(n - 1) /\ 2 * (n - 1) + 2 = 2 * n BY <1>1, <1>5, <4>2
          <5> QED BY <5>1 DEF At, Rooted, HasNames
        <4> QED BY <4>1, <4>2
      <3>4. 2 * n + 1 \in 3..(d - 1) /\ 2 * n + 1 - 1 = 2 * n BY <1>1, <1>5
      <3>5. 2 * n + 1 <= u BY <3>2, <3>3, <3>4
      <3>6. r.buf[2 * n + 1] # pathSeparator
        <4>1. n \in 1..n BY <1>1, <1>5
        <4>2. r.buf[2 * n + 1] = names[n] /\ names[n] \in Name
          BY <1>1, <4>1 DEF At, Rooted, HasNames
        <4> QED BY <4>2, NameIsNoMark
      <3>7. u # 2 * n + 2
        <4>1. 2 * n + 2 - 1 = 2 * n + 1 /\ 2 * n + 2 # 2 BY <1>1, <1>5
        <4> HIDE DEF u
        <4> QED BY <3>2, <3>6, <4>1
      <3>8. u <= 2 * n + 2
        <4>1. u = 2 \/ u \in 3..(d - 1) BY <3>2
        <4> HIDE DEF u
        <4> QED BY <1>1, <1>5, <4>1
      <3>9. u = 2 * n + 1
        <4> HIDE DEF u
        <4> QED BY <1>1, <3>2, <3>5, <3>7, <3>8
      <3> QED BY <3>1, <3>9
    <2>4. Climb(r) = [r EXCEPT !.dst = 2 * n + 1, !.depth = n - 1]
      BY <1>5, <2>3 DEF Climb, At
    <2>5. Climb(r).dst = 2 * n + 1 /\ Climb(r).depth = n - 1 /\ Climb(r).buf = r.buf
          /\ Climb(r).src = r.src
      BY <1>3, <2>4
    <2>6. Climb(r) \in Cursors(N)
      <3>1. 2 * n + 1 \in Nat /\ n - 1 \in Nat BY <1>1, <1>5
      <3> QED BY <2>4, <3>1 DEF Cursors
    <2>7. HasNames(r.buf, l, up)
      <3>1. \A k \in 1..(n - 1) : k \in 1..n BY <1>1
      <3>2. \A k \in 1..(n - 1 - 1) : k \in 1..(n - 1) BY <1>1
      <3> HIDE DEF up
      <3> QED BY <2>2, <3>1, <3>2 DEF At, Rooted, HasNames
    <2>8. r.buf[2 * (n - 1) + 2] = pathSeparator
      <3>1. CASE n = 1 BY <3>1 DEF At, Rooted, HasNames
      <3>2. CASE n # 1
        <4>1. n - 1 \in 1..(n - 1) BY <1>1, <1>5, <3>2
        <4> QED BY <4>1 DEF At, Rooted, HasNames
      <3> QED BY <3>1, <3>2
    <2>9. 2 * n + 1 = 2 * (n - 1) + 3 /\ n - 1 \in Nat BY <1>1, <1>5
    <2>10. r.dst = 2 * n + 3 BY DEF At
    <2> HIDE DEF up, n
    <2>11. At(Climb(r), l, up) BY <2>2, <2>5, <2>7, <2>8, <2>9 DEF At, Rooted
    <2> QED BY <1>1, <1>5, <2>2, <2>5, <2>6, <2>9, <2>10, <2>11 DEF up
  <1> QED BY <1>4, <1>5

LEMMA AppendGoesDown ==
  ASSUME NEW N \in Nat, NEW r \in Cursors(N), NEW l, NEW names \in Seq(Name),
         At(r, l, names), NEW t \in Name, r.dst + 1 <= N
  PROVE  /\ At(AppendPart(r, <<t>>), l, Append(names, t))
         /\ AppendPart(r, <<t>>).dst = r.dst + 2
         /\ AppendPart(r, <<t>>).src = r.src
         /\ \A j \in 1..N : j > r.dst + 1 => AppendPart(r, <<t>>).buf[j] = r.buf[j]
  <1> DEFINE n == Len(names)
             down == Append(names, t)
             buf == [j \in DOMAIN r.buf |->
                        IF j < r.dst \/ j > r.dst + Len(<<t>>) THEN r.buf[j]
                        ELSE IF j = r.dst + Len(<<t>>) THEN pathSeparator
                        ELSE <<t>>[j - r.dst + 1]]
             s == AppendPart(r, <<t>>)
  <1>1. n \in Nat /\ (\A k \in 1..n : names[k] \in Name) BY LenOfNames
  <1>2. /\ r.buf \in [1..N -> Tokens] /\ r.src \in 1..(N + 1) /\ r.dst \in Nat /\ r.depth \in Nat
        /\ DOMAIN r = {"buf", "src", "dst", "depth"} /\ DOMAIN r.buf = 1..N
    BY CursorsFields
  <1>3. Len(<<t>>) = 1 /\ <<t>>[1] = t OBVIOUS
  <1>4. s.buf = buf /\ s.dst = r.dst + 2 /\ s.depth = r.depth + 1 /\ s.src = r.src
    <2>1. s = [r EXCEPT !.buf = buf, !.dst = r.dst + Len(<<t>>) + 1, !.depth = r.depth + 1]
      BY DEF AppendPart
    <2> HIDE DEF buf, s
    <2> QED BY <1>2, <1>3, <2>1
  <1>5. r.dst = 2 * n + 3 /\ r.depth = n /\ HasNames(r.buf, l, names)
        /\ r.buf[2 * n + 2] = pathSeparator
    BY DEF At, Rooted
  <1>6. ASSUME NEW j \in 1..N
        PROVE  buf[j] = IF j = r.dst THEN t ELSE IF j = r.dst + 1 THEN pathSeparator
                        ELSE r.buf[j]
    <2>1. buf[j] = IF j < r.dst \/ j > r.dst + 1 THEN r.buf[j]
                   ELSE IF j = r.dst + 1 THEN pathSeparator ELSE <<t>>[j - r.dst + 1]
      BY <1>2, <1>3
    <2>2. j = r.dst => j - r.dst + 1 = 1 BY <1>2
    <2> HIDE DEF buf
    <2> QED BY <1>2, <1>3, <2>1, <2>2
  <1>7. /\ Len(down) = n + 1 /\ (\A k \in 1..n : down[k] = names[k]) /\ down[n + 1] = t
    BY AppendProperties
  <1> HIDE DEF buf, s, down, n
  <1>8. buf[1] = l /\ buf[2] = pathSeparator
    <2>1. 1 \in 1..N /\ 2 \in 1..N /\ 1 < r.dst /\ 2 < r.dst BY <1>1, <1>2, <1>5
    <2>2. 1 # r.dst /\ 1 # r.dst + 1 /\ 2 # r.dst /\ 2 # r.dst + 1 BY <1>2, <2>1
    <2>3. buf[1] = r.buf[1] /\ buf[2] = r.buf[2] BY <1>6, <2>1, <2>2
    <2> QED BY <1>5, <2>3 DEF HasNames
  <1>9. ASSUME NEW k \in 1..(n + 1) PROVE buf[2 * k + 1] = down[k]
    <2>1. CASE k = n + 1
      <3>1. 2 * k + 1 = r.dst BY <1>1, <1>5, <2>1
      <3>2. r.dst \in 1..N BY <1>1, <1>2, <1>5
      <3> QED BY <1>6, <1>7, <2>1, <3>1, <3>2
    <2>2. CASE k # n + 1
      <3>1. k \in 1..n /\ 2 * k + 1 \in 1..N /\ 2 * k + 1 # r.dst /\ 2 * k + 1 # r.dst + 1
        BY <1>1, <1>2, <1>5, <2>2
      <3>2. buf[2 * k + 1] = r.buf[2 * k + 1] BY <1>6, <3>1
      <3>3. r.buf[2 * k + 1] = names[k] BY <1>5, <3>1 DEF HasNames, n
      <3> QED BY <1>7, <3>1, <3>2, <3>3
    <2> QED BY <2>1, <2>2
  <1>10. ASSUME NEW k \in 1..(n + 1) PROVE buf[2 * k + 2] = pathSeparator
    <2>1. CASE k = n + 1
      <3>1. 2 * k + 2 = r.dst + 1 /\ r.dst + 1 \in 1..N /\ r.dst + 1 # r.dst
        BY <1>1, <1>2, <1>5, <2>1
      <3> QED BY <1>6, <3>1
    <2>2. CASE k # n + 1
      <3>1. k \in 1..n /\ 2 * k + 2 \in 1..N /\ 2 * k + 2 # r.dst /\ 2 * k + 2 # r.dst + 1
        BY <1>1, <1>2, <1>5, <2>2
      <3>2. buf[2 * k + 2] = r.buf[2 * k + 2] BY <1>6, <3>1
      <3>3. CASE k = n BY <1>5, <3>2, <3>3
      <3>4. CASE k # n
        <4>1. k \in 1..(n - 1) BY <1>1, <3>1, <3>4
        <4> QED BY <1>5, <3>2, <4>1 DEF HasNames, n
      <3> QED BY <3>3, <3>4
    <2> QED BY <2>1, <2>2
  <1>11. At(s, l, down)
    <2>1. r.dst + 2 = 2 * (n + 1) + 3 BY <1>1, <1>5
    <2>2. n + 1 \in 1..(n + 1) /\ \A k \in 1..(n + 1 - 1) : k \in 1..(n + 1) BY <1>1
    <2>3. Rooted(buf, l, down)
      BY <1>7, <1>8, <1>9, <1>10, <2>2 DEF Rooted, HasNames
    <2> QED BY <1>4, <1>5, <1>7, <2>1, <2>3 DEF At
  <1>12. ASSUME NEW j \in 1..N, j > r.dst + 1 PROVE s.buf[j] = r.buf[j]
    <2>1. j # r.dst /\ j # r.dst + 1 BY <1>2, <1>12
    <2> QED BY <1>4, <1>6, <2>1
  <1> QED BY <1>4, <1>11, <1>12 DEF s, down
-----------------------------------------------------------------------------
\* An absolute path whose label stands first, with one kind of separator.
IsWhole(path, l) ==
    /\ path \in Seq(Tokens \ {"\\"}) /\ 2 <= Len(path)
    /\ path[1] = l /\ path[2] = pathSeparator
    /\ Separated(path)

\* The cursors behind position i: where the walk stood at the last separator.
LoopInv(path, W, l, i, r) ==
    /\ r \in Cursors(Len(path))
    /\ r.src = IF path[i] = pathSeparator THEN i + 1 ELSE i
    /\ r.src >= 3 /\ path[r.src - 1] = pathSeparator
    /\ At(r, l, W[r.src - 1]) /\ r.dst <= r.src
    /\ \A j \in r.src..Len(path) : r.buf[j] = path[j]

LEMMA OnePart ==
  ASSUME NEW N \in Nat, NEW buf \in [1..N -> Tokens], NEW i \in 1..N
  PROVE  SubSeq(buf, i, i) = <<buf[i]>> /\ SubSeq(buf, i + 1, i) = <<>>
  <1>1. i \in Int /\ i + 1 \in Int /\ i < i + 1 OBVIOUS
  <1>2. SubSeq(buf, i + 1, i) = <<>> BY <1>1, SubSeqEmpty
  <1>3. buf[i] \in Tokens OBVIOUS
  <1>4. \A k \in i..i : buf[k] \in Tokens BY <1>1, <1>3
  <1>5. /\ SubSeq(buf, i, i) \in Seq(Tokens)
        /\ Len(SubSeq(buf, i, i)) = IF i <= i THEN i - i + 1 ELSE 0
        /\ \A k \in 1..(i - i + 1) : SubSeq(buf, i, i)[k] = buf[i + k - 1]
    BY <1>1, <1>4, SubSeqProperties
  <1>6. i - i + 1 = 1 /\ i <= i /\ 1 \in 1..(i - i + 1) /\ i + 1 - 1 = i OBVIOUS
  <1>7. Len(SubSeq(buf, i, i)) = 1 /\ SubSeq(buf, i, i)[1] = buf[i] BY <1>5, <1>6
  <1>8. <<buf[i]>> \in Seq(Tokens) /\ Len(<<buf[i]>>) = 1 /\ <<buf[i]>>[1] = buf[i]
    BY <1>3
  <1>9. SubSeq(buf, i, i) = <<buf[i]>>
    <2> DEFINE a == SubSeq(buf, i, i)
               b == <<buf[i]>>
    <2>1. a \in Seq(Tokens) /\ b \in Seq(Tokens) /\ Len(a) = 1 /\ Len(b) = 1 /\ a[1] = b[1]
      BY <1>5, <1>7, <1>8
    <2> HIDE DEF a, b
    <2>2. Len(a) = Len(b) /\ \A k \in 1..Len(a) : a[k] = b[k] BY <2>1
    <2>3. a = b BY <2>1, <2>2, SeqEqual
    <2> QED BY <2>3 DEF a, b
  <1> QED BY <1>2, <1>9

LEMMA WholeTokens ==
  ASSUME NEW l, NEW path, IsWhole(path, l)
  PROVE  /\ path \in Seq(Tokens) /\ Len(path) \in Nat
         /\ \A j \in 1..Len(path) : path[j] \in Tokens /\ path[j] # "\\"
         /\ \A j \in 1..Len(path) : path[j] \in {pathSeparator, ".", ".."} \/ path[j] \in Name
  <1>1. path \in Seq(Tokens \ {"\\"}) BY DEF IsWhole
  <1>2. path \in Seq(Tokens)
    <2>1. Tokens \ {"\\"} \subseteq Tokens OBVIOUS
    <2> QED BY <1>1, <2>1, SeqMonotonic
  <1>3. \A j \in 1..Len(path) : path[j] \in Tokens \ {"\\"} BY <1>1, ElementOfSeq
  <1>4. Len(path) \in Nat BY <1>2, LenProperties
  <1> QED BY <1>2, <1>3, <1>4 DEF Tokens, Name, Separators

(* The part that is taken at a separator: the cursors follow the walk.      *)
LEMMA TakePartFollows ==
  ASSUME NEW l, NEW path, IsWhole(path, l), NEW W, IsWalk(W, path),
         NEW i \in 2..(Len(path) - 1), NEW r, LoopInv(path, W, l, i, r),
         path[i + 1] = pathSeparator
  PROVE  LoopInv(path, W, l, i + 1, TakePart(r, i + 1))
  <1> DEFINE N == Len(path)
             names == W[r.src - 1]
             part == SubSeq(r.buf, r.src, i)
             done == IF part \in {<<>>, <<".">>} THEN r
                     ELSE IF part = <<"..">> THEN Climb(r)
                     ELSE AppendPart(r, part)
             s == TakePart(r, i + 1)
  <1>1. /\ path \in Seq(Tokens) /\ N \in Nat /\ i \in Nat /\ i + 1 \in 3..N /\ i + 1 - 1 = i
        /\ i + 1 \in 1..N /\ i \in 2..N /\ i \in 1..N
    BY WholeTokens
  <1>2. r \in Cursors(N) BY DEF LoopInv
  <1>3. /\ r.buf \in [1..N -> Tokens] /\ r.src \in 1..(N + 1) /\ r.dst \in Nat
        /\ DOMAIN r = {"buf", "src", "dst", "depth"}
    BY <1>1, <1>2, CursorsFields
  <1>4. s = [done EXCEPT !.src = i + 2]
    <2>1. PICK k \in Nat : k = i + 1 /\ k - 1 = i /\ k + 1 = i + 2 BY <1>1
    <2> DEFINE before == SubSeq(r.buf, r.src, k - 1)
               did == IF before \in {<<>>, <<".">>} THEN r
                      ELSE IF before = <<"..">> THEN Climb(r)
                      ELSE AppendPart(r, before)
    <2>2. TakePart(r, k) = [did EXCEPT !.src = k + 1] BY DEF TakePart
    <2>3. before = part BY <2>1
    <2> HIDE DEF before, part
    <2>4. did = done BY <2>3
    <2> HIDE DEF did, done
    <2> QED BY <2>1, <2>2, <2>4
  <1>5. s \in Cursors(N) BY <1>1, <1>2, TakePartIsCursors
  <1>6. W[i + 1] = W[i]
    <2>1. W[i + 1] = Down(W[i], path[i + 1]) BY <1>1 DEF IsWalk
    <2> QED BY <2>1 DEF Down, Separators
  <1>7. r.src >= 3 /\ r.dst <= r.src /\ At(r, l, names)
    BY DEF LoopInv
  <1>8. ASSUME At(done, l, W[i]), done.dst <= i + 2, done.src = r.src,
               \A j \in (i + 2)..N : done.buf[j] = path[j],
               DOMAIN done = {"buf", "src", "dst", "depth"}
        PROVE  LoopInv(path, W, l, i + 1, s)
    <2> HIDE DEF done
    <2>1. s.src = i + 2 /\ s.dst = done.dst /\ s.depth = done.depth /\ s.buf = done.buf
      BY <1>4, <1>8
    <2>2. i + 2 - 1 = i + 1 /\ i + 2 >= 3 /\ i + 2 = i + 1 + 1 BY <1>1
    <2>3. At(s, l, W[i]) BY <1>8, <2>1 DEF At
    <2> HIDE DEF s
    <2> QED BY <1>5, <1>6, <1>8, <2>1, <2>2, <2>3 DEF LoopInv
  <1>9. ASSUME NEW j \in (i + 2)..N PROVE r.buf[j] = path[j]
    <2>1. r.src = i \/ r.src = i + 1 BY DEF LoopInv
    <2>2. j \in r.src..N BY <1>1, <2>1
    <2> QED BY <2>2 DEF LoopInv
  <1>10. CASE path[i] = pathSeparator
    <2>1. r.src = i + 1 BY <1>10 DEF LoopInv
    <2>2. part = <<>> BY <1>1, <1>3, <2>1, OnePart
    <2>3. done = r BY <2>2
    <2>4. names = W[i] BY <1>1, <2>1
    <2>5. r.dst <= i + 2 BY <1>1, <1>3, <1>7, <2>1
    <2> HIDE DEF done
    <2> QED BY <1>3, <1>7, <1>8, <1>9, <2>3, <2>4, <2>5
  <1>11. CASE path[i] # pathSeparator
    <2>1. r.src = i BY <1>11 DEF LoopInv
    <2>2. part = <<path[i]>>
      <3>1. part = <<r.buf[i]>> BY <1>1, <1>3, <2>1, OnePart
      <3>2. i \in r.src..N BY <1>1, <2>1
      <3>3. r.buf[i] = path[i] BY <3>2 DEF LoopInv
      <3> QED BY <3>1, <3>3
    <2>3. i \in 3..N BY <1>1, <1>7, <2>1
    <2>4. i - 1 \in 2..N BY <1>1, <2>3
    <2>5. names = W[i - 1] /\ names \in Seq(Name)
      <3>1. W[i - 1] \in Seq(Name) BY <2>4, WalkIsNames DEF IsWhole, WholeTokens
      <3> QED BY <2>1, <3>1
    <2>6. W[i] = Down(names, path[i]) BY <2>3, <2>5 DEF IsWalk
    <2>7. path[i] \in {".", ".."} \/ path[i] \in Name BY <1>1, <1>11, WholeTokens
    <2>8. part # <<>> BY <2>2
    <2>9. CASE path[i] = "."
      <3>1. done = r BY <2>2, <2>9
      <3>2. W[i] = names BY <2>6, <2>9 DEF Down
      <3>3. r.dst <= i + 2 BY <1>1, <1>3, <1>7, <2>1
      <3> HIDE DEF done
      <3> QED BY <1>3, <1>7, <1>8, <1>9, <3>1, <3>2, <3>3
    <2>10. CASE path[i] = ".."
      <3>1. part # <<".">> BY <2>2, <2>10
      <3>2. part = <<"..">> BY <2>2, <2>10
      <3>3. done = Climb(r) BY <2>8, <3>1, <3>2
      <3>4. /\ At(Climb(r), l, Down(names, "..")) /\ Climb(r).dst <= r.dst
            /\ Climb(r).buf = r.buf /\ Climb(r).src = r.src /\ Climb(r) \in Cursors(N)
        BY <1>1, <1>2, <1>7, <2>5, ClimbGoesUp
      <3>5. /\ DOMAIN Climb(r) = {"buf", "src", "dst", "depth"} /\ Climb(r).dst \in Nat
        BY <1>1, <3>4, CursorsFields
      <3>6. Climb(r).dst <= i + 2 BY <1>1, <1>3, <1>7, <2>1, <3>4, <3>5
      <3> HIDE DEF done
      <3> QED BY <1>8, <1>9, <2>6, <2>10, <3>3, <3>4, <3>5, <3>6
    <2>11. CASE path[i] \in Name
      <3> DEFINE t == path[i]
                 a == AppendPart(r, <<t>>)
      <3>1. t # "." /\ t # ".." /\ t \notin Separators BY <2>11, NameIsNoMark
      <3>2. <<t>> # <<".">> /\ <<t>> # <<"..">> /\ <<t>> # <<>> BY <3>1
      <3>3. done = a BY <2>2, <3>2
      <3>4. r.dst + 1 <= N /\ r.dst + 2 <= i + 2 BY <1>1, <1>3, <1>7, <2>1
      <3>5. /\ At(a, l, Append(names, t)) /\ a.dst = r.dst + 2 /\ a.src = r.src
            /\ \A j \in 1..N : j > r.dst + 1 => a.buf[j] = r.buf[j]
        BY <1>1, <1>2, <1>7, <2>5, <2>11, <3>4, AppendGoesDown
      <3>6. W[i] = Append(names, t) BY <2>6, <3>1 DEF Down
      <3>7. ASSUME NEW j \in (i + 2)..N PROVE a.buf[j] = path[j]
        <4>1. j \in 1..N /\ j > r.dst + 1 BY <1>1, <1>3, <1>7, <2>1
        <4> HIDE DEF a
        <4> QED BY <1>9, <3>5, <4>1
      <3>8. DOMAIN a = {"buf", "src", "dst", "depth"} BY <1>3 DEF AppendPart
      <3> HIDE DEF done, a
      <3> QED BY <1>8, <3>3, <3>4, <3>5, <3>6, <3>7, <3>8
    <2> QED BY <2>7, <2>9, <2>10, <2>11
  <1> QED BY <1>10, <1>11

LEMMA LoopFollows ==
  ASSUME NEW l, NEW path, IsWhole(path, l), NEW W, IsWalk(W, path),
         NEW h, h[0] = [buf |-> path, src |-> 3, dst |-> 3, depth |-> 0],
         \A i \in 1..Len(path) : h[i] = Turn(path, 3, h[i - 1], i)
  PROVE  LoopInv(path, W, l, Len(path), h[Len(path)])
  <1> DEFINE N == Len(path)
             Good == {i \in Nat : LoopInv(path, W, l, i, h[i])}
  <1>1. /\ path \in Seq(Tokens) /\ N \in Nat /\ 2 <= N /\ path \in [1..N -> Tokens]
    BY WholeTokens, LenProperties DEF IsWhole
  <1>2. 2 \in Good
    <2>1. 1 \in 1..N /\ 2 \in 1..N /\ ~(1 >= 3) /\ ~(2 >= 3) /\ 1 - 1 = 0 /\ 2 - 1 = 1
      BY <1>1
    <2>2. h[1] = h[0] BY <2>1 DEF Turn
    <2>3. h[2] = h[1] BY <2>1 DEF Turn
    <2> DEFINE r == [buf |-> path, src |-> 3, dst |-> 3, depth |-> 0]
    <2>4. h[2] = r BY <2>2, <2>3
    <2>5. r \in Cursors(N)
      <3>1. 3 \in 1..(N + 1) BY <1>1
      <3> QED BY <1>1, <3>1 DEF Cursors
    <2>6. W[2] = <<>> /\ Len(<<>>) = 0 BY DEF IsWalk
    <2>7. At(r, l, <<>>) BY <2>6 DEF At, Rooted, HasNames, IsWhole
    <2>8. 3 - 1 = 2 /\ 2 + 1 = 3 /\ 3 >= 3 /\ 3 <= 3 OBVIOUS
    <2> QED BY <2>4, <2>5, <2>6, <2>7, <2>8 DEF LoopInv, IsWhole
  <1>3. ASSUME NEW i \in 2..(N - 1), i \in Good PROVE i + 1 \in Good
    <2>1. i + 1 \in 1..N /\ i + 1 >= 3 /\ i + 1 - 1 = i /\ i \in 1..(N - 1) /\ i + 1 \in Nat
      BY <1>1
    <2>2. LoopInv(path, W, l, i, h[i]) BY <1>3
    <2>3. CASE path[i + 1] = pathSeparator
      <3>1. h[i + 1] = TakePart(h[i], i + 1) BY <2>1, <2>3 DEF Turn
      <3> QED BY <2>1, <2>2, <2>3, <3>1, TakePartFollows
    <2>4. CASE path[i + 1] # pathSeparator
      <3>1. h[i + 1] = h[i] BY <2>1, <2>4 DEF Turn
      <3>2. path[i] = pathSeparator BY <2>1, <2>4 DEF IsWhole, Separated
      <3> QED BY <2>1, <2>2, <2>4, <3>1, <3>2 DEF LoopInv
    <2> QED BY <2>3, <2>4
  <1>4. N \in Good
    <2>1. Good \in SUBSET Nat /\ 2 \in Nat /\ N \in 2..N BY <1>1
    <2> HIDE DEF Good, N
    <2> QED BY <1>1, <1>2, <1>3, <2>1, Along
  <1> QED BY <1>4
-----------------------------------------------------------------------------
(* What removeDots leaves, and normalizePath without a separator at its end.*)

\* Where a path without dots and doubled separators leads.
Clean(path, l, names) == IsPlain(path, l, names) \/ IsSlashed(path, l, names)

LEMMA RootedIsSlashed ==
  ASSUME NEW N \in Nat, NEW buf \in [1..N -> Tokens], NEW l, NEW names \in Seq(Name),
         NEW dst \in Nat, dst = 2 * Len(names) + 3, dst <= N + 1, Rooted(buf, l, names)
  PROVE  IsSlashed(SubSeq(buf, 1, dst - 1), l, names)
  <1> DEFINE n == Len(names)
             p == SubSeq(buf, 1, dst - 1)
  <1>1. n \in Nat BY LenOfNames
  <1>2. dst - 1 = 2 * n + 2 /\ dst - 1 \in Nat /\ dst - 1 >= 2 BY <1>1
  <1>3. /\ p \in Seq(Tokens)
        /\ Len(p) = dst - 1
        /\ \A i \in 1..(dst - 1) : p[i] = buf[i]
    <2>1. \A i \in 1..(dst - 1) : buf[i] \in Tokens BY <1>1, <1>2
    <2>2. dst - 1 \in Int /\ 1 \in Int BY <1>2
    <2>3. /\ p \in Seq(Tokens)
          /\ Len(p) = IF 1 <= dst - 1 THEN dst - 1 - 1 + 1 ELSE 0
          /\ \A i \in 1..(dst - 1 - 1 + 1) : p[i] = buf[1 + i - 1]
      BY <2>1, <2>2, SubSeqProperties
    <2>4. 1 <= dst - 1 /\ dst - 1 - 1 + 1 = dst - 1 BY <1>2
    <2>5. \A i \in 1..(dst - 1) : 1 + i - 1 = i BY <1>2
    <2> HIDE DEF p
    <2> QED BY <2>3, <2>4, <2>5
  <1> HIDE DEF p
  <1>4. HasNames(buf, l, names) /\ buf[2 * n + 2] = pathSeparator BY DEF Rooted
  <1>5. p[1] = l /\ p[2] = pathSeparator
    <2>1. 1 \in 1..(dst - 1) /\ 2 \in 1..(dst - 1) BY <1>2
    <2> QED BY <1>3, <1>4, <2>1 DEF HasNames
  <1>6. ASSUME NEW k \in 1..n PROVE p[2 * k + 1] = names[k]
    <2>1. 2 * k + 1 \in 1..(dst - 1) BY <1>1, <1>2
    <2> QED BY <1>3, <1>4, <2>1 DEF HasNames
  <1>7. ASSUME NEW k \in 1..(n - 1) PROVE p[2 * k + 2] = pathSeparator
    <2>1. 2 * k + 2 \in 1..(dst - 1) BY <1>1, <1>2
    <2> QED BY <1>3, <1>4, <2>1 DEF HasNames
  <1>8. p[Len(p)] = pathSeparator
    <2>1. 2 * n + 2 \in 1..(dst - 1) BY <1>1, <1>2
    <2> QED BY <1>2, <1>3, <1>4, <2>1
  <1>9. HasNames(p, l, names) BY <1>5, <1>6, <1>7 DEF HasNames
  <1> HIDE DEF n
  <1> QED BY <1>2, <1>3, <1>8, <1>9 DEF IsSlashed, n, p

\* One name more behind the last separator.
LEMMA SlashedAndName ==
  ASSUME NEW l, NEW names \in Seq(Name), NEW p, IsSlashed(p, l, names), NEW t \in Name
  PROVE  IsPlain(p \o <<t>>, l, Append(names, t))
  <1> DEFINE n == Len(names)
             q == p \o <<t>>
             down == Append(names, t)
  <1>1. n \in Nat BY LenOfNames
  <1>2. p \in Seq(Tokens) /\ Len(p) = 2 * n + 2 /\ p[2 * n + 2] = pathSeparator
        /\ HasNames(p, l, names)
    BY DEF IsSlashed
  <1>3. <<t>> \in Seq(Tokens) /\ Len(<<t>>) = 1 /\ <<t>>[1] = t BY NameIsNoMark
  <1>4. /\ q \in Seq(Tokens) /\ Len(q) = Len(p) + Len(<<t>>)
        /\ \A i \in 1..(Len(p) + Len(<<t>>)) :
              q[i] = IF i <= Len(p) THEN p[i] ELSE <<t>>[i - Len(p)]
    BY <1>2, <1>3, ConcatProperties
  <1> HIDE DEF q
  <1>5. Len(q) = 2 * n + 3 BY <1>1, <1>2, <1>3, <1>4
  <1>6. \A i \in 1..(2 * n + 2) : q[i] = p[i]
    <2>1. \A i \in 1..(2 * n + 2) : i \in 1..(2 * n + 2 + 1) /\ i <= 2 * n + 2 BY <1>1
    <2> QED BY <1>2, <1>3, <1>4, <2>1
  <1>7. q[2 * n + 3] = t
    <2>1. 2 * n + 3 \in 1..(2 * n + 2 + 1) /\ ~(2 * n + 3 <= 2 * n + 2)
          /\ 2 * n + 3 - (2 * n + 2) = 1
      BY <1>1
    <2> QED BY <1>2, <1>3, <1>4, <2>1
  <1>8. /\ Len(down) = n + 1 /\ (\A k \in 1..n : down[k] = names[k]) /\ down[n + 1] = t
        /\ down # <<>>
    BY AppendProperties
  <1> HIDE DEF down
  <1>9. q[1] = l /\ q[2] = pathSeparator
    <2>1. 1 \in 1..(2 * n + 2) /\ 2 \in 1..(2 * n + 2) BY <1>1
    <2> QED BY <1>2, <1>6, <2>1 DEF HasNames
  <1>10. ASSUME NEW k \in 1..(n + 1) PROVE q[2 * k + 1] = down[k]
    <2>1. CASE k = n + 1
      <3>1. 2 * k + 1 = 2 * n + 3 BY <1>1, <2>1
      <3> QED BY <1>7, <1>8, <2>1, <3>1
    <2>2. CASE k # n + 1
      <3>1. k \in 1..n /\ 2 * k + 1 \in 1..(2 * n + 2) BY <1>1, <2>2
      <3> QED BY <1>2, <1>6, <1>8, <3>1 DEF HasNames
    <2> QED BY <2>1, <2>2
  <1>11. ASSUME NEW k \in 1..n PROVE q[2 * k + 2] = pathSeparator
    <2>1. 2 * k + 2 \in 1..(2 * n + 2) BY <1>1
    <2>2. q[2 * k + 2] = p[2 * k + 2] BY <1>6, <2>1
    <2>3. CASE k = n BY <1>2, <2>2, <2>3
    <2>4. CASE k # n
      <3>1. k \in 1..(n - 1) BY <1>1, <2>4
      <3> QED BY <1>2, <2>2, <3>1 DEF HasNames
    <2> QED BY <2>3, <2>4
  <1>12. HasNames(q, l, down)
    <2>1. n + 1 - 1 = n BY <1>1
    <2> QED BY <1>8, <1>9, <1>10, <1>11, <2>1 DEF HasNames
  <1>13. 2 * n + 3 = 2 * (n + 1) + 1 BY <1>1
  <1> HIDE DEF n
  <1> QED BY <1>4, <1>5, <1>8, <1>12, <1>13 DEF IsPlain, q, down

LEMMA DotsLead ==
  ASSUME NEW l, NEW path, IsWhole(path, l), NEW W, IsWalk(W, path)
  PROVE  Clean(removeDots(path, 1), l, W[Len(path)])
  <1> DEFINE N == Len(path)
  <1>1. /\ path \in Seq(Tokens) /\ N \in Nat /\ 2 <= N /\ 1 \in 1..N /\ 1 < N /\ 1 + 2 = 3
    <2>1. path \in Seq(Tokens) /\ N \in Nat BY WholeTokens
    <2>2. 2 <= N BY DEF IsWhole
    <2> HIDE DEF N
    <2> QED BY <2>1, <2>2
  <1>2. PICK h : /\ h[0] = [buf |-> path, src |-> 3, dst |-> 3, depth |-> 0]
                 /\ \A i \in 1..N : h[i] = Turn(path, 3, h[i - 1], i)
                 /\ removeDots(path, 1) = Finish(h[N], N)
    BY <1>1, DotsFold
  <1> DEFINE r == h[N]
             names == W[r.src - 1]
             last == SubSeq(r.buf, r.src, N)
             short == SubSeq(r.buf, 1, r.dst - 1)
  <1>3. LoopInv(path, W, l, N, r) BY <1>2, LoopFollows
  <1>4. /\ r \in Cursors(N) /\ r.src >= 3 /\ r.dst <= r.src /\ At(r, l, names)
    BY <1>3 DEF LoopInv
  <1>5. /\ r.buf \in [1..N -> Tokens] /\ r.src \in 1..(N + 1) /\ r.dst \in Nat
    BY <1>1, <1>4, CursorsFields
  <1>6. r.src - 1 \in 2..N BY <1>1, <1>4, <1>5
  <1>7. names \in Seq(Name) BY <1>1, <1>6, WalkIsNames
  <1>8. r.dst = 2 * Len(names) + 3 /\ Rooted(r.buf, l, names) BY <1>4 DEF At
  <1>9. r.dst <= N + 1 BY <1>1, <1>4, <1>5
  <1>10. IsSlashed(short, l, names)
    BY <1>1, <1>5, <1>7, <1>8, <1>9, RootedIsSlashed
  <1>11. CASE path[N] = pathSeparator
    <2>1. r.src = N + 1 BY <1>3, <1>11 DEF LoopInv
    <2>2. N \in 1..N BY <1>1
    <2>3. last = <<>> BY <1>1, <1>5, <2>1, <2>2, OnePart
    <2>4. W[N] = names BY <1>1, <2>1
    <2>5. last # <<".">> /\ last # <<"..">> BY <2>3
    <2>6. Finish(r, N) = short \o last BY <2>5 DEF Finish
    <2>7. short \in Seq(Tokens) BY <1>10 DEF IsSlashed
    <2>8. short \o <<>> = short BY <2>7, ConcatEmptySeq
    <2> QED BY <1>2, <1>10, <2>3, <2>4, <2>6, <2>8 DEF Clean
  <1>12. CASE path[N] # pathSeparator
    <2>1. r.src = N BY <1>3, <1>12 DEF LoopInv
    <2>2. N \in 1..N /\ N \in r.src..N BY <1>1, <2>1
    <2>3. last = <<path[N]>>
      <3>1. last = <<r.buf[N]>> BY <1>5, <1>1, <2>1, <2>2, OnePart
      <3>2. r.buf[N] = path[N] BY <1>3, <2>2 DEF LoopInv
      <3> QED BY <3>1, <3>2
    <2>4. N \in 3..N BY <1>1, <1>4, <2>1
    <2>5. W[N] = Down(names, path[N]) BY <2>1, <2>4 DEF IsWalk
    <2>6. path[N] \in {".", ".."} \/ path[N] \in Name BY <1>12, <2>2, WholeTokens
    <2>7. CASE path[N] = "."
      <3>1. W[N] = names BY <2>5, <2>7 DEF Down
      <3>2. Finish(r, N) = short BY <2>3, <2>7 DEF Finish
      <3> QED BY <1>2, <1>10, <3>1, <3>2 DEF Clean
    <2>8. CASE path[N] = ".."
      <3> DEFINE up == Down(names, "..")
                 c == Climb(r)
      <3>1. /\ At(c, l, up) /\ c.dst <= r.dst /\ c.buf = r.buf /\ c \in Cursors(N)
        BY <1>1, <1>4, <1>7, ClimbGoesUp
      <3>2. up \in Seq(Name)
        <4>1. ".." \in Tokens BY DEF Tokens
        <4> QED BY <1>7, <4>1, DownIsNames
      <3>3. c.buf \in [1..N -> Tokens] /\ c.dst \in Nat BY <1>1, <3>1, CursorsFields
      <3>4. Finish(r, N) = SubSeq(c.buf, 1, c.dst - 1)
        <4>1. last = <<"..">> /\ last # <<".">> BY <2>3, <2>8
        <4> QED BY <3>1, <4>1 DEF Finish
      <3>5. c.dst = 2 * Len(up) + 3 /\ Rooted(c.buf, l, up) BY <3>1 DEF At
      <3>6. c.dst <= N + 1
        <4> HIDE DEF c
        <4> QED BY <1>1, <1>5, <1>9, <3>1, <3>3
      <3> HIDE DEF up, c
      <3>7. IsSlashed(SubSeq(c.buf, 1, c.dst - 1), l, up)
        BY <1>1, <3>2, <3>3, <3>5, <3>6, RootedIsSlashed
      <3>8. W[N] = up BY <2>5, <2>8 DEF up
      <3> QED BY <1>2, <3>4, <3>7, <3>8 DEF Clean
    <2>9. CASE path[N] \in Name
      <3>1. path[N] # "." /\ path[N] # ".." /\ path[N] \notin Separators BY <2>9, NameIsNoMark
      <3>2. last # <<".">> /\ last # <<"..">> BY <2>3, <3>1
      <3>3. Finish(r, N) = short \o <<path[N]>> BY <2>3, <3>2 DEF Finish
      <3>4. W[N] = Append(names, path[N]) BY <2>5, <3>1 DEF Down
      <3>5. IsPlain(short \o <<path[N]>>, l, Append(names, path[N]))
        BY <1>7, <1>10, <2>9, SlashedAndName
      <3> QED BY <1>2, <3>3, <3>4, <3>5 DEF Clean
    <2> QED BY <2>6, <2>7, <2>8, <2>9
  <1> QED BY <1>11, <1>12

\* What is done to a path once its dots are gone.
Trimmed(short) ==
    IF Len(short) > 2 /\ Last(short) = pathSeparator THEN Front(short) ELSE short

LEMMA TrimmedIsPlain ==
  ASSUME NEW l, NEW names \in Seq(Name), NEW p, Clean(p, l, names)
  PROVE  IsPlain(Trimmed(p), l, names)
  <1> DEFINE n == Len(names)
  <1>1. n \in Nat /\ (names = <<>> <=> n = 0) /\ \A k \in 1..n : names[k] \in Name
    BY LenOfNames
  <1>2. CASE IsPlain(p, l, names)
    <2>1. p \in Seq(Tokens) /\ (Len(p) = IF n = 0 THEN 2 ELSE 2 * n + 1) /\ HasNames(p, l, names)
      BY <1>1, <1>2 DEF IsPlain
    <2>2. ~(Len(p) > 2 /\ Last(p) = pathSeparator)
      <3>1. CASE n = 0 BY <2>1, <3>1
      <3>2. CASE n # 0
        <4>1. n \in 1..n BY <1>1, <3>2
        <4>2. Last(p) = names[n] BY <2>1, <3>2, <4>1 DEF Last, HasNames
        <4>3. names[n] \in Name BY <1>1, <4>1
        <4> QED BY <4>2, <4>3, NameIsNoMark
      <3> QED BY <3>1, <3>2
    <2> QED BY <1>2, <2>2 DEF Trimmed
  <1>3. CASE IsSlashed(p, l, names)
    <2>1. p \in Seq(Tokens) /\ Len(p) = 2 * n + 2 /\ HasNames(p, l, names)
          /\ p[Len(p)] = pathSeparator
      BY <1>3 DEF IsSlashed
    <2>2. CASE n = 0
      <3>1. Trimmed(p) = p BY <2>1, <2>2 DEF Trimmed
      <3> QED BY <1>1, <2>1, <2>2, <3>1 DEF IsPlain
    <2>3. CASE n # 0
      <3> DEFINE m == 2 * n + 1
                 q == SubSeq(p, 1, m)
      <3>1. m \in Nat /\ m + 1 = 2 * n + 2 /\ 1 <= m /\ m >= 3 BY <1>1, <2>3
      <3>2. Trimmed(p) = q
        <4>1. Len(p) > 2 /\ Len(p) - 1 = m BY <1>1, <2>1, <2>3
        <4> QED BY <2>1, <4>1 DEF Trimmed, Last, Front
      <3>3. q \in Seq(Tokens) /\ Len(q) = m /\ \A i \in 1..m : q[i] = p[i]
        <4>1. \A i \in 1..m : i \in 1..Len(p) BY <1>1, <2>1
        <4>2. \A i \in 1..m : p[i] \in Tokens BY <2>1, <4>1, ElementOfSeq
        <4>3. m \in Int /\ 1 \in Int BY <3>1
        <4>4. /\ q \in Seq(Tokens)
              /\ Len(q) = IF 1 <= m THEN m - 1 + 1 ELSE 0
              /\ \A i \in 1..(m - 1 + 1) : q[i] = p[1 + i - 1]
          BY <4>2, <4>3, SubSeqProperties
        <4>5. m - 1 + 1 = m /\ \A i \in 1..m : 1 + i - 1 = i BY <3>1
        <4> HIDE DEF q, m
        <4> QED BY <3>1, <4>4, <4>5
      <3> HIDE DEF q
      <3>4. q[1] = l /\ q[2] = pathSeparator
        <4>1. 1 \in 1..m /\ 2 \in 1..m BY <3>1
        <4> QED BY <2>1, <3>3, <4>1 DEF HasNames
      <3>5. ASSUME NEW k \in 1..n PROVE q[2 * k + 1] = names[k]
        <4>1. 2 * k + 1 \in 1..m BY <1>1
        <4> QED BY <2>1, <3>3, <4>1 DEF HasNames
      <3>6. ASSUME NEW k \in 1..(n - 1) PROVE q[2 * k + 2] = pathSeparator
        <4>1. 2 * k + 2 \in 1..m BY <1>1
        <4> QED BY <2>1, <3>3, <4>1 DEF HasNames
      <3>7. HasNames(q, l, names) BY <3>4, <3>5, <3>6 DEF HasNames
      <3> QED BY <1>1, <2>3, <3>2, <3>3, <3>7 DEF IsPlain
    <2> QED BY <2>2, <2>3
  <1> QED BY <1>2, <1>3 DEF Clean
-----------------------------------------------------------------------------
(* normalizePath: absolute paths, and the three ways to become one.         *)
LEMMA LabelComesFirst ==
  ASSUME NEW path, Len(path) \in Nat, 2 <= Len(path),
         path[1] \in Labels, path[2] = pathSeparator
  PROVE  labelLength(path) = 1 /\ isAbsolute(path)
  <1> DEFINE at == {i \in 1..(Len(path) - 1) : path[i] \in Labels /\ path[i + 1] = pathSeparator}
  <1>1. PICK n \in Nat : n = Len(path) /\ 2 <= n OBVIOUS
  <1>2. 1 \in 1..(n - 1) /\ 1 + 1 = 2 BY <1>1
  <1>3. 1 \in at BY <1>1, <1>2
  <1>4. \A i \in at : i \in Nat /\ 1 <= i
    <2>1. \A i \in 1..(n - 1) : i \in Nat /\ 1 <= i BY <1>1
    <2> QED BY <1>1, <2>1
  <1> HIDE DEF at
  <1>5. Min(at) \in at /\ \A y \in at : Min(at) <= y
    <2>1. \E x \in at : \A y \in at : x <= y BY <1>3, <1>4
    <2> QED BY <2>1 DEF Min
  <1>6. Min(at) <= 1 /\ 1 <= Min(at) /\ Min(at) \in Nat BY <1>3, <1>4, <1>5
  <1>7. Min(at) = 1 BY <1>6
  <1>8. at # {} BY <1>3
  <1>9. labelLength(path) = 1 BY <1>7, <1>8 DEF labelLength, at
  <1> QED BY <1>9 DEF isAbsolute

LEMMA Unified ==
  ASSUME NEW path \in Seq(Tokens)
  PROVE  /\ unifySeparators(path) \in Seq(Tokens \ {"\\"})
         /\ Len(unifySeparators(path)) = Len(path)
         /\ \A j \in 1..Len(path) :
               /\ unifySeparators(path)[j] =
                     IF path[j] \in Separators THEN pathSeparator ELSE path[j]
               /\ \A v : Down(v, unifySeparators(path)[j]) = Down(v, path[j])
  <1> DEFINE q == unifySeparators(path)
  <1>1. Len(path) \in Nat /\ \A j \in 1..Len(path) : path[j] \in Tokens
    BY LenProperties, ElementOfSeq
  <1>2. q = [i \in 1..Len(path) |-> IF path[i] \in Separators THEN pathSeparator ELSE path[i]]
    BY DEF unifySeparators
  <1> HIDE DEF q
  <1>3. pathSeparator \in Tokens \ {"\\"} /\ "\\" \in Separators /\ pathSeparator \in Separators
    BY DEF pathSeparator, Tokens, Separators
  <1>4. \A j \in 1..Len(path) : q[j] \in Tokens \ {"\\"} BY <1>1, <1>2, <1>3
  <1>5. q \in Seq(Tokens \ {"\\"}) /\ Len(q) = Len(path) BY <1>1, <1>2, <1>4
  <1>6. \A j \in 1..Len(path) : \A v : Down(v, q[j]) = Down(v, path[j])
    BY <1>2, <1>3 DEF Down
  <1> QED BY <1>2, <1>5, <1>6 DEF q

\* An absolute path is normalised to where the walk of its parts leads.
LEMMA WholeIsNormalized ==
  ASSUME NEW wd, NEW typed, NEW whole, whole = ensureAbsoluteForm(wd, typed),
         whole \in Seq(Tokens), 2 <= Len(whole),
         NEW l \in Labels, whole[1] = l, whole[2] = pathSeparator,
         \A i \in 1..(Len(whole) - 1) : whole[i] \in Separators \/ whole[i + 1] \in Separators,
         NEW W, IsWalk(W, whole)
  PROVE  IsPlain(normalizePath(wd, typed), l, W[Len(whole)]) /\ W[Len(whole)] \in Seq(Name)
  <1> DEFINE q == unifySeparators(whole)
  <1>1. Len(whole) \in Nat BY LenProperties
  <1>2. labelLength(whole) = 1 BY <1>1, LabelComesFirst
  <1>3. /\ q \in Seq(Tokens \ {"\\"}) /\ Len(q) = Len(whole)
        /\ \A j \in 1..Len(whole) :
              /\ q[j] = IF whole[j] \in Separators THEN pathSeparator ELSE whole[j]
              /\ \A v : Down(v, q[j]) = Down(v, whole[j])
    BY Unified
  <1> HIDE DEF q
  <1>4. PICK n \in Nat : n = Len(whole) /\ 2 <= n BY <1>1
  <1>5. IsWhole(q, l)
    <2>1. 1 \in 1..n /\ 2 \in 1..n BY <1>4
    <2>2. l \notin Separators BY NameIsNoMark DEF Name
    <2>3. q[1] = l /\ q[2] = pathSeparator BY <1>3, <1>4, <2>1, <2>2
    <2>4. \A i \in 1..(n - 1) : i \in 1..n /\ i + 1 \in 1..n BY <1>4
    <2>5. Separated(q) BY <1>3, <1>4, <2>4 DEF Separated
    <2> QED BY <1>3, <1>4, <2>3, <2>5 DEF IsWhole
  <1>6. IsWalk(W, q)
    <2>1. \A j \in 3..n : j \in 1..n BY <1>4
    <2> QED BY <1>3, <1>4, <2>1 DEF IsWalk
  <1>7. Clean(removeDots(q, 1), l, W[n]) BY <1>3, <1>4, <1>5, <1>6, DotsLead
  <1>8. W[n] \in Seq(Name)
    <2>1. n \in 2..n BY <1>4
    <2> QED BY <1>4, <2>1, WalkIsNames
  <1>9. normalizePath(wd, typed) = Trimmed(removeDots(q, 1))
    <2>1. 1 + 1 = 2 OBVIOUS
    <2> QED BY <1>2, <2>1 DEF normalizePath, Trimmed, q
  <1> QED BY <1>4, <1>7, <1>8, <1>9, TrimmedIsPlain

LEMMA PlainFacts ==
  ASSUME NEW l, NEW names \in Seq(Name), NEW p, IsPlain(p, l, names)
  PROVE  /\ p \in Seq(Tokens) /\ Len(p) \in Nat /\ 2 <= Len(p)
         /\ p[1] = l /\ p[2] = pathSeparator
         /\ \A i \in 1..(Len(p) - 1) : p[i] \in Separators \/ p[i + 1] \in Separators
         /\ p # <<>>
  <1> DEFINE n == Len(names)
  <1>1. n \in Nat /\ (names = <<>> <=> n = 0) BY LenOfNames
  <1>2. p \in Seq(Tokens) /\ (Len(p) = IF n = 0 THEN 2 ELSE 2 * n + 1) /\ HasNames(p, l, names)
    BY <1>1 DEF IsPlain
  <1>3. Len(p) \in Nat /\ 2 <= Len(p)
    <2>1. CASE n = 0 BY <1>2, <2>1
    <2>2. CASE n # 0
      <3>1. 2 * n + 1 \in Nat /\ 2 <= 2 * n + 1 BY <1>1, <2>2
      <3> QED BY <1>2, <2>2, <3>1
    <2> QED BY <2>1, <2>2
  <1>4. pathSeparator \in Separators BY DEF Separators
  <1>5. ASSUME NEW i \in 1..(Len(p) - 1)
        PROVE  p[i] \in Separators \/ p[i + 1] \in Separators
    <2>1. i \in Nat BY <1>3
    <2>2. PICK k \in Nat : i = 2 * k \/ i = 2 * k + 1 BY <2>1, Parity
    <2>3. i <= 2 \/ i < 2 * n + 1
      <3>1. CASE n = 0 BY <1>2, <3>1
      <3>2. CASE n # 0
        <4>1. Len(p) = 2 * n + 1 BY <1>2, <3>2
        <4> QED BY <1>1, <4>1
      <3> QED BY <3>1, <3>2
    <2>4. CASE i = 1
      <3>1. i + 1 = 2 BY <2>4
      <3> QED BY <1>2, <1>4, <3>1 DEF HasNames
    <2>5. CASE i = 2 BY <1>2, <1>4, <2>5 DEF HasNames
    <2>6. CASE i > 2 /\ i = 2 * k
      <3>1. k - 1 \in 1..(n - 1) /\ i = 2 * (k - 1) + 2 BY <1>1, <2>3, <2>6
      <3> QED BY <1>2, <1>4, <3>1 DEF HasNames
    <2>7. CASE i > 2 /\ i = 2 * k + 1
      <3>1. k \in 1..(n - 1) /\ i + 1 = 2 * k + 2
        <4>1. i < 2 * n + 1 BY <1>1, <2>1, <2>3, <2>7
        <4> QED BY <1>1, <2>7, <4>1
      <3> QED BY <1>2, <1>4, <3>1 DEF HasNames
    <2> QED BY <2>1, <2>2, <2>4, <2>5, <2>6, <2>7
  <1>6. Len(<<>>) = 0 OBVIOUS
  <1>7. p # <<>>
    <2> HIDE DEF n
    <2> QED BY <1>3, <1>6
  <1> QED BY <1>2, <1>3, <1>5, <1>7 DEF HasNames

\* A normalised path stays as it is.
LEMMA PlainStays ==
  ASSUME NEW wd, NEW l \in Labels, NEW names \in Seq(Name), NEW p, IsPlain(p, l, names)
  PROVE  normalizePath(wd, p) = p
  <1>1. /\ p \in Seq(Tokens) /\ Len(p) \in Nat /\ 2 <= Len(p)
        /\ p[1] = l /\ p[2] = pathSeparator
        /\ \A i \in 1..(Len(p) - 1) : p[i] \in Separators \/ p[i + 1] \in Separators
    BY PlainFacts
  <1>2. p = ensureAbsoluteForm(wd, p)
    <2>1. isAbsolute(p) BY <1>1, LabelComesFirst
    <2> QED BY <2>1 DEF ensureAbsoluteForm
  <1>3. PICK W : IsWalk(W, p) BY <1>1, WalkExists
  <1>4. Len(p) = IF names = <<>> THEN 2 ELSE 2 * Len(names) + 1 BY DEF IsPlain
  <1>5. W[Len(p)] = names
    <2>1. HasNames(p, l, names) BY DEF IsPlain
    <2>2. (IF names = <<>> THEN 2 ELSE 2 * Len(names) + 1) <= Len(p)
      <3>1. Len(p) <= Len(p) BY <1>1
      <3> QED BY <1>4, <3>1
    <2>3. W[IF names = <<>> THEN 2 ELSE 2 * Len(names) + 1] = names
      BY <1>1, <1>3, <2>1, <2>2, WalkOfNames
    <2> QED BY <1>4, <2>3
  <1>6. IsPlain(normalizePath(wd, p), l, names)
    BY <1>1, <1>2, <1>3, <1>5, WholeIsNormalized
  <1> QED BY <1>6, PlainIsUnique
-----------------------------------------------------------------------------
\* path leads to a place, and is the only normalised path that does.
LeadsTo(path, place) ==
    /\ place.label \in Labels /\ place.names \in Seq(Name)
    /\ place = [label |-> place.label, names |-> place.names]
    /\ IsPlain(path, place.label, place.names)

LEMMA AbsoluteMeans ==
  ASSUME NEW wd, NEW here, NEW typed \in Seq(Tokens), WellFormed(typed), isAbsolute(typed)
  PROVE  LeadsTo(normalizePath(wd, typed), Meaning(here, typed))
  <1> DEFINE at == {i \in 1..(Len(typed) - 1) :
                       typed[i] \in Labels /\ typed[i + 1] = pathSeparator}
  <1>1. PICK n \in Nat : n = Len(typed) BY LenProperties
  <1>2. at # {} BY DEF isAbsolute, labelLength
  <1>3. PICK i \in 1..(n - 1) : typed[i] \in Labels /\ typed[i + 1] = pathSeparator
    BY <1>1, <1>2
  <1>4. i = 1
    <2>1. i = 1 \/ i \in 2..(n - 1) BY <1>1
    <2> QED BY <1>1, <1>3, <2>1 DEF WellFormed
  <1>5. typed[1] \in Labels /\ typed[2] = pathSeparator /\ 2 <= n /\ n > 1
    <2>1. 1 + 1 = 2 /\ 1 \in 1..(n - 1) BY <1>3, <1>4
    <2> QED BY <1>1, <1>3, <1>4, <2>1
  <1> DEFINE l == typed[1]
             root == [label |-> l, names |-> <<>>]
             toks == Tail(typed)
  <1>6. Meaning(here, typed) = WalkFrom(root, toks) BY <1>1, <1>5 DEF Meaning
  <1>7. /\ toks \in Seq(Tokens) /\ Len(toks) = n - 1
        /\ \A k \in 1..(n - 1) : toks[k] = typed[k + 1]
    <2>1. Len(<<>>) = 0 OBVIOUS
    <2>2. typed # <<>> BY <1>1, <1>5, <2>1
    <2>3. /\ toks \in Seq(Tokens) /\ Len(toks) = Len(typed) - 1
          /\ \A k \in 1..Len(toks) : toks[k] = typed[k + 1]
      BY <2>2, HeadTailProperties
    <2> HIDE DEF toks
    <2> QED BY <1>1, <2>3
  <1>8. root.names \in Seq(Name) /\ root.names = <<>> /\ root.label = l BY EmptySeq
  <1> HIDE DEF toks, root
  <1>9. PICK w : /\ w[0] = root.names
                 /\ \A k \in 1..Len(toks) : w[k] = Down(w[k - 1], toks[k])
                 /\ WalkFrom(root, toks) = [root EXCEPT !.names = w[Len(toks)]]
    BY <1>7, <1>8, WalkFold
  <1> DEFINE W == [j \in 2..n |-> w[j - 1]]
  <1>10. IsWalk(W, typed)
    <2>1. W[2] = <<>>
      <3>1. 1 \in 1..(n - 1) /\ 1 - 1 = 0 /\ 1 + 1 = 2 /\ 2 - 1 = 1 /\ 2 \in 2..n BY <1>5
      <3>2. toks[1] = pathSeparator BY <1>5, <1>7, <3>1
      <3>3. 1 \in 1..Len(toks) BY <1>7, <3>1
      <3>4. w[1] = Down(w[1 - 1], toks[1]) BY <1>9, <3>3
      <3>5. w[1] = Down(<<>>, pathSeparator) BY <1>8, <1>9, <3>1, <3>2, <3>4
      <3>6. W[2] = w[1] BY <3>1
      <3> QED BY <3>5, <3>6 DEF Down, Separators
    <2>2. ASSUME NEW j \in 3..n PROVE W[j] = Down(W[j - 1], typed[j])
      <3>1. j - 1 \in 1..(n - 1) /\ j - 1 + 1 = j /\ j \in 2..n /\ j - 1 \in 2..n BY <1>5
      <3>2. w[j - 1] = Down(w[j - 1 - 1], typed[j]) BY <1>7, <1>9, <3>1
      <3> QED BY <3>1, <3>2
    <2> HIDE DEF W
    <2> QED BY <1>1, <2>1, <2>2 DEF IsWalk
  <1>11. W[n] = w[n - 1] /\ w[Len(toks)] = w[n - 1] BY <1>5, <1>7
  <1> HIDE DEF W
  <1>12. typed = ensureAbsoluteForm(wd, typed) BY DEF ensureAbsoluteForm
  <1>13. IsPlain(normalizePath(wd, typed), l, W[n]) /\ W[n] \in Seq(Name)
    <2>1. \A k \in 1..(Len(typed) - 1) : typed[k] \in Separators \/ typed[k + 1] \in Separators
      BY DEF WellFormed
    <2> QED BY <1>1, <1>5, <1>10, <1>12, <2>1, WholeIsNormalized
  <1>14. Meaning(here, typed) = [label |-> l, names |-> W[n]]
    BY <1>6, <1>9, <1>11 DEF root
  <1> QED BY <1>5, <1>13, <1>14 DEF LeadsTo

LEMMA RootMeans ==
  ASSUME NEW l \in Labels, NEW names \in Seq(Name), NEW wd, IsPlain(wd, l, names),
         NEW here, here.label = l,
         NEW typed \in Seq(Tokens), ~isAbsolute(typed), Len(typed) = 1, typed[1] \in Separators
  PROVE  LeadsTo(normalizePath(wd, typed), Meaning(here, typed))
  <1>1. /\ wd \in Seq(Tokens) /\ Len(wd) \in Nat /\ 2 <= Len(wd)
        /\ wd[1] = l /\ wd[2] = pathSeparator
    BY PlainFacts
  <1> DEFINE whole == SubSeq(wd, 1, 2)
  <1>2. whole = ensureAbsoluteForm(wd, typed)
    <2>1. labelLength(wd) = 1 BY <1>1, LabelComesFirst
    <2>2. 1 + 1 = 2 OBVIOUS
    <2> QED BY <2>1, <2>2 DEF ensureAbsoluteForm
  <1>3. whole \in Seq(Tokens) /\ Len(whole) = 2 /\ whole[1] = l /\ whole[2] = pathSeparator
    <2>1. \A i \in 1..2 : wd[i] \in Tokens
      <3>1. PICK n \in Nat : n = Len(wd) /\ 2 <= n BY <1>1
      <3>2. \A i \in 1..2 : i \in 1..n BY <3>1
      <3> QED BY <1>1, <3>1, <3>2, ElementOfSeq
    <2>2. /\ whole \in Seq(Tokens)
          /\ Len(whole) = IF 1 <= 2 THEN 2 - 1 + 1 ELSE 0
          /\ \A i \in 1..(2 - 1 + 1) : whole[i] = wd[1 + i - 1]
      BY <2>1, SubSeqProperties
    <2>3. 2 - 1 + 1 = 2 /\ 1 <= 2 /\ 1 \in 1..2 /\ 2 \in 1..2 /\ 1 + 1 - 1 = 1 /\ 1 + 2 - 1 = 2
      OBVIOUS
    <2> HIDE DEF whole
    <2> QED BY <1>1, <2>2, <2>3
  <1> HIDE DEF whole
  <1>4. PICK W : IsWalk(W, whole)
    <2>1. 2 <= Len(whole) BY <1>3
    <2> QED BY <1>3, <2>1, WalkExists
  <1>5. W[Len(whole)] = <<>> BY <1>3, <1>4 DEF IsWalk
  <1>6. \A i \in 1..(Len(whole) - 1) : whole[i] \in Separators \/ whole[i + 1] \in Separators
    <2>1. \A i \in 1..(2 - 1) : i + 1 = 2 OBVIOUS
    <2>2. pathSeparator \in Separators BY DEF Separators
    <2> QED BY <1>3, <2>1, <2>2
  <1>7. IsPlain(normalizePath(wd, typed), l, <<>>)
    <2>1. 2 <= Len(whole) BY <1>3
    <2> QED BY <1>2, <1>3, <1>4, <1>5, <1>6, <2>1, WholeIsNormalized
  <1>8. Meaning(here, typed) = [label |-> l, names |-> <<>>]
    <2>1. typed \in {<<s>> : s \in Separators}
      <3>1. typed = <<typed[1]>>
        <4> DEFINE t == <<typed[1]>>
        <4>1. typed[1] \in Tokens BY DEF Tokens
        <4>2. t \in Seq(Tokens) /\ Len(t) = 1 /\ t[1] = typed[1] BY <4>1
        <4> HIDE DEF t
        <4>3. \A i \in 1..1 : i = 1 OBVIOUS
        <4>4. typed = t BY <4>2, <4>3, SeqEqual
        <4> QED BY <4>4 DEF t
      <3> QED BY <3>1
    <2>2. ~(Len(typed) > 1) OBVIOUS
    <2> QED BY <2>1, <2>2 DEF Meaning
  <1>9. <<>> \in Seq(Name) BY EmptySeq
  <1> QED BY <1>7, <1>8, <1>9 DEF LeadsTo

\* The working directory with a separator behind it.
LEMMA BaseIsSlashed ==
  ASSUME NEW l \in Labels, NEW names \in Seq(Name), NEW wd, IsPlain(wd, l, names)
  PROVE  IsSlashed(IF Last(wd) = pathSeparator THEN wd ELSE Append(wd, pathSeparator), l, names)
  <1> DEFINE n == Len(names)
             q == Append(wd, pathSeparator)
  <1>1. n \in Nat /\ (names = <<>> <=> n = 0) /\ \A k \in 1..n : names[k] \in Name
    BY LenOfNames
  <1>2. wd \in Seq(Tokens) /\ (Len(wd) = IF n = 0 THEN 2 ELSE 2 * n + 1) /\ HasNames(wd, l, names)
    BY <1>1 DEF IsPlain
  <1>3. CASE n = 0
    <2>1. Last(wd) = pathSeparator BY <1>2, <1>3 DEF Last, HasNames
    <2>2. IsSlashed(wd, l, names) BY <1>2, <1>3 DEF IsSlashed, HasNames
    <2> QED BY <2>1, <2>2
  <1>4. CASE n # 0
    <2>1. Last(wd) # pathSeparator
      <3>1. n \in 1..n BY <1>1, <1>4
      <3>2. Last(wd) = names[n] BY <1>2, <1>4, <3>1 DEF Last, HasNames
      <3>3. names[n] \in Name BY <1>1, <3>1
      <3> QED BY <3>2, <3>3, NameIsNoMark
    <2>2. /\ q \in Seq(Tokens) /\ Len(q) = 2 * n + 1 + 1
          /\ (\A i \in 1..(2 * n + 1) : q[i] = wd[i]) /\ q[2 * n + 1 + 1] = pathSeparator
      <3>1. pathSeparator \in Tokens BY DEF Tokens, Separators
      <3> QED BY <1>2, <1>4, <3>1, AppendProperties
    <2> HIDE DEF q
    <2>3. 2 * n + 1 + 1 = 2 * n + 2 BY <1>1
    <2>4. q[1] = l /\ q[2] = pathSeparator
      <3>1. 1 \in 1..(2 * n + 1) /\ 2 \in 1..(2 * n + 1) BY <1>1, <1>4
      <3> QED BY <1>2, <2>2, <3>1 DEF HasNames
    <2>5. ASSUME NEW k \in 1..n PROVE q[2 * k + 1] = names[k]
      <3>1. 2 * k + 1 \in 1..(2 * n + 1) BY <1>1
      <3> QED BY <1>2, <2>2, <3>1 DEF HasNames
    <2>6. ASSUME NEW k \in 1..(n - 1) PROVE q[2 * k + 2] = pathSeparator
      <3>1. 2 * k + 2 \in 1..(2 * n + 1) BY <1>1
      <3> QED BY <1>2, <2>2, <3>1 DEF HasNames
    <2>7. HasNames(q, l, names) BY <2>4, <2>5, <2>6 DEF HasNames
    <2>8. IsSlashed(q, l, names) BY <2>2, <2>3, <2>7 DEF IsSlashed
    <2> QED BY <2>1, <2>8 DEF q
  <1> QED BY <1>3, <1>4

LEMMA RelativeMeans ==
  ASSUME NEW l \in Labels, NEW names \in Seq(Name), NEW wd, IsPlain(wd, l, names),
         NEW typed \in Seq(Tokens), WellFormed(typed), ~isAbsolute(typed),
         ~(Len(typed) = 1 /\ typed[1] \in Separators)
  PROVE  LeadsTo(normalizePath(wd, typed), Meaning([label |-> l, names |-> names], typed))
  <1> DEFINE base == IF Last(wd) = pathSeparator THEN wd ELSE Append(wd, pathSeparator)
             here == [label |-> l, names |-> names]
             whole == base \o typed
             n == Len(names)
             M == 2 * n + 2
             K == Len(typed)
  <1>1. n \in Nat /\ M \in Nat /\ 2 <= M /\ K \in Nat /\ (names = <<>> <=> n = 0)
        /\ M = 2 * n + 2
    BY LenOfNames, LenProperties
  <1>2. whole = ensureAbsoluteForm(wd, typed) BY DEF ensureAbsoluteForm
  <1>3. IsSlashed(base, l, names) BY BaseIsSlashed
  <1>4. base \in Seq(Tokens) /\ Len(base) = M /\ HasNames(base, l, names) /\ base[M] = pathSeparator
    BY <1>3 DEF IsSlashed
  <1> HIDE DEF base
  <1>5. /\ whole \in Seq(Tokens) /\ Len(whole) = M + K
        /\ \A i \in 1..(M + K) : whole[i] = IF i <= M THEN base[i] ELSE typed[i - M]
    <2>1. /\ whole \in Seq(Tokens) /\ Len(whole) = Len(base) + Len(typed)
          /\ \A i \in 1..(Len(base) + Len(typed)) :
                whole[i] = IF i <= Len(base) THEN base[i] ELSE typed[i - Len(base)]
      BY <1>4, ConcatProperties
    <2> HIDE DEF whole, M
    <2> QED BY <1>4, <2>1
  <1> HIDE DEF whole, M, K
  <1>6. \A i \in 1..M : whole[i] = base[i]
    <2>1. \A i \in 1..M : i \in 1..(M + K) /\ i <= M BY <1>1
    <2> QED BY <1>5, <2>1
  <1>7. \A i \in 1..K : whole[M + i] = typed[i]
    <2> SUFFICES ASSUME NEW i \in 1..K PROVE whole[M + i] = typed[i] OBVIOUS
    <2>1. M + i \in 1..(M + K) /\ ~(M + i <= M) /\ M + i - M = i BY <1>1
    <2> DEFINE j == M + i
    <2>2. j \in 1..(M + K) /\ ~(j <= M) /\ j - M = i BY <1>1, <2>1
    <2> HIDE DEF j
    <2>3. whole[j] = typed[i] BY <1>5, <2>2
    <2> QED BY <2>3 DEF j
  <1>8. HasNames(whole, l, names)
    <2>1. 1 \in 1..M /\ 2 \in 1..M BY <1>1
    <2>2. \A k \in 1..n : 2 * k + 1 \in 1..M BY <1>1
    <2>3. \A k \in 1..(n - 1) : 2 * k + 2 \in 1..M BY <1>1
    <2> QED BY <1>4, <1>6, <2>1, <2>2, <2>3 DEF HasNames
  <1>9. whole[1] = l /\ whole[2] = pathSeparator BY <1>8 DEF HasNames
  <1>10. whole[M] = pathSeparator
    <2>1. M \in 1..M BY <1>1
    <2> QED BY <1>4, <1>6, <2>1
  <1>11. 2 <= Len(whole) BY <1>1, <1>5
  <1>12. PICK W : IsWalk(W, whole) BY <1>5, <1>11, WalkExists
  <1>13. W[M] = names
    <2>1. (IF names = <<>> THEN 2 ELSE 2 * n + 1) <= Len(whole)
      <3>1. 2 <= M + K /\ 2 * n + 1 <= M + K BY <1>1
      <3>2. CASE names = <<>> BY <1>5, <3>1, <3>2
      <3>3. CASE names # <<>> BY <1>5, <3>1, <3>3
      <3> QED BY <3>2, <3>3
    <2>2. W[IF names = <<>> THEN 2 ELSE 2 * n + 1] = names
      BY <1>5, <1>8, <1>12, <2>1, WalkOfNames
    <2>3. CASE names = <<>>
      <3>1. M = 2 BY <1>1, <2>3
      <3> QED BY <2>2, <2>3, <3>1
    <2>4. CASE names # <<>>
      <3>1. M \in 3..(M + K) /\ M - 1 = 2 * n + 1 BY <1>1, <2>4
      <3>2. W[M] = Down(W[M - 1], pathSeparator) BY <1>5, <1>10, <1>12, <3>1 DEF IsWalk
      <3> QED BY <2>2, <2>4, <3>1, <3>2 DEF Down, Separators
    <2> QED BY <2>3, <2>4
  <1>14. here.names = names /\ here.names \in Seq(Name) /\ here.label = l OBVIOUS
  <1> HIDE DEF here
  <1>15. PICK w : /\ w[0] = here.names
                  /\ \A k \in 1..K : w[k] = Down(w[k - 1], typed[k])
                  /\ WalkFrom(here, typed) = [here EXCEPT !.names = w[K]]
    BY <1>14, WalkFold DEF K
  <1> DEFINE Good == {k \in Nat : w[k] = W[M + k]}
  <1>16. 0 \in Good
    <2>1. M + 0 = M BY <1>1
    <2> QED BY <1>13, <1>14, <1>15, <2>1
  <1>17. ASSUME NEW k \in 0..(K - 1), k \in Good PROVE k + 1 \in Good
    <2>1. k + 1 \in 1..K /\ k + 1 - 1 = k /\ M + (k + 1) \in 3..(M + K)
          /\ M + (k + 1) - 1 = M + k /\ k + 1 \in Nat
      BY <1>1
    <2>2. w[k + 1] = Down(w[k], typed[k + 1]) BY <1>15, <2>1
    <2>3. W[M + (k + 1)] = Down(W[M + (k + 1) - 1], whole[M + (k + 1)])
      <3> DEFINE j == M + (k + 1)
      <3>1. j \in 3..Len(whole) BY <1>5, <2>1
      <3> HIDE DEF j
      <3>2. W[j] = Down(W[j - 1], whole[j]) BY <1>12, <3>1 DEF IsWalk
      <3> QED BY <1>1, <3>2 DEF j
    <2>4. W[M + (k + 1)] = Down(W[M + k], typed[k + 1]) BY <1>7, <2>1, <2>3
    <2> QED BY <1>17, <2>1, <2>2, <2>4
  <1>18. K \in Good
    <2>1. Good \in SUBSET Nat /\ 0 \in Nat /\ K \in 0..K BY <1>1
    <2> HIDE DEF Good
    <2> QED BY <1>1, <1>16, <1>17, <2>1, Along
  <1>19. W[Len(whole)] = w[K] BY <1>5, <1>18
  <1>20. \A i \in 1..(Len(whole) - 1) : whole[i] \in Separators \/ whole[i + 1] \in Separators
    <2> SUFFICES ASSUME NEW i \in 1..(Len(whole) - 1)
        PROVE  whole[i] \in Separators \/ whole[i + 1] \in Separators
      OBVIOUS
    <2>0. i \in 1..(M + K - 1)
      <3>1. Len(whole) - 1 = M + K - 1 BY <1>1, <1>5
      <3> QED BY <3>1
    <2>1. pathSeparator \in Separators BY DEF Separators
    <2>2. CASE i = M BY <1>10, <2>1, <2>2
    <2>3. CASE i > M
      <3>1. i - M \in 1..(K - 1) /\ i - M \in 1..K /\ i - M + 1 \in 1..K
            /\ M + (i - M) = i /\ M + (i - M + 1) = i + 1
        BY <1>1, <2>0, <2>3
      <3>2. whole[i] = typed[i - M] /\ whole[i + 1] = typed[i - M + 1] BY <1>7, <3>1
      <3>3. typed[i - M] \in Separators \/ typed[i - M + 1] \in Separators
        BY <3>1 DEF WellFormed, K
      <3> QED BY <3>2, <3>3
    <2>4. CASE i < M
      <3>1. i \in Nat BY <1>1, <2>0
      <3>2. PICK k \in Nat : i = 2 * k \/ i = 2 * k + 1 BY <3>1, Parity
      <3>3. \A j \in 1..(n + 1) : whole[2 * j] = pathSeparator
        <4> SUFFICES ASSUME NEW j \in 1..(n + 1) PROVE whole[2 * j] = pathSeparator OBVIOUS
        <4>1. CASE j = 1 BY <1>9, <4>1
        <4>2. CASE j = n + 1
          <5>1. 2 * j = M BY <1>1, <4>2
          <5> QED BY <1>10, <5>1
        <4>3. CASE j # 1 /\ j # n + 1
          <5>1. j - 1 \in 1..(n - 1) /\ 2 * (j - 1) + 2 = 2 * j BY <1>1, <4>3
          <5> QED BY <1>8, <5>1 DEF HasNames
        <4> QED BY <4>1, <4>2, <4>3
      <3>4. CASE i = 2 * k
        <4>1. k \in 1..(n + 1) BY <1>1, <2>0, <2>4, <3>4
        <4> QED BY <2>1, <3>3, <3>4, <4>1
      <3>5. CASE i = 2 * k + 1
        <4>1. k + 1 \in 1..(n + 1) /\ 2 * (k + 1) = i + 1 BY <1>1, <2>4, <3>5
        <4> QED BY <2>1, <3>3, <4>1
      <3> QED BY <3>2, <3>4, <3>5
    <2>5. i = M \/ i > M \/ i < M BY <1>1, <2>0
    <2> QED BY <2>2, <2>3, <2>4, <2>5
  <1>21. IsPlain(normalizePath(wd, typed), l, w[K]) /\ w[K] \in Seq(Name)
    <2>1. /\ IsPlain(normalizePath(wd, typed), l, W[Len(whole)])
          /\ W[Len(whole)] \in Seq(Name)
      BY <1>2, <1>5, <1>9, <1>11, <1>12, <1>20, WholeIsNormalized
    <2> QED BY <1>19, <2>1
  <1>22. Meaning(here, typed) = [label |-> l, names |-> w[K]]
    <2>1. ~(Len(typed) > 1 /\ typed[1] \in Labels /\ typed[2] = pathSeparator)
      <3> SUFFICES ASSUME Len(typed) > 1, typed[1] \in Labels, typed[2] = pathSeparator
          PROVE  FALSE
        OBVIOUS
      <3>1. Len(typed) \in Nat /\ 2 <= Len(typed) BY <1>1 DEF K
      <3> QED BY <3>1, LabelComesFirst
    <2>2. typed \notin {<<s>> : s \in Separators}
      <3> SUFFICES ASSUME NEW s \in Separators, typed = <<s>> PROVE FALSE OBVIOUS
      <3>1. Len(typed) = 1 /\ typed[1] = s OBVIOUS
      <3> QED BY <3>1
    <2>3. Meaning(here, typed) = WalkFrom(here, typed) BY <2>1, <2>2 DEF Meaning
    <2> QED BY <1>15, <2>3 DEF here
  <1> QED BY <1>21, <1>22 DEF LeadsTo, here

\* Whatever the path that is given: where it leads is what it means.
LEMMA NormalizeMeaning ==
  ASSUME NEW l \in Labels, NEW names \in Seq(Name), NEW wd, IsPlain(wd, l, names),
         NEW typed \in Seq(Tokens), WellFormed(typed)
  PROVE  LeadsTo(normalizePath(wd, typed), Meaning([label |-> l, names |-> names], typed))
  BY AbsoluteMeans, RootMeans, RelativeMeans
-----------------------------------------------------------------------------
USE NamesAssumption

Path == Seq(FileNames \cup Labels)
Program == [command : {"md", "rd", "rd /S"},
            pc : {"none", "look", "create", "read", "delete"}, at : Path]
-----------------------------------------------------------------------------
(* The inductive invariant, by parts.                                       *)

\* What is there has its directories.
IsTree(t) ==
    /\ DOMAIN t \subseteq Path
    /\ \A p \in DOMAIN t : \A q \in Dir!Ancestors(p) : Dir!IsDir(t, q)

TreeInv == IsTree(tree)

ProgramsInv == programs \in [Slots -> Program]

\* So has what was there all the time.
ThereInv ==
    /\ there \in [Slots -> SUBSET DOMAIN tree]
    /\ \A s \in Slots : \A p \in there[s] : Dir!Ancestors(p) \subseteq there[s]

\* A program that is about to act, and was not told to remove everything,
\* acts on a place below which nothing has been there all the time.
NothingBelow(s) == Dir!Below(tree, programs[s].at) \cap there[s] = {}

ActInv ==
    \A s \in Slots :
        programs[s].pc \in {"create", "delete"} /\ programs[s].command # "rd /S" =>
            NothingBelow(s)

IInv == TreeInv /\ ProgramsInv /\ ThereInv /\ ActInv
-----------------------------------------------------------------------------
(* Paths and the directories on the way to them.                            *)

LEMMA SubSeqPrefix ==
  ASSUME NEW p \in Path, NEW i \in Nat, i <= Len(p), NEW j \in Nat, j <= i
  PROVE  SubSeq(SubSeq(p, 1, i), 1, j) = SubSeq(p, 1, j)
  <1>1. CASE j = 0
    <2>1. 0 < 1 /\ 0 \in Int /\ 1 \in Int OBVIOUS
    <2> QED BY <1>1, <2>1, SubSeqEmpty
  <1>2. CASE j > 0
    <2>1. Len(p) \in Nat BY LenProperties DEF Path
    <2>2. /\ 1 \in 1..Len(p) /\ i \in 1..Len(p)
          /\ 1 \in 1..(i - 1 + 1) /\ j \in 1..(i - 1 + 1)
          /\ 1 + 1 - 1 = 1 /\ 1 + j - 1 = j
      BY <1>2, <2>1
    <2> QED BY <2>2, SubSeqOfSubSeq DEF Path
  <1> QED BY <1>1, <1>2

LEMMA AncestorsOf ==
  ASSUME NEW p \in Path, NEW q \in Dir!Ancestors(p)
  PROVE  /\ q \in Path /\ q # p
         /\ Dir!Ancestors(q) \subseteq Dir!Ancestors(p)
         /\ q = SubSeq(p, 1, Len(q)) /\ Len(q) < Len(p)
  <1>1. PICK i \in 0..(Len(p) - 1) : q = SubSeq(p, 1, i)
    BY DEF Dir!Ancestors
  <1>2. Len(p) \in Nat /\ i \in Nat /\ i < Len(p) BY LenProperties DEF Path
  <1>3. q \in Path /\ Len(q) = i
    <2>1. \A k \in 1..i : p[k] \in FileNames \cup Labels
      BY <1>2, ElementOfSeq DEF Path
    <2>2. SubSeq(p, 1, i) \in Seq(FileNames \cup Labels)
          /\ Len(SubSeq(p, 1, i)) = IF 1 <= i THEN i - 1 + 1 ELSE 0
      BY <1>2, <2>1, SubSeqProperties
    <2> QED BY <1>1, <1>2, <2>2 DEF Path
  <1>4. ASSUME NEW r \in Dir!Ancestors(q) PROVE r \in Dir!Ancestors(p)
    <2>1. PICK j \in 0..(i - 1) : r = SubSeq(q, 1, j)
      BY <1>3 DEF Dir!Ancestors
    <2>2. j \in Nat /\ j < i BY <1>2, <2>1
    <2>3. r = SubSeq(p, 1, j)
      BY <1>1, <1>2, <2>1, <2>2, SubSeqPrefix
    <2> QED BY <1>2, <2>2, <2>3 DEF Dir!Ancestors
  <1> QED BY <1>1, <1>2, <1>3, <1>4

(* What lies below a place has it on its way, and so has what lies deeper.  *)
LEMMA BelowIsOnTheWay ==
  ASSUME NEW at \in Path, NEW t, IsTree(t)
  PROVE  /\ \A p \in Dir!Below(t, at) : p \in DOMAIN t /\ at \in Dir!Ancestors(p)
         /\ \A p \in DOMAIN t : at \in Dir!Ancestors(p) => p \in Dir!Below(t, at)
         /\ \A p \in DOMAIN t, q \in Dir!Below(t, at) :
               q \in Dir!Ancestors(p) => p \in Dir!Below(t, at)
  <1>1. ASSUME NEW p \in Dir!Below(t, at)
        PROVE  p \in DOMAIN t /\ at \in Dir!Ancestors(p)
    <2>1. p \in DOMAIN t /\ p # at /\ IsPrefix(at, p) BY <1>1 DEF Dir!Below, Dir!IsPrefix, IsPrefix
    <2>2. p \in Path BY <2>1 DEF IsTree
    <2>3. Len(at) \in Nat /\ Len(p) \in Nat BY <2>2, LenProperties DEF Path
    <2>4. Len(at) <= Len(p) /\ at = SubSeq(p, 1, Len(at))
      BY <2>1, SubSeqFull DEF IsPrefix, Path
    <2>5. Len(at) # Len(p)
      BY <2>1, <2>2, <2>4, SubSeqFull DEF Path
    <2>6. Len(at) \in 0..(Len(p) - 1) BY <2>3, <2>4, <2>5
    <2> QED BY <2>1, <2>4, <2>6 DEF Dir!Ancestors
  <1>2. ASSUME NEW p \in DOMAIN t, at \in Dir!Ancestors(p)
        PROVE  p \in Dir!Below(t, at)
    <2>1. p \in Path BY DEF IsTree
    <2>2. p # at /\ at = SubSeq(p, 1, Len(at)) /\ Len(at) < Len(p)
      BY <1>2, <2>1, AncestorsOf
    <2>3. Len(at) \in Nat /\ Len(p) \in Nat BY <2>1, LenProperties DEF Path
    <2>4. SubSeq(at, 1, Len(at)) = at BY SubSeqFull DEF Path
    <2>5. IsPrefix(at, p) BY <2>2, <2>3, <2>4 DEF IsPrefix
    <2> QED BY <2>2, <2>5 DEF Dir!Below, Dir!IsPrefix, IsPrefix
  <1>3. ASSUME NEW p \in DOMAIN t, NEW q \in Dir!Below(t, at), q \in Dir!Ancestors(p)
        PROVE  p \in Dir!Below(t, at)
    <2>1. at \in Dir!Ancestors(q) BY <1>1
    <2>2. p \in Path BY DEF IsTree
    <2>3. at \in Dir!Ancestors(p) BY <1>3, <2>1, <2>2, AncestorsOf
    <2> QED BY <1>2, <2>3
  <1>4. \A p \in Dir!Below(t, at) : p \in DOMAIN t /\ at \in Dir!Ancestors(p) BY <1>1
  <1>5. \A p \in DOMAIN t : at \in Dir!Ancestors(p) => p \in Dir!Below(t, at) BY <1>2
  <1>6. \A p \in DOMAIN t, q \in Dir!Below(t, at) :
           q \in Dir!Ancestors(p) => p \in Dir!Below(t, at)
    BY <1>3
  <1> QED BY <1>4, <1>5, <1>6
-----------------------------------------------------------------------------
(* What the calls of the disk do to a tree.                                 *)

LEMMA CreatedTree ==
  ASSUME NEW t, IsTree(t), NEW at \in Path, NEW kind, Dir!Creatable(t, at)
  PROVE  /\ IsTree(Dir!Created(t, at, kind))
         /\ DOMAIN t \subseteq DOMAIN Dir!Created(t, at, kind)
  <1> DEFINE u == Dir!Created(t, at, kind)
  <1>1. /\ DOMAIN u = DOMAIN t \cup {at} \cup Dir!Ancestors(at)
        /\ \A p \in DOMAIN u : u[p] = IF p \in DOMAIN t THEN t[p]
                                      ELSE IF p = at THEN kind ELSE "dir"
    BY DEF Dir!Created, Dir!Exists
  <1>2. /\ at \notin DOMAIN t
        /\ \A p \in Dir!Ancestors(at) : p \in DOMAIN t => t[p] = "dir"
    BY DEF Dir!Creatable, Dir!Exists, Dir!IsDir
  <1> HIDE DEF u
  <1>3. DOMAIN u \subseteq Path BY <1>1, AncestorsOf DEF IsTree
  <1>4. ASSUME NEW q \in Dir!Ancestors(at) PROVE q \in DOMAIN u /\ u[q] = "dir"
    <2>1. q # at BY AncestorsOf
    <2> QED BY <1>1, <1>2, <2>1
  <1>5. ASSUME NEW p \in DOMAIN u, NEW q \in Dir!Ancestors(p)
        PROVE  q \in DOMAIN u /\ u[q] = "dir"
    <2>1. CASE p \in DOMAIN t
      <3>1. q \in DOMAIN t /\ t[q] = "dir"
        BY <2>1 DEF IsTree, Dir!IsDir, Dir!Exists
      <3> QED BY <1>1, <3>1
    <2>2. CASE p = at BY <1>4, <2>2
    <2>3. CASE p \in Dir!Ancestors(at)
      <3>1. q \in Dir!Ancestors(at) BY <2>3, AncestorsOf
      <3> QED BY <1>4, <3>1
    <2> QED BY <1>1, <2>1, <2>2, <2>3
  <1> QED BY <1>1, <1>3, <1>5 DEF u, IsTree, Dir!IsDir, Dir!Exists

(* Whatever is cut off together with all that is below it leaves a tree.    *)
LEMMA PrunedTree ==
  ASSUME NEW t, IsTree(t), NEW at \in Path
  PROVE  /\ IsTree(Dir!Cleared(t, at))
         /\ DOMAIN Dir!Cleared(t, at) = DOMAIN t \ Dir!Below(t, at)
         /\ IsTree(Dir!Deleted(t, at))
         /\ DOMAIN Dir!Deleted(t, at) = DOMAIN t \ (Dir!Below(t, at) \cup {at})
  <1>1. ASSUME NEW cut \in {Dir!Below(t, at), Dir!Below(t, at) \cup {at}}, NEW u,
               u = [p \in DOMAIN t \ cut |-> t[p]]
        PROVE  IsTree(u)
    <2>1. DOMAIN u = DOMAIN t \ cut /\ \A p \in DOMAIN u : u[p] = t[p]
      BY <1>1
    <2>2. ASSUME NEW p \in DOMAIN u, NEW q \in Dir!Ancestors(p)
          PROVE  q \in DOMAIN u /\ u[q] = "dir"
      <3>1. p \in DOMAIN t /\ p \notin cut BY <2>1
      <3>2. q \in DOMAIN t /\ t[q] = "dir"
        BY <3>1 DEF IsTree, Dir!IsDir, Dir!Exists
      <3>3. q \notin Dir!Below(t, at)
        BY <2>2, <3>1, BelowIsOnTheWay
      <3>4. q # at \/ at \notin cut
        BY <2>2, <3>1, BelowIsOnTheWay
      <3> QED BY <2>1, <3>2, <3>3, <3>4
    <2> QED BY <2>1, <2>2 DEF IsTree, Dir!IsDir, Dir!Exists
  <1>2. Dir!Cleared(t, at) = [p \in DOMAIN t \ Dir!Below(t, at) |-> t[p]]
    BY DEF Dir!Cleared, Dir!Restrict, Restrict
  <1>3. Dir!Deleted(t, at) = [p \in DOMAIN t \ (Dir!Below(t, at) \cup {at}) |-> t[p]]
    BY DEF Dir!Deleted, Dir!Restrict, Restrict
  <1> QED BY <1>1, <1>2, <1>3

(* A creation adds to the tree, or clears a directory that is there.        *)
LEMMA CreationOutcomes ==
  ASSUME TreeInv, NEW at \in Path, NEW kind, NEW u \in AfterCreate(at, kind)
  PROVE  /\ IsTree(u)
         /\ DOMAIN tree \ DOMAIN u \subseteq Dir!Below(tree, at)
  <1>1. CASE Dir!Creatable(tree, at)
    <2>1. CASE u = tree BY <2>1 DEF TreeInv
    <2>2. CASE u = Dir!Created(tree, at, kind)
      BY <1>1, <2>2, CreatedTree DEF TreeInv
    <2>3. ASSUME NEW p \in Dir!Ancestors(at) \ DOMAIN tree, u = Dir!Created(tree, p, "dir")
          PROVE  IsTree(u) /\ DOMAIN tree \subseteq DOMAIN u
      <3>1. p \in Path /\ Dir!Ancestors(p) \subseteq Dir!Ancestors(at)
        BY AncestorsOf
      <3>2. Dir!Creatable(tree, p)
        BY <1>1, <3>1 DEF Dir!Creatable, Dir!Exists
      <3> QED BY <2>3, <3>1, <3>2, CreatedTree DEF TreeInv
    <2> QED BY <1>1, <2>1, <2>2, <2>3 DEF AfterCreate
  <1>2. CASE ~Dir!Creatable(tree, at) /\ kind = "dir" /\ Dir!IsDir(tree, at)
    <2>1. u = Dir!Cleared(tree, at) BY <1>2 DEF AfterCreate
    <2> QED BY <2>1, PrunedTree DEF TreeInv
  <1>3. CASE ~Dir!Creatable(tree, at) /\ ~(kind = "dir" /\ Dir!IsDir(tree, at))
    <2>1. u = tree BY <1>3 DEF AfterCreate
    <2> QED BY <2>1 DEF TreeInv
  <1> QED BY <1>1, <1>2, <1>3
-----------------------------------------------------------------------------
LEMMA InitEstablishes == Init => IInv
  <1> SUFFICES ASSUME Init PROVE IInv OBVIOUS
  <1>1. Dir!Root \in Path /\ Len(Dir!Root) = 0 BY EmptySeq DEF Dir!Root, Path
  <1>2. DOMAIN tree = {Dir!Root} /\ Dir!Ancestors(Dir!Root) = {}
    BY <1>1 DEF Init, Dir!EmptyTree, Dir!Ancestors
  <1>3. TreeInv BY <1>1, <1>2 DEF TreeInv, IsTree
  <1>4. ProgramsInv BY <1>1 DEF Init, ProgramsInv, Program, NoProgram
  <1>5. ThereInv /\ ActInv BY DEF Init, ThereInv, ActInv, NothingBelow
  <1> QED BY <1>3, <1>4, <1>5 DEF IInv

LEMMA PlacesAreFinite == DiskPlaces \subseteq Path
  <1> SUFFICES ASSUME NEW n \in Nat, NEW p \in [1..n -> FileNames \cup Labels]
      PROVE  p \in Path
    BY DEF DiskPlaces
  <1> QED BY DEF Path

(* The disk may change in any way that keeps it a tree: what has been there *)
(* all the time keeps its directories, and nothing is new in it.            *)
LEMMA DiskChanges ==
  ASSUME IInv, IsTree(tree'), there' \in [Slots -> SUBSET DOMAIN tree'],
         \A s \in Slots : there'[s] = there[s] \cap DOMAIN tree' \/ there'[s] = {}
  PROVE  /\ TreeInv' /\ ThereInv'
         /\ \A s \in Slots :
               programs'[s].at = programs[s].at /\ NothingBelow(s) => NothingBelow(s)'
  <1>1. ASSUME NEW s \in Slots, NEW p \in there'[s], NEW q \in Dir!Ancestors(p)
        PROVE  q \in there'[s]
    <2>1. p \in there[s] /\ p \in DOMAIN tree' /\ there'[s] = there[s] \cap DOMAIN tree'
      OBVIOUS
    <2>2. q \in there[s] BY <2>1 DEF IInv, ThereInv
    <2>3. q \in DOMAIN tree' BY <2>1 DEF IsTree, Dir!IsDir, Dir!Exists
    <2> QED BY <2>1, <2>2, <2>3
  <1>2. ASSUME NEW s \in Slots, programs'[s].at = programs[s].at, NothingBelow(s)
        PROVE  NothingBelow(s)'
    <2>1. ASSUME NEW p \in there'[s], p \in Dir!Below(tree', programs[s].at)
          PROVE  FALSE
      <3>1. p \in there[s] /\ p \in DOMAIN tree
        BY DEF IInv, ThereInv
      <3>2. p \in Dir!Below(tree, programs[s].at) BY <2>1, <3>1 DEF Dir!Below
      <3> QED BY <1>2, <3>1, <3>2 DEF NothingBelow
    <2> QED BY <1>2, <2>1 DEF NothingBelow
  <1> QED BY <1>1, <1>2 DEF TreeInv, ThereInv

\* The shell changes its directory or the disk, or starts a program.
LEMMA ShellStep ==
  ASSUME IInv,
         \/ \E typed \in CdPaths : LookUpDirectory(typed)
         \/ changeWorkingDir
         \/ \E typed \in TypedPaths : Redirect(typed)
         \/ \E s \in Slots, command \in {"md", "rd", "rd /S"}, typed \in TypedPaths :
                StartProgram(s, command, typed)
  PROVE  IInv'
  <1>0. TreeInv /\ ProgramsInv /\ ThereInv /\ ActInv BY DEF IInv
  <1>1. ASSUME UNCHANGED <<tree, programs, there>> PROVE IInv'
    BY <1>1 DEF IInv, TreeInv, ProgramsInv, ThereInv, ActInv, NothingBelow
  <1>2. ASSUME NEW typed \in TypedPaths, Redirect(typed) PROVE IInv'
    <2> DEFINE at == Target(typed).names
    <2>1. /\ at \in Path /\ tree' \in AfterCreate(at, "file")
          /\ there' = [s \in Slots |-> there[s] \cap DOMAIN tree']
          /\ programs' = programs
      BY <1>2, PlacesAreFinite DEF Redirect
    <2> HIDE DEF at
    <2>2. IsTree(tree') BY <1>0, <2>1, CreationOutcomes
    <2>3. there' \in [Slots -> SUBSET DOMAIN tree'] BY <2>1
    <2>4. /\ TreeInv' /\ ThereInv'
          /\ \A s \in Slots : NothingBelow(s) => NothingBelow(s)'
      BY <2>1, <2>2, <2>3, DiskChanges
    <2> QED BY <1>0, <2>1, <2>4 DEF IInv, ProgramsInv, ActInv
  <1>3. ASSUME NEW s \in Slots, NEW command \in {"md", "rd", "rd /S"},
               NEW typed \in TypedPaths, StartProgram(s, command, typed)
        PROVE  IInv'
    <2> DEFINE program == [command |-> command, pc |-> "look", at |-> Target(typed).names]
    <2>1. /\ programs' = [programs EXCEPT ![s] = program]
          /\ program \in Program /\ program.pc = "look"
          /\ UNCHANGED <<tree, there>>
      BY <1>3, PlacesAreFinite DEF StartProgram, Program
    <2> HIDE DEF program
    <2>2. ProgramsInv' BY <1>0, <2>1 DEF ProgramsInv
    <2>3. programs'[s].pc = "look" /\ \A t \in Slots \ {s} : programs'[t] = programs[t]
      BY <1>0, <2>1 DEF ProgramsInv
    <2>4. ActInv' BY <1>0, <2>1, <2>3 DEF ActInv, NothingBelow
    <2> QED BY <1>0, <2>1, <2>2, <2>4 DEF IInv, TreeInv, ThereInv
  <1> QED BY <1>1, <1>2, <1>3 DEF LookUpDirectory, changeWorkingDir

LEMMA ProceedEffect ==
  ASSUME ProgramsInv, NEW s \in Slots,
         NEW pc \in {"none", "look", "create", "read", "delete"}, Proceed(s, pc)
  PROVE  /\ ProgramsInv'
         /\ programs'[s].pc = pc
         /\ pc # "none" => /\ programs'[s].at = programs[s].at
                           /\ programs'[s].command = programs[s].command
         /\ \A t \in Slots \ {s} : programs'[t] = programs[t]
  <1>1. Dir!Root \in Path BY EmptySeq DEF Dir!Root, Path
  <1>2. programs[s] \in Program BY DEF ProgramsInv
  <1> DEFINE next == IF pc = "none" THEN NoProgram ELSE [programs[s] EXCEPT !.pc = pc]
  <1>3. programs' = [programs EXCEPT ![s] = next] BY DEF Proceed
  <1>4. /\ next \in Program /\ next.pc = pc
        /\ pc # "none" => next.at = programs[s].at /\ next.command = programs[s].command
    BY <1>1, <1>2 DEF Program, NoProgram
  <1> HIDE DEF next
  <1>5. programs'[s] = next /\ \A t \in Slots \ {s} : programs'[t] = programs[t]
    BY <1>3 DEF ProgramsInv
  <1>6. ProgramsInv' BY <1>3, <1>4 DEF ProgramsInv
  <1> QED BY <1>4, <1>5, <1>6

LEMMA LookStep ==
  ASSUME IInv, NEW s \in Slots, Look(s)
  PROVE  IInv'
  <1>0. TreeInv /\ ProgramsInv /\ ThereInv /\ ActInv BY DEF IInv
  <1> DEFINE pc == AfterLook(s)
             at == programs[s].at
  <1>1. /\ Proceed(s, pc) /\ tree' = tree
        /\ there' = [there EXCEPT ![s] = IF pc = "none" THEN {} ELSE DOMAIN tree]
    BY DEF Look
  <1>2. pc \in {"none", "look", "create", "read", "delete"} /\ pc # "delete"
        /\ (pc = "create" => ~Dir!IsDir(tree, at))
    BY DEF AfterLook
  <1>3. at \in Path BY <1>0 DEF ProgramsInv, Program
  <1> HIDE DEF pc, at
  <1>4. /\ ProgramsInv' /\ programs'[s].pc = pc
        /\ pc # "none" => programs'[s].at = at
        /\ \A t \in Slots \ {s} : programs'[t] = programs[t]
    BY <1>0, <1>1, <1>2, ProceedEffect DEF at
  <1>5. /\ there'[s] = {} \/ there'[s] = DOMAIN tree
        /\ \A t \in Slots \ {s} : there'[t] = there[t]
        /\ there' \in [Slots -> SUBSET DOMAIN tree]
    BY <1>0, <1>1 DEF ThereInv
  <1>6. \A p \in DOMAIN tree : Dir!Ancestors(p) \subseteq DOMAIN tree
    BY <1>0 DEF TreeInv, IsTree, Dir!IsDir, Dir!Exists
  <1>7. ThereInv' BY <1>0, <1>1, <1>5, <1>6 DEF ThereInv
  <1>8. ASSUME ~Dir!IsDir(tree, at) PROVE Dir!Below(tree, at) = {}
    BY <1>0, <1>3, <1>8, BelowIsOnTheWay DEF TreeInv, IsTree
  <1>9. pc = "create" => Dir!Below(tree', programs'[s].at) = {}
    BY <1>1, <1>2, <1>4, <1>8
  <1>10. ActInv'
    <2> SUFFICES ASSUME NEW t \in Slots, programs'[t].pc \in {"create", "delete"},
                        programs'[t].command # "rd /S"
        PROVE  NothingBelow(t)'
      BY DEF ActInv
    <2>1. CASE t = s BY <1>2, <1>4, <1>9, <2>1 DEF NothingBelow
    <2>2. CASE t # s
      BY <1>0, <1>1, <1>4, <1>5, <2>2 DEF ActInv, NothingBelow
    <2> QED BY <2>1, <2>2
  <1> QED BY <1>0, <1>1, <1>4, <1>7, <1>10 DEF IInv, TreeInv

LEMMA ReadStep ==
  ASSUME IInv, NEW s \in Slots, ReadFirstEntry(s)
  PROVE  IInv'
  <1>0. TreeInv /\ ProgramsInv /\ ThereInv /\ ActInv BY DEF IInv
  <1> DEFINE at == programs[s].at
  <1>1. PICK empty \in BOOLEAN :
            /\ at \in there[s] => empty = (Dir!Below(tree, at) = {})
            /\ \/ MayDelete(s, empty) /\ Proceed(s, "delete")
               \/ Proceed(s, "none")
    BY DEF ReadFirstEntry
  <1>2. PICK pc \in {"none", "delete"} :
            Proceed(s, pc) /\ (pc = "delete" => MayDelete(s, empty))
    BY <1>1
  <1>3. /\ tree' = tree
        /\ there' = [there EXCEPT ![s] = IF programs'[s].pc = "none" THEN {} ELSE @]
    BY DEF ReadFirstEntry
  <1>4. at \in Path BY <1>0 DEF ProgramsInv, Program
  <1>5. ASSUME MayDelete(s, empty), programs[s].command # "rd /S"
        PROVE  NothingBelow(s)
    <2>1. empty BY <1>5 DEF MayDelete
    <2>2. CASE at \in there[s] BY <1>1, <2>1, <2>2 DEF NothingBelow
    <2>3. CASE at \notin there[s]
      <3>1. ASSUME NEW p \in there[s], p \in Dir!Below(tree, at) PROVE FALSE
        <4>1. at \in Dir!Ancestors(p)
          BY <1>0, <1>4, <3>1, BelowIsOnTheWay DEF TreeInv
        <4> QED BY <1>0, <2>3, <4>1 DEF ThereInv
      <3> QED BY <3>1 DEF NothingBelow
    <2> QED BY <2>2, <2>3
  <1> HIDE DEF at
  <1>6. /\ ProgramsInv' /\ programs'[s].pc = pc
        /\ pc # "none" => /\ programs'[s].at = programs[s].at
                          /\ programs'[s].command = programs[s].command
        /\ \A t \in Slots \ {s} : programs'[t] = programs[t]
    BY <1>0, <1>2, ProceedEffect
  <1>7. there' \in [Slots -> SUBSET DOMAIN tree']
        /\ \A t \in Slots : there'[t] = there[t] \cap DOMAIN tree' \/ there'[t] = {}
    BY <1>0, <1>3 DEF ThereInv
  <1>8. /\ TreeInv' /\ ThereInv'
        /\ \A t \in Slots : programs'[t].at = programs[t].at /\ NothingBelow(t)
                                => NothingBelow(t)'
    BY <1>0, <1>3, <1>7, DiskChanges DEF TreeInv
  <1>9. ActInv'
    <2> SUFFICES ASSUME NEW t \in Slots, programs'[t].pc \in {"create", "delete"},
                        programs'[t].command # "rd /S"
        PROVE  NothingBelow(t)'
      BY DEF ActInv
    <2>1. CASE t = s BY <1>2, <1>5, <1>6, <1>8, <2>1
    <2>2. CASE t # s BY <1>0, <1>6, <1>8, <2>2 DEF ActInv
    <2> QED BY <2>1, <2>2
  <1> QED BY <1>6, <1>8, <1>9 DEF IInv

\* The acts: md's creation, or its emptying of what came in between, and rd's
\* removal. What is lost lies at the place or below it.
LEMMA ActStep ==
  ASSUME IInv, NEW s \in Slots, MakeDirectory(s) \/ DeleteDirectory(s)
  PROVE  /\ IInv'
         /\ DOMAIN tree \ DOMAIN tree' \subseteq
                Dir!Below(tree, programs[s].at) \cup {programs[s].at}
         /\ \A t \in Slots \ {s} : programs'[t] = programs[t]
         /\ programs[s].pc \in {"create", "delete"}
  <1>0. TreeInv /\ ProgramsInv /\ ThereInv /\ ActInv BY DEF IInv
  <1> DEFINE at == programs[s].at
  <1>1. at \in Path BY <1>0 DEF ProgramsInv, Program
  <1>2. PICK trees : Change(s, trees) /\ trees \in {AfterCreate(at, "dir"), {Dir!Deleted(tree, at)}}
    BY DEF MakeDirectory, DeleteDirectory
  <1>3. /\ tree' \in trees /\ Proceed(s, "none")
        /\ there' = [t \in Slots |-> IF t = s THEN {} ELSE there[t] \cap DOMAIN tree']
    BY <1>2 DEF Change
  <1> HIDE DEF at
  <1>4. IsTree(tree') /\ DOMAIN tree \ DOMAIN tree' \subseteq Dir!Below(tree, at) \cup {at}
    <2>1. CASE trees = AfterCreate(at, "dir")
      BY <1>0, <1>1, <1>3, <2>1, CreationOutcomes
    <2>2. CASE trees = {Dir!Deleted(tree, at)}
      <3>1. tree' = Dir!Deleted(tree, at) BY <1>3, <2>2
      <3>2. /\ IsTree(Dir!Deleted(tree, at))
            /\ DOMAIN Dir!Deleted(tree, at) = DOMAIN tree \ (Dir!Below(tree, at) \cup {at})
        BY <1>0, <1>1, PrunedTree DEF TreeInv
      <3>3. DOMAIN tree' = DOMAIN tree \ (Dir!Below(tree, at) \cup {at})
        BY <3>1, <3>2
      <3> QED BY <3>1, <3>2, <3>3
    <2> QED BY <1>2, <2>1, <2>2
  <1>5. /\ ProgramsInv' /\ programs'[s].pc = "none"
        /\ \A t \in Slots \ {s} : programs'[t] = programs[t]
    BY <1>0, <1>3, ProceedEffect
  <1>6. there' \in [Slots -> SUBSET DOMAIN tree']
        /\ \A t \in Slots : there'[t] = there[t] \cap DOMAIN tree' \/ there'[t] = {}
    BY <1>3
  <1>7. /\ TreeInv' /\ ThereInv'
        /\ \A t \in Slots : programs'[t].at = programs[t].at /\ NothingBelow(t)
                                => NothingBelow(t)'
    BY <1>4, <1>6, DiskChanges
  <1>8. ActInv'
    <2> SUFFICES ASSUME NEW t \in Slots, programs'[t].pc \in {"create", "delete"},
                        programs'[t].command # "rd /S"
        PROVE  NothingBelow(t)'
      BY DEF ActInv
    <2>1. t # s BY <1>5
    <2> QED BY <1>0, <1>5, <1>7, <2>1 DEF ActInv
  <1>9. programs[s].pc \in {"create", "delete"}
    BY DEF MakeDirectory, DeleteDirectory
  <1> QED BY <1>4, <1>5, <1>7, <1>8, <1>9 DEF IInv, at

LEMMA StepPreserves == IInv /\ [Next]_vars => IInv'
  <1> SUFFICES ASSUME IInv, [Next]_vars PROVE IInv' OBVIOUS
  <1>1. CASE UNCHANGED vars
    BY <1>1 DEF vars, IInv, TreeInv, ProgramsInv, ThereInv, ActInv, NothingBelow
  <1>2. CASE \E s \in Slots : ProgramStep(s)
    BY <1>2, LookStep, ReadStep, ActStep DEF ProgramStep
  <1>3. CASE Next /\ ~\E s \in Slots : ProgramStep(s)
    BY <1>3, ShellStep DEF Next
  <1> QED BY <1>1, <1>2, <1>3

(* md.cpp:15-25, rd.cpp:72-93: between the look and the act any number of   *)
(* programs, and the shell's redirections, may change the disk; still md,   *)
(* and rd without /S, never lose a place that was there all the time, but   *)
(* for the directory that rd was told to remove.                            *)
THEOREM ActsLoseNothingOld == Spec => KeepsWhatWasThere
  <1> DEFINE Act(s) ==
          programs[s].command # "rd /S" /\ programs[s].pc \in {"create", "delete"}
              /\ programs'[s].pc = "none" =>
                  (DOMAIN tree \ DOMAIN tree') \cap there[s] \subseteq {programs[s].at}
  <1>1. ASSUME IInv, [Next]_vars PROVE [\A s \in Slots : Act(s)]_vars
    <2> SUFFICES ASSUME NEW s \in Slots, Next,
                        programs[s].command # "rd /S", programs[s].pc \in {"create", "delete"},
                        programs'[s].pc = "none"
        PROVE  (DOMAIN tree \ DOMAIN tree') \cap there[s] \subseteq {programs[s].at}
      BY <1>1
    <2>0. ProgramsInv BY <1>1 DEF IInv
    <2>1. CASE UNCHANGED programs BY <2>1
    <2>2. ASSUME NEW t \in Slots, NEW command, NEW typed, StartProgram(t, command, typed)
          PROVE  FALSE
      BY <2>0, <2>2 DEF StartProgram, ProgramsInv
    <2>3. ASSUME NEW t \in Slots, Look(t) \/ ReadFirstEntry(t) PROVE FALSE
      BY <2>0, <2>3 DEF Look, ReadFirstEntry, Proceed, ProgramsInv
    <2>4. ASSUME NEW t \in Slots, MakeDirectory(t) \/ DeleteDirectory(t)
          PROVE  (DOMAIN tree \ DOMAIN tree') \cap there[s] \subseteq {programs[s].at}
      <3>1. t = s BY <1>1, <2>4, ActStep
      <3>2. NothingBelow(s) BY <1>1 DEF IInv, ActInv
      <3>3. DOMAIN tree \ DOMAIN tree' \subseteq
                Dir!Below(tree, programs[s].at) \cup {programs[s].at}
        BY <1>1, <2>4, <3>1, ActStep
      <3> QED BY <3>2, <3>3 DEF NothingBelow
    <2> QED BY <2>1, <2>2, <2>3, <2>4
            DEF Next, ProgramStep, LookUpDirectory, changeWorkingDir, Redirect
  <1> QED BY <1>1, InitEstablishes, StepPreserves, PTL DEF Spec, KeepsWhatWasThere
-----------------------------------------------------------------------------
(* The working directory and the path of a cd are normalised paths.         *)
IsNormal(path) ==
    \E l \in {Disk, "procfs:"}, names \in Seq(Name) : IsPlain(path, l, names)

PathsInv == IsNormal(working_directory) /\ (cd # <<>> => IsNormal(cd))

LEMMA LabelsOfDrives == {Disk, "procfs:"} \subseteq Labels
  BY DEF Mounted, Disk

LEMMA InitIsNormal == Init => PathsInv
  <1> SUFFICES ASSUME Init PROVE PathsInv OBVIOUS
  <1> DEFINE wd == <<Disk, pathSeparator>>
  <1>1. Disk \in Tokens /\ pathSeparator \in Tokens
    BY LabelsOfDrives DEF Tokens, Separators
  <1>2. wd \in Seq(Tokens) /\ Len(wd) = 2 /\ wd[1] = Disk /\ wd[2] = pathSeparator
    BY <1>1
  <1>3. <<>> \in Seq(Name) /\ Len(<<>>) = 0 BY EmptySeq
  <1> HIDE DEF wd
  <1>4. HasNames(wd, Disk, <<>>) BY <1>2, <1>3 DEF HasNames
  <1>5. IsPlain(wd, Disk, <<>>) BY <1>2, <1>4 DEF IsPlain
  <1>6. IsNormal(wd) BY <1>3, <1>5 DEF IsNormal
  <1>7. working_directory = wd /\ cd = <<>> BY DEF Init, wd
  <1> QED BY <1>6, <1>7 DEF PathsInv

\* What a normalised path names, and that it is the path of what it names.
LEMMA NormalPlace ==
  ASSUME NEW path, IsNormal(path)
  PROVE  \E l \in {Disk, "procfs:"}, names \in Seq(Name) :
            /\ l \in Labels /\ IsPlain(path, l, names) /\ path # <<>>
            /\ PlaceOf(path) = [label |-> l, names |-> names]
            /\ path = PathOf([label |-> l, names |-> names])
  <1>1. PICK l \in {Disk, "procfs:"}, names \in Seq(Name) : IsPlain(path, l, names)
    BY DEF IsNormal
  <1>2. l \in Labels BY LabelsOfDrives
  <1>3. PlaceOf(path) = [label |-> l, names |-> names] BY <1>1, PlaceOfPlain
  <1>4. path = PathOf([label |-> l, names |-> names])
    BY <1>1, <1>2, PathOfIsPlain, PlainIsUnique
  <1>5. path # <<>> BY <1>1, PlainFacts
  <1> QED BY <1>1, <1>2, <1>3, <1>4, <1>5

LEMMA LookUpStaysNormal ==
  ASSUME PathsInv, NEW typed \in CdPaths, LookUpDirectory(typed)
  PROVE  PathsInv'
  <1> DEFINE path == normalizePath(working_directory, typed)
  <1>1. PICK l \in Labels, names \in Seq(Name) :
           IsPlain(working_directory, l, names)
    BY NormalPlace DEF PathsInv
  <1>2. typed \in Seq(Tokens) /\ WellFormed(typed) BY TypedAssumption
  <1>3. PICK place : LeadsTo(path, place) BY <1>1, <1>2, NormalizeMeaning
  <1>4. /\ place.label \in Labels /\ place.names \in Seq(Name)
        /\ IsPlain(path, place.label, place.names)
    BY <1>3 DEF LeadsTo
  <1>5. PlaceOf(path) = [label |-> place.label, names |-> place.names]
    BY <1>4, PlaceOfPlain
  <1>6. CASE cd' = path /\ directoryExists(Target(path))
    <2>1. directoryExists(PlaceOf(path))
      <3>1. normalizePath(working_directory, path) = path BY <1>4, PlainStays
      <3> HIDE DEF path
      <3> QED BY <1>6, <3>1 DEF Target
    <2>2. PlaceOf(path).label \in {Disk, "procfs:"} BY <2>1 DEF directoryExists
    <2>3. place.label \in {Disk, "procfs:"} BY <1>5, <2>2
    <2>4. IsNormal(path) BY <1>4, <2>3 DEF IsNormal
    <2>5. working_directory' = working_directory BY DEF LookUpDirectory
    <2>6. cd' = path BY <1>6
    <2> HIDE DEF path
    <2> QED BY <2>4, <2>5, <2>6 DEF PathsInv, IsNormal
  <1>7. CASE UNCHANGED cd
    <2>1. working_directory' = working_directory BY DEF LookUpDirectory
    <2> QED BY <1>7, <2>1 DEF PathsInv
  <1>8. (cd' = path /\ directoryExists(Target(path))) \/ UNCHANGED cd BY DEF LookUpDirectory
  <1> QED BY <1>6, <1>7, <1>8

LEMMA StepStaysNormal == PathsInv /\ [Next]_vars => PathsInv'
  <1> SUFFICES ASSUME PathsInv, [Next]_vars PROVE PathsInv' OBVIOUS
  <1>1. CASE UNCHANGED <<working_directory, cd>> BY <1>1 DEF PathsInv
  <1>2. CASE \E typed \in CdPaths : LookUpDirectory(typed) BY <1>2, LookUpStaysNormal
  <1>3. CASE changeWorkingDir BY <1>3 DEF changeWorkingDir, PathsInv
  <1>4. CASE \E typed \in TypedPaths : Redirect(typed) BY <1>1, <1>4 DEF Redirect
  <1>5. CASE \E s \in Slots, command \in {"md", "rd", "rd /S"}, typed \in TypedPaths :
                StartProgram(s, command, typed)
    BY <1>1, <1>5 DEF StartProgram
  <1>6. CASE \E s \in Slots : ProgramStep(s)
    BY <1>1, <1>6 DEF ProgramStep, Look, ReadFirstEntry, MakeDirectory, DeleteDirectory,
                      Change, Proceed
  <1> QED BY <1>1, <1>2, <1>3, <1>4, <1>5, <1>6 DEF Next, vars

(* Type correctness: the disk is a tree at every moment, and the working    *)
(* directory, like the path a cd is about to make it, is normalised and on  *)
(* a drive that has directories, which ensureAbsoluteForm relies on         *)
(* (VFS_paths.cpp:50) whatever paths have been typed before.                *)
THEOREM NamesTypeCorrect == Spec => []TypeOK
  <1>1. ASSUME IInv, PathsInv PROVE TypeOK
    <2>1. ASSUME NEW path \in DOMAIN tree, path # Dir!Root
          PROVE  Dir!IsDir(tree, Front(path))
      <3>1. path \in Path /\ \A q \in Dir!Ancestors(path) : Dir!IsDir(tree, q)
        BY <1>1 DEF IInv, TreeInv, IsTree
      <3>2. Len(path) \in Nat \ {0} BY <2>1, <3>1, EmptySeq DEF Path, Dir!Root
      <3>3. Len(path) - 1 \in 0..(Len(path) - 1)
        <4>1. PICK n \in Nat \ {0} : n = Len(path) BY <3>2
        <4>2. n - 1 \in 0..(n - 1) BY <4>1
        <4> QED BY <4>1, <4>2
      <3>4. Front(path) \in Dir!Ancestors(path) BY <3>3 DEF Dir!Ancestors, Front
      <3> QED BY <3>1, <3>4
    <2>2. ASSUME NEW path \in {working_directory, cd} \ {<<>>}
          PROVE  PlaceOf(path) \in Places /\ path = PathOf(PlaceOf(path))
      <3>1. IsNormal(path) BY <1>1 DEF PathsInv
      <3>2. PICK l \in {Disk, "procfs:"}, names \in Seq(Name) :
               /\ PlaceOf(path) = [label |-> l, names |-> names]
               /\ path = PathOf([label |-> l, names |-> names])
        BY <3>1, NormalPlace
      <3> QED BY <3>2 DEF Places, Name
    <2>3. ASSUME NEW s \in Slots
          PROVE  /\ programs[s].pc \in {"none", "look", "create", "read", "delete"}
                 /\ there[s] \subseteq DOMAIN tree
      BY <1>1 DEF IInv, ProgramsInv, Program, ThereInv
    <2> QED BY <2>1, <2>2, <2>3 DEF TypeOK
  <1> QED BY <1>1, InitEstablishes, StepPreserves, InitIsNormal, StepStaysNormal, PTL DEF Spec

(* removeDots rewrites the path in place (VFS_paths.cpp:67-121): whatever   *)
(* path is given in whatever working directory the shell can be in, the     *)
(* result is the one path of the place that a walk of its parts leads to,   *)
(* and normalising it once more changes nothing.                            *)
THEOREM PathsMeanWhatTheySay == Spec => []NormalizeMeetsReference
  <1>1. ASSUME PathsInv PROVE NormalizeMeetsReference
    <2> SUFFICES ASSUME NEW typed \in AllPaths
        PROVE  LET path == normalizePath(working_directory, typed)
               IN  /\ path = PathOf(Meaning(PlaceOf(working_directory), typed))
                   /\ path = normalizePath(working_directory, path)
      BY DEF NormalizeMeetsReference
    <2> DEFINE path == normalizePath(working_directory, typed)
               place == Meaning(PlaceOf(working_directory), typed)
    <2>1. PICK l \in Labels, names \in Seq(Name) :
             /\ IsPlain(working_directory, l, names)
             /\ PlaceOf(working_directory) = [label |-> l, names |-> names]
      BY <1>1, NormalPlace DEF PathsInv
    <2>2. typed \in Seq(Tokens) /\ WellFormed(typed) BY TypedAssumption
    <2>3. LeadsTo(path, place) BY <2>1, <2>2, NormalizeMeaning
    <2> HIDE DEF path, place
    <2>4. /\ place.label \in Labels /\ place.names \in Seq(Name)
          /\ place = [label |-> place.label, names |-> place.names]
          /\ IsPlain(path, place.label, place.names)
      BY <2>3 DEF LeadsTo
    <2>5. path = PathOf(place)
      <3>1. IsPlain(PathOf([label |-> place.label, names |-> place.names]),
                    place.label, place.names)
        BY <2>4, PathOfIsPlain
      <3>2. PathOf([label |-> place.label, names |-> place.names]) = path
        BY <2>4, <3>1, PlainIsUnique
      <3> QED BY <2>4, <3>2
    <2>6. path = normalizePath(working_directory, path) BY <2>4, PlainStays
    <2> QED BY <2>5, <2>6 DEF path, place
  <1> QED BY <1>1, InitIsNormal, StepStaysNormal, PTL DEF Spec
=============================================================================
