------------------------ MODULE LinearDataflowProofs ------------------------
(***************************************************************************)
(* The result of a linear dataflow is the query on a prefix of the commits *)
(* that covers the frontier it has reached, for every plan, every source   *)
(* and every size of pages, chunks and streams.                            *)
(*                                                                         *)
(* The argument looks at a stream as what its rows add up to at each place *)
(* a reader can stand at.  Each such place is accounted for by a prefix of *)
(* the commits: for the output of the Scan because the cursor of the Scan  *)
(* is at that prefix, for the output of a transform because the place      *)
(* comes from a place in its input, and the query is linear.               *)
(***************************************************************************)
EXTENDS LinearDataflow, SinkPageProofs

UnitEffect == [row : Rows, w : {-1, 1}]
UnitChunk == [kind : {"data", "frontier"}, lsn : 1 .. MaxCommits + 1, rows : Seq(UnitEffect)]

\* A place in a log: n chunks and k effects of the next one.
Place(l, n, k) ==
    /\ n \in 0 .. Len(l) /\ k \in Nat
    /\ k # 0 => n < Len(l) /\ k <= Len(l[n + 1].rows)

\* How many effects the first n chunks hold, what they add up to for row r,
\* what all effects up to a place add up to, and the frontiers before it.
LenTo(l, n) == Total([i \in 1 .. n |-> Len(l[i].rows)])
NetTo(l, n, r) == Total([i \in 1 .. n |-> Net(l[i].rows, r)])
NetAt(l, n, k, r) == NetTo(l, n, r) + IF k = 0 THEN 0 ELSE Net(SubSeq(l[n + 1].rows, 1, k), r)
Frontiers(l, n) == {l[i].lsn : i \in {j \in 1 .. n : l[j].kind = "frontier"}}

\* One transform of a plan on a table, and the first s of them.
Img(s, t) == [r \in Rows |-> SetSum(t, {q \in Plan[s].keep : Plan[s].image[q] = r})]
IsAfters(f, t) ==
    f = [s \in 0 .. Len(Plan) |->
            IF s = 0 THEN t
            ELSE [r \in Rows |->
                    MapThenSumSet(LAMBDA q : f[s - 1][q],
                                  {q \in Plan[s].keep : Plan[s].image[q] = r})]]
After(s, t) == (CHOOSE f : IsAfters(f, t))[s]
-----------------------------------------------------------------------------
\* The inductive invariant, in terms of the values of the variables: w is wal,
\* e end, a activation; l is a log, c a cursor on it, k a continuation.

Change == [lsn : 2 .. MaxCommits + 1, row : Rows, w : {-1, 1}]
TableOf(w, p) == [r \in Rows |-> Net(SubSeq(w, 1, p), r)]
UpToOf(w, lsn) == Cardinality({i \in DOMAIN w : w[i].lsn <= lsn})

\* How far a stage has read its input, and what that adds up to.
AtOf(k) == IF k.phase = "data" THEN k.at ELSE 0
ReadOf(l, c, k) == [r \in Rows |-> NetAt(l, c.next - 1, AtOf(k), r)]

\* Commits are in LSN order, and no row is deleted that is not there.
IsWal(w, e) ==
    /\ \A i, j \in 1 .. Len(w) : i < j => w[i].lsn <= w[j].lsn
    /\ \A i \in 1 .. Len(w) : w[i].lsn <= e
    /\ \A p \in 0 .. Len(w) : \A r \in Rows : TableOf(w, p)[r] >= 0

\* A log holds unit effects, up to the LSN of the last commit, and no data
\* chunk is empty.
IsLog(l, e) ==
    /\ l \in Seq(UnitChunk)
    /\ \A i \in 1 .. Len(l) :
         l[i].lsn <= e /\ (l[i].kind = "frontier" <=> l[i].rows = <<>>)

\* The source stream is the first n changes, chunk by chunk.
IsSource(w, x, o) ==
    /\ x.kind = "data" /\ o + Len(x.rows) <= Len(w)
    /\ \A i \in 1 .. Len(x.rows) :
         x.rows[i] = [row |-> w[o + i].row, w |-> w[o + i].w] /\ x.lsn = w[o + i].lsn
Sourced(w, l, n) ==
    /\ LenTo(l, Len(l)) = n
    /\ \A i \in 1 .. Len(l) : IsSource(w, l[i], LenTo(l, i - 1))

\* A page continuation stands in a data chunk.
IsCursor(l, c, k) ==
    /\ c.next \in 1 .. Len(l) + 1
    /\ k.phase = "data" =>
         /\ c.next <= Len(l) /\ l[c.next].kind = "data" /\ k.at < Len(l[c.next].rows)
    /\ k.phase = "none" => k = NoContinuation

\* The frontier of a stage is one it has read.
Passed(l, c, k) ==
    /\ k.phase \in {"none", "data"}
    /\ IF Frontiers(l, c.next - 1) = {} THEN c.frontier = 0
       ELSE c.frontier \in Frontiers(l, c.next - 1)

\* The commits that the output of the Scan stands for: the snapshot, then what
\* the cursor has passed of the source stream l.
ReachedOf(w, a, l, c, k) ==
    IF LenTo(l, c.next - 1) + AtOf(k) <= UpToOf(w, a) THEN UpToOf(w, a)
    ELSE LenTo(l, c.next - 1) + AtOf(k)

\* The output of the Scan, with what is left of the snapshot, is the table
\* after those commits; a frontier closes the snapshot.
Spooled(sp, r) == Cardinality({i \in DOMAIN sp : sp[i] = r})
IsScan(w, a, sp, l, out, c, k) ==
    LET reached == ReachedOf(w, a, l, c, k)
        passed == Frontiers(out, Len(out))
    IN /\ \A r \in Rows : NetTo(out, Len(out), r) + Spooled(sp, r) = TableOf(w, reached)[r]
       /\ UpToOf(w, c.frontier) <= reached
       /\ \A f \in passed : f <= c.frontier
       /\ IF k.phase \in {"bootstrap", "snapshot_frontier"}
          THEN reached = UpToOf(w, a) /\ passed = {}
          ELSE DOMAIN sp = {} /\ passed # {}
       /\ IF k.phase = "bootstrap" THEN \E m \in Nat : DOMAIN sp = k.at .. m
          ELSE DOMAIN sp = {}
Unregistered(sp, k) == sp = <<>> /\ k = NoContinuation

\* The output of a transform is the image of what it has read.
IsImage(s, l, out, c, k) ==
    /\ Frontiers(out, Len(out)) = Frontiers(l, c.next - 1)
    /\ \A r \in Rows : NetTo(out, Len(out), r) = Img(s, ReadOf(l, c, k))[r]

\* What stream s may add up to behind a set F of frontiers: before the first
\* one a part of the query on the snapshot, then the query on some commits
\* that include those the frontiers cover.
TracedAt(w, a, s, F, v) ==
    IF F = {}
    THEN \A r \in Rows : v[r] <= After(s - 1, TableOf(w, UpToOf(w, a)))[r]
    ELSE \E p \in 0 .. Len(w) :
            /\ \A f \in F : UpToOf(w, f) <= p
            /\ \A r \in Rows : v[r] = After(s - 1, TableOf(w, p))[r]
Traces(w, a, s, l) ==
    \A n, k \in Nat :
       Place(l, n, k) => TracedAt(w, a, s, Frontiers(l, n), [r \in Rows |-> NetAt(l, n, k, r)])

\* One log for each stage.
IsLogs(f) == f = [s \in Stages |-> f[s]]

Types ==
    /\ wal \in Seq(Change)
    /\ sent \in 0 .. Len(wal) /\ end \in 1 .. MaxCommits + 1
    /\ published \in 0 .. end /\ activation \in 0 .. end
    /\ \A i \in DOMAIN spool : i \in Nat /\ spool[i] \in Rows
    /\ IsLogs(log)
    /\ cur \in [Stages -> [next : Nat, frontier : 0 .. end]]
    /\ cont \in [Stages -> [phase : Phase, at : Nat, rest : {0}]]
    /\ DOMAIN kept = Operators /\ \A s \in Operators : kept[s] \in 1 .. cur[s].next
    /\ full \in [Operators -> BOOLEAN]
    /\ result \in [Rows -> Nat]

WalLaw == IsWal(wal, end) /\ UpToOf(wal, published) <= sent
LogLaw == \A s \in Stages : IsLog(log[s], end)
SourceLaw == Sourced(wal, log[0], sent)
CursorLaw == /\ \A s \in Stages : IsCursor(log[s], cur[s], cont[s])
             /\ \A s \in Operators : Passed(log[s], cur[s], cont[s])
ScanLaw ==
    IF activation = 0
    THEN Unregistered(spool, cont[0]) /\ \A s \in Operators : log[s] = <<>>
    ELSE IsScan(wal, activation, spool, log[0], log[1], cur[0], cont[0])
StageLaw == \A s \in Transforms : IsImage(s, log[s], log[s + 1], cur[s], cont[s])
TraceLaw == \A s \in Operators : Traces(wal, activation, s, log[s])

\* The result is what the Sink has read.
SinkLaw ==
    \A r \in Rows :
       result[r] = ReadOf(log[SinkStage], cur[SinkStage], cont[SinkStage])[r]

Inv == /\ Types /\ WalLaw /\ LogLaw /\ SourceLaw /\ CursorLaw
       /\ ScanLaw /\ StageLaw /\ TraceLaw /\ SinkLaw
-----------------------------------------------------------------------------
\* Sums over finite sets.

\* The sum of two functions added up.
LEMMA SetSumAdd ==
    ASSUME NEW S, IsFiniteSet(S), NEW g, NEW h, NEW t,
           \A x \in S : g[x] \in Int /\ h[x] \in Int /\ t[x] = g[x] + h[x]
    PROVE  SetSum(t, S) = SetSum(g, S) + SetSum(h, S)
<1>1. PICK f \in [SUBSET S -> Int] : IsSummation(f, g, S) /\ SetSum(g, S) = f[S]
  BY SetSumDef
<1>2. PICK e \in [SUBSET S -> Int] : IsSummation(e, h, S) /\ SetSum(h, S) = e[S]
  BY SetSumDef
<1>3. \A x \in S : t[x] \in Int
  OBVIOUS
<1>4. PICK d \in [SUBSET S -> Int] : IsSummation(d, t, S) /\ SetSum(t, S) = d[S]
  BY <1>3, SetSumDef
<1>. DEFINE both == [s \in SUBSET S |-> f[s] + e[s]]
<1>5. IsSummation(both, t, S)
  <2>1. ASSUME NEW s \in SUBSET S
        PROVE  both[s] = IF s = {} THEN 0 ELSE t[Chosen(s)] + both[s \ {Chosen(s)}]
    <3>1. CASE s = {}
      <4>1. f[s] = 0 /\ e[s] = 0
        BY <1>1, <1>2, <3>1 DEF IsSummation
      <4>. QED BY <3>1, <4>1
    <3>2. CASE s # {}
      <4>. DEFINE x == Chosen(s)
                  o == s \ {x}
      <4>1. x \in S /\ o \in SUBSET S
        BY <3>2, ChosenIn
      <4>2. f[s] = g[x] + f[o] /\ e[s] = h[x] + e[o]
        BY <1>1, <1>2, <3>2 DEF IsSummation
      <4>3. both[s] = f[s] + e[s] /\ both[o] = f[o] + e[o]
        BY <4>1
      <4>4. f[o] \in Int /\ e[o] \in Int /\ g[x] \in Int /\ h[x] \in Int /\ t[x] = g[x] + h[x]
        BY <4>1
      <4>. HIDE DEF x, o, both
      <4>5. both[s] = t[x] + both[o]
        BY <4>2, <4>3, <4>4
      <4>. QED BY <3>2, <4>5 DEF x, o
    <3>. QED BY <3>1, <3>2
  <2>2. both = [s \in SUBSET S |-> both[s]]
    OBVIOUS
  <2>. HIDE DEF both
  <2>. QED BY <2>1, <2>2, Zenon DEF IsSummation
<1>6. both[S] = d[S]
  <2>1. S \in SUBSET (S \cap S)
    OBVIOUS
  <2>. HIDE DEF both
  <2>. QED BY <1>4, <1>5, <2>1, SummationUnique
<1>. QED BY <1>1, <1>2, <1>4, <1>6

\* A function that is nowhere smaller adds up to no less.
LEMMA SetSumMono ==
    ASSUME NEW S, IsFiniteSet(S), NEW g, NEW h,
           \A x \in S : g[x] \in Int /\ h[x] \in Int /\ g[x] <= h[x]
    PROVE  SetSum(g, S) <= SetSum(h, S)
<1>. DEFINE d == [x \in S |-> h[x] - g[x]]
<1>1. \A x \in S : d[x] \in Nat /\ g[x] \in Int /\ d[x] \in Int /\ h[x] = g[x] + d[x]
  OBVIOUS
<1>. HIDE DEF d
<1>2. SetSum(h, S) = SetSum(g, S) + SetSum(d, S)
  BY <1>1, SetSumAdd
<1>3. SetSum(d, S) \in Nat
  BY <1>1, SetSumNat
<1>4. SetSum(g, S) \in Int
  BY SetSumInt
<1>. QED BY <1>2, <1>3, <1>4

\* A function that is 0 but at one point adds up to its value there.
LEMMA SetSumPoint ==
    ASSUME NEW S, IsFiniteSet(S), NEW x, NEW w \in Int, NEW g,
           \A y \in S : g[y] = IF y = x THEN w ELSE 0
    PROVE  SetSum(g, S) = IF x \in S THEN w ELSE 0
<1>1. ASSUME NEW T \in SUBSET S, x \notin T PROVE SetSum(g, T) = 0
  <2>. DEFINE zero == [y \in T |-> 0]
  <2>1. IsFiniteSet(T) /\ \A y \in T : g[y] \in Int /\ g[y] = zero[y]
    BY <1>1, FS_Subset
  <2>2. SetSum(zero, T) = 0
    BY <2>1, ZeroSum
  <2>. HIDE DEF zero
  <2>. QED BY <2>1, <2>2, SetSumAgree
<1>2. CASE x \in S
  <2>1. \A y \in S : g[y] \in Int
    OBVIOUS
  <2>2. SetSum(g, S) = g[x] + SetSum(g, S \ {x})
    BY <1>2, <2>1, SetSumRemove
  <2>3. SetSum(g, S \ {x}) = 0
    BY <1>1
  <2>4. g[x] = w
    BY <1>2
  <2>. QED BY <1>2, <2>2, <2>3, <2>4
<1>. QED BY <1>1, <1>2
-----------------------------------------------------------------------------
\* The query.

\* The rows that a transform maps to r.
LEMMA PreimageFinite ==
    ASSUME NEW s \in Transforms, NEW r
    PROVE  /\ {q \in Plan[s].keep : Plan[s].image[q] = r} \in SUBSET Rows
           /\ IsFiniteSet({q \in Plan[s].keep : Plan[s].image[q] = r})
<1>1. Plan[s] \in [keep : SUBSET Rows, image : [Rows -> Rows]]
  BY PlanAssumption, ElementOfSeq DEF Transforms
<1>2. {q \in Plan[s].keep : Plan[s].image[q] = r} \in SUBSET Rows
  BY <1>1
<1>. QED BY <1>2, PlanAssumption, FS_Subset

\* The image of a table is a table.
LEMMA ImgType ==
    ASSUME NEW s \in Transforms, NEW t, \A q \in Rows : t[q] \in Int
    PROVE  Img(s, t) \in [Rows -> Int]
<1>1. ASSUME NEW r PROVE SetSum(t, {q \in Plan[s].keep : Plan[s].image[q] = r}) \in Int
  <2>. DEFINE S == {q \in Plan[s].keep : Plan[s].image[q] = r}
  <2>1. S \in SUBSET Rows /\ IsFiniteSet(S)
    BY PreimageFinite
  <2>. HIDE DEF S
  <2>2. SetSum(t, S) \in Int
    BY <2>1, SetSumInt
  <2>. QED BY <2>2 DEF S
<1>. QED BY <1>1 DEF Img

\* It depends on the table's rows only.
LEMMA ImgAgree ==
    ASSUME NEW s \in Transforms, NEW t, NEW u, \A q \in Rows : t[q] \in Int /\ t[q] = u[q]
    PROVE  Img(s, t) = Img(s, u)
<1>1. ASSUME NEW r
      PROVE  SetSum(t, {q \in Plan[s].keep : Plan[s].image[q] = r})
               = SetSum(u, {q \in Plan[s].keep : Plan[s].image[q] = r})
  <2>. DEFINE S == {q \in Plan[s].keep : Plan[s].image[q] = r}
  <2>1. S \in SUBSET Rows /\ IsFiniteSet(S)
    BY PreimageFinite
  <2>. HIDE DEF S
  <2>2. SetSum(t, S) = SetSum(u, S)
    BY <2>1, SetSumAgree
  <2>. QED BY <2>2 DEF S
<1>. QED BY <1>1 DEF Img

\* A larger table has a larger image, and no row of it is negative.
LEMMA ImgMono ==
    ASSUME NEW s \in Transforms, NEW t, NEW u,
           \A q \in Rows : t[q] \in Int /\ u[q] \in Int /\ t[q] <= u[q],
           NEW r \in Rows
    PROVE  Img(s, t)[r] <= Img(s, u)[r]
<1>. DEFINE S == {q \in Plan[s].keep : Plan[s].image[q] = r}
<1>1. S \in SUBSET Rows /\ IsFiniteSet(S)
  BY PreimageFinite
<1>2. Img(s, t)[r] = SetSum(t, S) /\ Img(s, u)[r] = SetSum(u, S)
  BY Zenon DEF Img
<1>. HIDE DEF S
<1>3. SetSum(t, S) <= SetSum(u, S)
  BY <1>1, SetSumMono
<1>. QED BY <1>2, <1>3

\* A table without a negative row has such an image.
LEMMA ImgNat ==
    ASSUME NEW s \in Transforms, NEW t, \A q \in Rows : t[q] \in Nat, NEW r \in Rows
    PROVE  Img(s, t)[r] \in Nat
<1>. DEFINE S == {q \in Plan[s].keep : Plan[s].image[q] = r}
<1>1. S \in SUBSET Rows /\ IsFiniteSet(S)
  BY PreimageFinite
<1>2. Img(s, t)[r] = SetSum(t, S)
  BY Zenon DEF Img
<1>. HIDE DEF S
<1>3. SetSum(t, S) \in Nat
  BY <1>1, SetSumNat
<1>. QED BY <1>2, <1>3

\* The image of a sum is the sum of the images.
LEMMA ImgAdd ==
    ASSUME NEW s \in Transforms, NEW t, NEW u, NEW v,
           \A q \in Rows : t[q] \in Int /\ u[q] \in Int /\ v[q] = t[q] + u[q],
           NEW r \in Rows
    PROVE  Img(s, v)[r] = Img(s, t)[r] + Img(s, u)[r]
<1>. DEFINE S == {q \in Plan[s].keep : Plan[s].image[q] = r}
<1>1. S \in SUBSET Rows /\ IsFiniteSet(S)
  BY PreimageFinite
<1>2. /\ Img(s, t)[r] = SetSum(t, S) /\ Img(s, u)[r] = SetSum(u, S)
      /\ Img(s, v)[r] = SetSum(v, S)
  BY Zenon DEF Img
<1>. HIDE DEF S
<1>3. SetSum(v, S) = SetSum(t, S) + SetSum(u, S)
  BY <1>1, SetSumAdd
<1>. QED BY <1>2, <1>3

\* One effect moves the row it maps to, if it is kept.
LEMMA ImgPoint ==
    ASSUME NEW s \in Transforms, NEW x \in Rows, NEW w \in Int, NEW t,
           \A q \in Rows : t[q] = IF q = x THEN w ELSE 0,
           NEW r \in Rows
    PROVE  Img(s, t)[r] = IF x \in Plan[s].keep /\ Plan[s].image[x] = r THEN w ELSE 0
<1>. DEFINE S == {q \in Plan[s].keep : Plan[s].image[q] = r}
<1>1. S \in SUBSET Rows /\ IsFiniteSet(S)
  BY PreimageFinite
<1>2. Img(s, t)[r] = SetSum(t, S)
  BY Zenon DEF Img
<1>3. x \in S <=> x \in Plan[s].keep /\ Plan[s].image[x] = r
  OBVIOUS
<1>. HIDE DEF S
<1>4. \A y \in S : t[y] = IF y = x THEN w ELSE 0
  BY <1>1
<1>5. SetSum(t, S) = IF x \in S THEN w ELSE 0
  BY <1>1, <1>4, SetSumPoint
<1>. QED BY <1>2, <1>3, <1>5

\* The tables after each transform of the plan.
LEMMA AfterFacts ==
    ASSUME NEW t \in [Rows -> Int]
    PROVE  /\ After(0, t) = t /\ Query(t) = After(Len(Plan), t)
           /\ \A s \in Transforms : After(s, t) = Img(s, After(s - 1, t))
           /\ \A s \in 0 .. Len(Plan) : After(s, t) \in [Rows -> Int]
<1>. DEFINE n == Len(Plan)
            X == [Rows -> Int]
            g == [p \in X \X (1 .. n) |-> Img(p[2], p[1])]
<1>1. n \in Nat /\ Transforms = 1 .. n
  BY PlanAssumption DEF Transforms
<1>2. \A x \in X, i \in 1 .. n : g[<<x, i>>] = Img(i, x) /\ g[<<x, i>>] \in X
  <2>1. ASSUME NEW x \in X, NEW i \in 1 .. n PROVE Img(i, x) \in X
    BY <1>1, ImgType
  <2>. QED BY <2>1
<1>. HIDE DEF g
<1>3. PICK f \in [0 .. n -> X] : IsIteration(f, t, g, n)
  <2>1. StepOn(g, X, n)
    BY <1>2 DEF StepOn
  <2>2. t \in X
    OBVIOUS
  <2>. HIDE DEF n, X
  <2>. QED BY <1>1, <2>1, <2>2, IterationExists, Zenon
<1>4. \A s \in 0 .. n : f[s] = IF s = 0 THEN t ELSE Img(s, f[s - 1])
  <2>1. SUFFICES ASSUME NEW s \in 0 .. n PROVE f[s] = IF s = 0 THEN t ELSE Img(s, f[s - 1])
    OBVIOUS
  <2>2. f[s] = IF s = 0 THEN t ELSE g[<<f[s - 1], s>>]
    BY <1>3 DEF IsIteration
  <2>3. s # 0 => f[s - 1] \in X /\ s \in 1 .. n
    <3>. HIDE DEF X, n
    <3>. QED BY <1>1, <1>3
  <2>4. ASSUME s # 0 PROVE g[<<f[s - 1], s>>] = Img(s, f[s - 1])
    <3>. HIDE DEF X
    <3>. QED BY <1>2, <2>3, <2>4
  <2>. QED BY <2>2, <2>4, Zenon
<1>5. \A e : IsAfters(e, t) <=> e = [s \in 0 .. n |-> IF s = 0 THEN t ELSE Img(s, e[s - 1])]
  BY Zenon DEF IsAfters, Img, SetSum
<1>6. IsAfters(f, t)
  <2>1. f = [s \in 0 .. n |-> f[s]]
    OBVIOUS
  <2>2. f = [s \in 0 .. n |-> IF s = 0 THEN t ELSE Img(s, f[s - 1])]
    BY <1>4, <2>1, Zenon
  <2>. QED BY <1>5, <2>2, Zenon
<1>. DEFINE a == CHOOSE e : IsAfters(e, t)
<1>7. IsAfters(a, t)
  BY <1>6, Zenon
<1>8. \A s : After(s, t) = a[s]
  BY Zenon DEF After
<1>9. Query(t) = a[n]
  BY Zenon DEF Query, IsAfters
<1>. HIDE DEF a
<1>10. \A s \in 0 .. n : a[s] = IF s = 0 THEN t ELSE Img(s, a[s - 1])
  <2>1. a = [s \in 0 .. n |-> IF s = 0 THEN t ELSE Img(s, a[s - 1])]
    BY <1>5, <1>7, Zenon
  <2>. QED BY <2>1, Zenon
<1>11. StepAlike(a, f, n)
  <2>1. a[0] = t /\ f[0] = t
    <3>1. 0 \in 0 .. n
      BY <1>1
    <3>. QED BY <1>4, <1>10, <3>1
  <2>2. \A i \in 1 .. n : a[i] = Img(i, a[i - 1]) /\ f[i] = Img(i, f[i - 1])
    <3>1. \A i \in 1 .. n : i \in 0 .. n /\ i # 0
      BY <1>1
    <3>. QED BY <1>4, <1>10, <3>1
  <2>. QED BY <2>1, <2>2, Zenon DEF StepAlike
<1>12. \A s \in 0 .. n : a[s] = f[s]
  <2>. HIDE DEF n
  <2>. QED BY <1>1, <1>11, SameSteps
<1>13. a[0] = t /\ \A s \in 1 .. n : a[s] = Img(s, a[s - 1])
  <2>1. 0 \in 0 .. n /\ \A s \in 1 .. n : s \in 0 .. n /\ s # 0
    BY <1>1
  <2>. QED BY <1>10, <2>1
<1>14. \A s \in 0 .. n : a[s] \in X
  BY <1>12
<1>. QED BY <1>1, <1>8, <1>9, <1>13, <1>14

\* No row of the query is negative when none of the table is.
LEMMA AfterNat ==
    ASSUME NEW t \in [Rows -> Int], \A r \in Rows : t[r] >= 0, NEW s \in 0 .. Len(Plan)
    PROVE  \A r \in Rows : After(s, t)[r] \in Nat
<1>. DEFINE N == {m \in Nat : m <= Len(Plan) => \A r \in Rows : After(m, t)[r] \in Nat}
<1>1. 0 \in N
  BY AfterFacts
<1>2. ASSUME NEW m \in Nat, m \in N PROVE m + 1 \in N
  <2>1. SUFFICES ASSUME m + 1 <= Len(Plan) PROVE \A r \in Rows : After(m + 1, t)[r] \in Nat
    OBVIOUS
  <2>2. m + 1 \in Transforms /\ (m + 1) - 1 = m
    BY <2>1, PlanAssumption DEF Transforms
  <2>3. After(m + 1, t) = Img(m + 1, After(m, t))
    BY <2>2, AfterFacts, ZenonT(60)
  <2>4. \A r \in Rows : After(m, t)[r] \in Nat
    BY <1>2, <2>1, PlanAssumption
  <2>. QED BY <2>2, <2>3, <2>4, ImgNat
<1>3. Nat \subseteq N
  <2>. HIDE DEF N
  <2>. QED BY <1>1, <1>2, NatSetInduction
<1>. QED BY <1>3
-----------------------------------------------------------------------------
\* Places in a log.

\* Unit effects are weighted effects.
LEMMA UnitSeq ==
    ASSUME NEW e \in Seq(UnitEffect)
    PROVE  /\ e \in Seq(Weighted(Rows)) /\ Len(e) \in Nat /\ DOMAIN e = 1 .. Len(e)
           /\ \A i \in 1 .. Len(e) : e[i] \in UnitEffect
<1>1. /\ Len(e) \in Nat /\ DOMAIN e = 1 .. Len(e) /\ e \in [1 .. Len(e) -> UnitEffect]
      /\ \A i \in 1 .. Len(e) : e[i] \in UnitEffect
  OBVIOUS
<1>2. \A x \in UnitEffect : x \in Weighted(Rows)
  BY DEF UnitEffect, Weighted
<1>3. e \in [1 .. Len(e) -> Weighted(Rows)]
  <2>. HIDE DEF UnitEffect, Weighted
  <2>. QED BY <1>1, <1>2
<1>. HIDE DEF UnitEffect, Weighted
<1>. QED BY <1>1, <1>3

\* The chunks of a log.
LEMMA ChunkFacts ==
    ASSUME NEW l \in Seq(UnitChunk)
    PROVE  /\ Len(l) \in Nat
           /\ \A i \in 1 .. Len(l) :
                /\ l[i] \in UnitChunk /\ l[i].rows \in Seq(UnitEffect)
                /\ l[i].kind \in {"data", "frontier"} /\ l[i].lsn \in 1 .. MaxCommits + 1
                /\ Len(l[i].rows) \in Nat
                /\ \A r : Net(l[i].rows, r) \in Int
<1>1. Len(l) \in Nat /\ \A i \in 1 .. Len(l) : l[i] \in UnitChunk
  BY ElementOfSeq
<1>2. \A i \in 1 .. Len(l) : /\ l[i].rows \in Seq(UnitEffect)
                             /\ l[i].kind \in {"data", "frontier"} /\ l[i].lsn \in 1 .. MaxCommits + 1
  BY <1>1 DEF UnitChunk
<1>3. \A i \in 1 .. Len(l) : Len(l[i].rows) \in Nat /\ \A r : Net(l[i].rows, r) \in Int
  BY <1>2, UnitSeq, NetInt
<1>. QED BY <1>1, <1>2, <1>3

\* A running total grows by its next number.
LEMMA Running ==
    ASSUME NEW n \in Nat, NEW f, \A i \in 1 .. n + 1 : f[i] \in Int
    PROVE  /\ Total([i \in 1 .. n |-> f[i]]) \in Int
           /\ Total([i \in 1 .. n + 1 |-> f[i]]) = Total([i \in 1 .. n |-> f[i]]) + f[n + 1]
<1>. DEFINE s == [i \in 1 .. n |-> f[i]]
            t == [i \in 1 .. n + 1 |-> f[i]]
<1>1. s \in Seq(Int) /\ Len(s) = n /\ t \in Seq(Int) /\ Len(t) = n + 1
  OBVIOUS
<1>2. (\A i \in 1 .. n : t[i] = s[i]) /\ t[n + 1] = f[n + 1]
  OBVIOUS
<1>. HIDE DEF s, t
<1>3. PICK g : PrefixSums(g, t) /\ Total(t) = g[Len(t)]
  BY <1>1, TotalDef
<1>4. g[0] = 0 /\ (\A i \in 1 .. n + 1 : g[i] = g[i - 1] + t[i])
  BY <1>1, <1>3 DEF PrefixSums
<1>5. \A i \in 1 .. Len(s) : g[i] = g[i - 1] + s[i]
  BY <1>1, <1>2, <1>4
<1>6. Total(s) = g[n]
  BY <1>1, <1>4, <1>5, TotalIs
<1>7. n + 1 \in 1 .. n + 1 /\ (n + 1) - 1 = n
  OBVIOUS
<1>8. g[n + 1] = g[n] + f[n + 1]
  BY <1>2, <1>4, <1>7
<1>9. Total(s) \in Int
  BY <1>1, TotalInt
<1>. QED BY <1>1, <1>3, <1>6, <1>8, <1>9 DEF s, t

\* The counters of a log move with each chunk.
LEMMA ToFacts ==
    ASSUME NEW l \in Seq(UnitChunk)
    PROVE  /\ LenTo(l, 0) = 0 /\ \A r : NetTo(l, 0, r) = 0
           /\ \A n \in 0 .. Len(l) : LenTo(l, n) \in Int /\ \A r : NetTo(l, n, r) \in Int
           /\ \A n \in Nat : n < Len(l) =>
                /\ LenTo(l, n + 1) = LenTo(l, n) + Len(l[n + 1].rows)
                /\ \A r : NetTo(l, n + 1, r) = NetTo(l, n, r) + Net(l[n + 1].rows, r)
<1>1. LenTo(l, 0) = 0 /\ \A r : NetTo(l, 0, r) = 0
  <2>1. \A f \in [1 .. 0 -> Int] : f \in Seq(Int) /\ Len(f) = 0
    OBVIOUS
  <2>2. \A f \in [1 .. 0 -> Int] : Total(f) = 0
    BY <2>1, TotalEmpty
  <2>3. [i \in 1 .. 0 |-> Len(l[i].rows)] \in [1 .. 0 -> Int]
    OBVIOUS
  <2>4. \A r : [i \in 1 .. 0 |-> Net(l[i].rows, r)] \in [1 .. 0 -> Int]
    OBVIOUS
  <2>. QED BY <2>2, <2>3, <2>4, Zenon DEF LenTo, NetTo
<1>2. ASSUME NEW n \in 0 .. Len(l) PROVE LenTo(l, n) \in Int /\ \A r : NetTo(l, n, r) \in Int
  <2>1. Len(l) \in Nat /\ \A i \in 1 .. n : i \in 1 .. Len(l)
    BY ChunkFacts
  <2>2. [i \in 1 .. n |-> Len(l[i].rows)] \in Seq(Int)
    BY <2>1, ChunkFacts
  <2>3. \A r : [i \in 1 .. n |-> Net(l[i].rows, r)] \in Seq(Int)
    <3>1. \A r : \A i \in 1 .. n : Net(l[i].rows, r) \in Int
      BY <2>1, ChunkFacts
    <3>. QED BY <3>1, <2>1
  <2>. QED BY <2>2, <2>3, TotalInt DEF LenTo, NetTo
<1>3. ASSUME NEW n \in Nat, n < Len(l)
      PROVE  LenTo(l, n + 1) = LenTo(l, n) + Len(l[n + 1].rows)
  <2>. DEFINE f == [i \in 1 .. Len(l) |-> Len(l[i].rows)]
  <2>1. Len(l) \in Nat /\ n + 1 \in 1 .. Len(l) /\ \A i \in 1 .. n + 1 : i \in 1 .. Len(l)
    BY <1>3, ChunkFacts
  <2>2. \A i \in 1 .. n + 1 : f[i] \in Int /\ f[i] = Len(l[i].rows)
    BY <2>1, ChunkFacts
  <2>. HIDE DEF f
  <2>3. Total([i \in 1 .. n + 1 |-> f[i]]) = Total([i \in 1 .. n |-> f[i]]) + f[n + 1]
    BY <2>2, Running
  <2>4. /\ [i \in 1 .. n + 1 |-> f[i]] = [i \in 1 .. n + 1 |-> Len(l[i].rows)]
        /\ [i \in 1 .. n |-> f[i]] = [i \in 1 .. n |-> Len(l[i].rows)]
        /\ f[n + 1] = Len(l[n + 1].rows)
    BY <2>2
  <2>. QED BY <2>3, <2>4, Zenon DEF LenTo
<1>4. ASSUME NEW n \in Nat, n < Len(l), NEW r
      PROVE  NetTo(l, n + 1, r) = NetTo(l, n, r) + Net(l[n + 1].rows, r)
  <2>. DEFINE f == [i \in 1 .. Len(l) |-> Net(l[i].rows, r)]
  <2>1. Len(l) \in Nat /\ n + 1 \in 1 .. Len(l) /\ \A i \in 1 .. n + 1 : i \in 1 .. Len(l)
    BY <1>4, ChunkFacts
  <2>2. \A i \in 1 .. n + 1 : f[i] \in Int /\ f[i] = Net(l[i].rows, r)
    BY <2>1, ChunkFacts
  <2>. HIDE DEF f
  <2>3. Total([i \in 1 .. n + 1 |-> f[i]]) = Total([i \in 1 .. n |-> f[i]]) + f[n + 1]
    BY <2>2, Running
  <2>4. /\ [i \in 1 .. n + 1 |-> f[i]] = [i \in 1 .. n + 1 |-> Net(l[i].rows, r)]
        /\ [i \in 1 .. n |-> f[i]] = [i \in 1 .. n |-> Net(l[i].rows, r)]
        /\ f[n + 1] = Net(l[n + 1].rows, r)
    BY <2>2
  <2>. QED BY <2>3, <2>4, Zenon DEF NetTo
<1>. QED BY <1>1, <1>2, <1>3, <1>4

\* More chunks hold no fewer effects.
LEMMA LenToGrows ==
    ASSUME NEW l \in Seq(UnitChunk), NEW m \in 0 .. Len(l), NEW n \in m .. Len(l)
    PROVE  LenTo(l, m) \in Nat /\ LenTo(l, n) \in Nat /\ LenTo(l, m) <= LenTo(l, n)
<1>0. Len(l) \in Nat
  BY ChunkFacts
<1>a. ASSUME NEW p \in Nat, p < Len(l)
      PROVE  /\ LenTo(l, p + 1) = LenTo(l, p) + Len(l[p + 1].rows)
             /\ Len(l[p + 1].rows) \in Nat /\ LenTo(l, p) \in Int
  <2>1. p + 1 \in 1 .. Len(l) /\ p \in 0 .. Len(l)
    BY <1>0, <1>a
  <2>. QED BY <2>1, <1>a, ChunkFacts, ToFacts
<1>1. ASSUME NEW p \in 0 .. Len(l) PROVE LenTo(l, p) \in Nat
  <2>. DEFINE N == {x \in Nat : x <= Len(l) => LenTo(l, x) \in Nat}
  <2>1. 0 \in N
    BY ToFacts
  <2>2. ASSUME NEW x \in Nat, x \in N PROVE x + 1 \in N
    BY <1>0, <1>a, <2>2, SMTT(30)
  <2>3. Nat \subseteq N
    <3>. HIDE DEF N
    <3>. QED BY <2>1, <2>2, NatSetInduction
  <2>. QED BY <2>3, <1>0
<1>2. LenTo(l, m) <= LenTo(l, n)
  <2>. DEFINE N == {x \in Nat : m + x <= Len(l) => LenTo(l, m) <= LenTo(l, m + x)}
  <2>1. 0 \in N
    BY <1>1, <1>0
  <2>2. ASSUME NEW x \in Nat, x \in N PROVE x + 1 \in N
    <3>1. SUFFICES ASSUME m + (x + 1) <= Len(l) PROVE LenTo(l, m) <= LenTo(l, m + (x + 1))
      OBVIOUS
    <3>2. /\ m + x \in Nat /\ m + x < Len(l) /\ (m + x) + 1 = m + (x + 1)
          /\ m + x \in 0 .. Len(l) /\ m + x <= Len(l)
      BY <1>0, <3>1
    <3>3. LenTo(l, m) <= LenTo(l, m + x)
      BY <2>2, <3>2
    <3>4. LenTo(l, m) \in Nat /\ LenTo(l, m + x) \in Nat
      BY <1>1, <3>2
    <3>5. LenTo(l, (m + x) + 1) = LenTo(l, m + x) + Len(l[m + x + 1].rows) /\ Len(l[m + x + 1].rows) \in Nat
      BY <1>a, <3>2
    <3>. QED BY <3>2, <3>3, <3>4, <3>5
  <2>3. Nat \subseteq N
    <3>. HIDE DEF N
    <3>. QED BY <2>1, <2>2, NatSetInduction
  <2>4. n - m \in Nat /\ m + (n - m) = n /\ n <= Len(l)
    BY <1>0
  <2>. QED BY <2>3, <2>4
<1>3. m \in 0 .. Len(l) /\ n \in 0 .. Len(l)
  BY <1>0
<1>. QED BY <1>1, <1>2, <1>3

\* Logs that begin alike count alike.
LEMMA SameStart ==
    ASSUME NEW l, NEW m, NEW n \in Nat, \A i \in 1 .. n : l[i] = m[i]
    PROVE  /\ LenTo(l, n) = LenTo(m, n) /\ Frontiers(l, n) = Frontiers(m, n)
           /\ \A r : NetTo(l, n, r) = NetTo(m, n, r)
<1>1. [i \in 1 .. n |-> Len(l[i].rows)] = [i \in 1 .. n |-> Len(m[i].rows)]
  OBVIOUS
<1>2. \A r : [i \in 1 .. n |-> Net(l[i].rows, r)] = [i \in 1 .. n |-> Net(m[i].rows, r)]
  OBVIOUS
<1>3. Frontiers(l, n) = Frontiers(m, n)
  BY DEF Frontiers
<1>. QED BY <1>1, <1>2, <1>3, Zenon DEF LenTo, NetTo

\* One more chunk adds its frontier, if it is one.
LEMMA FrontiersNext ==
    ASSUME NEW l, NEW n \in Nat
    PROVE  Frontiers(l, n + 1) = Frontiers(l, n) \cup
                (IF l[n + 1].kind = "frontier" THEN {l[n + 1].lsn} ELSE {})
<1>1. 1 .. n + 1 = (1 .. n) \cup {n + 1}
  OBVIOUS
<1>. QED BY <1>1 DEF Frontiers

\* Prefixes of unit effects.
LEMMA UnitPrefix ==
    ASSUME NEW e \in Seq(UnitEffect), NEW k \in 0 .. Len(e)
    PROVE  /\ SubSeq(e, 1, k) \in Seq(UnitEffect) /\ Len(SubSeq(e, 1, k)) = k
           /\ \A i \in 1 .. k : SubSeq(e, 1, k)[i] = e[i]
           /\ \A r : Net(SubSeq(e, 1, k), r) \in Int /\ (k = 0 => Net(SubSeq(e, 1, k), r) = 0)
           /\ SubSeq(e, 1, Len(e)) = e
<1>1. Len(e) \in Nat /\ \A i \in 1 .. Len(e) : e[i] \in UnitEffect
  BY UnitSeq
<1>2. /\ SubSeq(e, 1, k) \in Seq(UnitEffect) /\ Len(SubSeq(e, 1, k)) = k
      /\ \A i \in 1 .. k : SubSeq(e, 1, k)[i] = e[i]
  <2>. HIDE DEF UnitEffect
  <2>. QED BY <1>1
<1>3. \A r : Net(SubSeq(e, 1, k), r) \in Int /\ (k = 0 => Net(SubSeq(e, 1, k), r) = 0)
  <2>. DEFINE p == SubSeq(e, 1, k)
  <2>1. p \in Seq(Weighted(Rows)) /\ (k = 0 => Len(p) = 0)
    BY <1>2, UnitSeq
  <2>. HIDE DEF p
  <2>2. \A r : Net(p, r) \in Int /\ (k = 0 => Net(p, r) = 0)
    BY <2>1, NetInt, NetEmpty
  <2>. QED BY <2>2 DEF p
<1>4. SubSeq(e, 1, Len(e)) = e
  <2>. HIDE DEF UnitEffect
  <2>. QED BY <1>1
<1>. QED BY <1>2, <1>3, <1>4

\* p is the next effects of a chunk e, behind k of them.
TakenOf(p, e, k) == k + Len(p) <= Len(e) /\ \A i \in 1 .. Len(p) : p[i] = e[k + i]

\* What a prefix of the chunk adds up to, with some of them.
LEMMA PrefixOn ==
    ASSUME NEW e \in Seq(UnitEffect), NEW k \in Nat,
           NEW p \in Seq(UnitEffect), TakenOf(p, e, k), NEW i \in 0 .. Len(p), NEW r
    PROVE  Net(SubSeq(e, 1, k + i), r) = Net(SubSeq(e, 1, k), r) + Net(SubSeq(p, 1, i), r)
<1>. DEFINE A == SubSeq(e, 1, k)
            S == SubSeq(e, 1, k + i)
            B == SubSeq(p, 1, i)
<1>2. Len(p) \in Nat /\ Len(e) \in Nat
  BY UnitSeq
<1>3. k + Len(p) <= Len(e) /\ \A j \in 1 .. Len(p) : p[j] = e[k + j]
  BY DEF TakenOf
<1>4. k \in 0 .. Len(e) /\ k + i \in 0 .. Len(e)
  BY <1>2, <1>3
<1>5. /\ A \in Seq(UnitEffect) /\ Len(A) = k /\ \A j \in 1 .. k : A[j] = e[j]
      /\ S \in Seq(UnitEffect) /\ Len(S) = k + i /\ \A j \in 1 .. k + i : S[j] = e[j]
      /\ B \in Seq(UnitEffect) /\ Len(B) = i /\ \A j \in 1 .. i : B[j] = p[j]
      /\ Net(A, r) \in Int /\ Net(S, r) \in Int /\ Net(B, r) \in Int
      /\ (k = 0 => Net(A, r) = 0) /\ (k + i = 0 => Net(S, r) = 0)
  <2>1. /\ A \in Seq(UnitEffect) /\ Len(A) = k /\ \A j \in 1 .. k : A[j] = e[j]
        /\ Net(A, r) \in Int /\ (k = 0 => Net(A, r) = 0)
    BY <1>4, UnitPrefix
  <2>2. /\ S \in Seq(UnitEffect) /\ Len(S) = k + i /\ \A j \in 1 .. k + i : S[j] = e[j]
        /\ Net(S, r) \in Int /\ (k + i = 0 => Net(S, r) = 0)
    BY <1>4, UnitPrefix
  <2>3. /\ B \in Seq(UnitEffect) /\ Len(B) = i /\ \A j \in 1 .. i : B[j] = p[j]
        /\ Net(B, r) \in Int
    BY <1>2, UnitPrefix
  <2>. QED BY <2>1, <2>2, <2>3
<1>. HIDE DEF A, S, B
<1>6. Parts(S, A, B)
  <2>1. Len(S) = Len(A) + Len(B)
    BY <1>5
  <2>2. ASSUME NEW j \in 1 .. Len(A) PROVE S[j] = A[j]
    <3>1. j \in 1 .. k /\ j \in 1 .. k + i
      BY <1>5
    <3>. QED BY <3>1, <1>5
  <2>3. ASSUME NEW j \in 1 .. Len(B) PROVE S[Len(A) + j] = B[j]
    <3>1. k + j \in 1 .. k + i /\ j \in 1 .. Len(p) /\ j \in 1 .. i
      BY <1>2, <1>5
    <3>. QED BY <3>1, <1>3, <1>5
  <2>. QED BY <2>1, <2>2, <2>3 DEF Parts
<1>7. Net(S, r) = Net(A, r) + Net(B, r)
  BY <1>5, <1>6, UnitSeq, NetSplit
<1>. QED BY <1>7 DEF A, S, B

\* A reader that takes them reads what they add up to.
LEMMA ReadOn ==
    ASSUME NEW l \in Seq(UnitChunk), NEW n \in Nat, n < Len(l), NEW k \in Nat,
           NEW p \in Seq(UnitEffect), TakenOf(p, l[n + 1].rows, k),
           NEW i \in 0 .. Len(p), NEW r
    PROVE  /\ NetAt(l, n, k, r) \in Int
           /\ NetAt(l, n, k + i, r) = NetAt(l, n, k, r) + Net(SubSeq(p, 1, i), r)
<1>. DEFINE e == l[n + 1].rows
            A == SubSeq(e, 1, k)
            S == SubSeq(e, 1, k + i)
            B == SubSeq(p, 1, i)
<1>1. e \in Seq(UnitEffect) /\ n + 1 \in 1 .. Len(l) /\ n \in 0 .. Len(l)
  BY ChunkFacts
<1>2. Len(p) \in Nat /\ Len(e) \in Nat
  BY <1>1, UnitSeq
<1>3. TakenOf(p, e, k) /\ k + Len(p) <= Len(e)
  BY DEF TakenOf
<1>. HIDE DEF e
<1>4. k \in 0 .. Len(e) /\ k + i \in 0 .. Len(e)
  BY <1>2, <1>3
<1>5. /\ Net(A, r) \in Int /\ Net(S, r) \in Int /\ Net(B, r) \in Int
      /\ (k = 0 => Net(A, r) = 0) /\ (k + i = 0 => Net(S, r) = 0)
  BY <1>1, <1>2, <1>4, UnitPrefix
<1>6. Net(S, r) = Net(A, r) + Net(B, r)
  BY <1>1, <1>3, PrefixOn
<1>. HIDE DEF A, S, B
<1>8. NetTo(l, n, r) \in Int
  BY <1>1, ToFacts
<1>9. NetAt(l, n, k, r) = NetTo(l, n, r) + Net(A, r) /\ NetAt(l, n, k + i, r) = NetTo(l, n, r) + Net(S, r)
  BY <1>5 DEF NetAt, A, S, e
<1>. QED BY <1>5, <1>6, <1>8, <1>9 DEF B

\* A reader that has taken all effects of a chunk stands before the next.
LEMMA ReadAll ==
    ASSUME NEW l \in Seq(UnitChunk), NEW n \in Nat, n < Len(l), NEW r
    PROVE  NetAt(l, n, Len(l[n + 1].rows), r) = NetAt(l, n + 1, 0, r)
<1>. DEFINE e == l[n + 1].rows
<1>1. e \in Seq(UnitEffect) /\ Len(e) \in Nat /\ NetTo(l, n, r) \in Int
  <2>1. n + 1 \in 1 .. Len(l) /\ n \in 0 .. Len(l)
    BY ChunkFacts
  <2>. QED BY <2>1, ChunkFacts, ToFacts
<1>3. NetTo(l, n + 1, r) = NetTo(l, n, r) + Net(e, r)
  BY ToFacts
<1>. HIDE DEF e
<1>2. SubSeq(e, 1, Len(e)) = e /\ (Len(e) = 0 => Net(e, r) = 0) /\ Net(e, r) \in Int
  <2>1. Len(e) \in 0 .. Len(e)
    BY <1>1
  <2>2. SubSeq(e, 1, Len(e)) = e
    BY <1>1, <2>1, UnitPrefix
  <2>3. (Len(e) = 0 => Net(e, r) = 0) /\ Net(e, r) \in Int
    BY <1>1, UnitSeq, NetEmpty, NetInt
  <2>. QED BY <2>2, <2>3
<1>4. NetAt(l, n + 1, 0, r) = NetTo(l, n, r) + Net(e, r)
  BY <1>1, <1>2, <1>3 DEF NetAt
<1>5. NetAt(l, n, Len(e), r) = NetTo(l, n, r) + Net(e, r)
  <2>1. CASE Len(e) = 0
    BY <2>1, <1>2 DEF NetAt
  <2>2. CASE Len(e) # 0
    BY <2>2, <1>2 DEF NetAt, e
  <2>. QED BY <2>1, <2>2
<1>. QED BY <1>4, <1>5 DEF e

\* What a place adds up to is a number.
LEMMA PlaceInt ==
    ASSUME NEW l \in Seq(UnitChunk), NEW n, NEW k, Place(l, n, k), NEW r
    PROVE  NetAt(l, n, k, r) \in Int
<1>1. n \in 0 .. Len(l) /\ k \in Nat /\ NetTo(l, n, r) \in Int
  BY ToFacts DEF Place
<1>2. CASE k = 0
  BY <1>1, <1>2 DEF NetAt
<1>3. CASE k # 0
  <2>1. n + 1 \in 1 .. Len(l) /\ k \in 0 .. Len(l[n + 1].rows) /\ l[n + 1].rows \in Seq(UnitEffect)
    BY <1>1, <1>3, ChunkFacts DEF Place
  <2>2. Net(SubSeq(l[n + 1].rows, 1, k), r) \in Int
    BY <2>1, UnitPrefix
  <2>. QED BY <1>1, <1>3, <2>2 DEF NetAt
<1>. QED BY <1>2, <1>3
-----------------------------------------------------------------------------
\* A log that grows by one chunk.

\* What was before the new chunk is as it was.
LEMMA AppendFacts ==
    ASSUME NEW l \in Seq(UnitChunk), NEW x \in UnitChunk
    PROVE  /\ Append(l, x) \in Seq(UnitChunk) /\ Len(Append(l, x)) = Len(l) + 1 /\ Len(l) \in Nat
           /\ Append(l, x)[Len(l) + 1] = x
           /\ \A i \in 1 .. Len(l) : Append(l, x)[i] = l[i]
           /\ \A n \in 0 .. Len(l) : /\ LenTo(Append(l, x), n) = LenTo(l, n)
                                     /\ Frontiers(Append(l, x), n) = Frontiers(l, n)
                                     /\ \A r : NetTo(Append(l, x), n, r) = NetTo(l, n, r)
           /\ \A r : NetTo(Append(l, x), Len(l) + 1, r) = NetTo(l, Len(l), r) + Net(x.rows, r)
           /\ Frontiers(Append(l, x), Len(l) + 1) =
                Frontiers(l, Len(l)) \cup (IF x.kind = "frontier" THEN {x.lsn} ELSE {})
<1>. DEFINE m == Append(l, x)
<1>1. /\ m \in Seq(UnitChunk) /\ Len(m) = Len(l) + 1 /\ Len(l) \in Nat
      /\ m[Len(l) + 1] = x /\ \A i \in 1 .. Len(l) : m[i] = l[i]
  <2>. HIDE DEF UnitChunk
  <2>. QED OBVIOUS
<1>. HIDE DEF m
<1>2. ASSUME NEW n \in 0 .. Len(l)
      PROVE  /\ LenTo(m, n) = LenTo(l, n) /\ Frontiers(m, n) = Frontiers(l, n)
             /\ \A r : NetTo(m, n, r) = NetTo(l, n, r)
  <2>1. n \in Nat /\ \A i \in 1 .. n : m[i] = l[i]
    BY <1>1
  <2>. QED BY <2>1, SameStart
<1>3. Len(l) \in 0 .. Len(l) /\ Len(l) < Len(m)
  BY <1>1
<1>4. \A r : NetTo(m, Len(l) + 1, r) = NetTo(l, Len(l), r) + Net(x.rows, r)
  <2>1. \A r : NetTo(m, Len(l) + 1, r) = NetTo(m, Len(l), r) + Net(m[Len(l) + 1].rows, r)
    BY <1>1, <1>3, ToFacts
  <2>. QED BY <2>1, <1>1, <1>2, <1>3
<1>5. Frontiers(m, Len(l) + 1) = Frontiers(l, Len(l)) \cup (IF x.kind = "frontier" THEN {x.lsn} ELSE {})
  BY <1>1, <1>2, <1>3, FrontiersNext
<1>. QED BY <1>1, <1>2, <1>4, <1>5 DEF m

\* A place of the log m, which is l with chunk x behind it: one that l has, and
\* one in or behind x.
OldPlace(l, m, n, k) ==
    /\ Place(l, n, k) /\ Frontiers(m, n) = Frontiers(l, n)
    /\ \A r : NetAt(m, n, k, r) = NetAt(l, n, k, r)
NewPlace(l, x, m, n, k) ==
    /\ Frontiers(m, n) = Frontiers(l, Len(l)) \cup (IF x.kind = "frontier" THEN {x.lsn} ELSE {})
    /\ \E j \in 0 .. Len(x.rows) :
         \A r : NetAt(m, n, k, r) = NetTo(l, Len(l), r) + Net(SubSeq(x.rows, 1, j), r)

\* Every place of the longer log is one of the two.
LEMMA AppendPlaces ==
    ASSUME NEW l \in Seq(UnitChunk), NEW x \in UnitChunk, x.kind = "frontier" => x.rows = <<>>,
           NEW n, NEW k, Place(Append(l, x), n, k)
    PROVE  OldPlace(l, Append(l, x), n, k) \/ NewPlace(l, x, Append(l, x), n, k)
<1>. DEFINE m == Append(l, x)
<1>1. /\ m \in Seq(UnitChunk) /\ Len(m) = Len(l) + 1 /\ Len(l) \in Nat
      /\ m[Len(l) + 1] = x /\ \A i \in 1 .. Len(l) : m[i] = l[i]
      /\ \A i \in 0 .. Len(l) : /\ Frontiers(m, i) = Frontiers(l, i)
                                /\ \A r : NetTo(m, i, r) = NetTo(l, i, r)
      /\ \A r : NetTo(m, Len(l) + 1, r) = NetTo(l, Len(l), r) + Net(x.rows, r)
      /\ Frontiers(m, Len(l) + 1) = Frontiers(l, Len(l)) \cup (IF x.kind = "frontier" THEN {x.lsn} ELSE {})
  BY AppendFacts
<1>2. n \in 0 .. Len(m) /\ k \in Nat /\ (k # 0 => n < Len(m) /\ k <= Len(m[n + 1].rows))
  BY DEF Place
<1>3. x.rows \in Seq(UnitEffect) /\ Len(x.rows) \in Nat /\ x.kind \in {"data", "frontier"}
  <2>1. x.rows \in Seq(UnitEffect) /\ x.kind \in {"data", "frontier"}
    BY DEF UnitChunk
  <2>. QED BY <2>1, UnitSeq
<1>. HIDE DEF m
<1>4. CASE n < Len(l)
  <2>1. n \in 0 .. Len(l) /\ n + 1 \in 1 .. Len(l) /\ m[n + 1] = l[n + 1]
    BY <1>1, <1>2, <1>4
  <2>2. Place(l, n, k)
    BY <1>1, <1>2, <1>4, <2>1 DEF Place
  <2>3. \A r : NetAt(m, n, k, r) = NetAt(l, n, k, r)
    BY <1>1, <2>1 DEF NetAt
  <2>4. OldPlace(l, m, n, k)
    BY <1>1, <2>1, <2>2, <2>3 DEF OldPlace
  <2>. QED BY <2>4 DEF m
<1>5. CASE n = Len(l) /\ k = 0
  <2>1. n \in 0 .. Len(l)
    BY <1>1, <1>5
  <2>2. Place(l, n, k)
    BY <1>5, <2>1 DEF Place
  <2>3. \A r : NetAt(m, n, k, r) = NetAt(l, n, k, r)
    BY <1>1, <1>5, <2>1 DEF NetAt
  <2>4. OldPlace(l, m, n, k)
    BY <1>1, <2>1, <2>2, <2>3 DEF OldPlace
  <2>. QED BY <2>4 DEF m
<1>6. CASE n = Len(l) /\ k # 0
  <2>1. k \in 0 .. Len(x.rows) /\ Len(l) \in 0 .. Len(l)
    BY <1>1, <1>2, <1>3, <1>6
  <2>2. x.kind # "frontier"
    <3>1. Len(x.rows) # 0
      BY <1>3, <1>6, <2>1
    <3>. QED BY <3>1
  <2>3. Frontiers(m, n) = Frontiers(l, Len(l)) \cup (IF x.kind = "frontier" THEN {x.lsn} ELSE {})
    BY <1>1, <1>6, <2>1, <2>2
  <2>4. \A r : NetAt(m, n, k, r) = NetTo(l, Len(l), r) + Net(SubSeq(x.rows, 1, k), r)
    BY <1>1, <1>6, <2>1 DEF NetAt
  <2>5. NewPlace(l, x, m, n, k)
    BY <2>1, <2>3, <2>4, Zenon DEF NewPlace
  <2>. QED BY <2>5 DEF m
<1>7. CASE n > Len(l)
  <2>1. n = Len(l) + 1 /\ k = 0
    BY <1>1, <1>2, <1>7
  <2>. DEFINE j == Len(x.rows)
  <2>2. j \in 0 .. Len(x.rows) /\ SubSeq(x.rows, 1, j) = x.rows /\ \A r : Net(x.rows, r) \in Int
    <3>1. j \in 0 .. Len(x.rows)
      BY <1>3
    <3>2. \A r : Net(x.rows, r) \in Int
      BY <1>3, UnitSeq, NetInt
    <3>. QED BY <1>3, <3>1, <3>2, UnitPrefix
  <2>3. \A r : NetTo(l, Len(l), r) \in Int
    <3>1. Len(l) \in 0 .. Len(l)
      BY <1>1
    <3>. QED BY <3>1, ToFacts
  <2>4. ASSUME NEW r
        PROVE  NetAt(m, n, k, r) = NetTo(l, Len(l), r) + Net(SubSeq(x.rows, 1, j), r)
    <3>1. NetTo(m, n, r) = NetTo(l, Len(l), r) + Net(x.rows, r)
      BY <1>1, <2>1
    <3>2. NetTo(l, Len(l), r) \in Int /\ Net(x.rows, r) \in Int
      BY <2>2, <2>3
    <3>3. NetAt(m, n, k, r) = NetTo(m, n, r) + 0
      BY <2>1 DEF NetAt
    <3>4. Net(SubSeq(x.rows, 1, j), r) = Net(x.rows, r)
      BY <2>2
    <3>. HIDE DEF j
    <3>. QED BY <3>1, <3>2, <3>3, <3>4
  <2>5. NewPlace(l, x, m, n, k)
    <3>1. Frontiers(m, n) = Frontiers(l, Len(l)) \cup (IF x.kind = "frontier" THEN {x.lsn} ELSE {})
      BY <1>1, <2>1
    <3>. HIDE DEF j
    <3>. QED BY <2>2, <2>4, <3>1, Zenon DEF NewPlace
  <2>. QED BY <2>5 DEF m
<1>. QED BY <1>1, <1>2, <1>4, <1>5, <1>6, <1>7
-----------------------------------------------------------------------------
\* What passes a stage.

\* An effect stays a unit effect.
LEMMA ImageType ==
    ASSUME NEW s \in 0 .. Len(Plan), NEW x \in UnitEffect
    PROVE  /\ Image(s, x) \in UnitEffect /\ (s = 0 => Image(s, x) = x)
           /\ s # 0 => Image(s, x).row = Plan[s].image[x.row] /\ Image(s, x).w = x.w
                       /\ Plan[s].image[x.row] \in Rows
<1>1. CASE s = 0
  BY <1>1 DEF Image
<1>2. CASE s # 0
  <2>1. s \in 1 .. Len(Plan)
    BY <1>2, PlanAssumption
  <2>2. Plan[s] \in [keep : SUBSET Rows, image : [Rows -> Rows]]
    BY <2>1, PlanAssumption, ElementOfSeq
  <2>3. x.row \in Rows /\ Plan[s].image[x.row] \in Rows
    BY <2>2 DEF UnitEffect
  <2>. QED BY <1>2, <2>3 DEF Image, UnitEffect
<1>. QED BY <1>1, <1>2

\* f lists what passes of each prefix of e.
IsPassing(f, s, e) ==
    /\ f[0] = <<>>
    /\ \A i \in 1 .. Len(e) :
         f[i] = IF Passes(s, e[i]) THEN Append(f[i - 1], Image(s, e[i])) ELSE f[i - 1]

\* PassingRows is the last of such a list.
LEMMA PassingDef ==
    ASSUME NEW s \in 0 .. Len(Plan), NEW e \in Seq(UnitEffect)
    PROVE  \E f \in [0 .. Len(e) -> Seq(UnitEffect)] :
              IsPassing(f, s, e) /\ PassingRows(s, e) = f[Len(e)]
<1>. DEFINE n == Len(e)
            X == Seq(UnitEffect)
            Step(q, i) == IF Passes(s, e[i]) THEN Append(q, Image(s, e[i])) ELSE q
            g == [p \in X \X (1 .. n) |-> Step(p[1], p[2])]
            Lists(f) == f = [i \in 0 .. n |->
                               IF i = 0 THEN <<>>
                               ELSE IF Passes(s, e[i]) THEN Append(f[i - 1], Image(s, e[i]))
                               ELSE f[i - 1]]
            passed == CHOOSE f : Lists(f)
<1>1. n \in Nat /\ \A i \in 1 .. n : e[i] \in UnitEffect
  BY UnitSeq
<1>2. \A x \in X, i \in 1 .. n : g[<<x, i>>] = Step(x, i) /\ Step(x, i) \in X
  <2>1. ASSUME NEW x \in X, NEW i \in 1 .. n PROVE Step(x, i) \in X
    <3>1. Image(s, e[i]) \in UnitEffect
      BY <1>1, ImageType
    <3>2. Append(x, Image(s, e[i])) \in X
      <4>. HIDE DEF UnitEffect
      <4>. QED BY <3>1
    <3>. HIDE DEF X
    <3>. QED BY <3>2
  <2>. HIDE DEF Step
  <2>. QED BY <2>1
<1>. HIDE DEF g
<1>3. PICK f \in [0 .. n -> X] : IsIteration(f, <<>>, g, n)
  <2>1. StepOn(g, X, n)
    <3>. HIDE DEF Step, X
    <3>. QED BY <1>2 DEF StepOn
  <2>2. <<>> \in X
    OBVIOUS
  <2>. HIDE DEF n, X
  <2>. QED BY <1>1, <2>1, <2>2, IterationExists, Zenon
<1>4. \A i \in 0 .. n : f[i] = IF i = 0 THEN <<>> ELSE Step(f[i - 1], i)
  <2>1. SUFFICES ASSUME NEW i \in 0 .. n
                 PROVE  f[i] = IF i = 0 THEN <<>> ELSE Step(f[i - 1], i)
    OBVIOUS
  <2>2. f[i] = IF i = 0 THEN <<>> ELSE g[<<f[i - 1], i>>]
    BY <1>3 DEF IsIteration
  <2>3. i # 0 => f[i - 1] \in X /\ i \in 1 .. n
    <3>. HIDE DEF X, n
    <3>. QED BY <1>1, <1>3
  <2>4. ASSUME i # 0 PROVE g[<<f[i - 1], i>>] = Step(f[i - 1], i)
    <3>. HIDE DEF X, Step
    <3>. QED BY <1>2, <2>3, <2>4
  <2>. HIDE DEF Step
  <2>. QED BY <2>2, <2>4, Zenon
<1>5. Lists(f)
  <2>1. f = [i \in 0 .. n |-> f[i]]
    OBVIOUS
  <2>. QED BY <1>4, <2>1, Zenon
<1>6. Lists(passed)
  <2>. HIDE DEF Lists
  <2>. QED BY <1>5, Zenon
<1>7. PassingRows(s, e) = passed[n]
  BY Zenon DEF PassingRows
<1>. HIDE DEF passed
<1>8. \A i \in 0 .. n : passed[i] = IF i = 0 THEN <<>> ELSE Step(passed[i - 1], i)
  BY <1>6, Zenon
<1>9. \A i \in 1 .. n : passed[i] = Step(passed[i - 1], i) /\ f[i] = Step(f[i - 1], i)
  <2>1. \A i \in 1 .. n : i \in 0 .. n /\ i # 0
    BY <1>1
  <2>. HIDE DEF Step
  <2>. QED BY <1>4, <1>8, <2>1, Zenon
<1>10. passed[0] = <<>> /\ f[0] = <<>>
  <2>1. 0 \in 0 .. n
    BY <1>1
  <2>. HIDE DEF Step
  <2>. QED BY <1>4, <1>8, <2>1, Zenon
<1>11. StepAlike(passed, f, n)
  <2>. HIDE DEF Step
  <2>. QED BY <1>9, <1>10, Zenon DEF StepAlike
<1>12. passed[n] = f[n]
  <2>1. \A i \in 0 .. n : passed[i] = f[i]
    <3>. HIDE DEF n
    <3>. QED BY <1>1, <1>11, SameSteps
  <2>. QED BY <1>1, <2>1
<1>13. IsPassing(f, s, e)
  BY <1>9, <1>10, Zenon DEF IsPassing
<1>. QED BY <1>3, <1>7, <1>12, <1>13

\* Each prefix of what passes is what passes of a prefix.
LEMMA PassingPrefix ==
    ASSUME NEW s \in 0 .. Len(Plan), NEW e \in Seq(UnitEffect),
           NEW f \in [0 .. Len(e) -> Seq(UnitEffect)], IsPassing(f, s, e),
           NEW j \in 0 .. Len(f[Len(e)])
    PROVE  \E i \in 0 .. Len(e) : f[i] = SubSeq(f[Len(e)], 1, j)
<1>. DEFINE P(m) == m <= Len(e) =>
                      \A k \in 0 .. Len(f[m]) : \E i \in 0 .. m : f[i] = SubSeq(f[m], 1, k)
            N == {m \in Nat : P(m)}
<1>0. Len(e) \in Nat /\ \A i \in 1 .. Len(e) : e[i] \in UnitEffect
  BY UnitSeq
<1>a. \A i \in 0 .. Len(e) : f[i] \in Seq(UnitEffect) /\ Len(f[i]) \in Nat
  <2>1. \A i \in 0 .. Len(e) : f[i] \in Seq(UnitEffect)
    OBVIOUS
  <2>. QED BY <2>1, UnitSeq
<1>1. P(0)
  <2>1. f[0] = <<>>
    BY DEF IsPassing
  <2>2. SubSeq(<<>>, 1, 0) = <<>> /\ Len(<<>>) = 0
    OBVIOUS
  <2>3. \A k \in 0 .. 0 : k = 0
    OBVIOUS
  <2>. QED BY <2>1, <2>2, <2>3
<1>2. ASSUME NEW m \in Nat, P(m) PROVE P(m + 1)
  <2>1. SUFFICES ASSUME m + 1 <= Len(e), NEW k \in 0 .. Len(f[m + 1])
                 PROVE  \E i \in 0 .. m + 1 : f[i] = SubSeq(f[m + 1], 1, k)
    OBVIOUS
  <2>2. /\ m \in 0 .. Len(e) /\ m + 1 \in 1 .. Len(e) /\ (m + 1) - 1 = m
        /\ m + 1 \in 0 .. Len(e)
    BY <1>0, <2>1
  <2>. DEFINE a == f[m]
              b == f[m + 1]
              x == Image(s, e[m + 1])
  <2>3. b = (IF Passes(s, e[m + 1]) THEN Append(a, x) ELSE a) /\ x \in UnitEffect
    BY <1>0, <2>2, ImageType DEF IsPassing
  <2>4. a \in Seq(UnitEffect) /\ b \in Seq(UnitEffect) /\ Len(a) \in Nat
    BY <1>a, <2>2
  <2>. HIDE DEF a, b, x
  <2>5. CASE k <= Len(a)
    <3>1. SubSeq(b, 1, k) = SubSeq(a, 1, k)
      <4>1. CASE Passes(s, e[m + 1])
        <5>1. b = Append(a, x) /\ k \in Nat
          BY <4>1, <2>3
        <5>. HIDE DEF UnitEffect
        <5>. QED BY <5>1, <2>3, <2>4, <2>5
      <4>. QED BY <4>1, <2>3
    <3>2. k \in 0 .. Len(a)
      BY <2>4, <2>5
    <3>3. PICK i \in 0 .. m : f[i] = SubSeq(a, 1, k)
      BY <1>2, <2>1, <2>2, <3>2, <1>0 DEF a
    <3>. QED BY <3>1, <3>3 DEF b
  <2>6. CASE k > Len(a)
    <3>1. k = Len(b)
      <4>1. CASE Passes(s, e[m + 1])
        <5>1. b = Append(a, x)
          BY <4>1, <2>3
        <5>2. x \in UnitEffect /\ a \in Seq(UnitEffect)
          BY <2>3, <2>4
        <5>3. Len(b) = Len(a) + 1
          <6>. HIDE DEF UnitEffect
          <6>. QED BY <5>1, <5>2, AppendProperties
        <5>. QED BY <5>3, <2>4, <2>6 DEF b
      <4>2. CASE ~Passes(s, e[m + 1])
        BY <4>2, <2>3, <2>4, <2>6 DEF b
      <4>. QED BY <4>1, <4>2
    <3>2. SubSeq(b, 1, k) = b
      <4>. HIDE DEF UnitEffect
      <4>. QED BY <3>1, <2>4
    <3>. QED BY <3>2 DEF b
  <2>. QED BY <2>4, <2>5, <2>6
<1>3. Nat \subseteq N
  <2>. HIDE DEF P
  <2>1. 0 \in N /\ \A m \in Nat : m \in N => m + 1 \in N
    BY <1>1, <1>2
  <2>. HIDE DEF N
  <2>. QED BY <2>1, NatSetInduction
<1>4. P(Len(e))
  <2>. HIDE DEF P
  <2>. QED BY <1>0, <1>3
<1>. QED BY <1>0, <1>4

\* A prefix of one more effect.
LEMMA PrefixAppend ==
    ASSUME NEW e \in Seq(UnitEffect), NEW i \in 1 .. Len(e)
    PROVE  SubSeq(e, 1, i) = Append(SubSeq(e, 1, i - 1), e[i])
<1>. DEFINE a == SubSeq(e, 1, i - 1)
            b == SubSeq(e, 1, i)
            c == Append(a, e[i])
<1>1. Len(e) \in Nat /\ e[i] \in UnitEffect /\ i - 1 \in 0 .. Len(e) /\ i \in 0 .. Len(e)
  BY UnitSeq
<1>2. /\ a \in Seq(UnitEffect) /\ Len(a) = i - 1 /\ \A k \in 1 .. i - 1 : a[k] = e[k]
      /\ b \in Seq(UnitEffect) /\ Len(b) = i /\ \A k \in 1 .. i : b[k] = e[k]
  BY <1>1, UnitPrefix
<1>. HIDE DEF a, b
<1>3. c \in Seq(UnitEffect) /\ Len(c) = i /\ (\A k \in 1 .. i - 1 : c[k] = a[k]) /\ c[i] = e[i]
  <2>. HIDE DEF UnitEffect
  <2>. QED BY <1>1, <1>2
<1>. HIDE DEF c
<1>4. \A k \in 1 .. i : b[k] = c[k]
  BY <1>2, <1>3
<1>5. b = c
  <2>. HIDE DEF UnitEffect
  <2>. QED BY <1>2, <1>3, <1>4, SeqEqual
<1>. QED BY <1>5 DEF a, b, c

\* What it adds up to.
LEMMA PrefixNext ==
    ASSUME NEW e \in Seq(UnitEffect), NEW i \in 1 .. Len(e), NEW r
    PROVE  Net(SubSeq(e, 1, i), r) = Net(SubSeq(e, 1, i - 1), r) + (IF e[i].row = r THEN e[i].w ELSE 0)
<1>. DEFINE a == SubSeq(e, 1, i - 1)
<1>1. e[i] \in UnitEffect /\ a \in Seq(UnitEffect)
  <2>1. Len(e) \in Nat /\ i - 1 \in 0 .. Len(e)
    BY UnitSeq
  <2>. QED BY <2>1, UnitSeq, UnitPrefix
<1>2. SubSeq(e, 1, i) = Append(a, e[i])
  BY PrefixAppend
<1>. HIDE DEF a
<1>3. a \in Seq(Weighted(Rows)) /\ e[i] \in Weighted(Rows)
  <2>1. e[i] \in Weighted(Rows)
    BY <1>1 DEF UnitEffect, Weighted
  <2>. QED BY <2>1, <1>1, UnitSeq
<1>4. Net(Append(a, e[i]), r) = Net(a, r) + (IF e[i].row = r THEN e[i].w ELSE 0)
  BY <1>3, NetAppend
<1>. QED BY <1>2, <1>4 DEF a

\* What effects add up to, row by row.
Nets(e) == [q \in Rows |-> Net(e, q)]

\* What passes a transform adds up to the image of what went in.
LEMMA PassingNet ==
    ASSUME NEW s \in Transforms, NEW e \in Seq(UnitEffect),
           NEW f \in [0 .. Len(e) -> Seq(UnitEffect)], IsPassing(f, s, e),
           NEW i \in 0 .. Len(e), NEW r \in Rows
    PROVE  Net(f[i], r) = Img(s, Nets(SubSeq(e, 1, i)))[r]
<1>. DEFINE P(m) == m <= Len(e) =>
                      \A q \in Rows : Net(f[m], q) = Img(s, Nets(SubSeq(e, 1, m)))[q]
            N == {m \in Nat : P(m)}
<1>0. Len(e) \in Nat /\ \A k \in 1 .. Len(e) : e[k] \in UnitEffect
  BY UnitSeq
<1>a. s \in 0 .. Len(Plan) /\ s # 0
  BY PlanAssumption DEF Transforms
<1>b. ASSUME NEW k \in 0 .. Len(e)
      PROVE  \A q \in Rows : Nets(SubSeq(e, 1, k))[q] = Net(SubSeq(e, 1, k), q) /\ Net(SubSeq(e, 1, k), q) \in Int
  <2>1. \A q \in Rows : Net(SubSeq(e, 1, k), q) \in Int
    BY UnitPrefix
  <2>. QED BY <2>1 DEF Nets
<1>1. P(0)
  <2>1. SUFFICES ASSUME NEW q \in Rows PROVE Net(f[0], q) = Img(s, Nets(SubSeq(e, 1, 0)))[q]
    OBVIOUS
  <2>2. Net(f[0], q) = 0
    <3>. DEFINE none == <<>>
    <3>1. none \in Seq(Weighted(Rows)) /\ Len(none) = 0
      OBVIOUS
    <3>. HIDE DEF none
    <3>2. Net(none, q) = 0
      BY <3>1, NetEmpty
    <3>. QED BY <3>2 DEF none, IsPassing
  <2>3. \A y \in Rows : Nets(SubSeq(e, 1, 0))[y] = IF y = q THEN 0 ELSE 0
    <3>1. 0 \in 0 .. Len(e)
      BY <1>0
    <3>. QED BY <1>b, <3>1, UnitPrefix
  <2>. DEFINE t == Nets(SubSeq(e, 1, 0))
  <2>4. Img(s, t)[q] = 0
    <3>1. \A y \in Rows : t[y] = IF y = q THEN 0 ELSE 0
      BY <2>3
    <3>. HIDE DEF t
    <3>2. 0 \in Int
      OBVIOUS
    <3>. QED BY <3>1, <3>2, ImgPoint
  <2>. QED BY <2>2, <2>4
<1>2. ASSUME NEW m \in Nat, P(m) PROVE P(m + 1)
  <2>1. SUFFICES ASSUME m + 1 <= Len(e), NEW q \in Rows
                 PROVE  Net(f[m + 1], q) = Img(s, Nets(SubSeq(e, 1, m + 1)))[q]
    OBVIOUS
  <2>2. /\ m \in 0 .. Len(e) /\ m + 1 \in 1 .. Len(e) /\ (m + 1) - 1 = m
        /\ m + 1 \in 0 .. Len(e)
    BY <1>0, <2>1
  <2>. DEFINE x == e[m + 1]
              y == Image(s, x)
              t == Nets(SubSeq(e, 1, m))
              v == Nets(SubSeq(e, 1, m + 1))
              u == [p \in Rows |-> IF p = x.row THEN x.w ELSE 0]
  <2>3. /\ x \in UnitEffect /\ x.row \in Rows /\ x.w \in Int
        /\ y \in UnitEffect /\ y.row = Plan[s].image[x.row] /\ y.w = x.w
        /\ Passes(s, x) <=> x.row \in Plan[s].keep
    <3>1. x \in UnitEffect
      BY <1>0, <2>2
    <3>2. x.row \in Rows /\ x.w \in Int
      BY <3>1 DEF UnitEffect
    <3>3. Passes(s, x) <=> x.row \in Plan[s].keep
      BY <1>a DEF Passes, EmitsRows
    <3>. HIDE DEF x
    <3>. QED BY <3>1, <3>2, <3>3, <1>a, ImageType
  <2>4. \A p \in Rows : t[p] \in Int /\ u[p] \in Int /\ v[p] = t[p] + u[p]
    <3>1. ASSUME NEW p \in Rows PROVE t[p] \in Int /\ u[p] \in Int /\ v[p] = t[p] + u[p]
      <4>1. /\ t[p] = Net(SubSeq(e, 1, m), p) /\ t[p] \in Int
            /\ v[p] = Net(SubSeq(e, 1, m + 1), p)
        BY <1>b, <2>2
      <4>2. Net(SubSeq(e, 1, m + 1), p) = Net(SubSeq(e, 1, m), p) + (IF x.row = p THEN x.w ELSE 0)
        BY <2>2, PrefixNext
      <4>. QED BY <4>1, <4>2, <2>3
    <3>. QED BY <3>1
  <2>5. \A p \in Rows : u[p] = IF p = x.row THEN x.w ELSE 0
    OBVIOUS
  <2>6. Net(f[m], q) = Img(s, t)[q]
    BY <1>2, <2>1, <1>0, <2>2
  <2>7. f[m + 1] = (IF Passes(s, x) THEN Append(f[m], y) ELSE f[m]) /\ f[m] \in Seq(UnitEffect)
    BY <2>2 DEF IsPassing
  <2>. HIDE DEF t, u, v, x, y
  <2>8. Img(s, v)[q] = Img(s, t)[q] + Img(s, u)[q]
    BY <2>4, ImgAdd
  <2>9. Img(s, u)[q] = IF x.row \in Plan[s].keep /\ Plan[s].image[x.row] = q THEN x.w ELSE 0
    <3>. DEFINE z == x.row
                w == x.w
    <3>1. z \in Rows /\ w \in Int /\ \A p \in Rows : u[p] = IF p = z THEN w ELSE 0
      BY <2>3, <2>5
    <3>. HIDE DEF z, w
    <3>2. Img(s, u)[q] = IF z \in Plan[s].keep /\ Plan[s].image[z] = q THEN w ELSE 0
      BY <3>1, ImgPoint
    <3>. QED BY <3>2 DEF z, w
  <2>10. Img(s, t)[q] \in Int
    BY <2>4, ImgType
  <2>11. Net(f[m + 1], q) = Img(s, v)[q]
    <3>1. CASE Passes(s, x)
      <4>1. f[m] \in Seq(Weighted(Rows)) /\ y \in Weighted(Rows)
        <5>1. y \in Weighted(Rows)
          BY <2>3 DEF UnitEffect, Weighted
        <5>. QED BY <5>1, <2>7, UnitSeq
      <4>2. Net(Append(f[m], y), q) = Net(f[m], q) + (IF y.row = q THEN y.w ELSE 0)
        BY <4>1, NetAppend
      <4>3. f[m + 1] = Append(f[m], y)
        BY <2>7, <3>1
      <4>. QED BY <3>1, <4>2, <4>3, <2>3, <2>6, <2>8, <2>9
    <3>2. CASE ~Passes(s, x)
      BY <3>2, <2>3, <2>6, <2>7, <2>8, <2>9, <2>10
    <3>. QED BY <3>1, <3>2
  <2>. QED BY <2>11 DEF v
<1>3. Nat \subseteq N
  <2>. HIDE DEF P
  <2>1. 0 \in N /\ \A m \in Nat : m \in N => m + 1 \in N
    BY <1>1, <1>2
  <2>. HIDE DEF N
  <2>. QED BY <2>1, NatSetInduction
<1>4. P(i)
  <2>1. i \in Nat
    BY <1>0
  <2>. HIDE DEF P
  <2>. QED BY <1>3, <2>1
<1>5. i <= Len(e)
  BY <1>0
<1>. QED BY <1>4, <1>5
\* The page that a transform emits: every prefix of it is the image of a
\* prefix of the page it has read.
LEMMA PassingFacts ==
    ASSUME NEW s \in Transforms, NEW e \in Seq(UnitEffect)
    PROVE  LET out == PassingRows(s, e)
           IN /\ out \in Seq(UnitEffect)
              /\ \A j \in 0 .. Len(out) : \E i \in 0 .. Len(e) :
                   \A r \in Rows : Net(SubSeq(out, 1, j), r) = Img(s, Nets(SubSeq(e, 1, i)))[r]
              /\ \A r \in Rows : Net(out, r) = Img(s, Nets(e))[r]
<1>. DEFINE out == PassingRows(s, e)
<1>1. s \in 0 .. Len(Plan) /\ Len(e) \in Nat
  BY UnitSeq, PlanAssumption DEF Transforms
<1>2. PICK f \in [0 .. Len(e) -> Seq(UnitEffect)] : IsPassing(f, s, e) /\ out = f[Len(e)]
  BY <1>1, PassingDef
<1>. HIDE DEF out
<1>3. out \in Seq(UnitEffect)
  BY <1>1, <1>2
<1>4. \A i \in 0 .. Len(e) : \A r \in Rows : Net(f[i], r) = Img(s, Nets(SubSeq(e, 1, i)))[r]
  BY <1>2, PassingNet
<1>5. ASSUME NEW j \in 0 .. Len(out)
      PROVE  \E i \in 0 .. Len(e) :
               \A r \in Rows : Net(SubSeq(out, 1, j), r) = Img(s, Nets(SubSeq(e, 1, i)))[r]
  <2>1. PICK i \in 0 .. Len(e) : f[i] = SubSeq(out, 1, j)
    BY <1>1, <1>2, PassingPrefix
  <2>2. \A r \in Rows : Net(SubSeq(out, 1, j), r) = Img(s, Nets(SubSeq(e, 1, i)))[r]
    BY <1>4, <2>1, Zenon
  <2>. QED BY <2>2
<1>6. \A r \in Rows : Net(out, r) = Img(s, Nets(e))[r]
  <2>1. Len(e) \in 0 .. Len(e)
    BY <1>1
  <2>2. SubSeq(e, 1, Len(e)) = e
    BY <2>1, UnitPrefix
  <2>3. \A r \in Rows : Net(f[Len(e)], r) = Img(s, Nets(SubSeq(e, 1, Len(e))))[r]
    BY <1>4, <2>1
  <2>. QED BY <1>2, <2>2, <2>3, Zenon
<1>7. out \in Seq(UnitEffect) /\ (\A j \in 0 .. Len(out) : \E i \in 0 .. Len(e) :
        \A r \in Rows : Net(SubSeq(out, 1, j), r) = Img(s, Nets(SubSeq(e, 1, i)))[r])
  BY <1>3, <1>5
<1>. QED BY <1>6, <1>7, Zenon DEF out

\* The Scan passes all effects or none.
LEMMA PassingScan ==
    ASSUME NEW e \in Seq(UnitEffect)
    PROVE  PassingRows(0, e) = IF EmitsRows(0) THEN e ELSE <<>>
<1>. DEFINE out == PassingRows(0, e)
<1>1. 0 \in 0 .. Len(Plan) /\ Len(e) \in Nat /\ \A i \in 1 .. Len(e) : e[i] \in UnitEffect
  BY UnitSeq, PlanAssumption
<1>2. PICK f \in [0 .. Len(e) -> Seq(UnitEffect)] : IsPassing(f, 0, e) /\ out = f[Len(e)]
  BY <1>1, PassingDef
<1>3. f[0] = <<>> /\ \A i \in 1 .. Len(e) : f[i] = IF EmitsRows(0) THEN Append(f[i - 1], e[i]) ELSE f[i - 1]
  <2>1. \A x : Passes(0, x) <=> EmitsRows(0)
    BY Zenon DEF Passes
  <2>2. \A x \in UnitEffect : Image(0, x) = x
    BY DEF Image
  <2>. QED BY <1>1, <1>2, <2>1, <2>2, Zenon DEF IsPassing
<1>. HIDE DEF out
<1>. DEFINE g == [i \in 0 .. Len(e) |-> IF EmitsRows(0) THEN SubSeq(e, 1, i) ELSE <<>>]
<1>4. StepAlike(f, g, Len(e))
  <2>1. g[0] = <<>>
    <3>1. 0 \in 0 .. Len(e) /\ SubSeq(e, 1, 0) = <<>>
      BY <1>1
    <3>. QED BY <3>1
  <2>2. ASSUME NEW i \in 1 .. Len(e), f[i - 1] = g[i - 1] PROVE f[i] = g[i]
    <3>1. i \in 0 .. Len(e) /\ i - 1 \in 0 .. Len(e)
      BY <1>1
    <3>2. CASE EmitsRows(0)
      <4>1. g[i] = SubSeq(e, 1, i) /\ g[i - 1] = SubSeq(e, 1, i - 1)
        BY <3>1, <3>2
      <4>2. f[i] = Append(f[i - 1], e[i])
        BY <1>3, <3>2
      <4>3. SubSeq(e, 1, i) = Append(SubSeq(e, 1, i - 1), e[i])
        BY PrefixAppend
      <4>. HIDE DEF g
      <4>. QED BY <2>2, <4>1, <4>2, <4>3, Zenon
    <3>3. CASE ~EmitsRows(0)
      <4>1. g[i] = <<>> /\ g[i - 1] = <<>>
        BY <3>1, <3>3
      <4>2. f[i] = f[i - 1]
        BY <1>3, <3>3
      <4>. HIDE DEF g
      <4>. QED BY <2>2, <4>1, <4>2
    <3>. QED BY <3>2, <3>3
  <2>. HIDE DEF g
  <2>. QED BY <1>3, <2>1, <2>2, Zenon DEF StepAlike
<1>5. f[Len(e)] = g[Len(e)]
  <2>. HIDE DEF g
  <2>. QED BY <1>1, <1>4, SameSteps
<1>6. g[Len(e)] = IF EmitsRows(0) THEN e ELSE <<>>
  <2>1. Len(e) \in 0 .. Len(e)
    BY <1>1
  <2>2. SubSeq(e, 1, Len(e)) = e
    BY <2>1, UnitPrefix
  <2>. QED BY <2>1, <2>2
<1>. HIDE DEF g
<1>. QED BY <1>2, <1>5, <1>6 DEF out
-----------------------------------------------------------------------------
\* What a stream may add up to.

\* The table after some commits.
LEMMA TableType ==
    ASSUME NEW w \in Seq(Change), NEW p \in 0 .. Len(w)
    PROVE  TableOf(w, p) \in [Rows -> Int]
<1>1. ASSUME NEW r PROVE Net(SubSeq(w, 1, p), r) \in Int
  <2>. DEFINE e == SubSeq(w, 1, p)
              t == NetTerms(e, r)
  <2>1. e \in Seq(Change) /\ Len(e) \in Nat /\ DOMAIN e = 1 .. Len(e)
    <3>. HIDE DEF Change
    <3>. QED OBVIOUS
  <2>2. \A i \in 1 .. Len(e) : e[i] \in Change
    BY <2>1, ElementOfSeq
  <2>. HIDE DEF e
  <2>3. \A i \in 1 .. Len(e) : e[i].w \in Int
    BY <2>2 DEF Change
  <2>4. t \in Seq(Int)
    BY <2>1, <2>3 DEF NetTerms
  <2>5. Net(e, r) = Total(t)
    BY Zenon DEF Net, NetTerms
  <2>. HIDE DEF t
  <2>6. Net(e, r) \in Int
    BY <2>4, <2>5, TotalInt
  <2>. QED BY <2>6 DEF e
<1>. QED BY <1>1 DEF TableOf

\* How many commits an LSN covers.
LEMMA UpToType ==
    ASSUME NEW w \in Seq(Change), NEW lsn
    PROVE  UpToOf(w, lsn) \in 0 .. Len(w)
<1>1. Len(w) \in Nat /\ DOMAIN w = 1 .. Len(w)
  OBVIOUS
<1>2. IsFiniteSet(1 .. Len(w)) /\ Cardinality(1 .. Len(w)) = Len(w)
  <2>. DEFINE n == Len(w)
  <2>1. n \in Nat
    BY <1>1
  <2>. HIDE DEF n
  <2>2. /\ IsFiniteSet(1 .. n)
        /\ Cardinality(1 .. n) = IF 1 > n THEN 0 ELSE n - 1 + 1
    BY <2>1, FS_Interval, SMTT(30)
  <2>3. IsFiniteSet(1 .. n) /\ Cardinality(1 .. n) = n
    BY <2>1, <2>2
  <2>. QED BY <2>3 DEF n
<1>3. {i \in DOMAIN w : w[i].lsn <= lsn} \in SUBSET (1 .. Len(w))
  BY <1>1
<1>4. Cardinality({i \in DOMAIN w : w[i].lsn <= lsn}) <= Len(w)
  BY <1>2, <1>3, FS_Subset
<1>5. Cardinality({i \in DOMAIN w : w[i].lsn <= lsn}) \in Nat
  BY <1>2, <1>3, FS_Subset, FS_CardinalityType
<1>. QED BY <1>1, <1>4, <1>5 DEF UpToOf

\* The image of what a stream may add up to is what the next one may.
LEMMA Carried ==
    ASSUME NEW w \in Seq(Change), NEW a, NEW s \in Transforms, NEW F,
           NEW u, TracedAt(w, a, s, F, u), \A r \in Rows : u[r] \in Int,
           NEW v, \A r \in Rows : v[r] = Img(s, u)[r]
    PROVE  TracedAt(w, a, s + 1, F, v)
<1>0. /\ s \in 0 .. Len(Plan) /\ s - 1 \in 0 .. Len(Plan) /\ (s + 1) - 1 = s
      /\ Len(w) \in Nat
  BY PlanAssumption DEF Transforms
<1>a. ASSUME NEW t \in [Rows -> Int]
      PROVE  /\ After(s, t) = Img(s, After(s - 1, t))
             /\ \A r \in Rows : After(s - 1, t)[r] \in Int
  <2>1. After(s - 1, t) \in [Rows -> Int]
    BY <1>0, AfterFacts
  <2>2. After(s, t) = Img(s, After(s - 1, t))
    BY AfterFacts
  <2>. QED BY <2>1, <2>2
<1>1. CASE F = {}
  <2>. DEFINE t == TableOf(w, UpToOf(w, a))
  <2>1. t \in [Rows -> Int]
    BY UpToType, TableType
  <2>2. \A r \in Rows : u[r] <= After(s - 1, t)[r]
    BY <1>1, Zenon DEF TracedAt
  <2>. HIDE DEF t
  <2>3. \A r \in Rows : Img(s, u)[r] <= Img(s, After(s - 1, t))[r]
    BY <1>a, <2>1, <2>2, ImgMono
  <2>4. \A r \in Rows : v[r] <= After(s, t)[r]
    BY <1>a, <2>1, <2>3
  <2>. QED BY <1>0, <1>1, <2>4 DEF TracedAt, t
<1>2. CASE F # {}
  <2>1. PICK p \in 0 .. Len(w) : /\ \A f \in F : UpToOf(w, f) <= p
                                 /\ \A r \in Rows : u[r] = After(s - 1, TableOf(w, p))[r]
    BY <1>2, Zenon DEF TracedAt
  <2>. DEFINE t == TableOf(w, p)
  <2>2. t \in [Rows -> Int]
    BY TableType
  <2>. HIDE DEF t
  <2>3. \A r \in Rows : u[r] \in Int /\ u[r] = After(s - 1, t)[r]
    BY <2>1 DEF t
  <2>4. Img(s, u) = Img(s, After(s - 1, t))
    BY <2>3, ImgAgree
  <2>5. \A r \in Rows : v[r] = After(s, t)[r]
    BY <1>a, <2>2, <2>4
  <2>. QED BY <1>0, <1>2, <2>1, <2>5 DEF TracedAt, t
<1>. QED BY <1>1, <1>2

\* Only the values for rows matter.
LEMMA TracedSame ==
    ASSUME NEW w, NEW a, NEW s, NEW F, NEW u, NEW v, TracedAt(w, a, s, F, u),
           \A r \in Rows : v[r] = u[r]
    PROVE  TracedAt(w, a, s, F, v)
BY Zenon DEF TracedAt

\* A stream that grows by a chunk: only the places of the chunk are new.
LEMMA TracesGrow ==
    ASSUME NEW w, NEW a, NEW s, NEW l \in Seq(UnitChunk), Traces(w, a, s, l),
           NEW x \in UnitChunk, x.kind = "frontier" => x.rows = <<>>,
           \A j \in 0 .. Len(x.rows) :
              TracedAt(w, a, s,
                       Frontiers(l, Len(l)) \cup (IF x.kind = "frontier" THEN {x.lsn} ELSE {}),
                       [r \in Rows |-> NetTo(l, Len(l), r) + Net(SubSeq(x.rows, 1, j), r)])
    PROVE  Traces(w, a, s, Append(l, x))
<1>. DEFINE m == Append(l, x)
<1>1. SUFFICES ASSUME NEW n \in Nat, NEW k \in Nat, Place(m, n, k)
               PROVE  TracedAt(w, a, s, Frontiers(m, n), [r \in Rows |-> NetAt(m, n, k, r)])
  BY DEF Traces
<1>2. OldPlace(l, m, n, k) \/ NewPlace(l, x, m, n, k)
  BY <1>1, AppendPlaces
<1>. HIDE DEF m
<1>3. CASE OldPlace(l, m, n, k)
  <2>1. TracedAt(w, a, s, Frontiers(l, n), [r \in Rows |-> NetAt(l, n, k, r)])
    BY <1>3 DEF OldPlace, Traces
  <2>2. /\ Frontiers(m, n) = Frontiers(l, n)
        /\ \A r \in Rows : [q \in Rows |-> NetAt(m, n, k, q)][r] = [q \in Rows |-> NetAt(l, n, k, q)][r]
    BY <1>3 DEF OldPlace
  <2>. QED BY <2>1, <2>2, TracedSame
<1>4. CASE NewPlace(l, x, m, n, k)
  <2>. DEFINE F == Frontiers(l, Len(l)) \cup (IF x.kind = "frontier" THEN {x.lsn} ELSE {})
  <2>1. Frontiers(m, n) = F
    BY <1>4 DEF NewPlace
  <2>2. PICK j \in 0 .. Len(x.rows) :
           \A r : NetAt(m, n, k, r) = NetTo(l, Len(l), r) + Net(SubSeq(x.rows, 1, j), r)
    BY <1>4, Zenon DEF NewPlace
  <2>3. TracedAt(w, a, s, F, [r \in Rows |-> NetTo(l, Len(l), r) + Net(SubSeq(x.rows, 1, j), r)])
    OBVIOUS
  <2>. HIDE DEF F
  <2>4. [r \in Rows |-> NetAt(m, n, k, r)]
          = [r \in Rows |-> NetTo(l, Len(l), r) + Net(SubSeq(x.rows, 1, j), r)]
    BY <2>2
  <2>. QED BY <2>1, <2>3, <2>4, Zenon
<1>. QED BY <1>2, <1>3, <1>4

\* Its reader has read what it had.
LEMMA ReaderStays ==
    ASSUME NEW l \in Seq(UnitChunk), NEW x \in UnitChunk, NEW c, NEW k, IsCursor(l, c, k),
           c.next \in Nat, k.at \in Nat
    PROVE  /\ IsCursor(Append(l, x), c, k) /\ (Passed(l, c, k) => Passed(Append(l, x), c, k))
           /\ ReadOf(Append(l, x), c, k) = ReadOf(l, c, k)
           /\ Frontiers(Append(l, x), c.next - 1) = Frontiers(l, c.next - 1)
           /\ LenTo(Append(l, x), c.next - 1) = LenTo(l, c.next - 1)
<1>. DEFINE m == Append(l, x)
            n == c.next - 1
<1>1. /\ m \in Seq(UnitChunk) /\ Len(m) = Len(l) + 1 /\ Len(l) \in Nat
      /\ \A i \in 1 .. Len(l) : m[i] = l[i]
      /\ \A i \in 0 .. Len(l) : /\ Frontiers(m, i) = Frontiers(l, i) /\ LenTo(m, i) = LenTo(l, i)
                                /\ \A r : NetTo(m, i, r) = NetTo(l, i, r)
  BY AppendFacts
<1>2. n \in 0 .. Len(l) /\ c.next = n + 1 /\ c.next \in 1 .. Len(m) + 1
  BY <1>1 DEF IsCursor
<1>3. k.phase = "data" => /\ n + 1 <= Len(l) /\ n + 1 \in 1 .. Len(l)
                          /\ l[n + 1].kind = "data" /\ k.at <= Len(l[n + 1].rows)
  BY <1>1, <1>2 DEF IsCursor
<1>. HIDE DEF m, n
<1>4. \A r : NetAt(m, n, AtOf(k), r) = NetAt(l, n, AtOf(k), r)
  <2>1. CASE k.phase = "data"
    <3>1. m[n + 1] = l[n + 1] /\ \A r : NetTo(m, n, r) = NetTo(l, n, r)
      BY <1>1, <1>2, <1>3, <2>1
    <3>. QED BY <3>1, Zenon DEF NetAt
  <2>2. CASE k.phase # "data"
    <3>1. AtOf(k) = 0 /\ \A r : NetTo(m, n, r) = NetTo(l, n, r)
      BY <1>1, <1>2, <2>2 DEF AtOf
    <3>. QED BY <3>1 DEF NetAt
  <2>. QED BY <2>1, <2>2
<1>5. ReadOf(m, c, k) = ReadOf(l, c, k)
  BY <1>4 DEF ReadOf, n
<1>6. IsCursor(m, c, k)
  <2>1. k.phase = "none" => k = NoContinuation
    BY DEF IsCursor
  <2>2. k.phase = "data" => c.next <= Len(m) /\ m[c.next] = l[c.next]
    BY <1>1, <1>2, <1>3
  <2>. QED BY <1>2, <1>3, <2>1, <2>2 DEF IsCursor
<1>7. Frontiers(m, n) = Frontiers(l, n) /\ LenTo(m, n) = LenTo(l, n)
  BY <1>1, <1>2
<1>8. Passed(l, c, k) => Passed(m, c, k)
  BY <1>7, Zenon DEF Passed, n
<1>. QED BY <1>5, <1>6, <1>7, <1>8 DEF m, n
-----------------------------------------------------------------------------
\* The parts of the invariant that a step leaves alone.

\* The stages and their streams.
LEMMA StageSets ==
    /\ Len(Plan) \in Nat /\ SinkStage \in Nat /\ SinkStage = Len(Plan) + 1
    /\ Stages = 0 .. Len(Plan) + 1 /\ Operators = 1 .. Len(Plan) + 1
    /\ Transforms = 1 .. Len(Plan) /\ Operators \subseteq Stages /\ Transforms \subseteq Operators
    /\ \A s \in 0 .. Len(Plan) : s \in Stages /\ s + 1 \in Operators /\ s + 1 \in Stages
BY PlanAssumption DEF SinkStage, Stages, Operators, Transforms

\* A stream on which nothing has been written is at no place but its start.
LEMMA EmptyLog ==
    ASSUME NEW n, NEW k, Place(<<>>, n, k)
    PROVE  n = 0 /\ k = 0 /\ Frontiers(<<>>, n) = {} /\ \A r : NetAt(<<>>, n, k, r) = 0
<1>. DEFINE none == <<>>
<1>1. none \in Seq(UnitChunk) /\ Len(none) = 0
  OBVIOUS
<1>2. n = 0 /\ k = 0
  BY DEF Place
<1>3. \A r : NetTo(none, 0, r) = 0
  <2>. HIDE DEF none
  <2>. QED BY <1>1, ToFacts
<1>. QED BY <1>2, <1>3 DEF NetAt, Frontiers

\* It adds up to a part of any query.
LEMMA TracesEmpty ==
    ASSUME NEW w \in Seq(Change), NEW e, IsWal(w, e), NEW a, NEW s \in Operators
    PROVE  Traces(w, a, s, <<>>)
<1>1. SUFFICES ASSUME NEW n \in Nat, NEW k \in Nat, Place(<<>>, n, k)
               PROVE  TracedAt(w, a, s, Frontiers(<<>>, n), [r \in Rows |-> NetAt(<<>>, n, k, r)])
  BY DEF Traces
<1>2. Frontiers(<<>>, n) = {} /\ \A r : NetAt(<<>>, n, k, r) = 0
  BY <1>1, EmptyLog
<1>. DEFINE t == TableOf(w, UpToOf(w, a))
<1>3. t \in [Rows -> Int] /\ \A r \in Rows : t[r] >= 0
  BY UpToType, TableType DEF IsWal
<1>4. s - 1 \in 0 .. Len(Plan)
  BY StageSets
<1>. HIDE DEF t
<1>5. \A r \in Rows : After(s - 1, t)[r] \in Nat
  BY <1>3, <1>4, AfterNat
<1>6. \A r \in Rows : [q \in Rows |-> NetAt(<<>>, n, k, q)][r] <= After(s - 1, t)[r]
  BY <1>2, <1>5
<1>. QED BY <1>2, <1>6 DEF TracedAt, t

\* The invariant at one stage.
LEMMA StageFacts ==
    ASSUME Inv, NEW s \in Stages
    PROVE  /\ log[s] \in Seq(UnitChunk) /\ Len(log[s]) \in Nat /\ IsLog(log[s], end)
           /\ cur[s].next \in 1 .. Len(log[s]) + 1 /\ cur[s].frontier \in 0 .. end
           /\ cur[s] = [next |-> cur[s].next, frontier |-> cur[s].frontier]
           /\ cont[s].phase \in Phase /\ cont[s].at \in Nat /\ cont[s].rest = 0
           /\ cont[s] = Continuation(cont[s].phase, cont[s].at, 0)
           /\ IsCursor(log[s], cur[s], cont[s])
           /\ s # 0 => Passed(log[s], cur[s], cont[s]) /\ Traces(wal, activation, s, log[s])
<1>1. IsLog(log[s], end) /\ IsCursor(log[s], cur[s], cont[s])
  BY DEF Inv, LogLaw, CursorLaw
<1>2. log[s] \in Seq(UnitChunk) /\ Len(log[s]) \in Nat /\ cur[s].next \in 1 .. Len(log[s]) + 1
  BY <1>1 DEF IsLog, IsCursor
<1>3. cur[s] \in [next : Nat, frontier : 0 .. end] /\ cont[s] \in [phase : Phase, at : Nat, rest : {0}]
  BY DEF Inv, Types
<1>4. s # 0 => s \in Operators
  BY StageSets
<1>5. s # 0 => Passed(log[s], cur[s], cont[s]) /\ Traces(wal, activation, s, log[s])
  BY <1>4 DEF Inv, CursorLaw, TraceLaw
<1>. QED BY <1>1, <1>2, <1>3, <1>5 DEF Continuation

\* A step of stage s writes at most one chunk, to its output.
OutputGrows(s) ==
    /\ IsLogs(log') /\ \A t \in Stages : t # s + 1 => log'[t] = log[t]
    /\ \/ log'[s + 1] = log[s + 1]
       \/ \E x \in UnitChunk :
             /\ x.lsn <= end /\ (x.kind = "frontier" <=> x.rows = <<>>)
             /\ log'[s + 1] = Append(log[s + 1], x)
    /\ full' \in [Operators -> BOOLEAN]

\* It moves its own cursor.
OnlyStage(s) ==
    /\ cur' \in [Stages -> [next : Nat, frontier : 0 .. end]]
    /\ cont' \in [Stages -> [phase : Phase, at : Nat, rest : {0}]]
    /\ \A t \in Stages : t # s => cur'[t] = cur[t] /\ cont'[t] = cont[t]
    /\ cur'[s].next >= cur[s].next

\* What a step of stage s has to establish.
LEMMA Frame ==
    ASSUME Inv, NEW s \in 0 .. Len(Plan), activation # 0,
           UNCHANGED <<wal, sent, end, published, activation, kept, result>>,
           OutputGrows(s), OnlyStage(s),
           \A i \in DOMAIN spool' : i \in Nat /\ spool'[i] \in Rows,
           IsCursor(log[s], cur'[s], cont'[s]), s # 0 => Passed(log[s], cur'[s], cont'[s]),
           IF s = 0
           THEN IsScan(wal, activation, spool', log[0], log'[1], cur'[0], cont'[0])
           ELSE spool' = spool /\ IsImage(s, log[s], log'[s + 1], cur'[s], cont'[s]),
           Traces(wal, activation, s + 1, log'[s + 1])
    PROVE  Inv'
<1>0. /\ s \in Stages /\ s + 1 \in Operators /\ s + 1 \in Stages /\ log'[s] = log[s] /\ 0 # s + 1
      /\ SinkStage \in Stages /\ SinkStage # s /\ 0 \in Stages /\ log'[0] = log[0]
  <2>1. /\ s \in Stages /\ s + 1 \in Operators /\ s + 1 \in Stages
        /\ SinkStage \in Stages /\ SinkStage # s /\ 0 \in Stages /\ 0 # s + 1 /\ s # s + 1
    BY StageSets
  <2>. QED BY <2>1 DEF OutputGrows
<1>1. ASSUME NEW t \in Stages
      PROVE  IsLog(log'[t], end)
  <2>1. log[t] \in Seq(UnitChunk) /\ IsLog(log[t], end)
    BY StageFacts
  <2>2. CASE log'[t] = log[t]
    BY <2>1, <2>2
  <2>3. CASE t = s + 1 /\ \E x \in UnitChunk :
             /\ x.lsn <= end /\ (x.kind = "frontier" <=> x.rows = <<>>)
             /\ log'[s + 1] = Append(log[s + 1], x)
    <3>1. PICK x \in UnitChunk : /\ x.lsn <= end /\ (x.kind = "frontier" <=> x.rows = <<>>)
                                 /\ log'[t] = Append(log[t], x)
      BY <2>3, Zenon
    <3>. DEFINE l == log[t]
    <3>2. l \in Seq(UnitChunk) /\ IsLog(l, end) /\ log'[t] = Append(l, x)
      BY <2>1, <3>1
    <3>. HIDE DEF l
    <3>3. /\ Append(l, x) \in Seq(UnitChunk) /\ Len(Append(l, x)) = Len(l) + 1 /\ Len(l) \in Nat
          /\ Append(l, x)[Len(l) + 1] = x
          /\ \A i \in 1 .. Len(l) : Append(l, x)[i] = l[i]
      BY <3>2, AppendFacts
    <3>4. IsLog(Append(l, x), end)
      BY <3>1, <3>2, <3>3 DEF IsLog
    <3>. QED BY <3>2, <3>4
  <2>. QED BY <2>2, <2>3 DEF OutputGrows
<1>2. ASSUME NEW t \in Stages
      PROVE  /\ IsCursor(log'[t], cur[t], cont[t])
             /\ Passed(log[t], cur[t], cont[t]) => Passed(log'[t], cur[t], cont[t])
             /\ ReadOf(log'[t], cur[t], cont[t]) = ReadOf(log[t], cur[t], cont[t])
             /\ Frontiers(log'[t], cur[t].next - 1) = Frontiers(log[t], cur[t].next - 1)
  <2>. DEFINE l == log[t]
              c == cur[t]
              k == cont[t]
  <2>1. l \in Seq(UnitChunk) /\ IsCursor(l, c, k) /\ c.next \in Nat /\ k.at \in Nat
    <3>1. /\ log[t] \in Seq(UnitChunk) /\ Len(log[t]) \in Nat /\ cur[t].next \in 1 .. Len(log[t]) + 1
          /\ cont[t].at \in Nat /\ IsCursor(log[t], cur[t], cont[t])
      BY StageFacts
    <3>2. cur[t].next \in Nat
      BY <3>1
    <3>. QED BY <3>1, <3>2
  <2>2. log'[t] = l \/ \E x \in UnitChunk : log'[t] = Append(l, x)
    BY Zenon DEF OutputGrows
  <2>. HIDE DEF l, c, k
  <2>3. /\ IsCursor(log'[t], c, k) /\ (Passed(l, c, k) => Passed(log'[t], c, k))
        /\ ReadOf(log'[t], c, k) = ReadOf(l, c, k)
        /\ Frontiers(log'[t], c.next - 1) = Frontiers(l, c.next - 1)
    <3>1. CASE log'[t] = l
      BY <2>1, <3>1
    <3>2. CASE \E x \in UnitChunk : log'[t] = Append(l, x)
      <4>1. PICK x \in UnitChunk : log'[t] = Append(l, x)
        BY <3>2
      <4>. QED BY <2>1, <4>1, ReaderStays
    <3>. QED BY <2>2, <3>1, <3>2
  <2>. QED BY <2>3 DEF l, c, k
<1>3. \A t \in Stages : t # s => cur'[t] = cur[t] /\ cont'[t] = cont[t]
  BY DEF OnlyStage
<1>4. Types'
  <2>1. \A t \in Operators : kept[t] \in 1 .. cur'[t].next
    <3>1. SUFFICES ASSUME NEW t \in Operators PROVE kept[t] \in 1 .. cur'[t].next
      OBVIOUS
    <3>2. t \in Stages /\ kept[t] \in 1 .. cur[t].next
      BY StageSets DEF Inv, Types
    <3>3. cur'[t].next >= cur[t].next /\ cur'[t].next \in Nat /\ cur[t].next \in Nat
      <4>1. cur'[t] \in [next : Nat, frontier : 0 .. end] /\ cur[t] \in [next : Nat, frontier : 0 .. end]
        BY <3>2 DEF OnlyStage, Inv, Types
      <4>2. cur'[t].next \in Nat /\ cur[t].next \in Nat
        BY <4>1
      <4>. QED BY <1>3, <3>2, <4>2 DEF OnlyStage
    <3>. QED BY <3>2, <3>3
  <2>. QED BY <2>1, Zenon DEF Inv, Types, OutputGrows, OnlyStage
<1>5. WalLaw'
  BY DEF Inv, WalLaw
<1>6. LogLaw'
  BY <1>1 DEF LogLaw
<1>7. SourceLaw'
  BY <1>0 DEF Inv, SourceLaw
<1>8. CursorLaw'
  <2>1. ASSUME NEW t \in Stages PROVE IsCursor(log'[t], cur'[t], cont'[t])
    BY <1>0, <1>2, <1>3
  <2>2. ASSUME NEW t \in Operators PROVE Passed(log'[t], cur'[t], cont'[t])
    <3>1. t \in Stages /\ t # 0
      BY StageSets
    <3>2. Passed(log[t], cur[t], cont[t])
      BY DEF Inv, CursorLaw
    <3>. QED BY <1>0, <1>2, <1>3, <3>1, <3>2
  <2>. QED BY <2>1, <2>2 DEF CursorLaw
<1>9. ScanLaw'
  <2>1. CASE s = 0
    BY <2>1, <1>0 DEF ScanLaw
  <2>2. CASE s # 0
    <3>1. 1 # s + 1 /\ 1 \in Stages
      BY <2>2, StageSets
    <3>2. log'[1] = log[1] /\ cur'[0] = cur[0] /\ cont'[0] = cont[0] /\ spool' = spool
      BY <1>0, <1>3, <2>2, <3>1 DEF OutputGrows
    <3>3. IsScan(wal, activation, spool, log[0], log[1], cur[0], cont[0])
      BY DEF Inv, ScanLaw
    <3>. QED BY <1>0, <3>2, <3>3 DEF ScanLaw
  <2>. QED BY <2>1, <2>2
<1>10. StageLaw'
  <2>1. SUFFICES ASSUME NEW t \in Transforms
                 PROVE  IsImage(t, log'[t], log'[t + 1], cur'[t], cont'[t])
    BY DEF StageLaw
  <2>2. t \in Stages /\ t + 1 \in Stages /\ t # 0
    BY StageSets
  <2>3. CASE t = s
    BY <2>2, <2>3, <1>0
  <2>4. CASE t # s
    <3>1. t + 1 # s + 1
      BY <2>4, StageSets
    <3>2. log'[t + 1] = log[t + 1] /\ cur'[t] = cur[t] /\ cont'[t] = cont[t]
      BY <1>3, <2>2, <2>4, <3>1 DEF OutputGrows
    <3>3. IsImage(t, log[t], log[t + 1], cur[t], cont[t])
      BY DEF Inv, StageLaw
    <3>4. IsImage(t, log'[t], log[t + 1], cur[t], cont[t])
      BY <1>2, <2>2, <3>3, Zenon DEF IsImage
    <3>. QED BY <3>2, <3>4
  <2>. QED BY <2>3, <2>4
<1>11. TraceLaw'
  <2>1. ASSUME NEW t \in Operators PROVE Traces(wal, activation, t, log'[t])
    <3>1. t \in Stages /\ t # 0
      BY StageSets
    <3>2. t # s + 1 => log'[t] = log[t]
      BY <3>1 DEF OutputGrows
    <3>3. Traces(wal, activation, t, log[t])
      BY DEF Inv, TraceLaw
    <3>. QED BY <3>2, <3>3
  <2>. QED BY <2>1 DEF TraceLaw
<1>12. SinkLaw'
  <2>1. \A r \in Rows : result[r] = ReadOf(log[SinkStage], cur[SinkStage], cont[SinkStage])[r]
    BY DEF Inv, SinkLaw
  <2>2. cur'[SinkStage] = cur[SinkStage] /\ cont'[SinkStage] = cont[SinkStage]
    BY <1>0, <1>3
  <2>3. ReadOf(log'[SinkStage], cur[SinkStage], cont[SinkStage])
          = ReadOf(log[SinkStage], cur[SinkStage], cont[SinkStage])
    BY <1>0, <1>2
  <2>. QED BY <2>1, <2>2, <2>3 DEF SinkLaw
<1>. QED BY <1>4, <1>5, <1>6, <1>7, <1>8, <1>9, <1>10, <1>11, <1>12 DEF Inv
-----------------------------------------------------------------------------
\* A step of a transform.

\* No effects add up to nothing.
LEMMA NoEffects ==
    <<>> \in Seq(UnitEffect) /\ \A r : Net(<<>>, r) = 0 /\ Net(SubSeq(<<>>, 1, 0), r) = 0
<1>1. <<>> \in Seq(Weighted(Rows)) /\ Len(<<>>) = 0 /\ SubSeq(<<>>, 1, 0) = <<>>
      /\ <<>> \in Seq(UnitEffect)
  OBVIOUS
<1>2. \A r : Net(<<>>, r) = 0
  BY <1>1, NetEmpty
<1>. QED BY <1>1, <1>2

\* The page a data step takes, and where it comes from.
LEMMA PageOf ==
    ASSUME NEW e \in Seq(UnitEffect), NEW at \in 0 .. Len(e), NEW n \in 0 .. Len(e) - at
    PROVE  LET left == SubSeq(e, at + 1, Len(e))
           IN /\ left \in Seq(UnitEffect) /\ Len(left) = Len(e) - at
              /\ SubSeq(left, 1, n) \in Seq(UnitEffect) /\ Len(SubSeq(left, 1, n)) = n
              /\ TakenOf(SubSeq(left, 1, n), e, at)
              /\ \A i \in 1 .. n : SubSeq(left, 1, n)[i] = e[at + i]
<1>. DEFINE left == SubSeq(e, at + 1, Len(e))
<1>1. Len(e) \in Nat /\ \A i \in 1 .. Len(e) : e[i] \in UnitEffect
  BY UnitSeq
<1>2. left \in Seq(UnitEffect) /\ Len(left) = Len(e) - at /\ \A i \in 1 .. Len(e) - at : left[i] = e[at + i]
  <2>. HIDE DEF UnitEffect
  <2>. QED BY <1>1
<1>. HIDE DEF left
<1>3. n \in 0 .. Len(left)
  BY <1>2
<1>4. /\ SubSeq(left, 1, n) \in Seq(UnitEffect) /\ Len(SubSeq(left, 1, n)) = n
      /\ \A i \in 1 .. n : SubSeq(left, 1, n)[i] = left[i]
  BY <1>2, <1>3, UnitPrefix
<1>5. \A i \in 1 .. n : SubSeq(left, 1, n)[i] = e[at + i]
  BY <1>1, <1>2, <1>4
<1>6. TakenOf(SubSeq(left, 1, n), e, at)
  BY <1>1, <1>4, <1>5 DEF TakenOf
<1>. QED BY <1>2, <1>4, <1>5, <1>6 DEF left

\* run_transform_primitive always gets past an effect.
LEMMA PrefixLengthType ==
    ASSUME NEW s, NEW rows \in Seq(UnitEffect), Len(rows) # 0
    PROVE  PrefixLength(s, rows) \in 1 .. Len(rows)
<1>. DEFINE upto(k) == {i \in 1 .. k : Passes(s, rows[i])}
            K == {k \in 1 .. Min({Len(rows), BatchRows}) :
                    Cardinality(upto(k)) <= Min({BatchRows, TargetRows})}
<1>1. Len(rows) \in Nat \ {0} /\ BatchRows \in Nat \ {0} /\ TargetRows \in Nat \ {0}
  BY UnitSeq, BatchAssumption, PlanAssumption
<1>2. /\ Min({Len(rows), BatchRows}) \in 1 .. Len(rows)
      /\ Min({BatchRows, TargetRows}) \in Nat \ {0}
  BY <1>1, MinOfTwo
<1>3. Cardinality(upto(1)) <= 1 /\ Cardinality(upto(1)) \in Nat
  <2>1. IsFiniteSet({1}) /\ Cardinality({1}) = 1
    BY FS_Singleton
  <2>2. upto(1) \in SUBSET {1}
    OBVIOUS
  <2>. HIDE DEF upto
  <2>3. IsFiniteSet(upto(1)) /\ Cardinality(upto(1)) <= Cardinality({1})
    BY <2>1, <2>2, FS_Subset
  <2>4. Cardinality(upto(1)) \in Nat
    BY <2>3, FS_CardinalityType
  <2>. QED BY <2>1, <2>3, <2>4
<1>4. 1 \in K
  <2>. HIDE DEF upto
  <2>1. Cardinality(upto(1)) <= Min({BatchRows, TargetRows}) /\ 1 \in 1 .. Min({Len(rows), BatchRows})
    BY <1>2, <1>3
  <2>. QED BY <2>1
<1>5. K \in SUBSET Nat /\ \A y \in K : y \in 1 .. Len(rows) /\ y <= Len(rows)
  <2>1. \A y \in K : y \in 1 .. Min({Len(rows), BatchRows})
    OBVIOUS
  <2>. HIDE DEF K
  <2>2. \A y \in K : y \in 1 .. Len(rows) /\ y <= Len(rows) /\ y \in Nat
    <3>1. \A z \in 1 .. Len(rows) : \A y \in 1 .. z : y \in 1 .. Len(rows) /\ y <= Len(rows) /\ y \in Nat
      BY <1>1
    <3>. QED BY <1>2, <2>1, <3>1
  <2>. QED BY <2>2
<1>6. PrefixLength(s, rows) = Max(K)
  BY Zenon DEF PrefixLength
<1>. HIDE DEF K
<1>7. Max(K) \in K
  BY <1>1, <1>4, <1>5, MaxOfNats
<1>. QED BY <1>5, <1>6, <1>7

\* What all effects up to a place add up to.
SumAt(l, n, k) == [r \in Rows |-> NetAt(l, n, k, r)]

\* The image of what has been read grows by the image of the page.
LEMMA ImageOn ==
    ASSUME NEW s \in Transforms, NEW l \in Seq(UnitChunk), NEW n \in Nat, n < Len(l), NEW k \in Nat,
           NEW p \in Seq(UnitEffect), TakenOf(p, l[n + 1].rows, k), NEW i \in 0 .. Len(p),
           NEW r \in Rows
    PROVE  Img(s, SumAt(l, n, k + i))[r] =
             Img(s, SumAt(l, n, k))[r] + Img(s, Nets(SubSeq(p, 1, i)))[r]
<1>. DEFINE v == SumAt(l, n, k + i)
            t == SumAt(l, n, k)
            u == Nets(SubSeq(p, 1, i))
<1>1. \A q \in Rows : /\ NetAt(l, n, k, q) \in Int /\ Net(SubSeq(p, 1, i), q) \in Int
                      /\ NetAt(l, n, k + i, q) = NetAt(l, n, k, q) + Net(SubSeq(p, 1, i), q)
  BY ReadOn, UnitPrefix
<1>2. \A q \in Rows : t[q] \in Int /\ u[q] \in Int /\ v[q] = t[q] + u[q]
  BY <1>1 DEF Nets, SumAt
<1>. HIDE DEF v, t, u
<1>3. Img(s, v)[r] = Img(s, t)[r] + Img(s, u)[r]
  BY <1>2, ImgAdd
<1>. QED BY <1>3 DEF v, t, u

\* What a stream adds up to with one more frontier.
LEMMA AppendFrontier ==
    ASSUME NEW l \in Seq(UnitChunk), NEW x \in UnitChunk, x.kind = "frontier", x.rows = <<>>
    PROVE  /\ Len(Append(l, x)) = Len(l) + 1 /\ Len(l) \in Nat
           /\ Frontiers(Append(l, x), Len(l) + 1) = Frontiers(l, Len(l)) \cup {x.lsn}
           /\ \A r : /\ NetTo(Append(l, x), Len(l) + 1, r) = NetTo(l, Len(l), r)
                     /\ NetTo(l, Len(l), r) \in Int
<1>. DEFINE m == Append(l, x)
<1>1. /\ Len(m) = Len(l) + 1 /\ Len(l) \in Nat
      /\ Frontiers(m, Len(l) + 1) = Frontiers(l, Len(l))
            \cup (IF x.kind = "frontier" THEN {x.lsn} ELSE {})
      /\ \A r : NetTo(m, Len(l) + 1, r) = NetTo(l, Len(l), r) + Net(x.rows, r)
  BY AppendFacts
<1>2. \A r : Net(x.rows, r) = 0
  BY NoEffects
<1>3. \A r : NetTo(l, Len(l), r) \in Int
  <2>1. Len(l) \in 0 .. Len(l)
    BY <1>1
  <2>. QED BY <2>1, ToFacts
<1>. HIDE DEF m
<1>4. \A r : NetTo(m, Len(l) + 1, r) = NetTo(l, Len(l), r)
  BY <1>1, <1>2, <1>3
<1>. QED BY <1>1, <1>3, <1>4 DEF m

\* Transform s has read n whole chunks of its input l, and there is another.
StageAt(w, a, s, l, out, n, c, k) ==
    /\ w \in Seq(Change) /\ s \in Transforms
    /\ l \in Seq(UnitChunk) /\ out \in Seq(UnitChunk)
    /\ n \in Nat /\ n < Len(l) /\ c.next = n + 1
    /\ IsImage(s, l, out, c, k) /\ Passed(l, c, k)
    /\ Traces(w, a, s, l) /\ Traces(w, a, s + 1, out)

\* A transform hands a frontier on.
LEMMA HandedOn ==
    ASSUME NEW w, NEW a, NEW s, NEW l, NEW out, NEW n, NEW c,
           StageAt(w, a, s, l, out, n, c, NoContinuation),
           l[n + 1].kind = "frontier", l[n + 1].rows = <<>>,
           NEW d, d.next = n + 2, d.frontier = l[n + 1].lsn
    PROVE  LET x == Frontier(l[n + 1].lsn)
           IN /\ x \in UnitChunk /\ x.kind = "frontier" /\ x.rows = <<>> /\ x.lsn = l[n + 1].lsn
              /\ IsCursor(l, d, NoContinuation) /\ Passed(l, d, NoContinuation)
              /\ IsImage(s, l, Append(out, x), d, NoContinuation)
              /\ Traces(w, a, s + 1, Append(out, x))
<1>. /\ w \in Seq(Change) /\ s \in Transforms
     /\ l \in Seq(UnitChunk) /\ out \in Seq(UnitChunk)
     /\ n \in Nat /\ n < Len(l) /\ c.next = n + 1
     /\ IsImage(s, l, out, c, NoContinuation)
     /\ Traces(w, a, s, l) /\ Traces(w, a, s + 1, out)
  BY Zenon DEF StageAt
<1>. DEFINE x == Frontier(l[n + 1].lsn)
            F == Frontiers(l, n + 1)
            u == [r \in Rows |-> NetAt(l, n + 1, 0, r)]
<1>1. Len(l) \in Nat /\ n + 1 \in 1 .. Len(l) /\ l[n + 1].lsn \in 1 .. MaxCommits + 1
  BY ChunkFacts
<1>2. x \in UnitChunk /\ x.kind = "frontier" /\ x.rows = <<>> /\ x.lsn = l[n + 1].lsn
  <2>1. <<>> \in Seq(UnitEffect)
    OBVIOUS
  <2>. HIDE DEF UnitEffect
  <2>. QED BY <1>1, <2>1 DEF Frontier, UnitChunk
<1>3. F = Frontiers(l, n) \cup {l[n + 1].lsn}
  BY FrontiersNext
<1>4. (n + 1) - 1 = n /\ (n + 2) - 1 = n + 1 /\ NoContinuation.phase = "none" /\ AtOf(NoContinuation) = 0
  BY DEF NoContinuation, Continuation, AtOf
<1>5. IsCursor(l, d, NoContinuation) /\ Passed(l, d, NoContinuation)
  <2>1. d.next \in 1 .. Len(l) + 1
    BY <1>1
  <2>2. d.frontier \in F /\ d.next - 1 = n + 1
    BY <1>3, <1>4
  <2>. QED BY <1>4, <2>1, <2>2 DEF IsCursor, Passed
<1>6. \A r \in Rows : NetAt(l, n + 1, 0, r) = NetAt(l, n, 0, r) /\ NetAt(l, n, 0, r) \in Int
  <2>1. n + 1 \in 0 .. Len(l) /\ n \in 0 .. Len(l)
    BY <1>1
  <2>2. \A r \in Rows : NetTo(l, n + 1, r) = NetTo(l, n, r) + Net(<<>>, r) /\ NetTo(l, n, r) \in Int
    BY <1>1, <2>1, ToFacts
  <2>3. \A r \in Rows : Net(<<>>, r) = 0
    BY NoEffects
  <2>. QED BY <2>2, <2>3 DEF NetAt
<1>7. /\ ReadOf(l, c, NoContinuation) = u /\ ReadOf(l, d, NoContinuation) = u
  <2>1. \A r \in Rows : NetAt(l, c.next - 1, 0, r) = NetAt(l, n + 1, 0, r)
    BY <1>4, <1>6
  <2>2. ReadOf(l, c, NoContinuation) = u
    BY <1>4, <2>1 DEF ReadOf
  <2>3. ReadOf(l, d, NoContinuation) = u
    BY <1>4 DEF ReadOf
  <2>. QED BY <2>2, <2>3
<1>. DEFINE m == Append(out, x)
<1>8. /\ Len(m) = Len(out) + 1 /\ Len(out) \in Nat
      /\ Frontiers(m, Len(out) + 1) = Frontiers(out, Len(out)) \cup {x.lsn}
      /\ \A r \in Rows : NetTo(m, Len(out) + 1, r) = NetTo(out, Len(out), r)
                         /\ NetTo(out, Len(out), r) \in Int
  <2>. HIDE DEF x
  <2>. QED BY <1>2, AppendFrontier
<1>9. \A r \in Rows : NetTo(out, Len(out), r) = Img(s, u)[r]
  BY <1>7 DEF IsImage
<1>10. Frontiers(out, Len(out)) \cup {x.lsn} = F
  BY <1>2, <1>3, <1>4 DEF IsImage
<1>11. IsImage(s, l, m, d, NoContinuation)
  <2>. HIDE DEF m, F, u, x
  <2>1. Frontiers(m, Len(m)) = F /\ \A r \in Rows : NetTo(m, Len(m), r) = Img(s, u)[r]
    BY <1>8, <1>9, <1>10
  <2>2. d.next - 1 = n + 1
    BY <1>4
  <2>. QED BY <1>7, <2>1, <2>2 DEF IsImage, F
<1>12. TracedAt(w, a, s, F, u)
  <2>1. Place(l, n + 1, 0)
    BY <1>1 DEF Place
  <2>. QED BY <2>1 DEF Traces
<1>13. Traces(w, a, s + 1, m)
  <2>1. ASSUME NEW j \in 0 .. Len(x.rows)
        PROVE  TracedAt(w, a, s + 1,
                   Frontiers(out, Len(out)) \cup (IF x.kind = "frontier" THEN {x.lsn} ELSE {}),
                   [r \in Rows |-> NetTo(out, Len(out), r) + Net(SubSeq(x.rows, 1, j), r)])
    <3>1. j = 0
      BY <1>2
    <3>2. \A r \in Rows : Net(SubSeq(<<>>, 1, 0), r) = 0
      BY NoEffects
    <3>. DEFINE v == [r \in Rows |-> NetTo(out, Len(out), r) + Net(SubSeq(x.rows, 1, j), r)]
    <3>3. \A r \in Rows : v[r] = Img(s, u)[r]
      <4>1. \A r \in Rows : Net(SubSeq(x.rows, 1, j), r) = 0
        BY <1>2, <3>1, <3>2
      <4>. HIDE DEF x, u
      <4>. QED BY <1>8, <1>9, <4>1
    <3>4. \A r \in Rows : u[r] \in Int
      BY <1>6
    <3>. HIDE DEF v, u, F
    <3>5. TracedAt(w, a, s + 1, F, v)
      BY <1>12, <3>3, <3>4, Carried
    <3>. HIDE DEF x
    <3>. QED BY <1>2, <1>10, <3>5 DEF v
  <2>. HIDE DEF x
  <2>. QED BY <1>2, <2>1, TracesGrow
<1>. QED BY <1>2, <1>5, <1>11, <1>13

\* What a stream adds up to with one more data chunk.
LEMMA AppendData ==
    ASSUME NEW l \in Seq(UnitChunk), NEW x \in UnitChunk, x.kind = "data"
    PROVE  /\ Frontiers(Append(l, x), Len(Append(l, x))) = Frontiers(l, Len(l))
           /\ \A r : NetTo(Append(l, x), Len(Append(l, x)), r) = NetTo(l, Len(l), r) + Net(x.rows, r)
<1>. DEFINE m == Append(l, x)
<1>1. /\ Len(m) = Len(l) + 1
      /\ Frontiers(m, Len(l) + 1) = Frontiers(l, Len(l))
            \cup (IF x.kind = "frontier" THEN {x.lsn} ELSE {})
      /\ \A r : NetTo(m, Len(l) + 1, r) = NetTo(l, Len(l), r) + Net(x.rows, r)
  BY AppendFacts
<1>2. x.kind # "frontier"
  OBVIOUS
<1>. HIDE DEF m
<1>3. Frontiers(m, Len(m)) = Frontiers(l, Len(l))
  BY <1>1, <1>2
<1>4. \A r : NetTo(m, Len(m), r) = NetTo(l, Len(l), r) + Net(x.rows, r)
  BY <1>1
<1>. QED BY <1>3, <1>4 DEF m

\* Where a data step leaves a stage that has read n chunks and k effects.
Moved(l, n, k, c, d, m) ==
    IF k = Len(l[n + 1].rows)
    THEN d.next = n + 2 /\ d.frontier = c.frontier /\ m.phase # "data"
    ELSE d = c /\ m = Continuation("data", k, 0)

\* What that adds to what it has read.
LEMMA MovedFacts ==
    ASSUME NEW l \in Seq(UnitChunk), NEW n \in Nat, n < Len(l), l[n + 1].kind = "data",
           NEW k \in 0 .. Len(l[n + 1].rows), NEW c, c.next = n + 1,
           NEW d, NEW m, Moved(l, n, k, c, d, m)
    PROVE  /\ d.next \in 1 .. Len(l) + 1 /\ d.frontier = c.frontier
           /\ m.phase = "data" => IsCursor(l, d, m)
           /\ Frontiers(l, d.next - 1) = Frontiers(l, c.next - 1)
           /\ ReadOf(l, d, m) = SumAt(l, n, k)
           /\ LenTo(l, d.next - 1) + AtOf(m) = LenTo(l, n) + k
           /\ d.next - 1 \in 0 .. Len(l) /\ AtOf(m) \in Nat /\ d.next >= c.next
<1>1. Len(l) \in Nat /\ n + 1 \in 1 .. Len(l) /\ Len(l[n + 1].rows) \in Nat
  BY ChunkFacts
<1>2. (n + 1) - 1 = n /\ (n + 2) - 1 = n + 1
  OBVIOUS
<1>3. CASE k = Len(l[n + 1].rows)
  <2>1. d.next = n + 2 /\ d.frontier = c.frontier /\ m.phase # "data" /\ AtOf(m) = 0
    BY <1>3 DEF Moved, AtOf
  <2>2. Frontiers(l, n + 1) = Frontiers(l, n)
    <3>1. Frontiers(l, n + 1) = Frontiers(l, n) \cup
             (IF l[n + 1].kind = "frontier" THEN {l[n + 1].lsn} ELSE {})
      BY FrontiersNext
    <3>2. l[n + 1].kind # "frontier"
      OBVIOUS
    <3>. QED BY <3>1, <3>2
  <2>3. \A r \in Rows : NetAt(l, n, k, r) = NetAt(l, n + 1, 0, r)
    BY <1>3, ReadAll
  <2>4. ReadOf(l, d, m) = SumAt(l, n, k)
    <3>1. \A r \in Rows : NetAt(l, d.next - 1, AtOf(m), r) = NetAt(l, n, k, r)
      BY <1>2, <2>1, <2>3
    <3>. QED BY <3>1 DEF ReadOf, SumAt
  <2>5. LenTo(l, n + 1) = LenTo(l, n) + k /\ LenTo(l, n) \in Int /\ LenTo(l, n + 1) \in Int
    <3>1. n \in 0 .. Len(l) /\ n + 1 \in 0 .. Len(l)
      BY <1>1
    <3>. QED BY <1>3, <3>1, ToFacts
  <2>6. d.next - 1 = n + 1 /\ c.next - 1 = n
    BY <1>2, <2>1
  <2>7. LenTo(l, d.next - 1) + AtOf(m) = LenTo(l, n) + k
    BY <2>1, <2>5, <2>6
  <2>8. d.next \in 1 .. Len(l) + 1 /\ d.next - 1 \in 0 .. Len(l) /\ d.next >= c.next
    BY <1>1, <2>1
  <2>. QED BY <2>1, <2>2, <2>4, <2>6, <2>7, <2>8
<1>4. CASE k # Len(l[n + 1].rows)
  <2>1. d = c /\ m = Continuation("data", k, 0) /\ m.phase = "data" /\ m.at = k /\ AtOf(m) = k
    BY <1>4 DEF Moved, AtOf, Continuation
  <2>2. k < Len(l[n + 1].rows)
    BY <1>1, <1>4
  <2>3. IsCursor(l, d, m)
    BY <1>1, <2>1, <2>2 DEF IsCursor
  <2>4. ReadOf(l, d, m) = SumAt(l, n, k)
    <3>1. \A r \in Rows : NetAt(l, d.next - 1, AtOf(m), r) = NetAt(l, n, k, r)
      BY <1>2, <2>1
    <3>. QED BY <3>1 DEF ReadOf, SumAt
  <2>5. d.next - 1 = n /\ d.next \in 1 .. Len(l) + 1 /\ n \in 0 .. Len(l) /\ d.next >= c.next
    BY <1>1, <1>2, <2>1
  <2>. QED BY <2>1, <2>3, <2>4, <2>5
<1>. QED BY <1>3, <1>4

\* A page p of the data chunk after the first n is read, and its image is
\* written to the stream.
PageRead(l, n, c, k, p, d, m) ==
    /\ l[n + 1].kind = "data" /\ AtOf(k) \in Nat
    /\ p \in Seq(UnitEffect) /\ TakenOf(p, l[n + 1].rows, AtOf(k))
    /\ Moved(l, n, AtOf(k) + Len(p), c, d, m) /\ m.phase \in {"none", "data"}
ImageWritten(s, p, x, out, new) ==
    /\ x \in UnitChunk /\ x.kind = "data" /\ x.rows = PassingRows(s, p)
    /\ new = IF x.rows = <<>> THEN out ELSE Append(out, x)

\* A transform transforms a page of a data chunk.
LEMMA Transformed ==
    ASSUME NEW w, NEW a, NEW s, NEW l, NEW out, NEW n, NEW c, NEW k,
           StageAt(w, a, s, l, out, n, c, k),
           NEW p, NEW d, NEW m, PageRead(l, n, c, k, p, d, m),
           NEW x, NEW new, ImageWritten(s, p, x, out, new)
    PROVE  /\ Passed(l, d, m) /\ IsImage(s, l, new, d, m) /\ Traces(w, a, s + 1, new)
<1>. /\ w \in Seq(Change) /\ s \in Transforms
     /\ l \in Seq(UnitChunk) /\ out \in Seq(UnitChunk)
     /\ n \in Nat /\ n < Len(l) /\ c.next = n + 1
     /\ IsImage(s, l, out, c, k) /\ Passed(l, c, k)
     /\ Traces(w, a, s, l) /\ Traces(w, a, s + 1, out)
  BY Zenon DEF StageAt
<1>. /\ l[n + 1].kind = "data" /\ AtOf(k) \in Nat
     /\ p \in Seq(UnitEffect) /\ TakenOf(p, l[n + 1].rows, AtOf(k))
     /\ Moved(l, n, AtOf(k) + Len(p), c, d, m) /\ m.phase \in {"none", "data"}
  BY Zenon DEF PageRead
<1>. /\ x \in UnitChunk /\ x.kind = "data" /\ x.rows = PassingRows(s, p)
     /\ new = IF x.rows = <<>> THEN out ELSE Append(out, x)
  BY Zenon DEF ImageWritten
<1>. DEFINE at == AtOf(k)
            o == x.rows
            read == SumAt(l, n, at)
            now == SumAt(l, n, at + Len(p))
            F == Frontiers(l, n)
<1>1. /\ Len(l) \in Nat /\ Len(l[n + 1].rows) \in Nat /\ Len(p) \in Nat /\ at \in Nat
      /\ at + Len(p) <= Len(l[n + 1].rows) /\ n \in 0 .. Len(l) /\ TakenOf(p, l[n + 1].rows, at)
  <2>1. Len(l) \in Nat /\ n + 1 \in 1 .. Len(l) /\ Len(l[n + 1].rows) \in Nat
    BY ChunkFacts
  <2>. QED BY <2>1, UnitSeq DEF TakenOf
<1>2. c.next - 1 = n /\ at + Len(p) \in 0 .. Len(l[n + 1].rows)
  BY <1>1
<1>3. /\ d.frontier = c.frontier /\ Frontiers(l, d.next - 1) = F /\ ReadOf(l, d, m) = now
  <2>1. Moved(l, n, at + Len(p), c, d, m) /\ at + Len(p) \in 0 .. Len(l[n + 1].rows)
    BY <1>2
  <2>. HIDE DEF at
  <2>2. /\ d.frontier = c.frontier /\ Frontiers(l, d.next - 1) = Frontiers(l, c.next - 1)
        /\ ReadOf(l, d, m) = SumAt(l, n, at + Len(p))
    BY <2>1, MovedFacts
  <2>. QED BY <1>2, <2>2
<1>4. Passed(l, d, m)
  <2>1. Frontiers(l, c.next - 1) = F
    BY <1>2
  <2>. HIDE DEF F
  <2>. QED BY <1>3, <2>1 DEF Passed
<1>5. Frontiers(out, Len(out)) = F /\ \A r \in Rows : NetTo(out, Len(out), r) = Img(s, read)[r]
  <2>1. ReadOf(l, c, k) = read
    BY <1>2 DEF ReadOf, SumAt
  <2>2. Frontiers(l, c.next - 1) = F
    BY <1>2
  <2>. QED BY <2>1, <2>2 DEF IsImage
<1>6. /\ o \in Seq(UnitEffect)
      /\ \A j \in 0 .. Len(o) : \E i \in 0 .. Len(p) :
           \A r \in Rows : Net(SubSeq(o, 1, j), r) = Img(s, Nets(SubSeq(p, 1, i)))[r]
      /\ \A r \in Rows : Net(o, r) = Img(s, Nets(p))[r]
  BY PassingFacts
<1>7. \A i \in 0 .. Len(p) : \A r \in Rows :
        Img(s, SumAt(l, n, at + i))[r]
          = Img(s, read)[r] + Img(s, Nets(SubSeq(p, 1, i)))[r]
  <2>1. TakenOf(p, l[n + 1].rows, at) /\ at \in Nat
    BY <1>1
  <2>. HIDE DEF at
  <2>. QED BY <2>1, ImageOn
<1>. HIDE DEF read, o, at
<1>8. \A r \in Rows : Img(s, now)[r] = Img(s, read)[r] + Img(s, Nets(p))[r]
  <2>1. Len(p) \in 0 .. Len(p) /\ SubSeq(p, 1, Len(p)) = p
    BY <1>1, UnitPrefix
  <2>2. \A r \in Rows : Img(s, SumAt(l, n, at + Len(p)))[r]
          = Img(s, read)[r] + Img(s, Nets(SubSeq(p, 1, Len(p))))[r]
    BY <1>7, <2>1, Zenon
  <2>. HIDE DEF now
  <2>3. \A r \in Rows : Img(s, now)[r] = Img(s, read)[r] + Img(s, Nets(SubSeq(p, 1, Len(p))))[r]
    BY <2>2 DEF now
  <2>. QED BY <2>1, <2>3
<1>9. \A i \in 0 .. Len(p) : TracedAt(w, a, s, F, SumAt(l, n, at + i))
                             /\ \A q \in Rows : NetAt(l, n, at + i, q) \in Int
  <2>1. SUFFICES ASSUME NEW i \in 0 .. Len(p)
                 PROVE  TracedAt(w, a, s, F, SumAt(l, n, at + i))
                        /\ \A q \in Rows : NetAt(l, n, at + i, q) \in Int
    OBVIOUS
  <2>2. Place(l, n, at + i) /\ at + i \in Nat
    BY <1>1 DEF Place
  <2>3. \A q \in Rows : NetAt(l, n, at + i, q) \in Int
    BY <2>2, PlaceInt
  <2>. QED BY <2>2, <2>3 DEF Traces, SumAt
<1>10. Len(out) \in Nat /\ \A r \in Rows : NetTo(out, Len(out), r) \in Int
  <2>1. Len(out) \in Nat /\ Len(out) \in 0 .. Len(out)
    BY ChunkFacts
  <2>. QED BY <2>1, ToFacts
<1>11. CASE o = <<>>
  <2>1. new = out
    BY <1>11 DEF o
  <2>2. \A r \in Rows : Net(o, r) = 0
    BY <1>11, NoEffects
  <2>3. \A r \in Rows : Img(s, now)[r] = NetTo(out, Len(out), r)
    <3>1. \A r \in Rows : Img(s, now)[r] = NetTo(out, Len(out), r) + 0
      <4>. HIDE DEF now
      <4>1. \A r \in Rows : Net(o, r) = Img(s, Nets(p))[r]
        BY <1>6
      <4>2. \A r \in Rows : Img(s, Nets(p))[r] = 0
        BY <4>1, <2>2, Zenon
      <4>3. \A r \in Rows : Img(s, now)[r] = Img(s, read)[r] + 0
        BY <1>8, <4>2, Zenon
      <4>4. \A r \in Rows : NetTo(out, Len(out), r) = Img(s, read)[r]
        BY <1>5
      <4>. QED BY <4>3, <4>4, Zenon
    <3>. HIDE DEF now
    <3>. QED BY <1>10, <3>1
  <2>. HIDE DEF now, F
  <2>4. IsImage(s, l, out, d, m)
    BY <1>3, <1>5, <2>3 DEF IsImage
  <2>. QED BY <1>4, <2>1, <2>4
<1>12. CASE o # <<>>
  <2>1. new = Append(out, x)
    BY <1>12 DEF o
  <2>. DEFINE ap == Append(out, x)
  <2>2. /\ Frontiers(ap, Len(ap)) = Frontiers(out, Len(out))
        /\ \A r : NetTo(ap, Len(ap), r) = NetTo(out, Len(out), r) + Net(x.rows, r)
    BY AppendData, Zenon
  <2>. HIDE DEF ap
  <2>3. Frontiers(ap, Len(ap)) = F
    <3>. HIDE DEF F
    <3>. QED BY <1>5, <2>2
  <2>4. \A r \in Rows : NetTo(ap, Len(ap), r) = Img(s, now)[r]
    <3>1. \A r \in Rows : NetTo(ap, Len(ap), r) = NetTo(out, Len(out), r) + Net(o, r)
      BY <2>2 DEF o
    <3>. HIDE DEF now
    <3>. QED BY <1>5, <1>6, <1>8, <3>1
  <2>5. IsImage(s, l, ap, d, m)
    <3>. HIDE DEF now, F
    <3>. QED BY <1>3, <2>3, <2>4 DEF IsImage
  <2>6. ASSUME NEW j \in 0 .. Len(x.rows)
        PROVE  TracedAt(w, a, s + 1,
                   Frontiers(out, Len(out)) \cup (IF x.kind = "frontier" THEN {x.lsn} ELSE {}),
                   [r \in Rows |-> NetTo(out, Len(out), r) + Net(SubSeq(x.rows, 1, j), r)])
    <3>. DEFINE v == [r \in Rows |-> NetTo(out, Len(out), r) + Net(SubSeq(x.rows, 1, j), r)]
    <3>1. PICK i \in 0 .. Len(p) :
             \A r \in Rows : Net(SubSeq(o, 1, j), r) = Img(s, Nets(SubSeq(p, 1, i)))[r]
      BY <1>6 DEF o
    <3>. DEFINE u == SumAt(l, n, at + i)
    <3>2. TracedAt(w, a, s, F, u) /\ \A q \in Rows : u[q] \in Int
      BY <1>9 DEF SumAt
    <3>3. \A r \in Rows : Img(s, u)[r] = Img(s, read)[r] + Img(s, Nets(SubSeq(p, 1, i)))[r]
      BY <1>7
    <3>. HIDE DEF u
    <3>4. \A r \in Rows : v[r] = Img(s, u)[r]
      <4>1. \A r \in Rows : v[r] = NetTo(out, Len(out), r) + Net(SubSeq(o, 1, j), r)
        BY DEF o
      <4>. HIDE DEF v
      <4>. QED BY <1>5, <3>1, <3>3, <4>1
    <3>. HIDE DEF v
    <3>5. TracedAt(w, a, s + 1, F, v)
      BY <3>2, <3>4, Carried
    <3>6. Frontiers(out, Len(out)) \cup (IF x.kind = "frontier" THEN {x.lsn} ELSE {}) = F
      <4>. HIDE DEF F
      <4>. QED BY <1>5
    <3>. HIDE DEF F
    <3>. QED BY <3>5, <3>6 DEF v
  <2>7. Traces(w, a, s + 1, ap)
    <3>1. x.kind = "frontier" => x.rows = <<>>
      OBVIOUS
    <3>. QED BY <3>1, <2>6, TracesGrow DEF ap
  <2>. QED BY <1>4, <2>1, <2>5, <2>7 DEF ap
<1>. QED BY <1>11, <1>12
-----------------------------------------------------------------------------
\* The steps of the transforms preserve the invariant.

\* The logs f with one that is replaced.
Put(f, t, l) == [f EXCEPT ![t] = l]

\* The others stay as they are.
LEMMA PutFacts ==
    ASSUME NEW f, IsLogs(f), NEW t \in Stages, NEW l
    PROVE  /\ IsLogs(Put(f, t, l)) /\ Put(f, t, l)[t] = l
           /\ \A s \in Stages : s # t => Put(f, t, l)[s] = f[s]
<1>. DEFINE g == Put(f, t, l)
<1>1. f = [s \in Stages |-> f[s]]
  BY DEF IsLogs
<1>2. DOMAIN f = Stages
  BY <1>1, Zenon
<1>3. g = [s \in Stages |-> IF s = t THEN l ELSE f[s]]
  BY <1>2 DEF Put
<1>. HIDE DEF g
<1>4. \A s \in Stages : g[s] = IF s = t THEN l ELSE f[s]
  BY <1>3, Zenon
<1>5. g = [s \in Stages |-> g[s]]
  BY <1>3
<1>. QED BY <1>4, <1>5 DEF IsLogs, g

\* What Emit does to the streams.
LEMMA EmitGrows ==
    ASSUME Inv, NEW s \in 0 .. Len(Plan), NEW x \in UnitChunk, x.lsn <= end,
           x.kind = "frontier" <=> x.rows = <<>>, Emit(s, x)
    PROVE  OutputGrows(s) /\ log'[s + 1] = Append(log[s + 1], x)
<1>1. s + 1 \in Stages /\ s + 1 \in Operators
  BY StageSets
<1>2. IsLogs(log) /\ full \in [Operators -> BOOLEAN]
  BY DEF Inv, Types
<1>3. log' = Put(log, s + 1, Append(log[s + 1], x))
  BY Zenon DEF Emit, Put
<1>4. /\ IsLogs(log') /\ log'[s + 1] = Append(log[s + 1], x)
      /\ \A t \in Stages : t # s + 1 => log'[t] = log[t]
  <2>. DEFINE t == s + 1
              l == Append(log[s + 1], x)
  <2>1. t \in Stages /\ log' = Put(log, t, l)
    BY <1>1, <1>3
  <2>. HIDE DEF t, l
  <2>2. /\ IsLogs(Put(log, t, l)) /\ Put(log, t, l)[t] = l
        /\ \A q \in Stages : q # t => Put(log, t, l)[q] = log[q]
    BY <1>2, <2>1, PutFacts
  <2>3. /\ IsLogs(log') /\ log'[t] = l /\ \A q \in Stages : q # t => log'[q] = log[q]
    BY <2>1, <2>2, Zenon
  <2>. QED BY <2>3 DEF t, l
<1>5. full' \in [Operators -> BOOLEAN]
  <2>1. Fills(s) \in BOOLEAN
    BY DEF Fills
  <2>. HIDE DEF Fills
  <2>. QED BY <1>1, <1>2, <2>1 DEF Emit
<1>. QED BY <1>4, <1>5, Zenon DEF OutputGrows

\* What a step that emits nothing does.
LEMMA NothingGrows ==
    ASSUME Inv, NEW s, EmitNothing
    PROVE  OutputGrows(s) /\ log'[s + 1] = log[s + 1]
BY DEF EmitNothing, OutputGrows, Inv, Types

\* What a step does to the cursor and the continuation of its stage.
LEMMA MovesOnly ==
    ASSUME Inv, NEW s \in Stages, NEW to \in [next : Nat, frontier : 0 .. end],
           NEW k \in [phase : Phase, at : Nat, rest : {0}], to.next >= cur[s].next,
           cur' = [cur EXCEPT ![s] = to] \/ (cur' = cur /\ to = cur[s]),
           cont' = [cont EXCEPT ![s] = k] \/ (cont' = cont /\ k = cont[s])
    PROVE  OnlyStage(s) /\ cur'[s] = to /\ cont'[s] = k
<1>1. cur \in [Stages -> [next : Nat, frontier : 0 .. end]] /\ cont \in [Stages -> [phase : Phase, at : Nat, rest : {0}]]
  BY DEF Inv, Types
<1>. DEFINE C == [next : Nat, frontier : 0 .. end]
            K == [phase : Phase, at : Nat, rest : {0}]
<1>2. cur \in [Stages -> C] /\ cont \in [Stages -> K] /\ to \in C /\ k \in K
  BY <1>1
<1>. HIDE DEF C, K
<1>3. cur' \in [Stages -> C] /\ cur'[s] = to /\ \A t \in Stages : t # s => cur'[t] = cur[t]
  BY <1>2
<1>4. cont' \in [Stages -> K] /\ cont'[s] = k /\ \A t \in Stages : t # s => cont'[t] = cont[t]
  BY <1>2
<1>5. cur' \in [Stages -> [next : Nat, frontier : 0 .. end]] /\ cont' \in [Stages -> [phase : Phase, at : Nat, rest : {0}]]
  BY <1>3, <1>4 DEF C, K
<1>6. cur'[s].next >= cur[s].next
  BY <1>3
<1>. QED BY <1>3, <1>4, <1>5, <1>6, Zenon DEF OnlyStage

\* The stages of the transforms in the invariant.
LEMMA TransformFacts ==
    ASSUME Inv, NEW s \in Transforms
    PROVE  /\ s \in Stages /\ s \in Nat /\ s \in 0 .. Len(Plan) /\ s # 0 /\ s # SinkStage /\ s + 1 \in Stages
           /\ wal \in Seq(Change) /\ log[s] \in Seq(UnitChunk) /\ log[s + 1] \in Seq(UnitChunk)
           /\ IsImage(s, log[s], log[s + 1], cur[s], cont[s])
           /\ Passed(log[s], cur[s], cont[s]) /\ IsCursor(log[s], cur[s], cont[s])
           /\ Traces(wal, activation, s, log[s]) /\ Traces(wal, activation, s + 1, log[s + 1])
<1>1. s \in Stages /\ s \in Nat /\ s \in 0 .. Len(Plan) /\ s # 0 /\ s # SinkStage /\ s + 1 \in Stages
      /\ s + 1 # 0
  BY StageSets
<1>2. log[s] \in Seq(UnitChunk) /\ Passed(log[s], cur[s], cont[s]) /\ IsCursor(log[s], cur[s], cont[s])
      /\ Traces(wal, activation, s, log[s])
  BY <1>1, StageFacts
<1>3. log[s + 1] \in Seq(UnitChunk) /\ Traces(wal, activation, s + 1, log[s + 1])
  BY <1>1, StageFacts
<1>4. wal \in Seq(Change) /\ IsImage(s, log[s], log[s + 1], cur[s], cont[s])
  BY DEF Inv, Types, StageLaw
<1>. QED BY <1>1, <1>2, <1>3, <1>4

\* The chunk at a cursor.
LEMMA CursorChunkFacts ==
    ASSUME Inv, NEW s \in Stages, Pending(s)
    PROVE  LET n == cur[s].next - 1
           IN /\ n \in Nat /\ n < Len(log[s]) /\ cur[s].next = n + 1 /\ CursorChunk(s) = log[s][n + 1]
              /\ log[s][n + 1].lsn \in 1 .. MaxCommits + 1 /\ log[s][n + 1].lsn \in 0 .. end
              /\ log[s][n + 1].rows \in Seq(UnitEffect) /\ Len(log[s][n + 1].rows) \in Nat
              /\ log[s][n + 1].kind \in {"data", "frontier"}
              /\ log[s][n + 1].kind = "frontier" <=> log[s][n + 1].rows = <<>>
              /\ cur[s].frontier \in 0 .. end
<1>1. /\ log[s] \in Seq(UnitChunk) /\ Len(log[s]) \in Nat /\ IsLog(log[s], end)
      /\ cur[s].next \in 1 .. Len(log[s]) + 1 /\ cur[s].frontier \in 0 .. end
  BY StageFacts
<1>2. cur[s].next <= Len(log[s])
  BY DEF Pending
<1>. DEFINE n == cur[s].next - 1
            y == log[s][n + 1]
<1>3. n \in Nat /\ n < Len(log[s]) /\ cur[s].next = n + 1 /\ n + 1 \in 1 .. Len(log[s])
  BY <1>1, <1>2
<1>4. CursorChunk(s) = y
  BY <1>3 DEF CursorChunk
<1>5. /\ y.lsn \in 1 .. MaxCommits + 1 /\ y.rows \in Seq(UnitEffect) /\ Len(y.rows) \in Nat
      /\ y.kind \in {"data", "frontier"}
  BY <1>1, <1>3, ChunkFacts
<1>6. y.lsn <= end /\ (y.kind = "frontier" <=> y.rows = <<>>)
  BY <1>1, <1>3 DEF IsLog
<1>7. end \in Nat /\ MaxCommits \in Nat
  BY PlanAssumption DEF Inv, Types
<1>8. y.lsn \in 0 .. end
  BY <1>5, <1>6, <1>7
<1>. QED BY <1>1, <1>3, <1>4, <1>5, <1>6, <1>8

\* A transform that hands a frontier on preserves the invariant.
LEMMA TransformFrontierStep ==
    ASSUME Inv, NEW s \in Transforms, TransformFrontier(s)
    PROVE  Inv'
<1>. DEFINE n == cur[s].next - 1
            y == log[s][n + 1]
            x == Frontier(y.lsn)
            to == [next |-> n + 2, frontier |-> y.lsn]
<1>1. /\ s \in Stages /\ s \in Nat /\ s \in 0 .. Len(Plan) /\ s # 0 /\ s # SinkStage
      /\ wal \in Seq(Change) /\ log[s] \in Seq(UnitChunk) /\ log[s + 1] \in Seq(UnitChunk)
      /\ IsImage(s, log[s], log[s + 1], cur[s], cont[s])
      /\ Traces(wal, activation, s, log[s]) /\ Traces(wal, activation, s + 1, log[s + 1])
  BY TransformFacts
<1>2. /\ Ready(s) /\ Pending(s) /\ CursorChunk(s).kind = "frontier" /\ cont[s] = NoContinuation
      /\ Emit(s, Frontier(CursorChunk(s).lsn))
      /\ MoveTo(s, [next |-> cur[s].next + 1, frontier |-> CursorChunk(s).lsn])
      /\ UNCHANGED <<sourceVars, activation, spool, cont, kept, result>>
  BY DEF TransformFrontier
<1>3. /\ n \in Nat /\ n < Len(log[s]) /\ cur[s].next = n + 1 /\ CursorChunk(s) = y
      /\ y.lsn \in 0 .. end /\ (y.kind = "frontier" <=> y.rows = <<>>)
  BY <1>1, <1>2, CursorChunkFacts
<1>4. y.kind = "frontier" /\ y.rows = <<>>
  BY <1>2, <1>3
<1>. HIDE DEF n, y
<1>5. to.next = n + 2 /\ to.frontier = y.lsn /\ to \in [next : Nat, frontier : 0 .. end]
  BY <1>3
<1>6. /\ x \in UnitChunk /\ x.kind = "frontier" /\ x.rows = <<>> /\ x.lsn = y.lsn
      /\ IsCursor(log[s], to, NoContinuation) /\ Passed(log[s], to, NoContinuation)
      /\ IsImage(s, log[s], Append(log[s + 1], x), to, NoContinuation)
      /\ Traces(wal, activation, s + 1, Append(log[s + 1], x))
  <2>1. IsImage(s, log[s], log[s + 1], cur[s], NoContinuation)
    BY <1>1, <1>2
  <2>2. log[s][n + 1].kind = "frontier" /\ log[s][n + 1].rows = <<>> /\ to.frontier = log[s][n + 1].lsn
    BY <1>4, <1>5 DEF y
  <2>. DEFINE l == log[s]
              out == log[s + 1]
              z == Frontier(l[n + 1].lsn)
  <2>3. StageAt(wal, activation, s, l, out, n, cur[s], NoContinuation)
    BY <1>1, <1>2, <1>3, TransformFacts DEF StageAt
  <2>4. l[n + 1].kind = "frontier" /\ l[n + 1].rows = <<>> /\ to.next = n + 2 /\ to.frontier = l[n + 1].lsn
    BY <1>5, <2>2
  <2>. HIDE DEF to, l, out
  <2>6. /\ z \in UnitChunk /\ z.kind = "frontier" /\ z.rows = <<>> /\ z.lsn = l[n + 1].lsn
        /\ IsCursor(l, to, NoContinuation) /\ Passed(l, to, NoContinuation)
        /\ IsImage(s, l, Append(out, z), to, NoContinuation)
        /\ Traces(wal, activation, s + 1, Append(out, z))
    BY <2>3, <2>4, HandedOn
  <2>5. x = z /\ y = l[n + 1]
    BY DEF y, l
  <2>. HIDE DEF x, z
  <2>. QED BY <2>5, <2>6 DEF l, out
<1>. HIDE DEF x, to
<1>7. Emit(s, x) /\ cur' = [cur EXCEPT ![s] = to] /\ x.lsn <= end
  <2>1. x = Frontier(CursorChunk(s).lsn) /\ to = [next |-> cur[s].next + 1, frontier |-> CursorChunk(s).lsn]
    BY <1>3 DEF x, to
  <2>. QED BY <1>2, <1>3, <1>6, <2>1 DEF MoveTo
<1>8. OutputGrows(s) /\ log'[s + 1] = Append(log[s + 1], x)
  BY <1>1, <1>6, <1>7, EmitGrows
<1>9. OnlyStage(s) /\ cur'[s] = to /\ cont'[s] = cont[s]
  <2>1. cont[s] \in [phase : Phase, at : Nat, rest : {0}] /\ to.next >= cur[s].next
    BY <1>1, <1>3, <1>5 DEF Inv, Types
  <2>2. cont' = cont
    BY <1>2
  <2>. QED BY <1>1, <1>5, <1>7, <2>1, <2>2, MovesOnly
<1>10. activation # 0 /\ UNCHANGED <<wal, sent, end, published, activation, kept, result, spool>>
  BY <1>2 DEF Ready, sourceVars
<1>11. \A i \in DOMAIN spool' : i \in Nat /\ spool'[i] \in Rows
  BY <1>10 DEF Inv, Types
<1>. QED BY <1>1, <1>2, <1>6, <1>8, <1>9, <1>10, <1>11, Frame

\* The page of a data step.
LEMMA DataStepFacts ==
    ASSUME Inv, NEW s \in Stages, s # SinkStage, DataStep(s)
    PROVE  LET n == cur[s].next - 1
               y == log[s][n + 1]
               left == SubSeq(y.rows, cont[s].at + 1, Len(y.rows))
               p == SubSeq(left, 1, PrefixLength(s, left))
               o == PassingRows(s, p)
           IN /\ n \in Nat /\ n < Len(log[s]) /\ cur[s].next = n + 1 /\ y.kind = "data"
              /\ CursorChunk(s) = y /\ cont[s].phase \in {"none", "data"} /\ AtOf(cont[s]) = cont[s].at
              /\ y.lsn \in 0 .. end /\ y.lsn \in 1 .. MaxCommits + 1
              /\ p \in Seq(UnitEffect) /\ Len(p) \in Nat \ {0} /\ TakenOf(p, y.rows, cont[s].at)
              /\ \A i \in 1 .. Len(p) : p[i] = y.rows[cont[s].at + i]
              /\ IF o = <<>> THEN EmitNothing ELSE Emit(s, Data(y.lsn, o))
              /\ IF cont[s].at + Len(p) = Len(y.rows)
                 THEN /\ MoveTo(s, [next |-> cur[s].next + 1, frontier |-> cur[s].frontier])
                      /\ SetContinuation(s,
                            IF s = 0 /\ source_frontier_after_chunk # 0
                            THEN Continuation("source_frontier", source_frontier_after_chunk, 0)
                            ELSE NoContinuation)
                 ELSE SetContinuation(s, Continuation("data", cont[s].at + Len(p), 0)) /\ UNCHANGED cur
              /\ activation # 0 /\ UNCHANGED <<sourceVars, activation, spool, kept, result>>
<1>. DEFINE n == cur[s].next - 1
            y == log[s][n + 1]
            at == cont[s].at
            left == SubSeq(y.rows, at + 1, Len(y.rows))
            p == SubSeq(left, 1, PrefixLength(s, left))
            o == PassingRows(s, p)
<1>1. Ready(s) /\ Pending(s) /\ CursorChunk(s).kind = "data" /\ cont[s].phase \in {"none", "data"}
  BY DEF DataStep
<1>2. /\ n \in Nat /\ n < Len(log[s]) /\ cur[s].next = n + 1 /\ CursorChunk(s) = y
      /\ y.lsn \in 1 .. MaxCommits + 1 /\ y.lsn \in 0 .. end
      /\ y.rows \in Seq(UnitEffect) /\ Len(y.rows) \in Nat /\ (y.kind = "frontier" <=> y.rows = <<>>)
  BY <1>1, CursorChunkFacts
<1>3. IsCursor(log[s], cur[s], cont[s]) /\ at \in Nat
  BY StageFacts
<1>4. y.kind = "data" /\ y.rows # <<>>
  <2>1. y.kind = "data"
    BY <1>1, <1>2
  <2>. HIDE DEF y
  <2>. QED BY <1>2, <2>1
<1>5. at < Len(y.rows) /\ AtOf(cont[s]) = at
  <2>1. CASE cont[s].phase = "data"
    <3>1. at < Len(log[s][cur[s].next].rows)
      BY <1>3, <2>1 DEF IsCursor
    <3>2. AtOf(cont[s]) = at
      BY <2>1 DEF AtOf
    <3>. QED BY <1>2, <3>1, <3>2
  <2>2. CASE cont[s].phase = "none"
    <3>1. cont[s] = NoContinuation
      BY <1>3, <2>2 DEF IsCursor
    <3>2. at = 0 /\ AtOf(cont[s]) = 0
      BY <3>1 DEF NoContinuation, Continuation, AtOf
    <3>3. Len(y.rows) # 0
      <4>. HIDE DEF y
      <4>. QED BY <1>2, <1>4, EmptySeq
    <3>. QED BY <1>2, <3>2, <3>3
  <2>. QED BY <1>1, <2>1, <2>2
<1>. DEFINE e == y.rows
<1>6. e \in Seq(UnitEffect) /\ at \in 0 .. Len(e) /\ 0 \in 0 .. Len(e) - at /\ Len(e) \in Nat
  BY <1>2, <1>3, <1>5, SMTT(30)
<1>7. left = SubSeq(e, at + 1, Len(e))
  OBVIOUS
<1>8. left \in Seq(UnitEffect) /\ Len(left) = Len(e) - at
  <2>. HIDE DEF e, at, left
  <2>. QED BY <1>6, <1>7, PageOf
<1>9. PrefixLength(s, left) \in 1 .. Len(left)
  <2>1. Len(left) # 0
    BY <1>5, <1>6, <1>8
  <2>. HIDE DEF left
  <2>. QED BY <1>8, <2>1, PrefixLengthType
<1>10. /\ p \in Seq(UnitEffect) /\ Len(p) = PrefixLength(s, left) /\ TakenOf(p, e, at)
       /\ \A i \in 1 .. Len(p) : p[i] = e[at + i]
  <2>. DEFINE h == PrefixLength(s, left)
  <2>1. h \in 0 .. Len(e) - at
    <3>. HIDE DEF left
    <3>. QED BY <1>6, <1>8, <1>9
  <2>2. p = SubSeq(SubSeq(e, at + 1, Len(e)), 1, h)
    OBVIOUS
  <2>. HIDE DEF e, at, h, p
  <2>3. /\ p \in Seq(UnitEffect) /\ Len(p) = h /\ TakenOf(p, e, at)
        /\ \A i \in 1 .. h : p[i] = e[at + i]
    BY <1>6, <2>1, <2>2, PageOf
  <2>. QED BY <2>3 DEF h
<1>11. Len(p) \in Nat \ {0}
  <2>. HIDE DEF p, left, e, at
  <2>. QED BY <1>6, <1>8, <1>9, <1>10
<1>12. /\ IF o = <<>> THEN EmitNothing ELSE Emit(s, Data(y.lsn, o))
       /\ IF at + Len(p) = Len(y.rows)
          THEN /\ MoveTo(s, [next |-> cur[s].next + 1, frontier |-> cur[s].frontier])
               /\ SetContinuation(s,
                     IF s = 0 /\ source_frontier_after_chunk # 0
                     THEN Continuation("source_frontier", source_frontier_after_chunk, 0)
                     ELSE NoContinuation)
          ELSE SetContinuation(s, Continuation("data", at + Len(p), 0)) /\ UNCHANGED cur
       /\ UNCHANGED <<sourceVars, activation, spool, kept, result>>
  <2>. DEFINE z == CursorChunk(s)
              zleft == SubSeq(z.rows, cont[s].at + 1, Len(z.rows))
              zn == PrefixLength(s, zleft)
              zo == PassingRows(s, SubSeq(zleft, 1, zn))
  <2>1. /\ IF zo = <<>> THEN EmitNothing ELSE Emit(s, Data(z.lsn, zo))
        /\ IF ChunkDone(s, cont[s].at + zn)
           THEN /\ MoveTo(s, [next |-> cur[s].next + 1, frontier |-> cur[s].frontier])
                /\ SetContinuation(s,
                      IF s = 0 /\ source_frontier_after_chunk # 0
                      THEN Continuation("source_frontier", source_frontier_after_chunk, 0)
                      ELSE NoContinuation)
           ELSE SetContinuation(s, Continuation("data", cont[s].at + zn, 0)) /\ UNCHANGED cur
        /\ UNCHANGED <<sourceVars, activation, spool, kept, result>>
    BY Zenon DEF DataStep
  <2>2. z = y
    BY <1>2
  <2>3. zleft = left /\ zn = PrefixLength(s, left) /\ zo = o /\ zn = Len(p)
    <3>1. zleft = left
      BY <2>2, Zenon
    <3>. HIDE DEF zleft, left
    <3>2. zn = PrefixLength(s, left) /\ zo = o
      BY <3>1, Zenon
    <3>3. Len(p) = PrefixLength(s, left)
      BY <1>10
    <3>. HIDE DEF zn, zo, p, o
    <3>. QED BY <3>1, <3>2, <3>3, Zenon DEF zleft
  <2>4. ChunkDone(s, cont[s].at + zn) <=> at + Len(p) = Len(y.rows)
    <3>. HIDE DEF zn, p, y
    <3>. QED BY <1>2, <2>3 DEF ChunkDone
  <2>. HIDE DEF z, zleft, zn, zo, p, o, y, left
  <2>. QED BY <2>1, <2>2, <2>3, <2>4, Zenon
<1>13. activation # 0
  BY <1>1 DEF Ready
<1>. HIDE DEF p, o, left
<1>14. /\ n \in Nat /\ n < Len(log[s]) /\ cur[s].next = n + 1 /\ y.kind = "data"
       /\ CursorChunk(s) = y /\ cont[s].phase \in {"none", "data"} /\ AtOf(cont[s]) = cont[s].at
       /\ y.lsn \in 0 .. end /\ y.lsn \in 1 .. MaxCommits + 1
  BY <1>1, <1>2, <1>4, <1>5
<1>15. p \in Seq(UnitEffect) /\ Len(p) \in Nat \ {0} /\ TakenOf(p, y.rows, cont[s].at)
       /\ \A i \in 1 .. Len(p) : p[i] = y.rows[cont[s].at + i]
  BY <1>10, <1>11
<1>. HIDE DEF y, n, at
<1>. QED BY <1>12, <1>13, <1>14, <1>15, Zenon DEF p, o, left, y, n, at

\* A data chunk.
LEMMA DataChunk ==
    ASSUME NEW lsn \in 1 .. MaxCommits + 1, NEW rows \in Seq(UnitEffect)
    PROVE  /\ Data(lsn, rows) \in UnitChunk /\ Data(lsn, rows).kind = "data"
           /\ Data(lsn, rows).lsn = lsn /\ Data(lsn, rows).rows = rows
<1>. HIDE DEF UnitEffect
<1>. QED BY DEF Data, UnitChunk

\* A transform that transforms a page preserves the invariant.
LEMMA TransformDataStep ==
    ASSUME Inv, NEW s \in Transforms, DataStep(s)
    PROVE  Inv'
<1>. DEFINE n == cur[s].next - 1
            y == log[s][n + 1]
            k == cont[s]
            left == SubSeq(y.rows, cont[s].at + 1, Len(y.rows))
            p == SubSeq(left, 1, PrefixLength(s, left))
            o == PassingRows(s, p)
            x == Data(y.lsn, o)
            done == k.at + Len(p) = Len(y.rows)
            d == IF done THEN [next |-> n + 2, frontier |-> cur[s].frontier] ELSE cur[s]
            m == IF done THEN NoContinuation ELSE Continuation("data", k.at + Len(p), 0)
            new == IF o = <<>> THEN log[s + 1] ELSE Append(log[s + 1], x)
<1>1. /\ s \in Stages /\ s \in Nat /\ s \in 0 .. Len(Plan) /\ s # 0 /\ s # SinkStage
      /\ wal \in Seq(Change) /\ log[s] \in Seq(UnitChunk) /\ log[s + 1] \in Seq(UnitChunk)
      /\ IsImage(s, log[s], log[s + 1], cur[s], cont[s]) /\ Passed(log[s], cur[s], cont[s])
      /\ Traces(wal, activation, s, log[s]) /\ Traces(wal, activation, s + 1, log[s + 1])
  BY TransformFacts
<1>2. /\ n \in Nat /\ n < Len(log[s]) /\ cur[s].next = n + 1 /\ y.kind = "data"
      /\ k.phase \in {"none", "data"} /\ AtOf(k) = k.at
      /\ y.lsn \in 0 .. end /\ y.lsn \in 1 .. MaxCommits + 1
      /\ p \in Seq(UnitEffect) /\ Len(p) \in Nat \ {0} /\ TakenOf(p, y.rows, k.at)
      /\ IF o = <<>> THEN EmitNothing ELSE Emit(s, x)
      /\ IF done
         THEN /\ MoveTo(s, [next |-> cur[s].next + 1, frontier |-> cur[s].frontier])
              /\ SetContinuation(s,
                    IF s = 0 /\ source_frontier_after_chunk # 0
                    THEN Continuation("source_frontier", source_frontier_after_chunk, 0)
                    ELSE NoContinuation)
         ELSE SetContinuation(s, Continuation("data", k.at + Len(p), 0)) /\ UNCHANGED cur
      /\ activation # 0 /\ UNCHANGED <<sourceVars, activation, spool, kept, result>>
  BY <1>1, DataStepFacts, Zenon
<1>3. o \in Seq(UnitEffect)
  <2>. HIDE DEF p
  <2>. QED BY <1>2, PassingFacts
<1>. HIDE DEF p, o, left
<1>4. /\ k.at \in Nat /\ cur[s].frontier \in 0 .. end /\ cur[s] = [next |-> n + 1, frontier |-> cur[s].frontier]
      /\ end \in Nat /\ k \in [phase : Phase, at : Nat, rest : {0}]
  <2>1. k.at \in Nat /\ cur[s].frontier \in 0 .. end /\ cur[s] = [next |-> cur[s].next, frontier |-> cur[s].frontier]
    BY <1>1, StageFacts
  <2>2. cur[s] = [next |-> n + 1, frontier |-> cur[s].frontier]
    <3>. HIDE DEF n
    <3>. QED BY <1>2, <2>1
  <2>3. end \in Nat /\ k \in [phase : Phase, at : Nat, rest : {0}]
    BY <1>1, PlanAssumption DEF Inv, Types
  <2>. QED BY <2>1, <2>2, <2>3
<1>. HIDE DEF n
<1>5. /\ d \in [next : Nat, frontier : 0 .. end] /\ d.next >= cur[s].next
      /\ m \in [phase : Phase, at : Nat, rest : {0}] /\ m.phase \in {"none", "data"}
      /\ Moved(log[s], n, k.at + Len(p), cur[s], d, m)
      /\ m.phase # "data" => m = NoContinuation
  <2>. HIDE DEF k
  <2>1. CASE done
    <3>1. d = [next |-> n + 2, frontier |-> cur[s].frontier] /\ m = NoContinuation
      BY <2>1
    <3>2. m = [phase |-> "none", at |-> 0, rest |-> 0]
      BY <3>1 DEF NoContinuation, Continuation
    <3>3. d.next = n + 2 /\ d.frontier = cur[s].frontier
      BY <3>1
    <3>4. d \in [next : Nat, frontier : 0 .. end] /\ d.next >= cur[s].next
      BY <1>2, <1>4, <3>1
    <3>5. m \in [phase : Phase, at : Nat, rest : {0}] /\ m.phase = "none"
      BY <3>2 DEF Phase
    <3>. HIDE DEF d, m, y
    <3>6. k.at + Len(p) = Len(log[s][n + 1].rows)
      BY <2>1 DEF y
    <3>. QED BY <3>1, <3>3, <3>4, <3>5, <3>6 DEF Moved
  <2>2. CASE ~done
    <3>1. d = cur[s] /\ m = Continuation("data", k.at + Len(p), 0)
      BY <2>2
    <3>2. m = [phase |-> "data", at |-> k.at + Len(p), rest |-> 0]
      BY <3>1 DEF Continuation
    <3>3. d \in [next : Nat, frontier : 0 .. end] /\ d.next >= cur[s].next
      BY <1>2, <1>4, <3>1
    <3>4. m \in [phase : Phase, at : Nat, rest : {0}] /\ m.phase = "data"
      BY <1>2, <1>4, <3>2 DEF Phase
    <3>. HIDE DEF d, m, y
    <3>5. k.at + Len(p) # Len(log[s][n + 1].rows)
      BY <2>2 DEF y
    <3>. QED BY <3>1, <3>3, <3>4, <3>5 DEF Moved
  <2>. QED BY <2>1, <2>2
<1>6. OnlyStage(s) /\ cur'[s] = d /\ cont'[s] = m
  <2>1. cur' = [cur EXCEPT ![s] = d] \/ (cur' = cur /\ d = cur[s])
    <3>1. CASE done
      <4>1. d = [next |-> n + 2, frontier |-> cur[s].frontier] /\ cur[s].next + 1 = n + 2
        BY <1>2, <3>1
      <4>2. cur' = [cur EXCEPT ![s] = [next |-> cur[s].next + 1, frontier |-> cur[s].frontier]]
        BY <1>2, <3>1, Zenon DEF MoveTo
      <4>. QED BY <4>1, <4>2
    <3>2. CASE ~done
      BY <1>2, <3>2
    <3>. QED BY <3>1, <3>2
  <2>2. cont' = [cont EXCEPT ![s] = m]
    <3>1. CASE done
      <4>1. SetContinuation(s, NoContinuation)
        BY <1>1, <1>2, <3>1
      <4>. QED BY <3>1, <4>1 DEF SetContinuation
    <3>2. CASE ~done
      BY <1>2, <3>2 DEF SetContinuation
    <3>. QED BY <3>1, <3>2
  <2>. HIDE DEF d, m
  <2>. QED BY <1>1, <1>5, <2>1, <2>2, MovesOnly
<1>7. x \in UnitChunk /\ x.kind = "data" /\ x.lsn = y.lsn /\ x.rows = o
  <2>. HIDE DEF y
  <2>. QED BY <1>2, <1>3, DataChunk
<1>8. OutputGrows(s) /\ log'[s + 1] = new
  <2>1. CASE o = <<>>
    <3>1. EmitNothing
      BY <1>2, <2>1
    <3>2. OutputGrows(s) /\ log'[s + 1] = log[s + 1]
      BY <3>1, NothingGrows
    <3>. QED BY <2>1, <3>2
  <2>2. CASE o # <<>>
    <3>1. Emit(s, x) /\ x.lsn <= end /\ (x.kind = "frontier" <=> x.rows = <<>>)
      <4>. HIDE DEF x, y
      <4>. QED BY <1>2, <1>4, <1>7, <2>2
    <3>. HIDE DEF x
    <3>2. OutputGrows(s) /\ log'[s + 1] = Append(log[s + 1], x)
      BY <1>1, <1>7, <3>1, EmitGrows
    <3>. QED BY <2>2, <3>2
  <2>. QED BY <2>1, <2>2
<1>. HIDE DEF d, m, x
<1>9. /\ Passed(log[s], d, m) /\ IsImage(s, log[s], new, d, m)
      /\ Traces(wal, activation, s + 1, new)
  <2>. DEFINE l == log[s]
              out == log[s + 1]
  <2>1. StageAt(wal, activation, s, l, out, n, cur[s], k)
    BY <1>1, <1>2 DEF StageAt
  <2>2. l[n + 1].kind = "data" /\ AtOf(k) \in Nat /\ TakenOf(p, l[n + 1].rows, AtOf(k))
        /\ Moved(l, n, AtOf(k) + Len(p), cur[s], d, m)
    BY <1>2, <1>4, <1>5
  <2>3. x.rows = PassingRows(s, p) /\ new = IF x.rows = <<>> THEN out ELSE Append(out, x)
    BY <1>7 DEF o
  <2>. HIDE DEF l, out, new, k
  <2>4. PageRead(l, n, cur[s], k, p, d, m)
    BY <1>2, <1>5, <2>2, Zenon DEF PageRead
  <2>5. ImageWritten(s, p, x, out, new)
    BY <1>7, <2>3, Zenon DEF ImageWritten
  <2>6. Passed(l, d, m) /\ IsImage(s, l, new, d, m) /\ Traces(wal, activation, s + 1, new)
    BY <2>1, <2>4, <2>5, Transformed, Zenon
  <2>. QED BY <2>6 DEF l
<1>10. IsCursor(log[s], d, m)
  <2>. DEFINE l == log[s]
  <2>1. /\ l \in Seq(UnitChunk) /\ n \in Nat /\ n < Len(l) /\ l[n + 1].kind = "data"
        /\ k.at + Len(p) \in 0 .. Len(l[n + 1].rows) /\ cur[s].next = n + 1
        /\ Moved(l, n, k.at + Len(p), cur[s], d, m)
    <3>1. k.at + Len(p) <= Len(y.rows) /\ Len(y.rows) \in Nat
      <4>1. n + 1 \in 1 .. Len(log[s]) /\ Len(log[s]) \in Nat
        BY <1>1, <1>2, ChunkFacts
      <4>2. Len(y.rows) \in Nat
        BY <1>1, <4>1, ChunkFacts
      <4>. HIDE DEF y
      <4>. QED BY <1>2, <4>2 DEF TakenOf
    <3>2. k.at + Len(p) \in Nat
      <4>. HIDE DEF k
      <4>. QED BY <1>2, <1>4
    <3>. QED BY <1>1, <1>2, <1>5, <3>1, <3>2
  <2>. HIDE DEF l, k
  <2>2. d.next \in 1 .. Len(l) + 1 /\ (m.phase = "data" => IsCursor(l, d, m))
    BY <2>1, MovedFacts
  <2>3. m.phase # "data" => IsCursor(l, d, m)
    BY <1>5, <2>2 DEF IsCursor
  <2>. QED BY <2>2, <2>3 DEF l
<1>11. activation # 0 /\ UNCHANGED <<wal, sent, end, published, activation, kept, result, spool>>
  BY <1>2 DEF sourceVars
<1>12. \A i \in DOMAIN spool' : i \in Nat /\ spool'[i] \in Rows
  BY <1>11 DEF Inv, Types
<1>. HIDE DEF new
<1>. QED BY <1>1, <1>6, <1>8, <1>9, <1>10, <1>11, <1>12, Frame
-----------------------------------------------------------------------------
\* The commits: what an LSN covers, and how the table changes.

\* A set of positions behind p that holds each one below one it holds is an
\* interval.
LEMMA Downward ==
    ASSUME NEW p \in Nat, NEW n \in Nat, NEW S \in SUBSET (p + 1 .. n),
           \A i \in S : \A j \in p + 1 .. i : j \in S
    PROVE  /\ Cardinality(S) \in Nat /\ S = p + 1 .. p + Cardinality(S)
           /\ S # {} => p + Cardinality(S) <= n
<1>1. CASE S = {}
  <2>1. Cardinality(S) = 0
    BY <1>1, FS_EmptySet
  <2>2. p + 1 .. p + 0 = {}
    OBVIOUS
  <2>. QED BY <1>1, <2>1, <2>2
<1>2. CASE S # {}
  <2>. DEFINE m == Max(S)
  <2>1. m \in S /\ \A i \in S : m >= i
    <3>1. S \in SUBSET Nat /\ \A i \in S : i <= n
      OBVIOUS
    <3>. QED BY <1>2, <3>1, MaxOfNats
  <2>. HIDE DEF m
  <2>2. m \in p + 1 .. n /\ S = p + 1 .. m
    <3>1. m \in p + 1 .. n /\ \A j \in p + 1 .. m : j \in S
      BY <2>1
    <3>2. \A j \in S : j \in p + 1 .. m
      <4>1. \A j \in S : j \in p + 1 .. n
        OBVIOUS
      <4>. QED BY <2>1, <3>1, <4>1
    <3>. QED BY <3>1, <3>2
  <2>3. Cardinality(p + 1 .. m) = m - p
    <3>1. Cardinality(p + 1 .. m) = m - (p + 1) + 1
      BY <2>2, FS_Interval
    <3>. QED BY <2>2, <3>1
  <2>. QED BY <2>2, <2>3
<1>. QED BY <1>1, <1>2

\* The fields of a commit.
LEMMA WalElements ==
    ASSUME NEW w \in Seq(Change)
    PROVE  /\ Len(w) \in Nat /\ DOMAIN w = 1 .. Len(w)
           /\ \A i \in 1 .. Len(w) : /\ w[i] \in Change /\ w[i].lsn \in 2 .. MaxCommits + 1
                                     /\ w[i].lsn \in Nat /\ w[i].row \in Rows /\ w[i].w \in {-1, 1}
<1>1. Len(w) \in Nat /\ DOMAIN w = 1 .. Len(w) /\ \A i \in 1 .. Len(w) : w[i] \in Change
  BY ElementOfSeq
<1>2. \A x \in Change : x.lsn \in 2 .. MaxCommits + 1 /\ x.lsn \in Nat /\ x.row \in Rows /\ x.w \in {-1, 1}
  BY PlanAssumption DEF Change
<1>. QED BY <1>1, <1>2

\* An LSN covers the commits at or below it, and they come first.
LEMMA Covered ==
    ASSUME NEW w \in Seq(Change), NEW e, IsWal(w, e), NEW f \in Int
    PROVE  /\ UpToOf(w, f) \in 0 .. Len(w)
           /\ \A i \in 1 .. Len(w) : w[i].lsn <= f <=> i <= UpToOf(w, f)
<1>. DEFINE S == {i \in DOMAIN w : w[i].lsn <= f}
<1>1. Len(w) \in Nat /\ DOMAIN w = 1 .. Len(w) /\ \A i \in 1 .. Len(w) : w[i].lsn \in Nat
  BY WalElements
<1>2. \A i, j \in 1 .. Len(w) : i < j => w[i].lsn <= w[j].lsn
  BY DEF IsWal
<1>3. S \in SUBSET (0 + 1 .. Len(w)) /\ \A i \in S : \A j \in 0 + 1 .. i : j \in S
  <2>1. \A i \in S : i \in 1 .. Len(w) /\ w[i].lsn <= f
    BY <1>1
  <2>2. ASSUME NEW i \in S, NEW j \in 1 .. i PROVE j \in S
    <3>1. i \in 1 .. Len(w) /\ w[i].lsn <= f /\ j \in 1 .. Len(w)
      BY <1>1, <2>1
    <3>2. w[j].lsn <= w[i].lsn
      BY <1>1, <1>2, <3>1
    <3>3. w[j].lsn <= f
      BY <1>1, <3>1, <3>2
    <3>. QED BY <1>1, <3>1, <3>3
  <2>3. 0 + 1 = 1
    OBVIOUS
  <2>. HIDE DEF S
  <2>. QED BY <2>1, <2>2, <2>3
<1>4. Cardinality(S) \in Nat /\ S = 1 .. Cardinality(S)
  <2>. HIDE DEF S
  <2>1. Cardinality(S) \in Nat /\ S = 0 + 1 .. 0 + Cardinality(S)
    BY <1>1, <1>3, Downward
  <2>. QED BY <2>1
<1>5. UpToOf(w, f) = Cardinality(S)
  BY DEF UpToOf
<1>6. \A i \in 1 .. Len(w) : w[i].lsn <= f <=> i \in S
  BY <1>1
<1>7. UpToOf(w, f) \in 0 .. Len(w)
  BY UpToType
<1>. HIDE DEF S
<1>. QED BY <1>1, <1>4, <1>5, <1>6, <1>7

\* A later LSN covers no less.
LEMMA CoversMore ==
    ASSUME NEW w \in Seq(Change), NEW e, IsWal(w, e), NEW f \in Int, NEW g \in Int, f <= g
    PROVE  UpToOf(w, f) <= UpToOf(w, g)
<1>. DEFINE n == UpToOf(w, f)
            m == UpToOf(w, g)
<1>1. n \in 0 .. Len(w) /\ \A i \in 1 .. Len(w) : w[i].lsn <= f <=> i <= n
  BY Covered
<1>2. m \in 0 .. Len(w) /\ \A i \in 1 .. Len(w) : w[i].lsn <= g <=> i <= m
  BY Covered
<1>3. Len(w) \in Nat /\ \A i \in 1 .. Len(w) : w[i].lsn \in Nat
  BY WalElements
<1>. SUFFICES n <= m
  OBVIOUS
<1>. HIDE DEF n, m
<1>a. n \in Nat /\ m \in Nat
  BY <1>1, <1>2, <1>3
<1>4. CASE n = 0
  BY <1>a, <1>4
<1>5. CASE n # 0
  <2>1. n \in 1 .. Len(w) /\ w[n].lsn <= f
    BY <1>1, <1>3, <1>5
  <2>2. w[n].lsn <= g
    <3>1. w[n].lsn \in Nat
      BY <1>3, <2>1
    <3>. QED BY <2>1, <3>1
  <2>3. n <= m
    BY <1>2, <2>1, <2>2, Zenon
  <2>. QED BY <2>3
<1>. QED BY <1>4, <1>5

\* The table as effects.
LEMMA TableAsEffects ==
    ASSUME NEW w \in Seq(Change)
    PROVE  /\ Effects(w) \in Seq(UnitEffect) /\ Len(Effects(w)) = Len(w)
           /\ \A i \in 1 .. Len(w) : Effects(w)[i] = [row |-> w[i].row, w |-> w[i].w]
           /\ \A p \in 0 .. Len(w) : \A r \in Rows : TableOf(w, p)[r] = Net(SubSeq(Effects(w), 1, p), r)
<1>. DEFINE e == Effects(w)
<1>1. Len(w) \in Nat /\ DOMAIN w = 1 .. Len(w) /\ w \in Seq(Change)
      /\ \A i \in 1 .. Len(w) : w[i].row \in Rows /\ w[i].w \in {-1, 1}
  BY WalElements
<1>2. e = [i \in 1 .. Len(w) |-> [row |-> w[i].row, w |-> w[i].w]]
  BY <1>1 DEF Effects
<1>3. \A i \in 1 .. Len(w) : [row |-> w[i].row, w |-> w[i].w] \in UnitEffect
  BY <1>1 DEF UnitEffect
<1>. HIDE DEF e
<1>4. e \in Seq(UnitEffect) /\ Len(e) = Len(w) /\ \A i \in 1 .. Len(w) : e[i] = [row |-> w[i].row, w |-> w[i].w]
  <2>1. e \in [1 .. Len(w) -> UnitEffect] /\ \A i \in 1 .. Len(w) : e[i] = [row |-> w[i].row, w |-> w[i].w]
    <3>. HIDE DEF UnitEffect
    <3>. QED BY <1>2, <1>3
  <2>2. e \in Seq(UnitEffect)
    BY <1>1, <2>1, SeqDef
  <2>3. Len(e) = Len(w)
    BY <1>1, <2>1, <2>2, LenProperties
  <2>. QED BY <2>1, <2>2, <2>3
<1>5. ASSUME NEW p \in 0 .. Len(w), NEW r \in Rows
      PROVE  TableOf(w, p)[r] = Net(SubSeq(e, 1, p), r)
  <2>. DEFINE a == SubSeq(w, 1, p)
              b == SubSeq(e, 1, p)
  <2>1. a \in Seq(Change) /\ Len(a) = p /\ DOMAIN a = 1 .. p /\ \A i \in 1 .. p : a[i] = w[i]
    <3>. HIDE DEF Change
    <3>. QED BY <1>1
  <2>2. Len(b) = p /\ \A i \in 1 .. p : b[i] = e[i]
    BY <1>4, UnitPrefix
  <2>3. b \in Seq(UnitEffect)
    BY <1>4, UnitPrefix
  <2>4. DOMAIN b = 1 .. p
    BY <2>2, <2>3, UnitSeq
  <2>. HIDE DEF a, b
  <2>5. \A i \in 1 .. p : b[i].row = a[i].row /\ b[i].w = a[i].w
    <3>1. SUFFICES ASSUME NEW i \in 1 .. p PROVE b[i].row = a[i].row /\ b[i].w = a[i].w
      OBVIOUS
    <3>2. i \in 1 .. Len(w)
      BY <1>1
    <3>3. b[i] = [row |-> w[i].row, w |-> w[i].w] /\ a[i] = w[i]
      BY <1>4, <2>1, <2>2, <3>2
    <3>. QED BY <3>3
  <2>6. NetTerms(a, r) = NetTerms(b, r)
    BY <2>1, <2>4, <2>5 DEF NetTerms
  <2>7. Net(a, r) = Net(b, r)
    BY <2>6, Zenon DEF Net, NetTerms
  <2>. QED BY <2>7 DEF TableOf, a, b
<1>. QED BY <1>4, <1>5 DEF e

\* A part of the commits as effects.
CommitsOf(p, w, k) ==
    /\ p \in Seq(UnitEffect) /\ k \in Nat /\ k + Len(p) <= Len(w)
    /\ \A i \in 1 .. Len(p) : p[i] = [row |-> w[k + i].row, w |-> w[k + i].w]

\* What the table is after some of them.
LEMMA TableOn ==
    ASSUME NEW w \in Seq(Change), NEW p, NEW k, CommitsOf(p, w, k),
           NEW j \in 0 .. Len(p), NEW r \in Rows
    PROVE  /\ k + j \in 0 .. Len(w) /\ TableOf(w, k)[r] \in Int
           /\ TableOf(w, k + j)[r] = TableOf(w, k)[r] + Net(SubSeq(p, 1, j), r)
<1>. DEFINE e == Effects(w)
<1>1. /\ e \in Seq(UnitEffect) /\ Len(e) = Len(w)
      /\ \A i \in 1 .. Len(w) : e[i] = [row |-> w[i].row, w |-> w[i].w]
      /\ \A q \in 0 .. Len(w) : TableOf(w, q)[r] = Net(SubSeq(e, 1, q), r)
  BY TableAsEffects
<1>. HIDE DEF e
<1>2. /\ p \in Seq(UnitEffect) /\ k \in Nat /\ k + Len(p) <= Len(w) /\ Len(p) \in Nat /\ Len(w) \in Nat
      /\ \A i \in 1 .. Len(p) : p[i] = [row |-> w[k + i].row, w |-> w[k + i].w]
  BY UnitSeq, WalElements DEF CommitsOf
<1>3. TakenOf(p, e, k)
  <2>1. \A i \in 1 .. Len(p) : k + i \in 1 .. Len(w)
    BY <1>2
  <2>2. \A i \in 1 .. Len(p) : p[i] = e[k + i]
    BY <1>1, <1>2, <2>1, Zenon
  <2>. QED BY <1>1, <1>2, <2>2 DEF TakenOf
<1>4. Net(SubSeq(e, 1, k + j), r) = Net(SubSeq(e, 1, k), r) + Net(SubSeq(p, 1, j), r)
  BY <1>1, <1>2, <1>3, PrefixOn
<1>5. k \in 0 .. Len(w) /\ k + j \in 0 .. Len(w)
  BY <1>2
<1>6. TableOf(w, k)[r] \in Int
  BY <1>5, TableType
<1>. QED BY <1>1, <1>4, <1>5, <1>6
-----------------------------------------------------------------------------
\* What the Scan has read of the source, and what it has written.

\* The Scan, its source stream l, its output, and the snapshot sp.
ScanAt(w, e, n, a, sp, l, out, c, k) ==
    /\ w \in Seq(Change) /\ IsWal(w, e) /\ n \in 0 .. Len(w) /\ a \in Nat
    /\ IsLog(l, e) /\ Sourced(w, l, n) /\ IsCursor(l, c, k)
    /\ out \in Seq(UnitChunk) /\ Traces(w, a, 1, out)
    /\ AtOf(k) \in Nat /\ c.frontier \in Nat /\ IsScan(w, a, sp, l, out, c, k)

\* A reader of the source stands at a commit.
LEMMA SourcePlace ==
    ASSUME NEW w \in Seq(Change), NEW n \in 0 .. Len(w), NEW l \in Seq(UnitChunk), Sourced(w, l, n),
           NEW c, NEW k, IsCursor(l, c, k), AtOf(k) \in Nat
    PROVE  /\ c.next - 1 \in 0 .. Len(l) /\ LenTo(l, c.next - 1) \in Nat
           /\ LenTo(l, c.next - 1) + AtOf(k) \in 0 .. n
<1>1. Len(l) \in Nat /\ c.next \in 1 .. Len(l) + 1 /\ Len(w) \in Nat
  BY ChunkFacts, WalElements DEF IsCursor
<1>. DEFINE m == c.next - 1
<1>2. m \in 0 .. Len(l) /\ c.next = m + 1 /\ m \in Nat
  BY <1>1
<1>. HIDE DEF m
<1>3. Len(l) \in m .. Len(l) /\ LenTo(l, Len(l)) = n
  BY <1>1, <1>2 DEF Sourced
<1>4. LenTo(l, m) \in Nat /\ LenTo(l, m) <= n
  BY <1>2, <1>3, LenToGrows
<1>5. CASE AtOf(k) = 0
  <2>1. LenTo(l, m) + 0 \in 0 .. n
    BY <1>1, <1>4
  <2>. QED BY <1>2, <1>4, <1>5, <2>1 DEF m
<1>6. CASE AtOf(k) # 0
  <2>1. k.phase = "data" /\ AtOf(k) = k.at
    BY <1>6 DEF AtOf
  <2>2. m + 1 <= Len(l) /\ AtOf(k) < Len(l[m + 1].rows)
    BY <1>2, <2>1 DEF IsCursor
  <2>3. LenTo(l, m + 1) = LenTo(l, m) + Len(l[m + 1].rows) /\ m + 1 \in 0 .. Len(l) /\ m + 1 \in 1 .. Len(l)
    BY <1>1, <1>2, <2>2, ToFacts
  <2>4. LenTo(l, m + 1) <= n /\ Len(l) \in m + 1 .. Len(l) /\ LenTo(l, m + 1) \in Nat
    <3>1. Len(l) \in m + 1 .. Len(l)
      BY <1>1, <1>2, <2>2
    <3>. QED BY <1>3, <2>3, <3>1, LenToGrows
  <2>5. Len(l[m + 1].rows) \in Nat
    BY <2>3, ChunkFacts
  <2>6. LenTo(l, m) + AtOf(k) \in 0 .. n
    BY <1>1, <1>4, <2>2, <2>3, <2>4, <2>5, SMTT(30)
  <2>. QED BY <1>2, <1>4, <2>6 DEF m
<1>. QED BY <1>5, <1>6

\* The commits the output of the Scan stands for.
LEMMA ReachedFacts ==
    ASSUME NEW w, NEW e, NEW n, NEW a, NEW sp, NEW l, NEW out, NEW c, NEW k,
           ScanAt(w, e, n, a, sp, l, out, c, k)
    PROVE  /\ ReachedOf(w, a, l, c, k) \in 0 .. Len(w) /\ UpToOf(w, a) <= ReachedOf(w, a, l, c, k)
           /\ LenTo(l, c.next - 1) + AtOf(k) <= ReachedOf(w, a, l, c, k)
           /\ Len(w) \in Nat /\ UpToOf(w, a) \in 0 .. Len(w)
           /\ LenTo(l, c.next - 1) + AtOf(k) \in Nat
           /\ \A r \in Rows : /\ NetTo(out, Len(out), r) + Spooled(sp, r)
                                   = TableOf(w, ReachedOf(w, a, l, c, k))[r]
                              /\ NetTo(out, Len(out), r) \in Int
<1>1. /\ w \in Seq(Change) /\ n \in 0 .. Len(w) /\ l \in Seq(UnitChunk) /\ Sourced(w, l, n)
      /\ IsCursor(l, c, k) /\ AtOf(k) \in Nat /\ out \in Seq(UnitChunk)
  BY DEF ScanAt, IsLog
<1>2. LenTo(l, c.next - 1) + AtOf(k) \in 0 .. n /\ Len(w) \in Nat /\ UpToOf(w, a) \in 0 .. Len(w)
  BY <1>1, SourcePlace, WalElements, UpToType
<1>3. \A r \in Rows : NetTo(out, Len(out), r) \in Int
  <2>1. Len(out) \in 0 .. Len(out)
    BY <1>1, ChunkFacts
  <2>. QED BY <1>1, <2>1, ToFacts
<1>4. \A r \in Rows : NetTo(out, Len(out), r) + Spooled(sp, r) = TableOf(w, ReachedOf(w, a, l, c, k))[r]
  BY Zenon DEF ScanAt, IsScan
<1>. DEFINE pos == LenTo(l, c.next - 1) + AtOf(k)
            up == UpToOf(w, a)
<1>5. ReachedOf(w, a, l, c, k) = IF pos <= up THEN up ELSE pos
  BY Zenon DEF ReachedOf
<1>6. pos \in 0 .. n /\ n \in 0 .. Len(w) /\ up \in 0 .. Len(w) /\ Len(w) \in Nat
  BY <1>1, <1>2
<1>. HIDE DEF pos, up
<1>7. /\ ReachedOf(w, a, l, c, k) \in 0 .. Len(w) /\ up <= ReachedOf(w, a, l, c, k)
      /\ pos <= ReachedOf(w, a, l, c, k) /\ pos \in Nat
  BY <1>5, <1>6
<1>. QED BY <1>3, <1>4, <1>6, <1>7 DEF pos, up

\* Nothing is left of an empty snapshot.
LEMMA NothingSpooled ==
    ASSUME NEW sp, DOMAIN sp = {}
    PROVE  \A r : Spooled(sp, r) = 0
<1>1. \A r : {i \in DOMAIN sp : sp[i] = r} = {}
  OBVIOUS
<1>. QED BY <1>1, FS_EmptySet DEF Spooled

\* A table after some commits that frontiers cover is what the output of the
\* Scan may add up to behind them.
LEMMA TracedScan ==
    ASSUME NEW w \in Seq(Change), NEW a, NEW F, F # {}, NEW p \in 0 .. Len(w),
           \A f \in F : UpToOf(w, f) <= p, NEW v, \A r \in Rows : v[r] = TableOf(w, p)[r]
    PROVE  TracedAt(w, a, 1, F, v)
<1>1. After(1 - 1, TableOf(w, p)) = TableOf(w, p)
  <2>1. TableOf(w, p) \in [Rows -> Int] /\ 1 - 1 = 0
    BY TableType
  <2>. QED BY <2>1, AfterFacts
<1>2. \A r \in Rows : v[r] = After(1 - 1, TableOf(w, p))[r]
  BY <1>1
<1>. QED BY <1>2, Zenon DEF TracedAt

\* The Scan passes a frontier on.
LEMMA ScanPasses ==
    ASSUME NEW w, NEW e, NEW n, NEW a, NEW sp, NEW l, NEW out, NEW c, NEW k,
           ScanAt(w, e, n, a, sp, l, out, c, k), DOMAIN sp = {}, AtOf(k) = 0,
           NEW f \in 1 .. MaxCommits + 1, c.frontier <= f,
           UpToOf(w, f) <= ReachedOf(w, a, l, c, k),
           NEW d, d.next = c.next, d.frontier = f
    PROVE  LET x == Frontier(f)
           IN /\ x \in UnitChunk /\ x.kind = "frontier" /\ x.rows = <<>> /\ x.lsn = f
              /\ IsCursor(l, d, NoContinuation)
              /\ IsScan(w, a, sp, l, Append(out, x), d, NoContinuation)
              /\ Traces(w, a, 1, Append(out, x))
<1>. DEFINE x == Frontier(f)
            m == Append(out, x)
            reached == ReachedOf(w, a, l, c, k)
            F == Frontiers(out, Len(out))
<1>1. x \in UnitChunk /\ x.kind = "frontier" /\ x.rows = <<>> /\ x.lsn = f
  <2>1. <<>> \in Seq(UnitEffect)
    OBVIOUS
  <2>. HIDE DEF UnitEffect
  <2>. QED BY <2>1 DEF Frontier, UnitChunk
<1>2. /\ w \in Seq(Change) /\ IsWal(w, e) /\ out \in Seq(UnitChunk) /\ Traces(w, a, 1, out)
      /\ IsCursor(l, c, k) /\ c.frontier \in Nat /\ IsScan(w, a, sp, l, out, c, k) /\ f \in Nat
  BY PlanAssumption DEF ScanAt
<1>3. /\ reached \in 0 .. Len(w) /\ Len(w) \in Nat
      /\ \A r \in Rows : NetTo(out, Len(out), r) = TableOf(w, reached)[r]
  <2>1. /\ reached \in 0 .. Len(w) /\ Len(w) \in Nat
        /\ \A r \in Rows : NetTo(out, Len(out), r) + Spooled(sp, r) = TableOf(w, reached)[r]
                           /\ NetTo(out, Len(out), r) \in Int
    BY ReachedFacts
  <2>2. \A r : Spooled(sp, r) = 0
    BY NothingSpooled
  <2>. HIDE DEF reached
  <2>. QED BY <2>1, <2>2
<1>. HIDE DEF x
<1>4. /\ Len(m) = Len(out) + 1 /\ Len(out) \in Nat
      /\ Frontiers(m, Len(out) + 1) = F \cup {x.lsn}
      /\ \A r \in Rows : NetTo(m, Len(out) + 1, r) = NetTo(out, Len(out), r)
  BY <1>1, <1>2, AppendFrontier
<1>5. Frontiers(m, Len(m)) = F \cup {f} /\ \A r \in Rows : NetTo(m, Len(m), r) = TableOf(w, reached)[r]
  <2>. HIDE DEF m, F, reached
  <2>. QED BY <1>1, <1>3, <1>4
<1>6. \A g \in F : g \in Nat /\ g <= c.frontier
  <2>1. \A g \in F : g \in Nat
    <3>1. Len(out) \in Nat /\ \A i \in 1 .. Len(out) : out[i].lsn \in 1 .. MaxCommits + 1
      BY <1>2, ChunkFacts
    <3>2. MaxCommits \in Nat
      BY PlanAssumption
    <3>. QED BY <3>1, <3>2 DEF Frontiers
  <2>2. \A g \in F : g <= c.frontier
    BY <1>2, Zenon DEF IsScan
  <2>. QED BY <2>1, <2>2
<1>7. \A g \in F \cup {f} : g \in Nat /\ g <= f /\ UpToOf(w, g) <= reached
  <2>1. ASSUME NEW g \in F \cup {f} PROVE g \in Nat /\ g <= f
    <3>. HIDE DEF F
    <3>. QED BY <1>2, <1>6
  <2>2. ASSUME NEW g \in F \cup {f} PROVE UpToOf(w, g) <= reached
    <3>1. UpToOf(w, g) <= UpToOf(w, f)
      BY <1>2, <2>1, CoversMore
    <3>2. UpToOf(w, g) \in 0 .. Len(w) /\ UpToOf(w, f) \in 0 .. Len(w)
      BY <1>2, UpToType
    <3>. HIDE DEF reached, F
    <3>. QED BY <1>3, <3>1, <3>2 DEF reached
  <2>. QED BY <2>1, <2>2
<1>8. AtOf(NoContinuation) = 0 /\ NoContinuation.phase = "none"
  BY DEF AtOf, NoContinuation, Continuation
<1>9. IsCursor(l, d, NoContinuation)
  BY <1>2, <1>8 DEF IsCursor
<1>10. ReachedOf(w, a, l, d, NoContinuation) = reached
  BY <1>8 DEF ReachedOf
<1>11. IsScan(w, a, sp, l, m, d, NoContinuation)
  <2>1. \A r \in Rows : NetTo(m, Len(m), r) + Spooled(sp, r) = TableOf(w, reached)[r]
    <3>1. \A r \in Rows : TableOf(w, reached)[r] \in Int
      BY <1>2, <1>3, TableType
    <3>2. \A r : Spooled(sp, r) = 0
      BY NothingSpooled
    <3>. HIDE DEF m, reached
    <3>. QED BY <1>5, <3>1, <3>2
  <2>2. UpToOf(w, d.frontier) <= reached
    OBVIOUS
  <2>3. Frontiers(m, Len(m)) # {} /\ \A g \in Frontiers(m, Len(m)) : g <= d.frontier
    <3>. HIDE DEF m, F
    <3>. QED BY <1>5, <1>7
  <2>. HIDE DEF m, reached
  <2>. QED BY <1>8, <1>10, <2>1, <2>2, <2>3 DEF IsScan
<1>12. Traces(w, a, 1, m)
  <2>. DEFINE G == Frontiers(out, Len(out)) \cup (IF x.kind = "frontier" THEN {x.lsn} ELSE {})
  <2>1. G = F \cup {f}
    <3>. HIDE DEF F
    <3>. QED BY <1>1 DEF F
  <2>2. ASSUME NEW j \in 0 .. Len(x.rows)
        PROVE  TracedAt(w, a, 1, G,
                   [r \in Rows |-> NetTo(out, Len(out), r) + Net(SubSeq(x.rows, 1, j), r)])
    <3>1. j = 0
      BY <1>1
    <3>2. \A r : Net(SubSeq(x.rows, 1, j), r) = 0
      BY <1>1, <3>1, NoEffects
    <3>. DEFINE v == [r \in Rows |-> NetTo(out, Len(out), r) + Net(SubSeq(x.rows, 1, j), r)]
    <3>3. \A r \in Rows : v[r] = TableOf(w, reached)[r]
      <4>1. \A r \in Rows : TableOf(w, reached)[r] \in Int
        BY <1>2, <1>3, TableType
      <4>. HIDE DEF reached
      <4>. QED BY <1>3, <3>2, <4>1
    <3>4. G # {} /\ \A g \in G : UpToOf(w, g) <= reached
      <4>. HIDE DEF G, F, reached
      <4>. QED BY <1>7, <2>1
    <3>. HIDE DEF v, G, reached
    <3>5. TracedAt(w, a, 1, G, v)
      BY <1>2, <1>3, <3>3, <3>4, TracedScan
    <3>. QED BY <3>5 DEF v
  <2>3. x.kind = "frontier" => x.rows = <<>>
    BY <1>1
  <2>. QED BY <1>1, <1>2, <2>2, <2>3, TracesGrow
<1>. QED BY <1>1, <1>9, <1>11, <1>12 DEF x

\* A frontier that no chunk ahead of the Scan lies at or below, and that the
\* publisher has passed, is one the Scan has reached.
LEMMA SkippedReached ==
    ASSUME NEW w, NEW e, NEW n, NEW a, NEW sp, NEW l, NEW out, NEW c, NEW k,
           ScanAt(w, e, n, a, sp, l, out, c, k), AtOf(k) = 0,
           NEW f \in Nat, UpToOf(w, f) <= n, \A i \in c.next .. Len(l) : l[i].lsn > f
    PROVE  UpToOf(w, f) <= ReachedOf(w, a, l, c, k)
<1>. DEFINE pos == LenTo(l, c.next - 1)
            reached == ReachedOf(w, a, l, c, k)
            up == UpToOf(w, f)
<1>1. /\ w \in Seq(Change) /\ n \in 0 .. Len(w) /\ l \in Seq(UnitChunk) /\ Sourced(w, l, n)
      /\ IsCursor(l, c, k) /\ IsWal(w, e) /\ IsLog(l, e) /\ AtOf(k) \in Nat
  BY DEF ScanAt, IsLog
<1>2. /\ c.next - 1 \in 0 .. Len(l) /\ pos \in Nat /\ pos + 0 \in 0 .. n /\ pos + 0 <= reached /\ reached \in 0 .. Len(w)
      /\ Len(w) \in Nat /\ Len(l) \in Nat
  BY <1>1, SourcePlace, ReachedFacts, ChunkFacts
<1>3. up \in 0 .. Len(w) /\ \A i \in 1 .. Len(w) : w[i].lsn <= f <=> i <= up
  BY <1>1, Covered
<1>4. up <= pos
  <2>1. SUFFICES ASSUME pos < up PROVE FALSE
    <3>. HIDE DEF pos, up
    <3>. QED BY <1>2, <1>3
  <2>. DEFINE m == c.next - 1
  <2>2. m \in 0 .. Len(l) /\ m \in Nat /\ c.next = m + 1
    BY <1>2, <1>1 DEF IsCursor
  <2>. HIDE DEF m
  <2>3. m < Len(l)
    <3>1. SUFFICES ASSUME m = Len(l) PROVE FALSE
      BY <1>2, <2>2
    <3>2. pos = n
      BY <1>1, <2>2, <3>1 DEF Sourced, m
    <3>. HIDE DEF pos, up
    <3>. QED BY <1>1, <1>2, <1>3, <2>1, <3>2 DEF up
  <2>4. m + 1 \in 1 .. Len(l) /\ (m + 1) - 1 = m
    BY <1>2, <2>2, <2>3
  <2>5. IsSource(w, l[m + 1], LenTo(l, m))
    BY <1>1, <2>4 DEF Sourced
  <2>. DEFINE y == l[m + 1]
  <2>6. y.rows # <<>> /\ y.rows \in Seq(UnitEffect) /\ Len(y.rows) \in Nat
    <3>1. y.kind = "data"
      BY <2>5 DEF IsSource
    <3>2. y.kind # "frontier" /\ (y.kind = "frontier" <=> y.rows = <<>>)
      <4>1. y.kind = "frontier" <=> y.rows = <<>>
        BY <1>1, <2>4 DEF IsLog
      <4>. HIDE DEF y
      <4>. QED BY <3>1, <4>1
    <3>. QED BY <1>1, <2>4, <3>2, ChunkFacts
  <2>7. 1 \in 1 .. Len(y.rows)
    <3>. HIDE DEF y
    <3>. QED BY <2>6, EmptySeq
  <2>8. y.lsn = w[pos + 1].lsn
    <3>1. \A i \in 1 .. Len(y.rows) : y.lsn = w[LenTo(l, m) + i].lsn
      BY <2>5 DEF IsSource
    <3>2. LenTo(l, m) = pos
      BY DEF m
    <3>. HIDE DEF pos, y
    <3>. QED BY <2>7, <3>1, <3>2
  <2>9. y.lsn > f
    <3>1. m + 1 \in c.next .. Len(l)
      BY <2>2, <2>4
    <3>. QED BY <3>1
  <2>10. w[pos + 1].lsn <= f
    <3>. HIDE DEF pos, up
    <3>1. pos + 1 \in 1 .. Len(w) /\ pos + 1 <= up
      BY <1>2, <1>3, <2>1
    <3>. QED BY <1>3, <3>1
  <2>11. y.lsn \in Nat
    BY <1>1, <2>4, ChunkFacts, PlanAssumption
  <2>. HIDE DEF pos, y
  <2>. QED BY <2>8, <2>9, <2>10, <2>11
<1>. HIDE DEF pos, up, reached
<1>5. up <= reached
  BY <1>2, <1>3, <1>4
<1>. QED BY <1>5 DEF up, reached

\* The Scan reads a page p of the data chunk after the first i, and writes it
\* when the chunk lies above the activation LSN.
ScanPage(a, l, i, c, k, p, d, m, out, new) ==
    /\ i \in Nat /\ i < Len(l) /\ c.next = i + 1 /\ l[i + 1].kind = "data" /\ k.phase \in {"none", "data"}
    /\ p \in Seq(UnitEffect) /\ Len(p) # 0 /\ TakenOf(p, l[i + 1].rows, AtOf(k))
    /\ Moved(l, i, AtOf(k) + Len(p), c, d, m) /\ m.phase \in {"none", "data", "source_frontier"}
    /\ new = IF l[i + 1].lsn > a THEN Append(out, Data(l[i + 1].lsn, p)) ELSE out

\* Where that is in the commits, o + at of which are read.
LEMMA ScanPageFacts ==
    ASSUME NEW w, NEW e, NEW n, NEW a, NEW sp, NEW l, NEW out, NEW c, NEW k,
           ScanAt(w, e, n, a, sp, l, out, c, k),
           NEW i, NEW p, NEW d, NEW m, NEW new, ScanPage(a, l, i, c, k, p, d, m, out, new)
    PROVE  LET pos == LenTo(l, c.next - 1) + AtOf(k)
               y == l[i + 1]
           IN /\ pos \in Nat /\ Len(p) \in Nat \ {0} /\ CommitsOf(p, w, pos) /\ pos + Len(p) \in 0 .. Len(w)
              /\ d.frontier = c.frontier /\ LenTo(l, d.next - 1) + AtOf(m) = pos + Len(p)
              /\ y.lsn \in 1 .. MaxCommits + 1
              /\ IF y.lsn > a THEN UpToOf(w, a) <= pos ELSE pos + Len(p) <= UpToOf(w, a)
<1>. DEFINE y == l[i + 1]
            o == LenTo(l, i)
            at == AtOf(k)
            pos == LenTo(l, c.next - 1) + AtOf(k)
            up == UpToOf(w, a)
<1>1. /\ w \in Seq(Change) /\ n \in 0 .. Len(w) /\ l \in Seq(UnitChunk) /\ Sourced(w, l, n)
      /\ IsCursor(l, c, k) /\ IsWal(w, e) /\ IsLog(l, e) /\ at \in Nat /\ a \in Nat
  BY DEF ScanAt, IsLog
<1>2. /\ i \in Nat /\ i < Len(l) /\ c.next = i + 1 /\ y.kind = "data" /\ k.phase \in {"none", "data"}
      /\ p \in Seq(UnitEffect) /\ Len(p) # 0 /\ TakenOf(p, y.rows, at)
      /\ Moved(l, i, at + Len(p), c, d, m)
  BY Zenon DEF ScanPage
<1>3. /\ Len(w) \in Nat /\ Len(l) \in Nat /\ Len(p) \in Nat /\ i + 1 \in 1 .. Len(l) /\ i \in 0 .. Len(l)
      /\ c.next - 1 = i /\ (i + 1) - 1 = i
  <2>1. Len(w) \in Nat /\ Len(l) \in Nat /\ Len(p) \in Nat
    BY <1>1, <1>2, WalElements, ChunkFacts, UnitSeq
  <2>2. i \in Nat /\ i < Len(l) /\ c.next = i + 1
    BY <1>2
  <2>. HIDE DEF y, o, at, pos, up
  <2>. QED BY <2>1, <2>2
<1>4. y.rows \in Seq(UnitEffect) /\ Len(y.rows) \in Nat /\ y.lsn \in 1 .. MaxCommits + 1
  BY <1>1, <1>3, ChunkFacts
<1>5. IsSource(w, y, o)
  <2>1. IsSource(w, l[i + 1], LenTo(l, (i + 1) - 1))
    BY <1>1, <1>3 DEF Sourced
  <2>. QED BY <1>3, <2>1
<1>6. o \in Nat /\ pos = o + at
  BY <1>1, <1>3, ToFacts, SourcePlace
<1>7. up \in 0 .. Len(w) /\ \A j \in 1 .. Len(w) : w[j].lsn <= a <=> j <= up
  <2>1. UpToOf(w, a) \in 0 .. Len(w) /\ \A j \in 1 .. Len(w) : w[j].lsn <= a <=> j <= UpToOf(w, a)
    <3>1. a \in Int
      BY <1>1
    <3>. QED BY <1>1, <3>1, Covered
  <2>. QED BY <2>1
<1>. HIDE DEF y, o, at, pos, up
<1>8. o + Len(y.rows) <= Len(w) /\ \A j \in 1 .. Len(y.rows) :
         y.rows[j] = [row |-> w[o + j].row, w |-> w[o + j].w] /\ y.lsn = w[o + j].lsn
  BY <1>5 DEF IsSource
<1>9. at + Len(p) <= Len(y.rows) /\ \A j \in 1 .. Len(p) : p[j] = y.rows[at + j]
  BY <1>2 DEF TakenOf
<1>10. CommitsOf(p, w, pos)
  <2>1. ASSUME NEW j \in 1 .. Len(p)
        PROVE  p[j] = [row |-> w[pos + j].row, w |-> w[pos + j].w]
    <3>1. at + j \in 1 .. Len(y.rows) /\ o + (at + j) = pos + j
      <4>1. /\ o \in Nat /\ at \in Nat /\ pos = o + at /\ Len(p) \in Nat /\ Len(y.rows) \in Nat
            /\ at + Len(p) <= Len(y.rows) /\ j \in 1 .. Len(p)
        BY <1>1, <1>3, <1>4, <1>6, <1>9
      <4>. QED BY <4>1
    <3>2. y.rows[at + j] = [row |-> w[o + (at + j)].row, w |-> w[o + (at + j)].w]
      BY <1>8, <3>1
    <3>. QED BY <1>9, <3>1, <3>2
  <2>2. pos \in Nat /\ pos + Len(p) <= Len(w)
    BY <1>1, <1>3, <1>4, <1>6, <1>8, <1>9
  <2>. QED BY <1>2, <2>1, <2>2 DEF CommitsOf
<1>11. pos \in Nat /\ pos + Len(p) \in 0 .. Len(w) /\ pos + Len(p) <= o + Len(y.rows) /\ o <= pos
  BY <1>1, <1>3, <1>4, <1>6, <1>8, <1>9
<1>12. d.frontier = c.frontier /\ LenTo(l, d.next - 1) + AtOf(m) = pos + Len(p)
  <2>1. at + Len(p) \in 0 .. Len(l[i + 1].rows)
    BY <1>1, <1>3, <1>4, <1>9 DEF y
  <2>2. l[i + 1].kind = "data"
    BY <1>2 DEF y
  <2>3. d.frontier = c.frontier /\ LenTo(l, d.next - 1) + AtOf(m) = LenTo(l, i) + (at + Len(p))
    BY <1>1, <1>2, <2>1, <2>2, MovedFacts
  <2>4. LenTo(l, i) = o
    BY DEF o
  <2>. QED BY <1>1, <1>3, <1>6, <2>3, <2>4
<1>13. IF y.lsn > a THEN up <= pos ELSE pos + Len(p) <= up
  <2>1. 1 \in 1 .. Len(y.rows) /\ Len(y.rows) \in 1 .. Len(y.rows)
    BY <1>1, <1>2, <1>3, <1>4, <1>9
  <2>2. y.lsn = w[o + 1].lsn /\ y.lsn = w[o + Len(y.rows)].lsn
        /\ o + 1 \in 1 .. Len(w) /\ o + Len(y.rows) \in 1 .. Len(w)
    <3>1. /\ o + Len(y.rows) <= Len(w) /\ Len(y.rows) \in Nat /\ o \in Nat /\ Len(w) \in Nat
          /\ Len(y.rows) >= 1
      BY <1>3, <1>4, <1>6, <1>8, <2>1
    <3>2. o + 1 \in 1 .. Len(w) /\ o + Len(y.rows) \in 1 .. Len(w)
      BY <3>1
    <3>3. \A j \in 1 .. Len(y.rows) : y.lsn = w[o + j].lsn
      BY <1>8
    <3>. QED BY <2>1, <3>2, <3>3
  <2>3. y.lsn <= a => o + Len(y.rows) <= up
    BY <1>7, <2>2
  <2>4. ~(y.lsn <= a) => ~(o + 1 <= up)
    BY <1>7, <2>2
  <2>5. y.lsn \in Nat
    BY <1>4, PlanAssumption
  <2>. QED BY <1>1, <1>3, <1>4, <1>6, <1>7, <1>11, <2>3, <2>4, <2>5
<1>. QED BY <1>2, <1>3, <1>4, <1>10, <1>11, <1>12, <1>13 DEF y, pos, up

\* The Scan reads a page.
LEMMA ScanReads ==
    ASSUME NEW w, NEW e, NEW n, NEW a, NEW sp, NEW l, NEW out, NEW c, NEW k,
           ScanAt(w, e, n, a, sp, l, out, c, k),
           NEW i, NEW p, NEW d, NEW m, NEW new, ScanPage(a, l, i, c, k, p, d, m, out, new)
    PROVE  IsScan(w, a, sp, l, new, d, m) /\ Traces(w, a, 1, new)
<1>. DEFINE y == l[i + 1]
            pos == LenTo(l, c.next - 1) + AtOf(k)
            up == UpToOf(w, a)
            reached == ReachedOf(w, a, l, c, k)
            F == Frontiers(out, Len(out))
            x == Data(y.lsn, p)
<1>1. /\ pos \in Nat /\ Len(p) \in Nat \ {0} /\ CommitsOf(p, w, pos) /\ pos + Len(p) \in 0 .. Len(w)
      /\ d.frontier = c.frontier /\ LenTo(l, d.next - 1) + AtOf(m) = pos + Len(p)
      /\ y.lsn \in 1 .. MaxCommits + 1 /\ IF y.lsn > a THEN up <= pos ELSE pos + Len(p) <= up
  BY ScanPageFacts, Zenon
<1>2. /\ reached \in 0 .. Len(w) /\ up <= reached /\ up \in 0 .. Len(w) /\ Len(w) \in Nat
      /\ \A r \in Rows : /\ NetTo(out, Len(out), r) + Spooled(sp, r) = TableOf(w, reached)[r]
                         /\ NetTo(out, Len(out), r) \in Int
  BY ReachedFacts
<1>3. /\ w \in Seq(Change) /\ out \in Seq(UnitChunk) /\ Traces(w, a, 1, out)
      /\ IsScan(w, a, sp, l, out, c, k)
  BY DEF ScanAt
<1>4. /\ k.phase \in {"none", "data"} /\ m.phase \in {"none", "data", "source_frontier"}
      /\ p \in Seq(UnitEffect) /\ new = IF y.lsn > a THEN Append(out, x) ELSE out
  BY Zenon DEF ScanPage
<1>5. /\ DOMAIN sp = {} /\ F # {} /\ \A f \in F : f <= c.frontier
      /\ UpToOf(w, c.frontier) <= reached
  BY <1>3, <1>4 DEF IsScan
<1>6. \A r : Spooled(sp, r) = 0
  BY <1>5, NothingSpooled
<1>7. \A f \in F : UpToOf(w, f) <= reached
  <2>1. SUFFICES ASSUME NEW f \in F PROVE UpToOf(w, f) <= reached
    OBVIOUS
  <2>2. c.frontier \in Nat /\ IsWal(w, e)
    BY DEF ScanAt
  <2>3. f \in Nat
    <3>1. Len(out) \in Nat /\ \A j \in 1 .. Len(out) : out[j].lsn \in 1 .. MaxCommits + 1
      BY <1>3, ChunkFacts
    <3>2. MaxCommits \in Nat
      BY PlanAssumption
    <3>. QED BY <3>1, <3>2 DEF Frontiers
  <2>4. UpToOf(w, f) <= UpToOf(w, c.frontier)
    BY <1>3, <1>5, <2>2, <2>3, CoversMore
  <2>5. UpToOf(w, f) \in 0 .. Len(w) /\ UpToOf(w, c.frontier) \in 0 .. Len(w)
    BY <1>3, UpToType
  <2>. HIDE DEF reached, F
  <2>. QED BY <1>2, <1>5, <2>4, <2>5
<1>8. ReachedOf(w, a, l, d, m) = IF pos + Len(p) <= up THEN up ELSE pos + Len(p)
  BY <1>1, Zenon DEF ReachedOf
<1>9. reached = IF pos <= up THEN up ELSE pos
  BY Zenon DEF ReachedOf
<1>. HIDE DEF reached, pos, up, F
<1>10. ASSUME NEW now, now = ReachedOf(w, a, l, d, m), reached <= now, now \in 0 .. Len(w),
              Frontiers(new, Len(new)) = F,
              \A r \in Rows : NetTo(new, Len(new), r) = TableOf(w, now)[r]
       PROVE  IsScan(w, a, sp, l, new, d, m)
  <2>1. \A r \in Rows : NetTo(new, Len(new), r) + Spooled(sp, r) = TableOf(w, now)[r]
    <3>1. \A r \in Rows : TableOf(w, now)[r] \in Int
      BY <1>3, <1>10, TableType
    <3>. QED BY <1>6, <1>10, <3>1
  <2>2. UpToOf(w, d.frontier) <= now
    <3>1. UpToOf(w, c.frontier) \in 0 .. Len(w)
      BY <1>3, UpToType
    <3>. QED BY <1>1, <1>2, <1>5, <1>10, <3>1
  <2>3. \A f \in F : f <= d.frontier
    BY <1>1, <1>5
  <2>4. m.phase # "bootstrap" /\ m.phase # "snapshot_frontier"
    BY <1>4
  <2>. QED BY <1>5, <1>10, <2>1, <2>2, <2>3, <2>4 DEF IsScan
<1>11. CASE y.lsn > a
  <2>1. up <= pos
    BY <1>1, <1>11
  <2>2. reached = pos /\ ReachedOf(w, a, l, d, m) = pos + Len(p)
    BY <1>1, <1>2, <1>8, <1>9, <2>1
  <2>3. new = Append(out, x)
    BY <1>4, <1>11
  <2>4. x \in UnitChunk /\ x.kind = "data" /\ x.rows = p
    <3>. HIDE DEF y
    <3>. QED BY <1>1, <1>4, DataChunk
  <2>5. \A j \in 0 .. Len(p) : \A r \in Rows : /\ pos + j \in 0 .. Len(w)
            /\ TableOf(w, pos + j)[r] = NetTo(out, Len(out), r) + Net(SubSeq(p, 1, j), r)
    <3>1. \A j \in 0 .. Len(p) : \A r \in Rows : pos + j \in 0 .. Len(w) /\ TableOf(w, pos)[r] \in Int
            /\ TableOf(w, pos + j)[r] = TableOf(w, pos)[r] + Net(SubSeq(p, 1, j), r)
      BY <1>1, <1>3, TableOn
    <3>2. \A r \in Rows : NetTo(out, Len(out), r) = TableOf(w, pos)[r]
      BY <1>2, <1>6, <2>2
    <3>. QED BY <3>1, <3>2
  <2>. HIDE DEF x, y
  <2>. DEFINE ap == Append(out, x)
  <2>6. Frontiers(ap, Len(ap)) = F /\ \A r \in Rows : NetTo(ap, Len(ap), r) = NetTo(out, Len(out), r) + Net(p, r)
    BY <1>3, <2>4, AppendData DEF F
  <2>7. Len(p) \in 0 .. Len(p) /\ SubSeq(p, 1, Len(p)) = p
    <3>1. Len(p) \in 0 .. Len(p)
      BY <1>1
    <3>. QED BY <1>4, <3>1, UnitPrefix
  <2>8. \A r \in Rows : NetTo(ap, Len(ap), r) = TableOf(w, pos + Len(p))[r]
    <3>. HIDE DEF ap
    <3>1. \A r \in Rows : TableOf(w, pos + Len(p))[r] = NetTo(out, Len(out), r) + Net(SubSeq(p, 1, Len(p)), r)
      BY <2>5, <2>7, Zenon
    <3>. QED BY <2>6, <2>7, <3>1
  <2>9. IsScan(w, a, sp, l, new, d, m)
    <3>1. reached <= pos + Len(p)
      BY <1>1, <2>2
    <3>2. new = ap
      BY <2>3
    <3>. HIDE DEF ap
    <3>. QED BY <1>1, <1>10, <2>2, <2>6, <2>8, <3>1, <3>2
  <2>10. ASSUME NEW j \in 0 .. Len(x.rows)
         PROVE  TracedAt(w, a, 1,
                    Frontiers(out, Len(out)) \cup (IF x.kind = "frontier" THEN {x.lsn} ELSE {}),
                    [r \in Rows |-> NetTo(out, Len(out), r) + Net(SubSeq(x.rows, 1, j), r)])
    <3>. DEFINE v == [r \in Rows |-> NetTo(out, Len(out), r) + Net(SubSeq(x.rows, 1, j), r)]
    <3>0. j \in 0 .. Len(p)
      BY <2>4
    <3>1. \A r \in Rows : v[r] = TableOf(w, pos + j)[r]
      BY <2>4, <2>5, <3>0
    <3>2. pos + j \in 0 .. Len(w) /\ \A f \in F : UpToOf(w, f) <= pos + j
      <4>1. pos + j \in 0 .. Len(w) /\ pos <= pos + j
        BY <1>1, <3>0
      <4>2. \A f \in F : UpToOf(w, f) \in 0 .. Len(w)
        BY <1>3, UpToType
      <4>. QED BY <1>1, <1>2, <1>7, <2>2, <4>1, <4>2
    <3>3. F = Frontiers(out, Len(out)) \cup (IF x.kind = "frontier" THEN {x.lsn} ELSE {})
      <4>1. x.kind # "frontier"
        BY <2>4
      <4>. QED BY <4>1 DEF F
    <3>. HIDE DEF v
    <3>4. TracedAt(w, a, 1, F, v)
      BY <1>3, <1>5, <3>1, <3>2, TracedScan
    <3>. QED BY <3>3, <3>4 DEF v
  <2>11. Traces(w, a, 1, new)
    <3>1. x.kind = "frontier" => x.rows = <<>>
      BY <2>4
    <3>. QED BY <1>3, <2>3, <2>4, <2>10, <3>1, TracesGrow
  <2>. QED BY <2>9, <2>11
<1>12. CASE ~(y.lsn > a)
  <2>1. pos + Len(p) <= up
    BY <1>1, <1>12
  <2>2. reached = up /\ ReachedOf(w, a, l, d, m) = up
    BY <1>1, <1>2, <1>8, <1>9, <2>1
  <2>3. new = out
    BY <1>4, <1>12
  <2>4. \A r \in Rows : NetTo(out, Len(out), r) = TableOf(w, up)[r]
    BY <1>2, <1>6, <2>2
  <2>5. Frontiers(new, Len(new)) = F
    BY <2>3 DEF F
  <2>6. IsScan(w, a, sp, l, new, d, m)
    BY <1>2, <1>10, <2>2, <2>3, <2>4, <2>5
  <2>. QED BY <1>3, <2>3, <2>6
<1>. QED BY <1>11, <1>12
-----------------------------------------------------------------------------
\* The Scan of a registered dataflow.
LEMMA ScanHere ==
    ASSUME Inv, activation # 0
    PROVE  /\ ScanAt(wal, end, sent, activation, spool, log[0], log[1], cur[0], cont[0])
           /\ 0 \in Stages /\ 1 \in Stages /\ 0 \in 0 .. Len(Plan) /\ 0 + 1 = 1 /\ 0 # SinkStage
           /\ end \in 1 .. MaxCommits + 1 /\ end \in Nat /\ published \in 0 .. end
           /\ activation \in 1 .. end /\ sent \in 0 .. Len(wal) /\ wal \in Seq(Change)
           /\ IsWal(wal, end) /\ UpToOf(wal, published) <= sent
           /\ log[1] \in Seq(UnitChunk) /\ cur[0].frontier \in 0 .. end /\ cur[0].next \in Nat
           /\ cont[0] \in [phase : Phase, at : Nat, rest : {0}]
           /\ IsScan(wal, activation, spool, log[0], log[1], cur[0], cont[0])
<1>1. 0 \in Stages /\ 1 \in Stages /\ 0 \in 0 .. Len(Plan) /\ 0 + 1 = 1 /\ 0 # SinkStage /\ 1 # 0
      /\ 1 \in Operators
  BY StageSets
<1>2. /\ end \in 1 .. MaxCommits + 1 /\ published \in 0 .. end /\ activation \in 0 .. end
      /\ sent \in 0 .. Len(wal) /\ wal \in Seq(Change)
      /\ cont[0] \in [phase : Phase, at : Nat, rest : {0}]
  BY <1>1 DEF Inv, Types
<1>3. end \in Nat /\ activation \in 1 .. end /\ activation \in Nat
  BY <1>2, PlanAssumption
<1>4. /\ IsWal(wal, end) /\ UpToOf(wal, published) <= sent /\ Sourced(wal, log[0], sent)
      /\ IsScan(wal, activation, spool, log[0], log[1], cur[0], cont[0])
  BY DEF Inv, WalLaw, SourceLaw, ScanLaw
<1>5. /\ IsLog(log[0], end) /\ IsCursor(log[0], cur[0], cont[0])
      /\ cur[0].frontier \in 0 .. end /\ cur[0].next \in 1 .. Len(log[0]) + 1 /\ Len(log[0]) \in Nat
      /\ cont[0].at \in Nat
  BY <1>1, StageFacts
<1>6. log[1] \in Seq(UnitChunk) /\ Traces(wal, activation, 1, log[1])
  BY <1>1, StageFacts
<1>7. AtOf(cont[0]) \in Nat /\ cur[0].frontier \in Nat /\ cur[0].next \in Nat
  <2>1. AtOf(cont[0]) \in Nat
    BY <1>5 DEF AtOf
  <2>. QED BY <1>3, <1>5, <2>1
<1>8. ScanAt(wal, end, sent, activation, spool, log[0], log[1], cur[0], cont[0])
  BY <1>2, <1>3, <1>4, <1>5, <1>6, <1>7, Zenon DEF ScanAt
<1>. QED BY <1>1, <1>2, <1>3, <1>4, <1>5, <1>6, <1>7, <1>8

\* The Scan writes a frontier and keeps its place.
LEMMA ScanWritesFrontier ==
    ASSUME Inv, activation # 0, NEW f \in 1 .. end, cur[0].frontier <= f,
           DOMAIN spool = {}, AtOf(cont[0]) = 0,
           UpToOf(wal, f) <= ReachedOf(wal, activation, log[0], cur[0], cont[0]),
           Emit(0, Frontier(f)), SetContinuation(0, NoContinuation),
           NEW d \in [next : Nat, frontier : 0 .. end], d.next = cur[0].next, d.frontier = f,
           cur' = [cur EXCEPT ![0] = d] \/ (cur' = cur /\ d = cur[0]),
           UNCHANGED <<sourceVars, activation, spool, kept, result>>
    PROVE  Inv'
<1>. DEFINE x == Frontier(f)
<1>1. /\ ScanAt(wal, end, sent, activation, spool, log[0], log[1], cur[0], cont[0])
      /\ 0 \in Stages /\ 1 \in Stages /\ 0 \in 0 .. Len(Plan) /\ 0 + 1 = 1
      /\ end \in 1 .. MaxCommits + 1 /\ end \in Nat /\ log[1] \in Seq(UnitChunk) /\ cur[0].next \in Nat
  BY ScanHere
<1>2. f \in 1 .. MaxCommits + 1 /\ f <= end /\ f \in 0 .. end
  BY <1>1, PlanAssumption
<1>3. d.next = cur[0].next /\ d.frontier = f /\ d \in [next : Nat, frontier : 0 .. end]
  OBVIOUS
<1>4. /\ x \in UnitChunk /\ x.kind = "frontier" /\ x.rows = <<>> /\ x.lsn = f
      /\ IsCursor(log[0], d, NoContinuation)
      /\ IsScan(wal, activation, spool, log[0], Append(log[1], x), d, NoContinuation)
      /\ Traces(wal, activation, 1, Append(log[1], x))
  BY <1>1, <1>2, <1>3, ScanPasses
<1>5. NoContinuation \in [phase : Phase, at : Nat, rest : {0}]
  BY DEF NoContinuation, Continuation, Phase
<1>. HIDE DEF x
<1>6. OutputGrows(0) /\ log'[1] = Append(log[1], x)
  <2>1. Emit(0, x) /\ x.lsn <= end /\ (x.kind = "frontier" <=> x.rows = <<>>)
    BY <1>2, <1>4 DEF x
  <2>2. OutputGrows(0) /\ log'[0 + 1] = Append(log[0 + 1], x)
    BY <1>1, <1>4, <2>1, EmitGrows
  <2>. QED BY <1>1, <2>2
<1>7. OnlyStage(0) /\ cur'[0] = d /\ cont'[0] = NoContinuation
  <2>. DEFINE k == NoContinuation
  <2>1. cont' = [cont EXCEPT ![0] = k] /\ d.next >= cur[0].next
    BY <1>1, <1>3 DEF SetContinuation
  <2>2. cur' = [cur EXCEPT ![0] = d] \/ (cur' = cur /\ d = cur[0])
    OBVIOUS
  <2>. HIDE DEF k
  <2>3. k \in [phase : Phase, at : Nat, rest : {0}]
    BY <1>5 DEF k
  <2>4. OnlyStage(0) /\ cur'[0] = d /\ cont'[0] = k
    BY <1>1, <1>3, <2>1, <2>2, <2>3, MovesOnly, ZenonT(60)
  <2>. QED BY <2>4 DEF k
<1>8. UNCHANGED <<wal, sent, end, published, activation, kept, result, spool>>
  BY DEF sourceVars
<1>9. \A i \in DOMAIN spool' : i \in Nat /\ spool'[i] \in Rows
  BY <1>8 DEF Inv, Types
<1>10. /\ IsCursor(log[0], cur'[0], cont'[0])
       /\ IsScan(wal, activation, spool', log[0], log'[1], cur'[0], cont'[0])
       /\ Traces(wal, activation, 0 + 1, log'[0 + 1])
  BY <1>1, <1>4, <1>6, <1>7, <1>8
<1>. QED BY <1>1, <1>6, <1>7, <1>8, <1>9, <1>10, Frame

\* A step that passes a frontier on preserves the invariant.
LEMMA PassFrontierStep ==
    ASSUME Inv, activation # 0, NEW f \in 1 .. published, cont[0].phase \in {"none", "source_frontier"},
           cur[0].frontier <= f, PassFrontier(f)
    PROVE  Inv'
<1>1. /\ ScanAt(wal, end, sent, activation, spool, log[0], log[1], cur[0], cont[0])
      /\ end \in Nat /\ published \in 0 .. end /\ sent \in 0 .. Len(wal) /\ wal \in Seq(Change)
      /\ IsWal(wal, end) /\ UpToOf(wal, published) <= sent
      /\ IsScan(wal, activation, spool, log[0], log[1], cur[0], cont[0])
  BY ScanHere
<1>2. DOMAIN spool = {} /\ AtOf(cont[0]) = 0
  BY <1>1 DEF IsScan, AtOf
<1>3. f \in 1 .. end /\ f \in Nat /\ f <= published /\ f \in Int /\ published \in Int
  BY <1>1
<1>4. UpToOf(wal, f) <= sent
  <2>1. UpToOf(wal, f) <= UpToOf(wal, published)
    BY <1>1, <1>3, CoversMore
  <2>2. UpToOf(wal, f) \in 0 .. Len(wal) /\ UpToOf(wal, published) \in 0 .. Len(wal) /\ Len(wal) \in Nat
    BY <1>1, UpToType, WalElements
  <2>. QED BY <1>1, <2>1, <2>2
<1>5. UpToOf(wal, f) <= ReachedOf(wal, activation, log[0], cur[0], cont[0])
  <2>1. \A i \in cur[0].next .. Len(log[0]) : log[0][i].lsn > f
    BY DEF PassFrontier, SkipsNoSourceChunk
  <2>. QED BY <1>1, <1>2, <1>3, <1>4, <2>1, SkippedReached
<1>6. /\ Emit(0, Frontier(f)) /\ SetContinuation(0, NoContinuation)
      /\ cur' = [cur EXCEPT ![0] = [next |-> cur[0].next, frontier |-> f]]
      /\ UNCHANGED <<sourceVars, activation, spool, kept, result>>
  BY DEF PassFrontier, MoveTo
<1>7. activation # 0 /\ DOMAIN spool = {} /\ AtOf(cont[0]) = 0 /\ cur[0].frontier <= f
  BY <1>2
<1>. DEFINE d == [next |-> cur[0].next, frontier |-> f]
<1>8. d \in [next : Nat, frontier : 0 .. end] /\ d.next = cur[0].next /\ d.frontier = f
  <2>1. cur[0].next \in Nat /\ f \in 0 .. end
    BY <1>1, <1>3, ScanHere
  <2>. QED BY <2>1
<1>9. cur' = [cur EXCEPT ![0] = d]
  BY <1>6
<1>. HIDE DEF d
<1>. QED BY <1>3, <1>5, <1>6, <1>7, <1>8, <1>9, ScanWritesFrontier

\* The three steps of the Scan that write a frontier preserve the invariant.
LEMMA ScanFrontierSteps ==
    ASSUME Inv, SnapshotFrontier \/ AvailableFrontier \/ ScanFrontier
    PROVE  Inv'
<1>1. CASE SnapshotFrontier
  <2>1. /\ Ready(0) /\ cont[0].phase = "snapshot_frontier"
        /\ cont[0].at = activation /\ cur[0].frontier = activation
        /\ Emit(0, Frontier(activation)) /\ SetContinuation(0, NoContinuation)
        /\ UNCHANGED <<sourceVars, activation, spool, cur, kept, result>>
    BY <1>1 DEF SnapshotFrontier
  <2>2. activation # 0
    BY <2>1 DEF Ready
  <2>3. /\ activation \in 1 .. end /\ 0 \in Stages
        /\ IsScan(wal, activation, spool, log[0], log[1], cur[0], cont[0])
    BY <2>2, ScanHere
  <2>4. /\ DOMAIN spool = {} /\ AtOf(cont[0]) = 0
        /\ UpToOf(wal, cur[0].frontier) <= ReachedOf(wal, activation, log[0], cur[0], cont[0])
    BY <2>1, <2>3 DEF IsScan, AtOf
  <2>5. cur[0] \in [next : Nat, frontier : 0 .. end] /\ cur[0].frontier <= activation
    BY <2>1, <2>3 DEF Inv, Types
  <2>6. UNCHANGED <<sourceVars, activation, spool, kept, result>> /\ cur' = cur
    BY <2>1
  <2>7. UpToOf(wal, activation) <= ReachedOf(wal, activation, log[0], cur[0], cont[0])
    BY <2>1, <2>4
  <2>. QED BY <2>1, <2>2, <2>3, <2>4, <2>5, <2>6, <2>7, ScanWritesFrontier
<1>2. CASE AvailableFrontier
  <2>1. Ready(0) /\ cont[0] = NoContinuation /\ ~Pending(0) /\ PassFrontier(published)
    BY <1>2 DEF AvailableFrontier
  <2>2. activation # 0 /\ published > cur[0].frontier
    BY <2>1 DEF Ready
  <2>3. cont[0].phase = "none"
    BY <2>1 DEF NoContinuation, Continuation
  <2>4. end \in Nat /\ published \in 0 .. end /\ cur[0].frontier \in 0 .. end
    BY <2>2, ScanHere
  <2>5. published \in 1 .. published /\ cur[0].frontier <= published
    BY <2>2, <2>4
  <2>. QED BY <2>1, <2>2, <2>3, <2>5, PassFrontierStep
<1>3. CASE ScanFrontier
  <2>1. /\ Ready(0) /\ cont[0].phase = "source_frontier" /\ cont[0].at > cur[0].frontier
        /\ cont[0].at <= published /\ PassFrontier(cont[0].at)
    BY <1>3 DEF ScanFrontier
  <2>2. activation # 0
    BY <2>1 DEF Ready
  <2>3. end \in Nat /\ published \in 0 .. end /\ cur[0].frontier \in 0 .. end
        /\ cont[0] \in [phase : Phase, at : Nat, rest : {0}]
    BY <2>2, ScanHere
  <2>4. cont[0].at \in 1 .. published /\ cur[0].frontier <= cont[0].at
    BY <2>1, <2>3
  <2>. QED BY <2>1, <2>2, <2>4, PassFrontierStep
<1>. QED BY <1>1, <1>2, <1>3
-----------------------------------------------------------------------------
\* Where a data step of the Scan leaves its cursor and its continuation.
LEMMA ScanMoves ==
    ASSUME Inv, NEW n \in Nat, n + 1 = cur[0].next, NEW j \in Nat, NEW done \in BOOLEAN,
           NEW d, d = IF done THEN [next |-> n + 2, frontier |-> cur[0].frontier] ELSE cur[0],
           NEW m, m = IF done
                      THEN IF source_frontier_after_chunk # 0
                           THEN Continuation("source_frontier", source_frontier_after_chunk, 0)
                           ELSE NoContinuation
                      ELSE Continuation("data", j, 0)
    PROVE  /\ d \in [next : Nat, frontier : 0 .. end] /\ d.next >= cur[0].next
           /\ m \in [phase : Phase, at : Nat, rest : {0}]
           /\ m.phase \in {"none", "data", "source_frontier"} /\ (m.phase = "none" => m = NoContinuation)
           /\ IF done THEN d.next = n + 2 /\ d.frontier = cur[0].frontier /\ m.phase # "data"
              ELSE d = cur[0] /\ m = Continuation("data", j, 0)
<1>1. 0 \in Stages /\ published \in Nat /\ cur[0] \in [next : Nat, frontier : 0 .. end]
  <2>1. published \in 0 .. end /\ end \in 1 .. MaxCommits + 1
    BY DEF Inv, Types
  <2>2. 0 \in Stages
    BY StageSets
  <2>3. published \in Nat
    BY <2>1, PlanAssumption
  <2>. QED BY <2>2, <2>3 DEF Inv, Types
<1>2. cur[0].next \in Nat /\ cur[0].frontier \in 0 .. end
  BY <1>1
<1>3. source_frontier_after_chunk \in Nat
  BY <1>1 DEF source_frontier_after_chunk
<1>4. \A at \in Nat : \A phase \in Phase :
         /\ Continuation(phase, at, 0) \in [phase : Phase, at : Nat, rest : {0}]
         /\ Continuation(phase, at, 0).phase = phase
  BY DEF Continuation
<1>5. "source_frontier" \in Phase /\ "data" \in Phase /\ "none" \in Phase
  BY DEF Phase
<1>6. NoContinuation \in [phase : Phase, at : Nat, rest : {0}] /\ NoContinuation.phase = "none"
  BY <1>4, <1>5 DEF NoContinuation
<1>7. /\ m \in [phase : Phase, at : Nat, rest : {0}]
      /\ m.phase \in {"none", "data", "source_frontier"} /\ (m.phase = "none" => m = NoContinuation)
      /\ done => m.phase # "data"
  <2>1. CASE ~done
    <3>1. m = Continuation("data", j, 0)
      BY <2>1
    <3>2. m \in [phase : Phase, at : Nat, rest : {0}] /\ m.phase = "data"
      BY <1>4, <1>5, <3>1
    <3>. QED BY <2>1, <3>2
  <2>2. CASE done /\ source_frontier_after_chunk # 0
    <3>1. m = Continuation("source_frontier", source_frontier_after_chunk, 0)
      BY <2>2
    <3>2. m \in [phase : Phase, at : Nat, rest : {0}] /\ m.phase = "source_frontier"
      BY <1>3, <1>4, <1>5, <3>1
    <3>. QED BY <3>2
  <2>3. CASE done /\ ~(source_frontier_after_chunk # 0)
    <3>1. m = NoContinuation
      BY <2>3
    <3>. QED BY <1>6, <3>1
  <2>. QED BY <2>1, <2>2, <2>3
<1>8. /\ d \in [next : Nat, frontier : 0 .. end] /\ d.next >= cur[0].next
      /\ done => d.next = n + 2 /\ d.frontier = cur[0].frontier
  <2>1. CASE done
    <3>1. d = [next |-> n + 2, frontier |-> cur[0].frontier]
      BY <2>1
    <3>. QED BY <1>2, <3>1
  <2>2. CASE ~done
    BY <1>1, <1>2, <2>2
  <2>. QED BY <2>1, <2>2
<1>. QED BY <1>7, <1>8

\* A step of the Scan that reads a page preserves the invariant.
LEMMA ScanDataStep ==
    ASSUME Inv, ScanData
    PROVE  Inv'
<1>. DEFINE n == cur[0].next - 1
            y == log[0][n + 1]
            k == cont[0]
            left == SubSeq(y.rows, cont[0].at + 1, Len(y.rows))
            p == SubSeq(left, 1, PrefixLength(0, left))
            o == PassingRows(0, p)
            x == Data(y.lsn, p)
            done == k.at + Len(p) = Len(y.rows)
            d == IF done THEN [next |-> n + 2, frontier |-> cur[0].frontier] ELSE cur[0]
            m == IF done
                 THEN IF source_frontier_after_chunk # 0
                      THEN Continuation("source_frontier", source_frontier_after_chunk, 0)
                      ELSE NoContinuation
                 ELSE Continuation("data", k.at + Len(p), 0)
            new == IF y.lsn > activation THEN Append(log[1], x) ELSE log[1]
<1>0. 0 \in Stages /\ 0 # SinkStage /\ DataStep(0)
  BY StageSets DEF ScanData
<1>1. /\ n \in Nat /\ n < Len(log[0]) /\ cur[0].next = n + 1 /\ y.kind = "data" /\ CursorChunk(0) = y
      /\ k.phase \in {"none", "data"} /\ AtOf(k) = k.at
      /\ y.lsn \in 0 .. end /\ y.lsn \in 1 .. MaxCommits + 1
      /\ p \in Seq(UnitEffect) /\ Len(p) \in Nat \ {0} /\ TakenOf(p, y.rows, k.at)
      /\ IF o = <<>> THEN EmitNothing ELSE Emit(0, Data(y.lsn, o))
      /\ IF done
         THEN /\ MoveTo(0, [next |-> cur[0].next + 1, frontier |-> cur[0].frontier])
              /\ SetContinuation(0,
                    IF 0 = 0 /\ source_frontier_after_chunk # 0
                    THEN Continuation("source_frontier", source_frontier_after_chunk, 0)
                    ELSE NoContinuation)
         ELSE SetContinuation(0, Continuation("data", k.at + Len(p), 0)) /\ UNCHANGED cur
      /\ activation # 0 /\ UNCHANGED <<sourceVars, activation, spool, kept, result>>
  BY <1>0, DataStepFacts, Zenon
<1>2. o = IF y.lsn > activation THEN p ELSE <<>>
  <2>1. EmitsRows(0) <=> y.lsn > activation
    <3>1. EmitsRows(0) <=> CursorChunk(0).lsn > activation
      BY DEF EmitsRows
    <3>. HIDE DEF y
    <3>. QED BY <1>1, <3>1
  <2>. HIDE DEF p, y
  <2>2. o = IF EmitsRows(0) THEN p ELSE <<>>
    BY <1>1, PassingScan
  <2>. QED BY <2>1, <2>2
<1>. HIDE DEF o, p, left
<1>3. /\ ScanAt(wal, end, sent, activation, spool, log[0], log[1], cur[0], cont[0])
      /\ 0 \in Stages /\ 1 \in Stages /\ 0 \in 0 .. Len(Plan) /\ 0 + 1 = 1
      /\ log[1] \in Seq(UnitChunk) /\ k.at \in Nat
  <2>1. cont[0] \in [phase : Phase, at : Nat, rest : {0}]
    BY <1>1, ScanHere
  <2>. QED BY <1>1, <2>1, ScanHere
<1>. HIDE DEF n
<1>4. /\ d \in [next : Nat, frontier : 0 .. end] /\ d.next >= cur[0].next
      /\ m \in [phase : Phase, at : Nat, rest : {0}]
      /\ m.phase \in {"none", "data", "source_frontier"} /\ (m.phase = "none" => m = NoContinuation)
      /\ Moved(log[0], n, k.at + Len(p), cur[0], d, m)
  <2>1. k.at + Len(p) \in Nat /\ done \in BOOLEAN /\ n \in Nat /\ n + 1 = cur[0].next
    <3>. HIDE DEF k
    <3>. QED BY <1>1, <1>3
  <2>. DEFINE j == k.at + Len(p)
              b == done
  <2>2. /\ d = IF b THEN [next |-> n + 2, frontier |-> cur[0].frontier] ELSE cur[0]
        /\ m = IF b
               THEN IF source_frontier_after_chunk # 0
                    THEN Continuation("source_frontier", source_frontier_after_chunk, 0)
                    ELSE NoContinuation
               ELSE Continuation("data", j, 0)
    OBVIOUS
  <2>3. b <=> j = Len(log[0][n + 1].rows)
    OBVIOUS
  <2>4. j \in Nat /\ b \in BOOLEAN /\ n \in Nat /\ n + 1 = cur[0].next
    BY <2>1
  <2>. HIDE DEF d, m, j, b
  <2>5. /\ d \in [next : Nat, frontier : 0 .. end] /\ d.next >= cur[0].next
        /\ m \in [phase : Phase, at : Nat, rest : {0}]
        /\ m.phase \in {"none", "data", "source_frontier"} /\ (m.phase = "none" => m = NoContinuation)
        /\ IF b THEN d.next = n + 2 /\ d.frontier = cur[0].frontier /\ m.phase # "data"
           ELSE d = cur[0] /\ m = Continuation("data", j, 0)
    BY <2>2, <2>4, ScanMoves
  <2>6. Moved(log[0], n, j, cur[0], d, m)
    BY <2>3, <2>5 DEF Moved
  <2>. QED BY <2>5, <2>6 DEF j
<1>5. OnlyStage(0) /\ cur'[0] = d /\ cont'[0] = m
  <2>1. cur' = [cur EXCEPT ![0] = d] \/ (cur' = cur /\ d = cur[0])
    <3>1. CASE done
      <4>1. d = [next |-> n + 2, frontier |-> cur[0].frontier] /\ cur[0].next + 1 = n + 2
        BY <1>1, <3>1
      <4>2. cur' = [cur EXCEPT ![0] = [next |-> cur[0].next + 1, frontier |-> cur[0].frontier]]
        BY <1>1, <3>1, Zenon DEF MoveTo
      <4>. QED BY <4>1, <4>2
    <3>2. CASE ~done
      BY <1>1, <3>2
    <3>. QED BY <3>1, <3>2
  <2>2. cont' = [cont EXCEPT ![0] = m]
    BY <1>1 DEF SetContinuation
  <2>. HIDE DEF d, m
  <2>. QED BY <1>3, <1>4, <2>1, <2>2, MovesOnly, ZenonT(60)
<1>. HIDE DEF d, m
<1>6. x \in UnitChunk /\ x.kind = "data" /\ x.lsn = y.lsn /\ x.rows = p
  <2>. HIDE DEF y
  <2>. QED BY <1>1, DataChunk
<1>7. OutputGrows(0) /\ log'[1] = new
  <2>1. CASE ~(y.lsn > activation)
    <3>1. EmitNothing /\ new = log[1]
      BY <1>1, <1>2, <2>1
    <3>2. OutputGrows(0) /\ log'[0 + 1] = log[0 + 1]
      BY <3>1, NothingGrows
    <3>. QED BY <1>3, <3>1, <3>2
  <2>2. CASE y.lsn > activation
    <3>1. p # <<>>
      <4>1. Len(p) # 0
        BY <1>1
      <4>. QED BY <4>1
    <3>2. Emit(0, x) /\ x.lsn <= end /\ (x.kind = "frontier" <=> x.rows = <<>>)
      <4>1. o = p
        BY <1>2, <2>2
      <4>2. Emit(0, x)
        BY <1>1, <3>1, <4>1
      <4>. HIDE DEF x, y
      <4>. QED BY <1>1, <1>6, <3>1, <4>2
    <3>. HIDE DEF x
    <3>3. OutputGrows(0) /\ log'[0 + 1] = Append(log[0 + 1], x)
      BY <1>3, <1>6, <3>2, EmitGrows
    <3>. QED BY <1>3, <2>2, <3>3
  <2>. QED BY <2>1, <2>2
<1>8. IsScan(wal, activation, spool, log[0], new, d, m) /\ Traces(wal, activation, 1, new)
  <2>. DEFINE l == log[0]
              out == log[1]
  <2>1. /\ n \in Nat /\ n < Len(l) /\ cur[0].next = n + 1 /\ l[n + 1].kind = "data"
        /\ k.phase \in {"none", "data"}
        /\ p \in Seq(UnitEffect) /\ Len(p) # 0 /\ TakenOf(p, l[n + 1].rows, AtOf(k))
        /\ Moved(l, n, AtOf(k) + Len(p), cur[0], d, m)
        /\ m.phase \in {"none", "data", "source_frontier"}
        /\ new = IF l[n + 1].lsn > activation THEN Append(out, Data(l[n + 1].lsn, p)) ELSE out
    <3>1. AtOf(k) = k.at
      BY <1>1
    <3>2. Moved(l, n, AtOf(k) + Len(p), cur[0], d, m) /\ TakenOf(p, l[n + 1].rows, AtOf(k))
      BY <1>1, <1>4, <3>1
    <3>. QED BY <1>1, <1>4, <3>2
  <2>. HIDE DEF l, out, new, k
  <2>2. ScanPage(activation, l, n, cur[0], k, p, d, m, out, new)
    BY <2>1, Zenon DEF ScanPage
  <2>3. ScanAt(wal, end, sent, activation, spool, l, out, cur[0], k)
    BY <1>3 DEF l, out, k
  <2>4. IsScan(wal, activation, spool, l, new, d, m) /\ Traces(wal, activation, 1, new)
    BY <2>2, <2>3, ScanReads
  <2>. QED BY <2>4 DEF l
<1>9. IsCursor(log[0], d, m)
  <2>. DEFINE l == log[0]
  <2>1. /\ l \in Seq(UnitChunk) /\ n \in Nat /\ n < Len(l) /\ l[n + 1].kind = "data"
        /\ k.at + Len(p) \in 0 .. Len(l[n + 1].rows) /\ cur[0].next = n + 1
        /\ Moved(l, n, k.at + Len(p), cur[0], d, m)
    <3>0. log[0] \in Seq(UnitChunk)
      BY <1>3, StageFacts
    <3>1. k.at + Len(p) <= Len(y.rows) /\ Len(y.rows) \in Nat
      <4>1. n + 1 \in 1 .. Len(log[0]) /\ Len(log[0]) \in Nat
        BY <1>1, <3>0, ChunkFacts
      <4>2. Len(y.rows) \in Nat
        BY <3>0, <4>1, ChunkFacts
      <4>. HIDE DEF y
      <4>. QED BY <1>1, <4>2 DEF TakenOf
    <3>2. k.at + Len(p) \in Nat
      <4>. HIDE DEF k
      <4>. QED BY <1>1, <1>3
    <3>. QED BY <1>1, <1>4, <3>0, <3>1, <3>2
  <2>. HIDE DEF l, k
  <2>2. d.next \in 1 .. Len(l) + 1 /\ (m.phase = "data" => IsCursor(l, d, m))
    BY <2>1, MovedFacts
  <2>3. m.phase # "data" => IsCursor(l, d, m)
    BY <1>4, <2>2 DEF IsCursor
  <2>. QED BY <2>2, <2>3 DEF l
<1>10. activation # 0 /\ UNCHANGED <<wal, sent, end, published, activation, kept, result, spool>>
  BY <1>1 DEF sourceVars
<1>11. \A i \in DOMAIN spool' : i \in Nat /\ spool'[i] \in Rows
  BY <1>10 DEF Inv, Types
<1>. HIDE DEF new
<1>12. /\ IsCursor(log[0], cur'[0], cont'[0])
       /\ IsScan(wal, activation, spool', log[0], log'[1], cur'[0], cont'[0])
       /\ Traces(wal, activation, 0 + 1, log'[0 + 1])
  BY <1>3, <1>5, <1>7, <1>8, <1>9, <1>10
<1>. QED BY <1>3, <1>5, <1>7, <1>10, <1>11, <1>12, Frame
-----------------------------------------------------------------------------
\* Reading the snapshot.

\* A page of n rows of the snapshot, from the place `at` on, what is left of it
\* at a place, and how many of those rows are r.
SpoolPage(sp, at, n) == [i \in 1 .. n |-> [row |-> sp[at + i - 1], w |-> 1]]
SpoolFrom(sp, at) == [i \in {j \in DOMAIN sp : j >= at} |-> sp[i]]
LeftOf(sp, at, m, r) == Cardinality({i \in at .. m : sp[i] = r})

\* The next row of the snapshot.
LEMMA LeftNext ==
    ASSUME NEW sp, NEW at \in Nat, NEW m \in Nat, NEW r
    PROVE  /\ LeftOf(sp, at, m, r) \in Nat
           /\ at <= m => LeftOf(sp, at, m, r) = LeftOf(sp, at + 1, m, r) + IF sp[at] = r THEN 1 ELSE 0
<1>. DEFINE S == {i \in at .. m : sp[i] = r}
            T == {i \in at + 1 .. m : sp[i] = r}
<1>1. IsFiniteSet(S) /\ IsFiniteSet(T)
  <2>1. IsFiniteSet(at .. m) /\ IsFiniteSet(at + 1 .. m)
    BY FS_Interval
  <2>. QED BY <2>1, FS_Subset
<1>2. Cardinality(S) \in Nat /\ Cardinality(T) \in Nat
  BY <1>1, FS_CardinalityType
<1>3. ASSUME at <= m, sp[at] = r PROVE Cardinality(S) = Cardinality(T) + 1
  <2>1. S = T \cup {at} /\ at \notin T
    BY <1>3
  <2>. QED BY <1>1, <2>1, FS_AddElement
<1>4. ASSUME at <= m, sp[at] # r PROVE S = T
  <2>1. \A i : i \in S <=> i \in T
    BY <1>4
  <2>. QED BY <2>1
<1>5. at <= m => Cardinality(S) = Cardinality(T) + IF sp[at] = r THEN 1 ELSE 0
  <2>. HIDE DEF S, T
  <2>. QED BY <1>2, <1>3, <1>4
<1>. QED BY <1>2, <1>5 DEF LeftOf

\* The rows of a page, with those that are left, are the rows there were.
LEMMA SpoolPageNet ==
    ASSUME NEW sp, NEW at \in Nat, NEW m \in Nat, \A i \in at .. m : sp[i] \in Rows,
           NEW n \in Nat, n = 0 \/ at + n <= m + 1
    PROVE  /\ SpoolPage(sp, at, n) \in Seq(UnitEffect) /\ Len(SpoolPage(sp, at, n)) = n
           /\ \A j \in 0 .. n : \A r :
                Net(SubSeq(SpoolPage(sp, at, n), 1, j), r) + LeftOf(sp, at + j, m, r) = LeftOf(sp, at, m, r)
<1>. DEFINE p == SpoolPage(sp, at, n)
<1>1. \A i \in 1 .. n : at + i - 1 \in at .. m /\ at + i - 1 \in Nat
  OBVIOUS
<1>2. \A i \in 1 .. n : [row |-> sp[at + i - 1], w |-> 1] \in UnitEffect
  <2>1. \A x \in Rows : [row |-> x, w |-> 1] \in UnitEffect
    BY DEF UnitEffect
  <2>. QED BY <1>1, <2>1
<1>3. p \in Seq(UnitEffect) /\ Len(p) = n /\ \A i \in 1 .. n : p[i] = [row |-> sp[at + i - 1], w |-> 1]
  <2>1. p = [i \in 1 .. n |-> [row |-> sp[at + i - 1], w |-> 1]]
    BY DEF SpoolPage
  <2>2. p \in [1 .. n -> UnitEffect] /\ \A i \in 1 .. n : p[i] = [row |-> sp[at + i - 1], w |-> 1]
    <3>. HIDE DEF UnitEffect, p
    <3>. QED BY <1>2, <2>1
  <2>3. DOMAIN p = 1 .. n
    BY <2>1
  <2>. HIDE DEF p, UnitEffect
  <2>4. p \in Seq(UnitEffect)
    BY <2>2, SeqDef
  <2>. QED BY <2>2, <2>3, <2>4, LenProperties
<1>. HIDE DEF p
<1>4. ASSUME NEW r PROVE \A j \in 0 .. n : Net(SubSeq(p, 1, j), r) + LeftOf(sp, at + j, m, r) = LeftOf(sp, at, m, r)
  <2>. DEFINE Q(j) == Net(SubSeq(p, 1, j), r) + LeftOf(sp, at + j, m, r) = LeftOf(sp, at, m, r)
              N == {j \in Nat : j <= n => Q(j)}
  <2>1. 0 \in N
    <3>1. 0 \in 0 .. Len(p)
      BY <1>3
    <3>2. Net(SubSeq(p, 1, 0), r) = 0
      BY <1>3, <3>1, UnitPrefix
    <3>3. LeftOf(sp, at, m, r) \in Nat
      BY LeftNext
    <3>4. at + 0 = at
      OBVIOUS
    <3>. QED BY <3>2, <3>3, <3>4
  <2>2. ASSUME NEW j \in Nat, j \in N PROVE j + 1 \in N
    <3>1. SUFFICES ASSUME j + 1 <= n PROVE Q(j + 1)
      OBVIOUS
    <3>2. Q(j)
      BY <2>2, <3>1
    <3>3. j + 1 \in 1 .. Len(p) /\ (j + 1) - 1 = j /\ j \in 0 .. Len(p) /\ j + 1 \in 1 .. n
      BY <1>3, <3>1
    <3>4. Net(SubSeq(p, 1, j + 1), r) = Net(SubSeq(p, 1, j), r) + (IF p[j + 1].row = r THEN p[j + 1].w ELSE 0)
      <4>. DEFINE i == j + 1
      <4>1. i \in 1 .. Len(p) /\ i - 1 = j
        BY <3>3
      <4>. HIDE DEF i
      <4>2. Net(SubSeq(p, 1, i), r) = Net(SubSeq(p, 1, i - 1), r) + (IF p[i].row = r THEN p[i].w ELSE 0)
        BY <1>3, <4>1, PrefixNext, ZenonT(60)
      <4>3. Net(SubSeq(p, 1, i), r) = Net(SubSeq(p, 1, j), r) + (IF p[i].row = r THEN p[i].w ELSE 0)
        BY <4>1, <4>2
      <4>. QED BY <4>3 DEF i
    <3>5. p[j + 1].row = sp[at + j] /\ p[j + 1].w = 1
      <4>1. p[j + 1] = [row |-> sp[at + (j + 1) - 1], w |-> 1] /\ at + (j + 1) - 1 = at + j
        BY <1>3, <3>3
      <4>. QED BY <4>1
    <3>6. at + j \in Nat /\ at + j <= m /\ (at + j) + 1 = at + (j + 1) /\ at + (j + 1) \in Nat
      BY <3>1
    <3>7. /\ LeftOf(sp, at + j, m, r) \in Nat /\ LeftOf(sp, at + (j + 1), m, r) \in Nat
          /\ LeftOf(sp, at + j, m, r) = LeftOf(sp, at + (j + 1), m, r) + IF sp[at + j] = r THEN 1 ELSE 0
      <4>1. /\ LeftOf(sp, at + j, m, r) \in Nat
            /\ LeftOf(sp, at + j, m, r) = LeftOf(sp, (at + j) + 1, m, r) + IF sp[at + j] = r THEN 1 ELSE 0
        BY <3>6, LeftNext
      <4>2. LeftOf(sp, at + (j + 1), m, r) \in Nat
        BY <3>6, LeftNext
      <4>. QED BY <3>6, <4>1, <4>2
    <3>8. Net(SubSeq(p, 1, j), r) \in Int
      BY <1>3, <3>3, UnitPrefix
    <3>. QED BY <3>2, <3>4, <3>5, <3>7, <3>8
  <2>. HIDE DEF N
  <2>3. Nat \subseteq N
    BY <2>1, <2>2, NatSetInduction
  <2>4. \A j \in Nat : j <= n => Q(j)
    BY <2>3 DEF N
  <2>. QED BY <2>4
<1>. QED BY <1>3, <1>4 DEF p

\* The Scan reads a page p of n rows of the snapshot, and writes it at the
\* activation LSN.
SnapshotPage(a, sp, out, k, n, p, rest, new, q) ==
    /\ k.phase = "bootstrap" /\ k.at \in Nat /\ a \in 1 .. MaxCommits + 1
    /\ \A i \in DOMAIN sp : sp[i] \in Rows
    /\ n \in Nat /\ n <= Cardinality(DOMAIN sp)
    /\ p = SpoolPage(sp, k.at, n) /\ rest = SpoolFrom(sp, k.at + n)
    /\ new = IF n = 0 THEN out ELSE Append(out, Data(a, p))
    /\ q = IF DOMAIN rest = {} THEN Continuation("snapshot_frontier", a, 0)
           ELSE Continuation("bootstrap", k.at + n, 0)

\* What it reads and what it leaves.
LEMMA SnapshotPageFacts ==
    ASSUME NEW a, NEW sp, NEW out, NEW k, NEW n, NEW p, NEW rest, NEW new, NEW q,
           SnapshotPage(a, sp, out, k, n, p, rest, new, q), NEW m \in Nat, DOMAIN sp = k.at .. m
    PROVE  /\ p \in Seq(UnitEffect) /\ Len(p) = n /\ n \in Nat /\ k.at + n \in Nat
           /\ DOMAIN rest = k.at + n .. m /\ \A i \in DOMAIN rest : i \in Nat /\ rest[i] \in Rows
           /\ \A r : /\ Spooled(sp, r) \in Nat /\ Spooled(rest, r) \in Nat
                     /\ Net(p, r) + Spooled(rest, r) = Spooled(sp, r)
                     /\ \A j \in 0 .. n : Net(SubSeq(p, 1, j), r) <= Spooled(sp, r)
<1>. DEFINE at == k.at
<1>1. /\ at \in Nat /\ n \in Nat /\ n <= Cardinality(at .. m) /\ \A i \in at .. m : sp[i] \in Rows
      /\ p = SpoolPage(sp, at, n) /\ rest = SpoolFrom(sp, at + n)
  BY DEF SnapshotPage
<1>0. DOMAIN sp = at .. m /\ at = k.at
  OBVIOUS
<1>. HIDE DEF at
<1>2. n = 0 \/ at + n <= m + 1
  <2>1. Cardinality(at .. m) = IF at > m THEN 0 ELSE m - at + 1
    BY <1>1, FS_Interval
  <2>. QED BY <1>1, <2>1
<1>3. at + n \in Nat /\ {j \in at .. m : j >= at + n} = at + n .. m
  BY <1>1
<1>4. DOMAIN rest = at + n .. m /\ \A i \in at + n .. m : i \in at .. m /\ i \in Nat /\ rest[i] = sp[i]
  <2>1. DOMAIN rest = {j \in at .. m : j >= at + n} /\ \A i \in {j \in at .. m : j >= at + n} : rest[i] = sp[i]
    BY <1>0, <1>1 DEF SpoolFrom
  <2>2. \A i \in at + n .. m : i \in at .. m /\ i \in Nat
    BY <1>1
  <2>. QED BY <1>3, <2>1, <2>2
<1>5. ASSUME NEW r
      PROVE  Spooled(sp, r) = LeftOf(sp, at, m, r) /\ Spooled(rest, r) = LeftOf(sp, at + n, m, r)
  <2>1. {i \in DOMAIN rest : rest[i] = r} = {i \in at + n .. m : sp[i] = r}
    BY <1>4
  <2>2. {i \in DOMAIN sp : sp[i] = r} = {i \in at .. m : sp[i] = r}
    BY <1>0
  <2>. QED BY <2>1, <2>2 DEF Spooled, LeftOf
<1>6. /\ p \in Seq(UnitEffect) /\ Len(p) = n
      /\ \A j \in 0 .. n : \A r :
            Net(SubSeq(p, 1, j), r) + LeftOf(sp, at + j, m, r) = LeftOf(sp, at, m, r)
  <2>1. /\ SpoolPage(sp, at, n) \in Seq(UnitEffect) /\ Len(SpoolPage(sp, at, n)) = n
        /\ \A j \in 0 .. n : \A r :
             Net(SubSeq(SpoolPage(sp, at, n), 1, j), r) + LeftOf(sp, at + j, m, r) = LeftOf(sp, at, m, r)
    BY <1>1, <1>2, SpoolPageNet, Zenon
  <2>. QED BY <1>1, <2>1, Zenon
<1>7. ASSUME NEW r
      PROVE  /\ Spooled(sp, r) \in Nat /\ Spooled(rest, r) \in Nat
             /\ Net(p, r) + Spooled(rest, r) = Spooled(sp, r)
             /\ \A j \in 0 .. n : Net(SubSeq(p, 1, j), r) <= Spooled(sp, r)
  <2>1. \A j \in 0 .. n : at + j \in Nat
    BY <1>1
  <2>2. \A j \in 0 .. n : LeftOf(sp, at + j, m, r) \in Nat
    BY <2>1, LeftNext
  <2>3. LeftOf(sp, at, m, r) \in Nat /\ n \in 0 .. n
    BY <1>1, LeftNext
  <2>4. SubSeq(p, 1, n) = p /\ \A j \in 0 .. n : Net(SubSeq(p, 1, j), r) \in Int
    <3>1. n \in 0 .. Len(p)
      BY <1>6, <2>3
    <3>2. SubSeq(p, 1, Len(p)) = p
      BY <1>6, <3>1, UnitPrefix
    <3>. QED BY <1>6, <3>2, UnitPrefix
  <2>5. Net(p, r) + LeftOf(sp, at + n, m, r) = LeftOf(sp, at, m, r)
    BY <1>6, <2>3, <2>4
  <2>6. \A j \in 0 .. n : Net(SubSeq(p, 1, j), r) <= LeftOf(sp, at, m, r)
    <3>1. SUFFICES ASSUME NEW j \in 0 .. n PROVE Net(SubSeq(p, 1, j), r) <= LeftOf(sp, at, m, r)
      OBVIOUS
    <3>2. Net(SubSeq(p, 1, j), r) + LeftOf(sp, at + j, m, r) = LeftOf(sp, at, m, r)
      BY <1>6
    <3>. QED BY <2>2, <2>3, <2>4, <3>2
  <2>. QED BY <1>5, <2>2, <2>3, <2>5, <2>6
<1>8. \A i \in DOMAIN rest : i \in Nat /\ rest[i] \in Rows
  BY <1>1, <1>4
<1>. QED BY <1>0, <1>1, <1>3, <1>4, <1>6, <1>7, <1>8

\* The Scan reads a page of the snapshot.
LEMMA SnapshotReads ==
    ASSUME NEW w, NEW e, NEW u, NEW a, NEW sp, NEW l, NEW out, NEW c, NEW k,
           ScanAt(w, e, u, a, sp, l, out, c, k),
           NEW n, NEW p, NEW rest, NEW new, NEW q, SnapshotPage(a, sp, out, k, n, p, rest, new, q)
    PROVE  /\ IsScan(w, a, rest, l, new, c, q) /\ Traces(w, a, 1, new) /\ IsCursor(l, c, q)
           /\ p \in Seq(UnitEffect) /\ Len(p) = n
           /\ q \in [phase : Phase, at : Nat, rest : {0}]
           /\ \A i \in DOMAIN rest : i \in Nat /\ rest[i] \in Rows
<1>. DEFINE up == UpToOf(w, a)
            reached == ReachedOf(w, a, l, c, k)
            x == Data(a, p)
            F == Frontiers(out, Len(out))
<1>1. /\ k.phase = "bootstrap" /\ k.at \in Nat /\ a \in 1 .. MaxCommits + 1 /\ a \in Nat
      /\ new = IF n = 0 THEN out ELSE Append(out, x)
      /\ q = IF DOMAIN rest = {} THEN Continuation("snapshot_frontier", a, 0)
             ELSE Continuation("bootstrap", k.at + n, 0)
  BY DEF SnapshotPage
<1>2. /\ w \in Seq(Change) /\ out \in Seq(UnitChunk) /\ Traces(w, a, 1, out) /\ IsCursor(l, c, k)
      /\ IsScan(w, a, sp, l, out, c, k)
  BY DEF ScanAt
<1>3. PICK m \in Nat : DOMAIN sp = k.at .. m
  BY <1>1, <1>2 DEF IsScan
<1>4. reached = up /\ F = {} /\ UpToOf(w, c.frontier) <= reached
  BY <1>1, <1>2 DEF IsScan
<1>5. /\ p \in Seq(UnitEffect) /\ Len(p) = n /\ n \in Nat /\ k.at + n \in Nat
      /\ DOMAIN rest = k.at + n .. m /\ \A i \in DOMAIN rest : i \in Nat /\ rest[i] \in Rows
      /\ \A r : /\ Spooled(sp, r) \in Nat /\ Spooled(rest, r) \in Nat
                /\ Net(p, r) + Spooled(rest, r) = Spooled(sp, r)
                /\ \A j \in 0 .. n : Net(SubSeq(p, 1, j), r) <= Spooled(sp, r)
  <2>. HIDE DEF up, reached, x, F
  <2>. QED BY <1>3, SnapshotPageFacts
<1>6. /\ q \in [phase : Phase, at : Nat, rest : {0}] /\ q.phase \in {"bootstrap", "snapshot_frontier"}
      /\ IF q.phase = "bootstrap" THEN DOMAIN rest = q.at .. m ELSE DOMAIN rest = {}
  <2>1. CASE DOMAIN rest = {}
    <3>1. q = [phase |-> "snapshot_frontier", at |-> a, rest |-> 0]
      BY <1>1, <2>1 DEF Continuation
    <3>. QED BY <1>1, <2>1, <3>1 DEF Phase
  <2>2. CASE DOMAIN rest # {}
    <3>1. q = [phase |-> "bootstrap", at |-> k.at + n, rest |-> 0]
      BY <1>1, <2>2 DEF Continuation
    <3>. QED BY <1>5, <3>1 DEF Phase
  <2>. QED BY <2>1, <2>2
<1>7. ReachedOf(w, a, l, c, q) = up /\ AtOf(q) = 0
  <2>1. AtOf(q) = 0 /\ AtOf(k) = 0
    BY <1>1, <1>6 DEF AtOf
  <2>2. ReachedOf(w, a, l, c, q) = reached
    BY <2>1, Zenon DEF ReachedOf
  <2>. QED BY <1>4, <2>1, <2>2
<1>8. IsCursor(l, c, q)
  BY <1>2, <1>6 DEF IsCursor
<1>9. \A r \in Rows : /\ NetTo(out, Len(out), r) + Spooled(sp, r) = TableOf(w, up)[r]
                      /\ NetTo(out, Len(out), r) \in Int
  BY <1>4, ReachedFacts
<1>. HIDE DEF up, reached, F
<1>10. ASSUME Frontiers(new, Len(new)) = {},
              \A r \in Rows : NetTo(new, Len(new), r) + Spooled(rest, r) = TableOf(w, up)[r]
       PROVE  IsScan(w, a, rest, l, new, c, q)
  <2>1. q.phase = "bootstrap" => \E h \in Nat : DOMAIN rest = q.at .. h
    BY <1>6
  <2>2. q.phase # "bootstrap" => DOMAIN rest = {}
    BY <1>6
  <2>3. UpToOf(w, c.frontier) <= up
    BY <1>4
  <2>4. \A f \in Frontiers(new, Len(new)) : f <= c.frontier
    BY <1>10
  <2>. QED BY <1>6, <1>7, <1>10, <2>1, <2>2, <2>3, <2>4 DEF IsScan, up
<1>11. CASE n = 0
  <2>1. new = out
    BY <1>1, <1>11
  <2>2. \A r \in Rows : NetTo(out, Len(out), r) + Spooled(rest, r) = TableOf(w, up)[r]
    <3>1. p = <<>>
      BY <1>5, <1>11, EmptySeq
    <3>2. \A r : Net(p, r) = 0
      BY <3>1, NoEffects
    <3>3. \A r : Spooled(rest, r) = Spooled(sp, r)
      BY <1>5, <3>2
    <3>. QED BY <1>9, <3>3
  <2>3. IsScan(w, a, rest, l, new, c, q)
    BY <1>4, <1>10, <2>1, <2>2 DEF F
  <2>. QED BY <1>2, <1>5, <1>6, <1>8, <2>1, <2>3
<1>12. CASE n # 0
  <2>1. new = Append(out, x)
    BY <1>1, <1>12
  <2>2. x \in UnitChunk /\ x.kind = "data" /\ x.rows = p
    BY <1>1, <1>5, DataChunk
  <2>. HIDE DEF x
  <2>. DEFINE ap == Append(out, x)
  <2>3. Frontiers(ap, Len(ap)) = F /\ \A r : NetTo(ap, Len(ap), r) = NetTo(out, Len(out), r) + Net(p, r)
    BY <1>2, <2>2, AppendData DEF F
  <2>4. \A r : Net(p, r) \in Int
    BY <1>5, UnitSeq, NetInt
  <2>. HIDE DEF ap
  <2>5. \A r \in Rows : NetTo(ap, Len(ap), r) + Spooled(rest, r) = TableOf(w, up)[r]
    <3>1. SUFFICES ASSUME NEW r \in Rows
                   PROVE  NetTo(ap, Len(ap), r) + Spooled(rest, r) = TableOf(w, up)[r]
      OBVIOUS
    <3>2. Net(p, r) + Spooled(rest, r) = Spooled(sp, r) /\ Spooled(rest, r) \in Nat /\ Spooled(sp, r) \in Nat
      BY <1>5
    <3>3. NetTo(out, Len(out), r) + Spooled(sp, r) = TableOf(w, up)[r] /\ NetTo(out, Len(out), r) \in Int
      BY <1>9
    <3>. QED BY <2>3, <2>4, <3>2, <3>3
  <2>6. IsScan(w, a, rest, l, new, c, q)
    <3>1. new = ap
      BY <2>1 DEF ap
    <3>. QED BY <1>4, <1>10, <2>3, <2>5, <3>1
  <2>7. ASSUME NEW j \in 0 .. Len(x.rows)
        PROVE  TracedAt(w, a, 1,
                   Frontiers(out, Len(out)) \cup (IF x.kind = "frontier" THEN {x.lsn} ELSE {}),
                   [r \in Rows |-> NetTo(out, Len(out), r) + Net(SubSeq(x.rows, 1, j), r)])
    <3>. DEFINE v == [r \in Rows |-> NetTo(out, Len(out), r) + Net(SubSeq(x.rows, 1, j), r)]
                t == TableOf(w, up)
    <3>1. j \in 0 .. n /\ x.rows = p
      BY <1>5, <2>2
    <3>2. \A r \in Rows : v[r] <= t[r]
      <4>1. SUFFICES ASSUME NEW r \in Rows
                     PROVE  NetTo(out, Len(out), r) + Net(SubSeq(p, 1, j), r) <= t[r]
        BY <3>1
      <4>2. NetTo(out, Len(out), r) + Spooled(sp, r) = t[r] /\ NetTo(out, Len(out), r) \in Int
        BY <1>9
      <4>3. Net(SubSeq(p, 1, j), r) <= Spooled(sp, r) /\ Spooled(sp, r) \in Nat
        BY <1>5, <3>1
      <4>4. Net(SubSeq(p, 1, j), r) \in Int
        BY <1>5, <3>1, UnitPrefix
      <4>. HIDE DEF t
      <4>. QED BY <4>2, <4>3, <4>4
    <3>3. After(1 - 1, t) = t
      <4>1. up \in 0 .. Len(w)
        BY <1>2, UpToType DEF up
      <4>2. t \in [Rows -> Int] /\ 1 - 1 = 0
        BY <1>2, <4>1, TableType
      <4>. HIDE DEF t
      <4>. QED BY <4>2, AfterFacts
    <3>4. Frontiers(out, Len(out)) \cup (IF x.kind = "frontier" THEN {x.lsn} ELSE {}) = {}
      <4>1. x.kind # "frontier"
        BY <2>2
      <4>. QED BY <1>4, <4>1 DEF F
    <3>. HIDE DEF v, t
    <3>5. \A r \in Rows : v[r] <= After(1 - 1, t)[r]
      BY <3>2, <3>3
    <3>6. TracedAt(w, a, 1, {}, v)
      BY <3>5 DEF TracedAt, t, up
    <3>. QED BY <3>4, <3>6 DEF v
  <2>8. Traces(w, a, 1, new)
    <3>1. x.kind = "frontier" => x.rows = <<>>
      BY <2>2
    <3>. QED BY <1>2, <2>1, <2>2, <2>7, <3>1, TracesGrow
  <2>. QED BY <1>5, <1>6, <1>8, <2>6, <2>8
<1>. QED BY <1>5, <1>11, <1>12
-----------------------------------------------------------------------------
\* What a step over the snapshot reads and writes.
LEMMA BootstrapFacts ==
    ASSUME Inv, Bootstrap
    PROVE  LET k == cont[0]
               n == Min({Cardinality(DOMAIN spool), BatchRows, TargetRows})
               p == SpoolPage(spool, k.at, n)
               new == IF n = 0 THEN log[1] ELSE Append(log[1], Data(activation, p))
               q == IF DOMAIN spool' = {} THEN Continuation("snapshot_frontier", activation, 0)
                    ELSE Continuation("bootstrap", k.at + n, 0)
           IN /\ activation # 0 /\ SnapshotPage(activation, spool, log[1], k, n, p, spool', new, q)
              /\ IF n = 0 THEN EmitNothing ELSE Emit(0, Data(activation, p))
              /\ SetContinuation(0, q) /\ cur' = cur
              /\ UNCHANGED <<wal, sent, end, published, activation, kept, result>>
<1>. DEFINE k == cont[0]
            n == Min({Cardinality(DOMAIN spool), BatchRows, TargetRows})
            p == SpoolPage(spool, k.at, n)
            q == IF DOMAIN spool' = {} THEN Continuation("snapshot_frontier", activation, 0)
                 ELSE Continuation("bootstrap", k.at + n, 0)
<1>1. /\ Ready(0) /\ k.phase = "bootstrap"
      /\ IF n = 0 THEN EmitNothing ELSE Emit(0, Data(activation, p))
      /\ spool' = SpoolFrom(spool, k.at + n)
      /\ SetContinuation(0, q)
      /\ UNCHANGED <<sourceVars, activation, cur, kept, result>>
  BY Zenon DEF Bootstrap, SpoolPage, SpoolFrom
<1>. HIDE DEF p, q
<1>2. activation # 0
  BY <1>1 DEF Ready
<1>3. /\ IsScan(wal, activation, spool, log[0], log[1], cur[0], cont[0])
      /\ activation \in 1 .. end /\ end \in 1 .. MaxCommits + 1
      /\ cont[0] \in [phase : Phase, at : Nat, rest : {0}]
  BY <1>2, ScanHere
<1>4. k.at \in Nat /\ activation \in 1 .. MaxCommits + 1 /\ \A i \in DOMAIN spool : spool[i] \in Rows
  <2>1. \A i \in DOMAIN spool : spool[i] \in Rows
    BY DEF Inv, Types
  <2>. QED BY <1>3, <2>1, PlanAssumption
<1>5. PICK m \in Nat : DOMAIN spool = k.at .. m
  BY <1>1, <1>3 DEF IsScan
<1>6. Cardinality(DOMAIN spool) \in Nat
  <2>1. k.at \in Int /\ m \in Int
    BY <1>4
  <2>2. IsFiniteSet(DOMAIN spool)
    BY <1>5, <2>1, FS_Interval
  <2>. QED BY <2>2, FS_CardinalityType
<1>7. n \in Nat /\ n <= Cardinality(DOMAIN spool)
  <2>. DEFINE T == {Cardinality(DOMAIN spool), BatchRows, TargetRows}
  <2>1. T \in SUBSET Nat /\ T # {}
    BY <1>6, BatchAssumption, PlanAssumption
  <2>2. n \in T /\ \A y \in T : n <= y
    BY <2>1, MinOfNats
  <2>. QED BY <2>1, <2>2
<1>8. UNCHANGED <<wal, sent, end, published, activation, kept, result>> /\ cur' = cur
  BY <1>1 DEF sourceVars
<1>. HIDE DEF n
<1>9. SnapshotPage(activation, spool, log[1], k, n, p, spool',
                   IF n = 0 THEN log[1] ELSE Append(log[1], Data(activation, p)), q)
  <2>1. p = SpoolPage(spool, k.at, n)
    BY DEF p
  <2>2. q = IF DOMAIN spool' = {} THEN Continuation("snapshot_frontier", activation, 0)
            ELSE Continuation("bootstrap", k.at + n, 0)
    BY DEF q
  <2>. HIDE DEF k
  <2>. QED BY <1>1, <1>4, <1>7, <2>1, <2>2, Zenon DEF SnapshotPage
<1>. QED BY <1>1, <1>2, <1>8, <1>9, Zenon DEF n, p, q

\* A step over the snapshot preserves the invariant.
LEMMA BootstrapStep ==
    ASSUME Inv, Bootstrap
    PROVE  Inv'
<1>. DEFINE k == cont[0]
            n == Min({Cardinality(DOMAIN spool), BatchRows, TargetRows})
            p == SpoolPage(spool, k.at, n)
            x == Data(activation, p)
            new == IF n = 0 THEN log[1] ELSE Append(log[1], x)
            q == IF DOMAIN spool' = {} THEN Continuation("snapshot_frontier", activation, 0)
                 ELSE Continuation("bootstrap", k.at + n, 0)
<1>1. /\ activation # 0 /\ SnapshotPage(activation, spool, log[1], k, n, p, spool', new, q)
      /\ IF n = 0 THEN EmitNothing ELSE Emit(0, x)
      /\ SetContinuation(0, q) /\ cur' = cur
      /\ UNCHANGED <<wal, sent, end, published, activation, kept, result>>
  BY BootstrapFacts, Zenon
<1>. HIDE DEF n, p, q
<1>2. /\ ScanAt(wal, end, sent, activation, spool, log[0], log[1], cur[0], cont[0])
      /\ 0 \in Stages /\ 1 \in Stages /\ 0 \in 0 .. Len(Plan) /\ 0 + 1 = 1
      /\ log[1] \in Seq(UnitChunk) /\ activation \in 1 .. end /\ end \in 1 .. MaxCommits + 1 /\ end \in Nat
      /\ cur[0] \in [next : Nat, frontier : 0 .. end] /\ cur[0].next \in Nat
  <2>1. cur \in [Stages -> [next : Nat, frontier : 0 .. end]]
    BY DEF Inv, Types
  <2>2. 0 \in Stages
    BY <1>1, ScanHere
  <2>3. cur[0] \in [next : Nat, frontier : 0 .. end]
    BY <2>1, <2>2
  <2>. QED BY <1>1, <2>3, ScanHere
<1>. HIDE DEF new
<1>3. /\ IsScan(wal, activation, spool', log[0], new, cur[0], q) /\ Traces(wal, activation, 1, new)
      /\ IsCursor(log[0], cur[0], q) /\ p \in Seq(UnitEffect) /\ Len(p) = n
      /\ q \in [phase : Phase, at : Nat, rest : {0}]
      /\ \A i \in DOMAIN spool' : i \in Nat /\ spool'[i] \in Rows
  BY <1>1, <1>2, SnapshotReads DEF k
<1>4. OnlyStage(0) /\ cur'[0] = cur[0] /\ cont'[0] = q
  <2>. DEFINE d == cur[0]
  <2>1. d \in [next : Nat, frontier : 0 .. end] /\ d.next >= cur[0].next /\ cur' = cur /\ d = cur[0]
    BY <1>1, <1>2
  <2>2. cont' = [cont EXCEPT ![0] = q]
    BY <1>1 DEF SetContinuation
  <2>. HIDE DEF d
  <2>3. OnlyStage(0) /\ cur'[0] = d /\ cont'[0] = q
    BY <1>2, <1>3, <2>1, <2>2, MovesOnly
  <2>. QED BY <2>3 DEF d
<1>5. OutputGrows(0) /\ log'[1] = new
  <2>1. CASE n = 0
    <3>1. EmitNothing /\ new = log[1]
      BY <1>1, <2>1 DEF new
    <3>2. OutputGrows(0) /\ log'[0 + 1] = log[0 + 1]
      BY <3>1, NothingGrows
    <3>. QED BY <1>2, <3>1, <3>2
  <2>2. CASE n # 0
    <3>1. activation \in 1 .. MaxCommits + 1 /\ activation <= end
      BY <1>2, PlanAssumption
    <3>2. x \in UnitChunk /\ x.kind = "data" /\ x.lsn = activation /\ x.rows = p
      BY <1>3, <3>1, DataChunk
    <3>3. Emit(0, x) /\ new = Append(log[1], x)
      BY <1>1, <2>2 DEF new
    <3>4. p # <<>>
      BY <1>3, <2>2
    <3>. HIDE DEF x
    <3>5. x.lsn <= end /\ (x.kind = "frontier" <=> x.rows = <<>>)
      BY <3>1, <3>2, <3>4
    <3>6. OutputGrows(0) /\ log'[0 + 1] = Append(log[0 + 1], x)
      BY <1>2, <3>2, <3>3, <3>5, EmitGrows
    <3>. QED BY <1>2, <3>3, <3>6
  <2>. QED BY <2>1, <2>2
<1>6. /\ IsCursor(log[0], cur'[0], cont'[0])
      /\ IsScan(wal, activation, spool', log[0], log'[1], cur'[0], cont'[0])
      /\ Traces(wal, activation, 0 + 1, log'[0 + 1])
  BY <1>2, <1>3, <1>4, <1>5
<1>. QED BY <1>1, <1>2, <1>3, <1>4, <1>5, <1>6, Frame
-----------------------------------------------------------------------------
\* The Sink.

\* A row is asked for a number of times.
LEMMA CopiesNat ==
    ASSUME NEW R, NEW e \in Seq(Weighted(R)), NEW r, NEW sign
    PROVE  Copies(e, r, sign) \in Nat
<1>. DEFINE t == CopyTerms(e, r, sign)
            z == [i \in 1 .. Len(e) |-> 0]
<1>1. t \in Seq(Int) /\ Len(t) = Len(e) /\ Copies(e, r, sign) = Total(t)
  BY CopyTermsType
<1>2. Len(e) \in Nat /\ \A i \in 1 .. Len(e) : e[i].w \in Int /\ DOMAIN e = 1 .. Len(e)
  BY Elements
<1>3. z \in Seq(Int) /\ Len(z) = Len(e)
  <2>1. z \in [1 .. Len(e) -> Int] /\ DOMAIN z = 1 .. Len(e)
    OBVIOUS
  <2>. HIDE DEF z
  <2>. QED BY <1>2, <2>1, SeqDef, LenProperties
<1>4. Total(z) = 0
  <2>. DEFINE f == [i \in 0 .. Len(z) |-> 0]
  <2>1. f[0] = 0 /\ f[Len(z)] = 0 /\ \A i \in 1 .. Len(z) : f[i] = f[i - 1] + z[i]
    BY <1>2, <1>3
  <2>. HIDE DEF f, z
  <2>. QED BY <1>3, <2>1, TotalIs
<1>5. \A i \in 1 .. Len(t) : z[i] <= t[i]
  <2>1. SUFFICES ASSUME NEW i \in 1 .. Len(e) PROVE 0 <= t[i]
    BY <1>1
  <2>2. e[i].w \in Int /\ i \in DOMAIN e
    BY <1>2, Elements
  <2>3. Abs(e[i].w) \in Nat
    BY <2>2, AbsFacts
  <2>4. t[i] = IF e[i].row = r /\ Sign(e[i].w) = sign THEN Abs(e[i].w) ELSE 0
    BY <2>2 DEF CopyTerms
  <2>. QED BY <2>3, <2>4
<1>. HIDE DEF t, z
<1>6. Total(z) <= Total(t) /\ Total(t) \in Int
  BY <1>1, <1>3, <1>5, TotalBound, TotalInt
<1>. QED BY <1>1, <1>4, <1>6

\* A page that applies leaves a bag.
LEMMA AppliedNat ==
    ASSUME NEW R, NEW actions \in Seq(Weighted(R)), NEW old \in [Rows -> Nat], PageApplies(old, actions)
    PROVE  /\ mutate_result_page(old, actions) \in [Rows -> Nat]
           /\ \A r \in Rows : mutate_result_page(old, actions)[r] = old[r] + Net(actions, r)
<1>1. \A r \in Rows : mutate_result_page(old, actions)[r] = old[r] + Net(actions, r)
  BY ApplyFacts
<1>2. ASSUME NEW r \in Rows
      PROVE  old[r] + Copies(actions, r, 1) - Deleted(old, actions)[r] \in Nat
  <2>1. old[r] \in Nat /\ Copies(actions, r, 1) \in Nat /\ Copies(actions, r, -1) \in Nat
    BY CopiesNat
  <2>2. Deleted(old, actions)[r] = Min({Copies(actions, r, -1), old[r]})
    BY DEF Deleted
  <2>3. Deleted(old, actions)[r] \in Nat /\ Deleted(old, actions)[r] <= old[r]
    BY <2>1, <2>2, MinOfTwo
  <2>. QED BY <2>1, <2>3
<1>3. mutate_result_page(old, actions) \in [Rows -> Nat]
  BY <1>2 DEF mutate_result_page
<1>. QED BY <1>1, <1>3

\* What is left of unit effects.
LEMMA UnitRest ==
    ASSUME NEW e \in Seq(UnitEffect), NEW at \in 0 .. Len(e)
    PROVE  LET left == Rest(e, at, 0)
           IN /\ left \in Seq(Weighted(Rows)) /\ Len(left) = Len(e) - at
              /\ \A i \in 1 .. Len(left) : left[i].w \in {-1, 1}
              /\ \A r : Net(SubSeq(e, 1, at), r) + Net(left, r) = Net(e, r)
<1>. DEFINE left == Rest(e, at, 0)
            start == SubSeq(e, 1, at)
<1>1. e \in Seq(Weighted(Rows)) /\ Len(e) \in Nat /\ \A i \in 1 .. Len(e) : e[i] \in UnitEffect
  BY UnitSeq
<1>2. 0 \in Int /\ Len(e) - at \in Nat
  BY <1>1
<1>3. left \in Seq(Weighted(Rows)) /\ IsRest(e, at, 0, left)
  BY <1>1, <1>2, RestFacts
<1>. HIDE DEF left
<1>4. Len(left) = Len(e) - at /\ \A i \in 1 .. Len(e) - at : left[i] = e[at + i]
  BY <1>3 DEF IsRest
<1>5. start \in Seq(Weighted(Rows)) /\ Len(start) = at /\ \A i \in 1 .. at : start[i] = e[i]
  BY <1>1, Prefix
<1>. HIDE DEF start
<1>6. Parts(e, start, left)
  <2>1. Len(e) = Len(start) + Len(left)
    BY <1>1, <1>4, <1>5
  <2>2. \A i \in 1 .. Len(left) : e[Len(start) + i] = left[i]
    BY <1>4, <1>5
  <2>. QED BY <1>5, <2>1, <2>2 DEF Parts
<1>7. \A r : Net(e, r) = Net(start, r) + Net(left, r)
  BY <1>1, <1>3, <1>5, <1>6, NetSplit
<1>8. ASSUME NEW i \in 1 .. Len(left) PROVE left[i].w \in {-1, 1}
  <2>1. at + i \in 1 .. Len(e) /\ i \in 1 .. Len(e) - at
    BY <1>1, <1>2, <1>4
  <2>2. left[i] \in UnitEffect
    BY <1>1, <1>4, <2>1
  <2>. QED BY <2>2 DEF UnitEffect
<1>9. \A r : Net(start, r) + Net(left, r) = Net(e, r)
  BY <1>7
<1>. QED BY <1>3, <1>4, <1>8, <1>9 DEF left, start

\* A page of unit effects splits none, and takes the next of them.
LEMMA UnitPage ==
    ASSUME NEW e \in Seq(UnitEffect), NEW at \in 0 .. Len(e)
    PROVE  LET p == Page(Heads(e, at, 0), Whole(Heads(e, at, 0)), at)
           IN /\ p.rest = 0 /\ p.at \in at .. Len(e) /\ p.actions \in Seq(Weighted(Rows))
              /\ \A r : Net(SubSeq(e, 1, p.at), r) = Net(SubSeq(e, 1, at), r) + Net(p.actions, r)
<1>. DEFINE heads == Heads(e, at, 0)
            whole == Whole(heads)
            taken == SubSeq(heads, 1, whole)
            p == Page(heads, whole, at)
            left == Rest(e, at, 0)
            n == Min({Len(e) - at, BatchRows})
<1>1. e \in Seq(Weighted(Rows)) /\ Len(e) \in Nat /\ 0 \in Int /\ Len(e) - at \in Nat
  BY UnitSeq
<1>2. BatchRows \in Nat
  BY BatchAssumption
<1>3. /\ left \in Seq(Weighted(Rows)) /\ Len(left) = Len(e) - at
      /\ \A i \in 1 .. Len(left) : left[i].w \in {-1, 1}
      /\ \A r : Net(SubSeq(e, 1, at), r) + Net(left, r) = Net(e, r)
  BY UnitRest
<1>4. IsPageOf(Rows, e, at, 0, p)
  BY <1>1, PageFacts
<1>5. heads = SubSeq(left, 1, n)
  BY Zenon DEF Heads
<1>. HIDE DEF left, heads
<1>6. n \in 0 .. Len(left)
  BY <1>1, <1>2, <1>3, MinOfTwo, SMTT(30)
<1>. HIDE DEF n
<1>7. heads \in Seq(Weighted(Rows)) /\ Len(heads) \in Nat /\ \A i \in 1 .. Len(heads) : heads[i].w \in {-1, 1}
  <2>1. heads \in Seq(Weighted(Rows)) /\ Len(heads) = n /\ \A i \in 1 .. n : heads[i] = left[i]
    BY <1>3, <1>5, <1>6, Prefix
  <2>. QED BY <1>1, <1>3, <1>6, <2>1
<1>8. /\ whole \in 0 .. Len(heads) /\ Mutations(taken) <= BatchRows
      /\ whole < Len(heads) => Mutations(taken) + Abs(heads[whole + 1].w) > BatchRows
  BY <1>7, WholeFacts
<1>. HIDE DEF whole
<1>9. whole = Len(heads) \/ BatchRows - Mutations(taken) = 0
  <2>1. SUFFICES ASSUME whole # Len(heads) PROVE BatchRows - Mutations(taken) = 0
    OBVIOUS
  <2>2. whole + 1 \in 1 .. Len(heads) /\ whole < Len(heads)
    BY <1>7, <1>8, <2>1
  <2>3. Abs(heads[whole + 1].w) = 1
    BY <1>7, <2>2 DEF Abs
  <2>4. Mutations(taken) \in Int
    <3>1. taken \in Seq(Weighted(Rows))
      BY <1>7, <1>8, Prefix
    <3>. QED BY <3>1, NetInt
  <2>. QED BY <1>2, <1>8, <2>2, <2>3, <2>4
<1>10. p = [actions |-> taken, at |-> at + whole, rest |-> 0]
  BY <1>9, Zenon DEF Page
<1>11. p.rest = 0
  BY <1>10
<1>. HIDE DEF p
<1>12. /\ p.actions \in Seq(Weighted(Rows)) /\ p.at \in at .. Len(e)
       /\ \A r : Net(left, r) = Net(p.actions, r) + Net(Rest(e, p.at, 0), r)
  BY <1>4, <1>11 DEF IsPageOf, left
<1>13. p.at \in 0 .. Len(e)
  BY <1>12
<1>14. ASSUME NEW r
       PROVE  Net(SubSeq(e, 1, p.at), r) = Net(SubSeq(e, 1, at), r) + Net(p.actions, r)
  <2>. DEFINE a == Net(SubSeq(e, 1, p.at), r)
              b == Net(SubSeq(e, 1, at), r)
              z == Net(Rest(e, p.at, 0), r)
              x == Net(p.actions, r)
              y == Net(left, r)
  <2>1. b + y = Net(e, r)
    BY <1>3
  <2>2. a + z = Net(e, r) /\ Rest(e, p.at, 0) \in Seq(Weighted(Rows))
    BY <1>13, UnitRest
  <2>3. y = x + z
    BY <1>12
  <2>4. a \in Int /\ b \in Int
    BY <1>13, UnitPrefix
  <2>5. x \in Int /\ y \in Int /\ z \in Int /\ Net(e, r) \in Int
    BY <1>1, <1>3, <1>12, <2>2, NetInt
  <2>. HIDE DEF a, b, z, x, y
  <2>6. a = b + x
    BY <2>1, <2>2, <2>3, <2>4, <2>5
  <2>. QED BY <2>6 DEF a, b, x
<1>. QED BY <1>11, <1>12, <1>14 DEF p, whole, heads
-----------------------------------------------------------------------------
\* What a step of the Sink has to establish.
LEMMA SinkFrame ==
    ASSUME Inv, UNCHANGED <<wal, sent, end, published, activation, spool, log, kept, full>>,
           OnlyStage(SinkStage),
           NEW d, d = cur'[SinkStage], NEW k, k = cont'[SinkStage],
           IsCursor(log[SinkStage], d, k), Passed(log[SinkStage], d, k),
           result' \in [Rows -> Nat],
           \A r \in Rows : result'[r] = ReadOf(log[SinkStage], d, k)[r]
    PROVE  Inv'
<1>1. SinkStage \in Stages /\ SinkStage # 0 /\ 0 \in Stages /\ \A t \in Transforms : t # SinkStage
  BY StageSets
<1>2. \A t \in Stages : t # SinkStage => cur'[t] = cur[t] /\ cont'[t] = cont[t]
  BY DEF OnlyStage
<1>3. Types'
  <2>1. \A t \in Operators : kept[t] \in 1 .. cur'[t].next
    <3>1. SUFFICES ASSUME NEW t \in Operators PROVE kept[t] \in 1 .. cur'[t].next
      OBVIOUS
    <3>2. t \in Stages /\ kept[t] \in 1 .. cur[t].next
      BY StageSets DEF Inv, Types
    <3>3. cur'[t].next >= cur[t].next /\ cur'[t].next \in Nat /\ cur[t].next \in Nat
      <4>1. cur'[t] \in [next : Nat, frontier : 0 .. end] /\ cur[t] \in [next : Nat, frontier : 0 .. end]
        BY <3>2 DEF OnlyStage, Inv, Types
      <4>2. cur'[t].next \in Nat /\ cur[t].next \in Nat
        BY <4>1
      <4>. QED BY <1>2, <3>2, <4>2 DEF OnlyStage
    <3>. QED BY <3>2, <3>3
  <2>. QED BY <2>1, Zenon DEF Inv, Types, OnlyStage
<1>4. WalLaw' /\ LogLaw' /\ SourceLaw' /\ TraceLaw'
  BY DEF Inv, WalLaw, LogLaw, SourceLaw, TraceLaw
<1>5. CursorLaw'
  <2>1. ASSUME NEW t \in Stages PROVE IsCursor(log[t], cur'[t], cont'[t])
    <3>1. IsCursor(log[t], cur[t], cont[t])
      BY StageFacts
    <3>. QED BY <1>2, <3>1
  <2>2. ASSUME NEW t \in Operators PROVE Passed(log[t], cur'[t], cont'[t])
    <3>1. Passed(log[t], cur[t], cont[t]) /\ t \in Stages
      BY StageSets DEF Inv, CursorLaw
    <3>. QED BY <1>2, <3>1
  <2>. QED BY <2>1, <2>2 DEF CursorLaw
<1>6. ScanLaw'
  <2>1. cur'[0] = cur[0] /\ cont'[0] = cont[0]
    BY <1>1, <1>2
  <2>. QED BY <2>1 DEF Inv, ScanLaw
<1>7. StageLaw'
  <2>1. \A t \in Transforms : cur'[t] = cur[t] /\ cont'[t] = cont[t]
    BY <1>1, <1>2, StageSets
  <2>. QED BY <2>1 DEF Inv, StageLaw
<1>8. SinkLaw'
  BY DEF SinkLaw
<1>. QED BY <1>3, <1>4, <1>5, <1>6, <1>7, <1>8 DEF Inv

\* What the Sink stands on.
LEMMA SinkHere ==
    ASSUME Inv
    PROVE  /\ SinkStage \in Stages /\ SinkStage # 0 /\ log[SinkStage] \in Seq(UnitChunk)
           /\ IsCursor(log[SinkStage], cur[SinkStage], cont[SinkStage])
           /\ Passed(log[SinkStage], cur[SinkStage], cont[SinkStage])
           /\ cont[SinkStage] \in [phase : Phase, at : Nat, rest : {0}]
           /\ cur[SinkStage] \in [next : Nat, frontier : 0 .. end]
           /\ result \in [Rows -> Nat]
           /\ \A r \in Rows :
                result[r] = ReadOf(log[SinkStage], cur[SinkStage], cont[SinkStage])[r]
<1>1. SinkStage \in Stages /\ SinkStage # 0
  BY StageSets
<1>2. log[SinkStage] \in Seq(UnitChunk) /\ IsCursor(log[SinkStage], cur[SinkStage], cont[SinkStage])
      /\ Passed(log[SinkStage], cur[SinkStage], cont[SinkStage])
  BY <1>1, StageFacts
<1>3. /\ cont[SinkStage] \in [phase : Phase, at : Nat, rest : {0}] /\ result \in [Rows -> Nat]
      /\ cur[SinkStage] \in [next : Nat, frontier : 0 .. end]
  BY <1>1 DEF Inv, Types
<1>4. \A r \in Rows : result[r] = ReadOf(log[SinkStage], cur[SinkStage], cont[SinkStage])[r]
  BY DEF Inv, SinkLaw
<1>. QED BY <1>1, <1>2, <1>3, <1>4

\* A reader that reads a frontier has read as much as before.
LEMMA FrontierRead ==
    ASSUME NEW l \in Seq(UnitChunk), NEW n \in Nat, n < Len(l),
           l[n + 1].kind = "frontier", l[n + 1].rows = <<>>,
           NEW c, c.next = n + 1, NEW d, d.next = n + 2, d.frontier = l[n + 1].lsn
    PROVE  /\ IsCursor(l, d, NoContinuation) /\ Passed(l, d, NoContinuation)
           /\ ReadOf(l, d, NoContinuation) = ReadOf(l, c, NoContinuation)
<1>1. NoContinuation.phase = "none" /\ AtOf(NoContinuation) = 0
  BY DEF NoContinuation, Continuation, AtOf
<1>2. Len(l) \in Nat /\ n + 1 \in 0 .. Len(l) /\ d.next - 1 = n + 1 /\ c.next - 1 = n /\ n \in 0 .. Len(l)
  BY ChunkFacts
<1>3. IsCursor(l, d, NoContinuation)
  <2>1. d.next \in 1 .. Len(l) + 1
    BY <1>2
  <2>. QED BY <1>1, <2>1 DEF IsCursor
<1>4. Passed(l, d, NoContinuation)
  <2>1. Frontiers(l, n + 1) = Frontiers(l, n) \cup {l[n + 1].lsn}
    BY FrontiersNext
  <2>2. d.frontier \in Frontiers(l, d.next - 1)
    BY <1>2, <2>1
  <2>. QED BY <1>1, <2>2 DEF Passed
<1>5. ASSUME NEW r PROVE NetTo(l, n + 1, r) = NetTo(l, n, r)
  <2>1. NetTo(l, n + 1, r) = NetTo(l, n, r) + Net(l[n + 1].rows, r) /\ NetTo(l, n, r) \in Int
    BY <1>2, ToFacts
  <2>2. Net(l[n + 1].rows, r) = 0
    BY NoEffects
  <2>. QED BY <2>1, <2>2
<1>6. ReadOf(l, d, NoContinuation) = ReadOf(l, c, NoContinuation)
  <2>1. \A r : NetAt(l, n + 1, 0, r) = NetAt(l, n, 0, r)
    BY <1>5 DEF NetAt
  <2>2. ReadOf(l, d, NoContinuation) = [r \in Rows |-> NetAt(l, n + 1, 0, r)]
    BY <1>1, <1>2 DEF ReadOf
  <2>3. ReadOf(l, c, NoContinuation) = [r \in Rows |-> NetAt(l, n, 0, r)]
    BY <1>1, <1>2 DEF ReadOf
  <2>. QED BY <2>1, <2>2, <2>3
<1>. QED BY <1>3, <1>4, <1>6

\* A Sink that takes a frontier preserves the invariant.
LEMMA SinkFrontierStep ==
    ASSUME Inv, SinkFrontier
    PROVE  Inv'
<1>. DEFINE S == SinkStage
            n == cur[S].next - 1
            y == log[S][n + 1]
            d == [next |-> n + 2, frontier |-> y.lsn]
<1>1. /\ Ready(S) /\ Pending(S) /\ CursorChunk(S).kind = "frontier" /\ cont[S] = NoContinuation
      /\ MoveTo(S, [next |-> cur[S].next + 1, frontier |-> CursorChunk(S).lsn])
      /\ UNCHANGED <<sourceVars, activation, spool, log, cont, kept, full, result>>
  BY Zenon DEF SinkFrontier
<1>2. /\ S \in Stages /\ S # 0 /\ log[S] \in Seq(UnitChunk)
      /\ cont[S] \in [phase : Phase, at : Nat, rest : {0}] /\ result \in [Rows -> Nat]
      /\ \A r \in Rows : result[r] = ReadOf(log[S], cur[S], cont[S])[r]
  BY SinkHere
<1>3. /\ n \in Nat /\ n < Len(log[S]) /\ cur[S].next = n + 1 /\ CursorChunk(S) = y
      /\ y.lsn \in 0 .. end /\ (y.kind = "frontier" <=> y.rows = <<>>)
  BY <1>1, <1>2, CursorChunkFacts
<1>4. y.kind = "frontier" /\ y.rows = <<>>
  BY <1>1, <1>3
<1>. HIDE DEF n, y
<1>5. d.next = n + 2 /\ d.frontier = y.lsn /\ d \in [next : Nat, frontier : 0 .. end]
  BY <1>3
<1>6. cur' = [cur EXCEPT ![S] = d]
  <2>1. d = [next |-> cur[S].next + 1, frontier |-> CursorChunk(S).lsn]
    BY <1>3
  <2>. QED BY <1>1, <2>1 DEF MoveTo
<1>. HIDE DEF d
<1>. DEFINE l == log[S]
            c == cur[S]
<1>7. /\ IsCursor(l, d, NoContinuation) /\ Passed(l, d, NoContinuation)
      /\ ReadOf(l, d, NoContinuation) = ReadOf(l, c, NoContinuation)
  <2>1. /\ l \in Seq(UnitChunk) /\ n \in Nat /\ n < Len(l) /\ l[n + 1].kind = "frontier"
        /\ l[n + 1].rows = <<>> /\ c.next = n + 1 /\ d.next = n + 2 /\ d.frontier = l[n + 1].lsn
    BY <1>2, <1>3, <1>4, <1>5 DEF y
  <2>. HIDE DEF l, c
  <2>. QED BY <2>1, FrontierRead
<1>8. OnlyStage(S) /\ cur'[S] = d /\ cont'[S] = NoContinuation
  <2>. DEFINE k == cont[S]
  <2>1. cont' = cont /\ d.next >= cur[S].next
    BY <1>1, <1>3, <1>5
  <2>2. k \in [phase : Phase, at : Nat, rest : {0}] /\ k = cont[S] /\ k = NoContinuation
    BY <1>1, <1>2
  <2>. HIDE DEF k
  <2>3. OnlyStage(S) /\ cur'[S] = d /\ cont'[S] = k
    BY <1>2, <1>5, <1>6, <2>1, <2>2, MovesOnly
  <2>. QED BY <2>2, <2>3
<1>9. UNCHANGED <<wal, sent, end, published, activation, spool, log, kept, full>> /\ result' = result
  BY <1>1 DEF sourceVars
<1>10. result' \in [Rows -> Nat] /\ \A r \in Rows : result'[r] = ReadOf(l, d, NoContinuation)[r]
  BY <1>1, <1>2, <1>7, <1>9
<1>. QED BY <1>7, <1>8, <1>9, <1>10, SinkFrame DEF l

\* The page a Sink reads, and where it leaves its cursor.
LEMMA SinkDataFacts ==
    ASSUME Inv, SinkData
    PROVE  LET s == SinkStage
               n == cur[s].next - 1
               y == log[s][n + 1]
               p == Page(Heads(y.rows, cont[s].at, 0), Whole(Heads(y.rows, cont[s].at, 0)), cont[s].at)
           IN /\ n \in Nat /\ n < Len(log[s]) /\ cur[s].next = n + 1 /\ y.kind = "data"
              /\ AtOf(cont[s]) = cont[s].at /\ cont[s].at \in 0 .. Len(y.rows)
              /\ y.rows \in Seq(UnitEffect)
              /\ PageApplies(result, p.actions) /\ result' = mutate_result_page(result, p.actions)
              /\ IF p.at = Len(y.rows)
                 THEN cur' = [cur EXCEPT ![s] = [next |-> n + 2, frontier |-> cur[s].frontier]]
                      /\ cont' = [cont EXCEPT ![s] = NoContinuation]
                 ELSE cur' = cur /\ cont' = [cont EXCEPT ![s] = Continuation("data", p.at, p.rest)]
              /\ UNCHANGED <<wal, sent, end, published, activation, spool, log, kept, full>>
<1>. DEFINE s == SinkStage
            n == cur[s].next - 1
            y == log[s][n + 1]
            k == cont[s]
            p == Page(Heads(y.rows, k.at, 0), Whole(Heads(y.rows, k.at, 0)), k.at)
            z == CursorChunk(s)
            zp == Page(SinkHeads, Whole(SinkHeads), k.at)
<1>1. /\ Pending(s) /\ z.kind = "data" /\ PageApplies(result, zp.actions)
      /\ result' = mutate_result_page(result, zp.actions)
      /\ IF ChunkDone(s, zp.at)
         THEN /\ MoveTo(s, [next |-> cur[s].next + 1, frontier |-> cur[s].frontier])
              /\ SetContinuation(s, NoContinuation)
         ELSE SetContinuation(s, Continuation("data", zp.at, zp.rest)) /\ UNCHANGED cur
      /\ UNCHANGED <<sourceVars, activation, spool, log, kept, full>>
  <2>1. PICK page \in {zp} :
            /\ PageApplies(result, page.actions)
            /\ result' = mutate_result_page(result, page.actions)
            /\ IF ChunkDone(s, page.at)
               THEN /\ MoveTo(s, [next |-> cur[s].next + 1, frontier |-> cur[s].frontier])
                    /\ SetContinuation(s, NoContinuation)
               ELSE SetContinuation(s, Continuation("data", page.at, page.rest)) /\ UNCHANGED cur
    BY Zenon DEF SinkData
  <2>2. page = zp
    BY <2>1
  <2>3. Pending(s) /\ z.kind = "data" /\ UNCHANGED <<sourceVars, activation, spool, log, kept, full>>
    BY Zenon DEF SinkData
  <2>. HIDE DEF zp, z
  <2>. QED BY <2>1, <2>2, <2>3, Zenon
<1>2. /\ s \in Stages /\ s # 0 /\ log[s] \in Seq(UnitChunk) /\ IsCursor(log[s], cur[s], k)
      /\ k \in [phase : Phase, at : Nat, rest : {0}] /\ Passed(log[s], cur[s], k)
  BY SinkHere
<1>3. /\ n \in Nat /\ n < Len(log[s]) /\ cur[s].next = n + 1 /\ z = y
      /\ y.rows \in Seq(UnitEffect) /\ Len(y.rows) \in Nat
  BY <1>1, <1>2, CursorChunkFacts
<1>4. k.rest = 0 /\ k.at \in Nat /\ k.phase \in {"none", "data"}
  BY <1>2 DEF Passed
<1>. HIDE DEF n, z
<1>5. y.kind = "data"
  BY <1>1, <1>3
<1>6. AtOf(k) = k.at /\ k.at \in 0 .. Len(y.rows)
  <2>1. CASE k.phase = "data"
    <3>1. k.at < Len(log[s][cur[s].next].rows)
      BY <1>2, <2>1 DEF IsCursor
    <3>2. AtOf(k) = k.at
      BY <2>1 DEF AtOf
    <3>. QED BY <1>3, <1>4, <3>1, <3>2
  <2>2. CASE k.phase = "none"
    <3>1. k = NoContinuation
      BY <1>2, <2>2 DEF IsCursor
    <3>2. k.at = 0 /\ AtOf(k) = 0
      BY <3>1 DEF NoContinuation, Continuation, AtOf
    <3>. QED BY <1>3, <3>2
  <2>. QED BY <1>4, <2>1, <2>2
<1>7. zp = p
  <2>1. SinkHeads = Heads(y.rows, k.at, 0)
    <3>1. SinkHeads = Heads(z.rows, k.at, k.rest)
      BY Zenon DEF SinkHeads, z
    <3>. HIDE DEF y, k
    <3>. QED BY <1>3, <1>4, <3>1
  <2>. HIDE DEF y, k
  <2>. QED BY <2>1, Zenon
<1>8. ChunkDone(s, p.at) <=> p.at = Len(y.rows)
  <2>1. ChunkDone(s, p.at) <=> p.at = Len(z.rows)
    BY Zenon DEF ChunkDone, z
  <2>. HIDE DEF p, y
  <2>. QED BY <1>3, <2>1
<1>. HIDE DEF zp, p
<1>9. IF p.at = Len(y.rows)
      THEN cur' = [cur EXCEPT ![s] = [next |-> n + 2, frontier |-> cur[s].frontier]]
           /\ cont' = [cont EXCEPT ![s] = NoContinuation]
      ELSE cur' = cur /\ cont' = [cont EXCEPT ![s] = Continuation("data", p.at, p.rest)]
  <2>1. cur[s].next + 1 = n + 2
    BY <1>3
  <2>2. CASE p.at = Len(y.rows)
    <3>1. MoveTo(s, [next |-> cur[s].next + 1, frontier |-> cur[s].frontier]) /\ SetContinuation(s, NoContinuation)
      BY <1>1, <1>7, <1>8, <2>2
    <3>2. cur' = [cur EXCEPT ![s] = [next |-> cur[s].next + 1, frontier |-> cur[s].frontier]]
          /\ cont' = [cont EXCEPT ![s] = NoContinuation]
      BY <3>1, Zenon DEF MoveTo, SetContinuation
    <3>. QED BY <2>1, <2>2, <3>2
  <2>3. CASE p.at # Len(y.rows)
    <3>1. SetContinuation(s, Continuation("data", p.at, p.rest)) /\ UNCHANGED cur
      BY <1>1, <1>7, <1>8, <2>3
    <3>. QED BY <2>3, <3>1 DEF SetContinuation
  <2>. QED BY <2>2, <2>3
<1>10. UNCHANGED <<wal, sent, end, published, activation, spool, log, kept, full>>
  BY <1>1 DEF sourceVars
<1>11. PageApplies(result, p.actions) /\ result' = mutate_result_page(result, p.actions)
  BY <1>1, <1>7
<1>. HIDE DEF y
<1>. QED BY <1>3, <1>5, <1>6, <1>9, <1>10, <1>11, Zenon DEF n, y, p
-----------------------------------------------------------------------------
\* A Sink that applies a page preserves the invariant.
LEMMA SinkDataStep ==
    ASSUME Inv, SinkData
    PROVE  Inv'
<1>. DEFINE s == SinkStage
            n == cur[s].next - 1
            y == log[s][n + 1]
            at == cont[s].at
            p == Page(Heads(y.rows, cont[s].at, 0), Whole(Heads(y.rows, cont[s].at, 0)), cont[s].at)
            done == p.at = Len(y.rows)
            d == IF done THEN [next |-> n + 2, frontier |-> cur[s].frontier] ELSE cur[s]
            m == IF done THEN NoContinuation ELSE Continuation("data", p.at, 0)
<1>1. /\ n \in Nat /\ n < Len(log[s]) /\ cur[s].next = n + 1 /\ y.kind = "data"
      /\ AtOf(cont[s]) = cont[s].at /\ cont[s].at \in 0 .. Len(y.rows)
      /\ y.rows \in Seq(UnitEffect)
      /\ PageApplies(result, p.actions) /\ result' = mutate_result_page(result, p.actions)
      /\ IF p.at = Len(y.rows)
         THEN cur' = [cur EXCEPT ![s] = [next |-> n + 2, frontier |-> cur[s].frontier]]
              /\ cont' = [cont EXCEPT ![s] = NoContinuation]
         ELSE cur' = cur /\ cont' = [cont EXCEPT ![s] = Continuation("data", p.at, p.rest)]
      /\ UNCHANGED <<wal, sent, end, published, activation, spool, log, kept, full>>
  BY SinkDataFacts, Zenon
<1>2. /\ s \in Stages /\ s # 0 /\ log[s] \in Seq(UnitChunk)
      /\ cur[s] \in [next : Nat, frontier : 0 .. end] /\ result \in [Rows -> Nat]
      /\ Passed(log[s], cur[s], cont[s])
      /\ \A r \in Rows : result[r] = ReadOf(log[s], cur[s], cont[s])[r]
  BY SinkHere
<1>3. /\ p.rest = 0 /\ p.at \in at .. Len(y.rows) /\ p.actions \in Seq(Weighted(Rows))
      /\ \A r : Net(SubSeq(y.rows, 1, p.at), r) = Net(SubSeq(y.rows, 1, at), r) + Net(p.actions, r)
  <2>. DEFINE e == y.rows
  <2>1. e \in Seq(UnitEffect) /\ at \in 0 .. Len(e)
    BY <1>1
  <2>2. p = Page(Heads(e, at, 0), Whole(Heads(e, at, 0)), at)
    OBVIOUS
  <2>. HIDE DEF e, at, p
  <2>3. /\ p.rest = 0 /\ p.at \in at .. Len(e) /\ p.actions \in Seq(Weighted(Rows))
        /\ \A r : Net(SubSeq(e, 1, p.at), r) = Net(SubSeq(e, 1, at), r) + Net(p.actions, r)
    BY <2>1, <2>2, UnitPage
  <2>. QED BY <2>3 DEF e
<1>. HIDE DEF p
<1>4. at \in Nat /\ p.at \in Nat /\ p.at \in 0 .. Len(y.rows) /\ Len(y.rows) \in Nat
  <2>1. Len(y.rows) \in Nat
    BY <1>1, UnitSeq
  <2>. HIDE DEF y
  <2>. QED BY <1>1, <1>3, <2>1
<1>. HIDE DEF n
<1>5. /\ d \in [next : Nat, frontier : 0 .. end] /\ d.next >= cur[s].next
      /\ m \in [phase : Phase, at : Nat, rest : {0}] /\ m.phase \in {"none", "data"}
      /\ Moved(log[s], n, p.at, cur[s], d, m)
      /\ m.phase # "data" => m = NoContinuation
  <2>1. CASE done
    <3>1. d = [next |-> n + 2, frontier |-> cur[s].frontier] /\ m = NoContinuation
      BY <2>1
    <3>2. m = [phase |-> "none", at |-> 0, rest |-> 0]
      BY <3>1 DEF NoContinuation, Continuation
    <3>3. d.next = n + 2 /\ d.frontier = cur[s].frontier
      BY <3>1
    <3>4. d \in [next : Nat, frontier : 0 .. end] /\ d.next >= cur[s].next
      BY <1>1, <1>2, <3>1
    <3>5. m \in [phase : Phase, at : Nat, rest : {0}] /\ m.phase = "none"
      BY <3>2 DEF Phase
    <3>. HIDE DEF d, m, y
    <3>6. p.at = Len(log[s][n + 1].rows)
      BY <2>1 DEF y
    <3>. QED BY <3>1, <3>3, <3>4, <3>5, <3>6 DEF Moved
  <2>2. CASE ~done
    <3>1. d = cur[s] /\ m = Continuation("data", p.at, 0)
      BY <2>2
    <3>2. m = [phase |-> "data", at |-> p.at, rest |-> 0]
      BY <3>1 DEF Continuation
    <3>3. d \in [next : Nat, frontier : 0 .. end] /\ d.next >= cur[s].next
      BY <1>1, <1>2, <3>1
    <3>4. m \in [phase : Phase, at : Nat, rest : {0}] /\ m.phase = "data"
      BY <1>4, <3>2 DEF Phase
    <3>. HIDE DEF d, m, y
    <3>5. p.at # Len(log[s][n + 1].rows)
      BY <2>2 DEF y
    <3>. QED BY <3>1, <3>3, <3>4, <3>5 DEF Moved
  <2>. QED BY <2>1, <2>2
<1>6. OnlyStage(s) /\ cur'[s] = d /\ cont'[s] = m
  <2>1. cur' = [cur EXCEPT ![s] = d] \/ (cur' = cur /\ d = cur[s])
    BY <1>1
  <2>2. cont' = [cont EXCEPT ![s] = m]
    BY <1>1, <1>3
  <2>. HIDE DEF d, m
  <2>. QED BY <1>2, <1>5, <2>1, <2>2, MovesOnly, ZenonT(60)
<1>. HIDE DEF d, m
<1>. DEFINE l == log[s]
            c == cur[s]
<1>7. /\ d.next \in 1 .. Len(l) + 1 /\ d.frontier = c.frontier
      /\ (m.phase = "data" => IsCursor(l, d, m))
      /\ Frontiers(l, d.next - 1) = Frontiers(l, c.next - 1) /\ ReadOf(l, d, m) = SumAt(l, n, p.at)
  <2>1. /\ l \in Seq(UnitChunk) /\ n \in Nat /\ n < Len(l) /\ l[n + 1].kind = "data"
        /\ p.at \in 0 .. Len(l[n + 1].rows) /\ c.next = n + 1 /\ Moved(l, n, p.at, c, d, m)
    BY <1>1, <1>2, <1>4, <1>5
  <2>. HIDE DEF l, c
  <2>. QED BY <2>1, MovedFacts, SMTT(30)
<1>8. IsCursor(l, d, m)
  <2>. HIDE DEF l
  <2>1. m.phase # "data" => IsCursor(l, d, m)
    BY <1>5, <1>7 DEF IsCursor
  <2>. QED BY <1>7, <2>1
<1>9. Passed(l, d, m)
  <2>1. Passed(l, c, cont[s])
    BY <1>2
  <2>. HIDE DEF l, c
  <2>. QED BY <1>5, <1>7, <2>1 DEF Passed
<1>10. /\ result' \in [Rows -> Nat] /\ \A r \in Rows : result'[r] = result[r] + Net(p.actions, r)
  BY <1>1, <1>2, <1>3, AppliedNat, SMTT(30)
<1>11. ASSUME NEW r \in Rows PROVE result'[r] = ReadOf(l, d, m)[r]
  <2>1. result[r] = NetAt(l, n, at, r)
    <3>1. result[r] = ReadOf(l, c, cont[s])[r]
      BY <1>2
    <3>2. ReadOf(l, c, cont[s])[r] = NetAt(l, c.next - 1, AtOf(cont[s]), r)
      BY DEF ReadOf
    <3>3. c.next - 1 = n /\ AtOf(cont[s]) = at
      BY <1>1
    <3>. HIDE DEF l, c, at
    <3>. QED BY <3>1, <3>2, <3>3
  <2>2. ReadOf(l, d, m)[r] = NetAt(l, n, p.at, r)
    <3>. HIDE DEF l, c
    <3>. QED BY <1>7 DEF SumAt
  <2>3. NetAt(l, n, p.at, r) = NetAt(l, n, at, r) + Net(p.actions, r)
    <3>. DEFINE e == y.rows
    <3>1. NetAt(l, n, p.at, r) = NetTo(l, n, r) + (IF p.at = 0 THEN 0 ELSE Net(SubSeq(e, 1, p.at), r))
      BY Zenon DEF NetAt
    <3>2. NetAt(l, n, at, r) = NetTo(l, n, r) + (IF at = 0 THEN 0 ELSE Net(SubSeq(e, 1, at), r))
      BY Zenon DEF NetAt
    <3>3. /\ (p.at = 0 => Net(SubSeq(e, 1, p.at), r) = 0) /\ (at = 0 => Net(SubSeq(e, 1, at), r) = 0)
          /\ Net(SubSeq(e, 1, p.at), r) \in Int /\ Net(SubSeq(e, 1, at), r) \in Int
      <4>1. e \in Seq(UnitEffect) /\ p.at \in 0 .. Len(e) /\ at \in 0 .. Len(e)
        BY <1>1, <1>4
      <4>. HIDE DEF e, at
      <4>. QED BY <4>1, UnitPrefix
    <3>4. Net(SubSeq(e, 1, p.at), r) = Net(SubSeq(e, 1, at), r) + Net(p.actions, r)
      BY <1>3
    <3>5. NetTo(l, n, r) \in Int
      <4>1. l \in Seq(UnitChunk) /\ n \in 0 .. Len(l)
        BY <1>1, <1>2, ChunkFacts
      <4>. HIDE DEF l
      <4>. QED BY <4>1, ToFacts
    <3>6. Net(p.actions, r) \in Int
      BY <1>3, NetInt
    <3>. HIDE DEF e, l, at
    <3>. QED BY <3>1, <3>2, <3>3, <3>4, <3>5, <3>6
  <2>. QED BY <1>10, <2>1, <2>2, <2>3
<1>. HIDE DEF c
<1>. QED BY <1>1, <1>6, <1>8, <1>9, <1>10, <1>11, SinkFrame DEF l

\* Deleting what has been read changes none of it.
LEMMA CollectStep ==
    ASSUME Inv, NEW s \in Operators, Collect(s)
    PROVE  Inv'
<1>1. /\ kept' = [kept EXCEPT ![s] = cur[s].next] /\ kept[s] < cur[s].next
      /\ full' = [full EXCEPT ![s] = StaysFull(s)]
      /\ UNCHANGED <<wal, sent, end, published, activation, spool, log, cur, cont, result>>
  BY DEF Collect, sourceVars
<1>2. s \in Stages /\ StaysFull(s) \in BOOLEAN
  <2>1. full[s] \in BOOLEAN
    BY DEF Inv, Types
  <2>. QED BY <2>1, StageSets DEF StaysFull
<1>3. cur[s].next \in 1 .. cur[s].next
  <2>1. cur[s].next \in 1 .. Len(log[s]) + 1 /\ Len(log[s]) \in Nat
    BY <1>2, StageFacts
  <2>. QED BY <2>1
<1>4. DOMAIN kept' = Operators /\ \A t \in Operators : kept'[t] \in 1 .. cur[t].next
  <2>1. DOMAIN kept = Operators /\ \A t \in Operators : kept[t] \in 1 .. cur[t].next
    BY DEF Inv, Types
  <2>. QED BY <1>1, <1>3, <2>1
<1>5. full' \in [Operators -> BOOLEAN]
  <2>1. full \in [Operators -> BOOLEAN]
    BY DEF Inv, Types
  <2>. QED BY <1>1, <1>2, <2>1
<1>6. Types'
  BY <1>1, <1>4, <1>5 DEF Inv, Types
<1>7. /\ WalLaw' /\ LogLaw' /\ SourceLaw' /\ CursorLaw'
      /\ ScanLaw' /\ StageLaw' /\ TraceLaw' /\ SinkLaw'
  BY <1>1 DEF Inv, WalLaw, LogLaw, SourceLaw, CursorLaw, ScanLaw, StageLaw, TraceLaw, SinkLaw
<1>. QED BY <1>6, <1>7 DEF Inv

\* A step that changes nothing.
LEMMA StutterStep ==
    ASSUME Inv, UNCHANGED vars
    PROVE  Inv'
BY DEF Inv, Types, WalLaw, LogLaw, SourceLaw, CursorLaw, ScanLaw, StageLaw, TraceLaw, SinkLaw,
       vars, sourceVars, flowVars
-----------------------------------------------------------------------------
\* More commits.

\* v is w with commits behind it, above the LSN e.
Extends(w, e, v) ==
    /\ w \in Seq(Change) /\ v \in Seq(Change) /\ e \in Nat /\ Len(w) <= Len(v)
    /\ \A i \in 1 .. Len(w) : v[i] = w[i] /\ w[i].lsn <= e
    /\ \A i \in Len(w) + 1 .. Len(v) : v[i].lsn = e + 1

\* They change nothing below.
LEMMA ExtendsFacts ==
    ASSUME NEW w, NEW e, NEW v, Extends(w, e, v)
    PROVE  /\ Len(w) \in Nat /\ Len(v) \in Nat /\ 0 .. Len(w) \subseteq 0 .. Len(v)
           /\ \A p \in 0 .. Len(w) : TableOf(v, p) = TableOf(w, p)
           /\ \A f \in Int : f <= e => UpToOf(v, f) = UpToOf(w, f)
<1>1. /\ w \in Seq(Change) /\ v \in Seq(Change) /\ e \in Nat /\ Len(w) <= Len(v)
      /\ \A i \in 1 .. Len(w) : v[i] = w[i] /\ w[i].lsn <= e
      /\ \A i \in Len(w) + 1 .. Len(v) : v[i].lsn = e + 1
  BY DEF Extends
<1>2. Len(w) \in Nat /\ Len(v) \in Nat /\ DOMAIN w = 1 .. Len(w) /\ DOMAIN v = 1 .. Len(v)
  BY <1>1, WalElements
<1>3. 0 .. Len(w) \subseteq 0 .. Len(v)
  BY <1>1, <1>2
<1>4. ASSUME NEW p \in 0 .. Len(w) PROVE TableOf(v, p) = TableOf(w, p)
  <2>1. SubSeq(v, 1, p) = SubSeq(w, 1, p)
    <3>1. \A i \in 1 .. p : v[i] = w[i] /\ i \in 1 .. Len(w) /\ i \in 1 .. Len(v)
      BY <1>1, <1>2
    <3>2. p \in Nat /\ p <= Len(v) /\ p <= Len(w)
      BY <1>1, <1>2
    <3>. HIDE DEF Change
    <3>. QED BY <1>1, <1>2, <3>1, <3>2
  <2>. QED BY <2>1, Zenon DEF TableOf
<1>5. ASSUME NEW f \in Int, f <= e PROVE UpToOf(v, f) = UpToOf(w, f)
  <2>. DEFINE S == {i \in DOMAIN v : v[i].lsn <= f}
              T == {i \in DOMAIN w : w[i].lsn <= f}
  <2>1. ASSUME NEW i PROVE i \in S <=> i \in T
    <3>1. i \in 1 .. Len(v) => i \in 1 .. Len(w) \/ i \in Len(w) + 1 .. Len(v)
      BY <1>2
    <3>2. ~(e + 1 <= f)
      BY <1>1, <1>5
    <3>3. i \in 1 .. Len(w) => i \in 1 .. Len(v)
      BY <1>1, <1>2
    <3>. QED BY <1>1, <1>2, <3>1, <3>2, <3>3
  <2>2. S = T
    BY <2>1
  <2>. HIDE DEF S, T
  <2>3. Cardinality(S) = Cardinality(T)
    BY <2>2
  <2>. QED BY <2>3 DEF UpToOf, S, T
<1>. QED BY <1>2, <1>3, <1>4, <1>5

\* So a stream stands for what it stood for.
LEMMA ExtendsTraces ==
    ASSUME NEW w, NEW e, NEW v, Extends(w, e, v), NEW a \in Int, a <= e, NEW s, NEW l, IsLog(l, e),
           Traces(w, a, s, l)
    PROVE  Traces(v, a, s, l)
<1>1. SUFFICES ASSUME NEW n \in Nat, NEW k \in Nat, Place(l, n, k)
               PROVE  TracedAt(v, a, s, Frontiers(l, n), [r \in Rows |-> NetAt(l, n, k, r)])
  BY Zenon DEF Traces
<1>. DEFINE F == Frontiers(l, n)
            u == [r \in Rows |-> NetAt(l, n, k, r)]
<1>2. TracedAt(w, a, s, F, u)
  BY <1>1, Zenon DEF Traces
<1>3. \A f \in F : f \in Int /\ f <= e
  <2>1. l \in Seq(UnitChunk) /\ \A i \in 1 .. Len(l) : l[i].lsn <= e
    BY DEF IsLog
  <2>2. Len(l) \in Nat /\ \A i \in 1 .. Len(l) : l[i].lsn \in Int
    BY <2>1, ChunkFacts, PlanAssumption
  <2>3. \A i \in 1 .. n : i \in 1 .. Len(l)
    BY <1>1, <2>2 DEF Place
  <2>. QED BY <2>1, <2>2, <2>3 DEF Frontiers
<1>4. /\ Len(w) \in Nat /\ Len(v) \in Nat /\ 0 .. Len(w) \subseteq 0 .. Len(v)
      /\ \A p \in 0 .. Len(w) : TableOf(v, p) = TableOf(w, p)
      /\ \A f \in Int : f <= e => UpToOf(v, f) = UpToOf(w, f)
  BY ExtendsFacts
<1>5. UpToOf(v, a) = UpToOf(w, a) /\ UpToOf(w, a) \in 0 .. Len(w)
  <2>1. w \in Seq(Change)
    BY DEF Extends
  <2>. QED BY <1>4, <2>1, UpToType
<1>. HIDE DEF F, u
<1>6. CASE F = {}
  <2>1. \A r \in Rows : u[r] <= After(s - 1, TableOf(w, UpToOf(w, a)))[r]
    BY <1>2, <1>6 DEF TracedAt
  <2>2. TableOf(v, UpToOf(v, a)) = TableOf(w, UpToOf(w, a))
    BY <1>4, <1>5
  <2>3. TracedAt(v, a, s, F, u)
    BY <1>6, <2>1, <2>2 DEF TracedAt
  <2>. QED BY <2>3 DEF F, u
<1>7. CASE F # {}
  <2>1. PICK p \in 0 .. Len(w) : /\ \A f \in F : UpToOf(w, f) <= p
                                 /\ \A r \in Rows : u[r] = After(s - 1, TableOf(w, p))[r]
    BY <1>2, <1>7 DEF TracedAt
  <2>2. p \in 0 .. Len(v) /\ TableOf(v, p) = TableOf(w, p)
    BY <1>4
  <2>3. \A f \in F : UpToOf(v, f) <= p
    BY <1>3, <1>4, <2>1
  <2>4. TracedAt(v, a, s, F, u)
    BY <1>7, <2>1, <2>2, <2>3 DEF TracedAt
  <2>. QED BY <2>4 DEF F, u
<1>. QED BY <1>6, <1>7

\* And so does the output of the Scan.
LEMMA ExtendsScan ==
    ASSUME NEW w, NEW e, NEW v, Extends(w, e, v), NEW a, NEW n, NEW sp, NEW l, NEW out, NEW c, NEW k,
           ScanAt(w, e, n, a, sp, l, out, c, k), a <= e, c.frontier <= e
    PROVE  IsScan(v, a, sp, l, out, c, k)
<1>1. /\ \A p \in 0 .. Len(w) : TableOf(v, p) = TableOf(w, p)
      /\ \A f \in Int : f <= e => UpToOf(v, f) = UpToOf(w, f)
  BY ExtendsFacts
<1>2. a \in Int /\ c.frontier \in Int /\ IsScan(w, a, sp, l, out, c, k)
  BY DEF ScanAt
<1>3. UpToOf(v, a) = UpToOf(w, a) /\ UpToOf(v, c.frontier) = UpToOf(w, c.frontier)
  BY <1>1, <1>2
<1>4. ReachedOf(v, a, l, c, k) = ReachedOf(w, a, l, c, k)
  BY <1>3, Zenon DEF ReachedOf
<1>5. ReachedOf(w, a, l, c, k) \in 0 .. Len(w)
  BY ReachedFacts
<1>. DEFINE reached == ReachedOf(w, a, l, c, k)
            passed == Frontiers(out, Len(out))
<1>6. TableOf(v, reached) = TableOf(w, reached)
  BY <1>1, <1>5
<1>7. /\ \A r \in Rows : NetTo(out, Len(out), r) + Spooled(sp, r) = TableOf(w, reached)[r]
      /\ UpToOf(w, c.frontier) <= reached
      /\ \A f \in passed : f <= c.frontier
      /\ IF k.phase \in {"bootstrap", "snapshot_frontier"}
         THEN reached = UpToOf(w, a) /\ passed = {}
         ELSE DOMAIN sp = {} /\ passed # {}
      /\ IF k.phase = "bootstrap" THEN \E m \in Nat : DOMAIN sp = k.at .. m
         ELSE DOMAIN sp = {}
  BY <1>2, Zenon DEF IsScan
<1>. HIDE DEF reached, passed
<1>8. ReachedOf(v, a, l, c, k) = reached
  BY <1>4 DEF reached
<1>9. /\ \A r \in Rows : NetTo(out, Len(out), r) + Spooled(sp, r) = TableOf(v, reached)[r]
      /\ UpToOf(v, c.frontier) <= reached
      /\ IF k.phase \in {"bootstrap", "snapshot_frontier"}
         THEN reached = UpToOf(v, a) /\ passed = {}
         ELSE DOMAIN sp = {} /\ passed # {}
  BY <1>3, <1>6, <1>7
<1>. QED BY <1>7, <1>8, <1>9 DEF IsScan, passed

\* The source stream still is the first of the commits.
LEMMA ExtendsSource ==
    ASSUME NEW w, NEW e, NEW v, Extends(w, e, v), NEW l, NEW n, Sourced(w, l, n),
           l \in Seq(UnitChunk)
    PROVE  Sourced(v, l, n)
<1>1. /\ Len(w) \in Nat /\ Len(v) \in Nat /\ Len(w) <= Len(v)
      /\ \A i \in 1 .. Len(w) : v[i] = w[i]
  BY ExtendsFacts DEF Extends
<1>2. ASSUME NEW i \in 1 .. Len(l) PROVE IsSource(v, l[i], LenTo(l, i - 1))
  <2>. DEFINE o == LenTo(l, i - 1)
              x == l[i]
  <2>1. IsSource(w, x, o)
    BY DEF Sourced
  <2>2. o \in Nat /\ Len(x.rows) \in Nat
    <3>1. Len(l) \in Nat /\ i - 1 \in 0 .. Len(l) /\ i - 1 \in 0 .. i - 1
      BY ChunkFacts
    <3>2. i - 1 \in i - 1 .. Len(l)
      BY <3>1
    <3>. QED BY <3>1, <3>2, ChunkFacts, LenToGrows
  <2>. HIDE DEF o, x
  <2>3. \A j \in 1 .. Len(x.rows) : o + j \in 1 .. Len(w)
    BY <1>1, <2>1, <2>2 DEF IsSource
  <2>4. /\ x.kind = "data" /\ o + Len(x.rows) <= Len(w)
        /\ \A j \in 1 .. Len(x.rows) :
             x.rows[j] = [row |-> w[o + j].row, w |-> w[o + j].w] /\ x.lsn = w[o + j].lsn
    BY <2>1, Zenon DEF IsSource
  <2>5. \A j \in 1 .. Len(x.rows) : v[o + j] = w[o + j]
    BY <1>1, <2>3
  <2>6. o + Len(x.rows) <= Len(v)
    BY <1>1, <2>2, <2>4
  <2>7. \A j \in 1 .. Len(x.rows) :
          x.rows[j] = [row |-> v[o + j].row, w |-> v[o + j].w] /\ x.lsn = v[o + j].lsn
    BY <2>4, <2>5
  <2>8. IsSource(v, x, o)
    BY <2>4, <2>6, <2>7, Zenon DEF IsSource
  <2>. QED BY <2>8 DEF o, x
<1>. QED BY <1>2 DEF Sourced

\* The transaction t at the LSN n.
Written(t, n) == [i \in 1 .. Len(t) |-> [lsn |-> n, row |-> t[i].row, w |-> t[i].w]]
NeverNegative(w, t) ==
    \A k \in 1 .. Len(t) : \A r \in Rows : TableOf(w, Len(w))[r] + Net(SubSeq(t, 1, k), r) >= 0

\* It comes behind what was committed before.
LEMMA WrittenFacts ==
    ASSUME NEW w \in Seq(Change), NEW e \in 1 .. MaxCommits, IsWal(w, e), NEW t \in Seq(UnitEffect)
    PROVE  LET v == w \o Written(t, e + 1)
           IN /\ Extends(w, e, v) /\ Len(v) = Len(w) + Len(t) /\ CommitsOf(t, v, Len(w))
<1>. DEFINE u == Written(t, e + 1)
            v == w \o u
<1>1. /\ Len(w) \in Nat /\ Len(t) \in Nat /\ e \in Nat /\ e + 1 \in 2 .. MaxCommits + 1
      /\ \A i \in 1 .. Len(t) : t[i] \in UnitEffect
      /\ \A i \in 1 .. Len(t) : t[i].row \in Rows /\ t[i].w \in {-1, 1}
  <2>1. Len(t) \in Nat /\ \A i \in 1 .. Len(t) : t[i] \in UnitEffect
    BY UnitSeq
  <2>2. \A i \in 1 .. Len(t) : t[i].row \in Rows /\ t[i].w \in {-1, 1}
    BY <2>1 DEF UnitEffect
  <2>3. e \in Nat /\ e + 1 \in 2 .. MaxCommits + 1
    BY PlanAssumption
  <2>4. Len(w) \in Nat
    BY WalElements
  <2>. QED BY <2>1, <2>2, <2>3, <2>4
<1>2. u \in Seq(Change) /\ Len(u) = Len(t)
      /\ \A i \in 1 .. Len(t) : u[i] = [lsn |-> e + 1, row |-> t[i].row, w |-> t[i].w]
  <2>1. \A i \in 1 .. Len(t) : [lsn |-> e + 1, row |-> t[i].row, w |-> t[i].w] \in Change
    BY <1>1 DEF Change
  <2>2. u \in [1 .. Len(t) -> Change]
        /\ \A i \in 1 .. Len(t) : u[i] = [lsn |-> e + 1, row |-> t[i].row, w |-> t[i].w]
    <3>. HIDE DEF Change
    <3>. QED BY <2>1 DEF Written
  <2>. HIDE DEF u
  <2>3. u \in Seq(Change)
    BY <1>1, <2>2, SeqDef
  <2>4. Len(u) = Len(t)
    BY <1>1, <2>2, <2>3, LenProperties
  <2>. QED BY <2>2, <2>3, <2>4
<1>. HIDE DEF u
<1>3. /\ v \in Seq(Change) /\ Len(v) = Len(w) + Len(t)
      /\ \A i \in 1 .. Len(w) : v[i] = w[i]
      /\ \A i \in 1 .. Len(t) : v[Len(w) + i] = u[i]
  <2>1. w \in Seq(Change) /\ u \in Seq(Change)
    BY <1>2
  <2>2. v \in Seq(Change) /\ Len(v) = Len(w) + Len(u)
        /\ \A i \in 1 .. Len(w) + Len(u) : v[i] = IF i <= Len(w) THEN w[i] ELSE u[i - Len(w)]
    <3>. HIDE DEF Change
    <3>. QED BY <2>1, ConcatProperties
  <2>. HIDE DEF v
  <2>3. \A i \in 1 .. Len(w) : v[i] = w[i]
    BY <1>1, <1>2, <2>2
  <2>4. ASSUME NEW i \in 1 .. Len(t) PROVE v[Len(w) + i] = u[i]
    <3>1. Len(w) + i \in 1 .. Len(w) + Len(u) /\ ~(Len(w) + i <= Len(w)) /\ Len(w) + i - Len(w) = i
      BY <1>1, <1>2
    <3>. QED BY <2>2, <3>1
  <2>. QED BY <1>2, <2>2, <2>3, <2>4
<1>. HIDE DEF v
<1>4. \A i \in 1 .. Len(t) : v[Len(w) + i] = [lsn |-> e + 1, row |-> t[i].row, w |-> t[i].w]
  BY <1>2, <1>3
<1>5. \A i \in Len(w) + 1 .. Len(v) : v[i].lsn = e + 1
  <2>1. SUFFICES ASSUME NEW i \in Len(w) + 1 .. Len(v) PROVE v[i].lsn = e + 1
    OBVIOUS
  <2>. DEFINE j == i - Len(w)
  <2>2. j \in 1 .. Len(t) /\ Len(w) + j = i
    BY <1>1, <1>3
  <2>. HIDE DEF j
  <2>3. v[Len(w) + j] = [lsn |-> e + 1, row |-> t[j].row, w |-> t[j].w]
    BY <1>4, <2>2
  <2>4. v[Len(w) + j].lsn = e + 1
    BY <2>3
  <2>. QED BY <2>2, <2>4
<1>6. \A i \in 1 .. Len(w) : w[i].lsn <= e
  BY DEF IsWal
<1>7. Len(w) <= Len(v)
  BY <1>1, <1>3
<1>8. Extends(w, e, v)
  BY <1>1, <1>3, <1>5, <1>6, <1>7 DEF Extends
<1>9. \A i \in 1 .. Len(t) : t[i] = [row |-> v[Len(w) + i].row, w |-> v[Len(w) + i].w]
  <2>1. SUFFICES ASSUME NEW i \in 1 .. Len(t)
                 PROVE  t[i] = [row |-> v[Len(w) + i].row, w |-> v[Len(w) + i].w]
    OBVIOUS
  <2>2. t[i] \in UnitEffect
    BY <1>1
  <2>3. t[i] = [row |-> t[i].row, w |-> t[i].w]
    BY <2>2 DEF UnitEffect
  <2>4. v[Len(w) + i] = [lsn |-> e + 1, row |-> t[i].row, w |-> t[i].w]
    BY <1>4
  <2>5. v[Len(w) + i].row = t[i].row /\ v[Len(w) + i].w = t[i].w
    BY <2>4
  <2>. QED BY <2>3, <2>5
<1>10. CommitsOf(t, v, Len(w))
  BY <1>1, <1>3, <1>9 DEF CommitsOf
<1>. QED BY <1>3, <1>8, <1>10 DEF u, v

\* So the commits stay in order, and no row is deleted that is not there.
LEMMA WrittenInOrder ==
    ASSUME NEW w \in Seq(Change), NEW e \in 1 .. MaxCommits, IsWal(w, e), NEW t \in Seq(UnitEffect),
           NeverNegative(w, t)
    PROVE  IsWal(w \o Written(t, e + 1), e + 1)
<1>. DEFINE v == w \o Written(t, e + 1)
<1>1. Extends(w, e, v) /\ Len(v) = Len(w) + Len(t) /\ CommitsOf(t, v, Len(w))
  BY WrittenFacts
<1>. HIDE DEF v
<1>2. /\ v \in Seq(Change) /\ e \in Nat /\ Len(w) \in Nat /\ Len(v) \in Nat /\ Len(t) \in Nat
      /\ \A i \in 1 .. Len(w) : v[i] = w[i] /\ w[i].lsn <= e
      /\ \A i \in Len(w) + 1 .. Len(v) : v[i].lsn = e + 1
      /\ \A i \in 1 .. Len(w) : w[i].lsn \in Nat
  <2>1. e \in Nat /\ Len(t) \in Nat
    BY PlanAssumption, UnitSeq
  <2>. QED BY <1>1, <2>1, WalElements DEF Extends
<1>3. ASSUME NEW i \in 1 .. Len(v), NEW j \in 1 .. Len(v), i < j PROVE v[i].lsn <= v[j].lsn
  <2>1. CASE j <= Len(w)
    <3>1. i \in 1 .. Len(w) /\ j \in 1 .. Len(w)
      BY <1>2, <1>3, <2>1
    <3>2. w[i].lsn <= w[j].lsn
      BY <1>3, <3>1 DEF IsWal
    <3>. QED BY <1>2, <3>1, <3>2
  <2>2. CASE j > Len(w)
    <3>1. j \in Len(w) + 1 .. Len(v)
      BY <1>2, <2>2
    <3>2. i \in 1 .. Len(w) \/ i \in Len(w) + 1 .. Len(v)
      BY <1>2
    <3>3. v[j].lsn = e + 1
      BY <1>2, <3>1
    <3>4. CASE i \in 1 .. Len(w)
      <4>1. v[i].lsn \in Nat /\ v[i].lsn <= e
        BY <1>2, <3>4
      <4>. QED BY <1>2, <3>3, <4>1
    <3>5. CASE i \in Len(w) + 1 .. Len(v)
      BY <1>2, <3>3, <3>5
    <3>. QED BY <3>2, <3>4, <3>5
  <2>. QED BY <1>2, <2>1, <2>2
<1>4. ASSUME NEW i \in 1 .. Len(v) PROVE v[i].lsn <= e + 1
  <2>1. i \in 1 .. Len(w) \/ i \in Len(w) + 1 .. Len(v)
    BY <1>2
  <2>2. CASE i \in 1 .. Len(w)
    <3>1. v[i].lsn \in Nat /\ v[i].lsn <= e
      BY <1>2, <2>2
    <3>. QED BY <1>2, <3>1
  <2>3. CASE i \in Len(w) + 1 .. Len(v)
    BY <1>2, <2>3
  <2>. QED BY <2>1, <2>2, <2>3
<1>5. ASSUME NEW p \in 0 .. Len(v), NEW r \in Rows PROVE TableOf(v, p)[r] >= 0
  <2>1. \A q \in 0 .. Len(w) : TableOf(v, q) = TableOf(w, q) /\ TableOf(w, q)[r] >= 0
    BY <1>1, ExtendsFacts DEF IsWal
  <2>2. CASE p <= Len(w)
    <3>1. p \in 0 .. Len(w)
      BY <1>2, <2>2
    <3>. QED BY <2>1, <3>1
  <2>3. CASE p > Len(w)
    <3>. DEFINE j == p - Len(w)
    <3>1. j \in 1 .. Len(t) /\ j \in 0 .. Len(t) /\ Len(w) + j = p
      BY <1>1, <1>2, <2>3
    <3>. HIDE DEF j
    <3>2. TableOf(v, Len(w) + j)[r] = TableOf(v, Len(w))[r] + Net(SubSeq(t, 1, j), r)
      BY <1>1, <1>2, <3>1, TableOn
    <3>3. Len(w) \in 0 .. Len(w)
      BY <1>2
    <3>4. TableOf(v, Len(w)) = TableOf(w, Len(w))
      BY <2>1, <3>3
    <3>5. TableOf(w, Len(w))[r] + Net(SubSeq(t, 1, j), r) >= 0
      BY <3>1 DEF NeverNegative
    <3>. QED BY <3>1, <3>2, <3>4, <3>5
  <2>. QED BY <1>2, <2>2, <2>3
<1>6. IsWal(v, e + 1)
  BY <1>3, <1>4, <1>5 DEF IsWal
<1>. QED BY <1>6 DEF v

\* A log below an LSN is below a higher one.
LEMMA IsLogUp ==
    ASSUME NEW l, NEW e \in Int, NEW f \in Int, e <= f, IsLog(l, e)
    PROVE  IsLog(l, f)
<1>1. l \in Seq(UnitChunk)
      /\ \A i \in 1 .. Len(l) : l[i].lsn <= e /\ (l[i].kind = "frontier" <=> l[i].rows = <<>>)
  BY DEF IsLog
<1>2. \A i \in 1 .. Len(l) : l[i].lsn \in Int
  BY <1>1, ChunkFacts, PlanAssumption
<1>3. \A i \in 1 .. Len(l) : l[i].lsn <= f
  BY <1>1, <1>2
<1>. QED BY <1>1, <1>3 DEF IsLog

\* What a commit does.
LEMMA CommitFacts ==
    ASSUME Inv, Commit
    PROVE  /\ end \in 1 .. MaxCommits /\ end' = end + 1 /\ end' \in 1 .. MaxCommits + 1
           /\ end \in Nat /\ end' \in Nat
           /\ Extends(wal, end, wal') /\ IsWal(wal', end') /\ wal' \in Seq(Change)
           /\ UNCHANGED <<sent, published, activation, spool, log, cur, cont, kept, full, result>>
<1>1. end <= MaxCommits /\ end' = end + 1
      /\ UNCHANGED <<sent, published, activation, spool, log, cur, cont, kept, full, result>>
  BY DEF Commit, flowVars
<1>2. end \in 1 .. MaxCommits + 1 /\ wal \in Seq(Change) /\ IsWal(wal, end)
  BY DEF Inv, Types, WalLaw
<1>3. end \in 1 .. MaxCommits /\ end' \in 1 .. MaxCommits + 1 /\ end \in Nat /\ end' \in Nat
  BY <1>1, <1>2, PlanAssumption
<1>4. PICK t \in Txns :
        /\ \A k \in 1 .. Len(t), r \in Rows :
             TableAt(Len(wal))[r] + Net(SubSeq(t, 1, k), r) >= 0
        /\ wal' = wal \o [i \in 1 .. Len(t) |-> [lsn |-> end + 1, row |-> t[i].row, w |-> t[i].w]]
  BY DEF Commit
<1>5. t \in Seq(UnitEffect)
  BY PlanAssumption DEF UnitEffect
<1>6. NeverNegative(wal, t)
  BY <1>4 DEF NeverNegative, TableOf, TableAt
<1>7. wal' = wal \o Written(t, end + 1)
  BY <1>4, Zenon DEF Written
<1>8. Extends(wal, end, wal') /\ IsWal(wal', end')
  BY <1>1, <1>2, <1>3, <1>5, <1>6, <1>7, WrittenFacts, WrittenInOrder
<1>. QED BY <1>1, <1>3, <1>8 DEF Extends

\* A transaction commits.
LEMMA CommitStep ==
    ASSUME Inv, Commit
    PROVE  Inv'
<1>1. /\ end \in 1 .. MaxCommits /\ end' = end + 1 /\ end' \in 1 .. MaxCommits + 1
      /\ end \in Nat /\ end' \in Nat
      /\ Extends(wal, end, wal') /\ IsWal(wal', end') /\ wal' \in Seq(Change)
      /\ UNCHANGED <<sent, published, activation, spool, log, cur, cont, kept, full, result>>
  BY CommitFacts
<1>2. /\ sent \in 0 .. Len(wal) /\ published \in 0 .. end /\ activation \in 0 .. end
      /\ UpToOf(wal, published) <= sent
      /\ cur \in [Stages -> [next : Nat, frontier : 0 .. end]]
  BY DEF Inv, Types, WalLaw
<1>3. /\ Len(wal) \in Nat /\ Len(wal') \in Nat /\ 0 .. Len(wal) \subseteq 0 .. Len(wal')
      /\ \A p \in 0 .. Len(wal) : TableOf(wal', p) = TableOf(wal, p)
      /\ \A f \in Int : f <= end => UpToOf(wal', f) = UpToOf(wal, f)
  BY <1>1, ExtendsFacts
<1>4. Types'
  <2>1. /\ sent' \in 0 .. Len(wal') /\ published' \in 0 .. end' /\ activation' \in 0 .. end'
    BY <1>1, <1>2, <1>3
  <2>2. cur' \in [Stages -> [next : Nat, frontier : 0 .. end']]
    <3>1. 0 .. end \subseteq 0 .. end'
      BY <1>1
    <3>2. [next : Nat, frontier : 0 .. end] \subseteq [next : Nat, frontier : 0 .. end']
      BY <3>1
    <3>. QED BY <1>1, <1>2, <3>2
  <2>3. /\ \A i \in DOMAIN spool : i \in Nat /\ spool[i] \in Rows
        /\ IsLogs(log)
        /\ cont \in [Stages -> [phase : Phase, at : Nat, rest : {0}]]
        /\ DOMAIN kept = Operators /\ \A s \in Operators : kept[s] \in 1 .. cur[s].next
        /\ full \in [Operators -> BOOLEAN]
        /\ result \in [Rows -> Nat]
    BY DEF Inv, Types
  <2>. QED BY <1>1, <2>1, <2>2, <2>3 DEF Types
<1>5. WalLaw'
  <2>1. UpToOf(wal', published) = UpToOf(wal, published)
    BY <1>1, <1>2, <1>3
  <2>2. UpToOf(wal', published') <= sent'
    BY <1>1, <1>2, <2>1
  <2>. QED BY <1>1, <2>2 DEF WalLaw
<1>6. LogLaw'
  <2>1. \A s \in Stages : IsLog(log[s], end)
    BY DEF Inv, LogLaw
  <2>2. \A s \in Stages : IsLog(log[s], end')
    BY <1>1, <2>1, IsLogUp
  <2>. QED BY <1>1, <2>2 DEF LogLaw
<1>7. SourceLaw'
  <2>1. Sourced(wal, log[0], sent)
    BY DEF Inv, SourceLaw
  <2>2. log[0] \in Seq(UnitChunk)
    <3>1. 0 \in Stages
      BY StageSets
    <3>. QED BY <3>1, StageFacts
  <2>3. Sourced(wal', log[0], sent)
    BY <1>1, <2>1, <2>2, ExtendsSource
  <2>. QED BY <1>1, <2>3 DEF SourceLaw
<1>8. CursorLaw' /\ StageLaw' /\ SinkLaw'
  BY <1>1 DEF Inv, CursorLaw, StageLaw, SinkLaw
<1>9. ScanLaw'
  <2>1. CASE activation = 0
    BY <1>1, <2>1 DEF Inv, ScanLaw
  <2>2. CASE activation # 0
    <3>1. /\ ScanAt(wal, end, sent, activation, spool, log[0], log[1], cur[0], cont[0])
          /\ activation <= end /\ cur[0].frontier <= end
      <4>1. /\ ScanAt(wal, end, sent, activation, spool, log[0], log[1], cur[0], cont[0])
            /\ cur[0].frontier \in 0 .. end
        BY <2>2, ScanHere
      <4>. QED BY <1>1, <1>2, <4>1
    <3>2. IsScan(wal', activation, spool, log[0], log[1], cur[0], cont[0])
      BY <1>1, <3>1, ExtendsScan
    <3>. QED BY <1>1, <2>2, <3>2 DEF ScanLaw
  <2>. QED BY <2>1, <2>2
<1>10. TraceLaw'
  <2>1. SUFFICES ASSUME NEW s \in Operators PROVE Traces(wal', activation, s, log[s])
    BY <1>1 DEF TraceLaw
  <2>2. s \in Stages /\ IsLog(log[s], end)
    BY StageSets, StageFacts
  <2>3. Traces(wal, activation, s, log[s])
    BY DEF Inv, TraceLaw
  <2>4. activation \in Int /\ activation <= end
    BY <1>1, <1>2
  <2>. QED BY <1>1, <2>2, <2>3, <2>4, ExtendsTraces
<1>. QED BY <1>4, <1>5, <1>6, <1>7, <1>8, <1>9, <1>10, Zenon DEF Inv
-----------------------------------------------------------------------------
\* The chunks that the publisher cuts the commits into.

\* How many commits a chunk takes.
LEMMA ChunkSizeType ==
    ASSUME wal \in Seq(Change), NEW p \in Nat
    PROVE  ChunkSize(p) \in Nat
<1>. DEFINE S == {i \in p + 1 .. Len(wal) : wal[i].lsn = wal[p + 1].lsn}
<1>1. Len(wal) \in Nat
  BY WalElements
<1>2. IsFiniteSet(p + 1 .. Len(wal)) /\ S \subseteq p + 1 .. Len(wal)
  BY <1>1, FS_Interval
<1>. HIDE DEF S
<1>3. Cardinality(S) \in Nat
  BY <1>2, FS_Subset, FS_CardinalityType
<1>4. ChunkSize(p) = Min({TargetRows, Cardinality(S)})
  BY DEF ChunkSize, S
<1>. HIDE DEF ChunkSize
<1>5. TargetRows \in Nat
  BY PlanAssumption
<1>6. Min({TargetRows, Cardinality(S)}) \in Nat
  <2>. DEFINE n == Cardinality(S)
  <2>. HIDE DEF n
  <2>1. n \in Nat
    BY <1>3 DEF n
  <2>2. Min({TargetRows, n}) \in Nat
    BY <1>5, <2>1, MinOfTwo
  <2>. QED BY <2>2 DEF n
<1>. QED BY <1>4, <1>6

\* A chunk is at least one commit, and its commits have one LSN.
LEMMA ChunkSizeFacts ==
    ASSUME wal \in Seq(Change), NEW e, IsWal(wal, e), NEW p \in Nat, p < Len(wal)
    PROVE  /\ ChunkSize(p) \in Nat \ {0} /\ p + ChunkSize(p) <= Len(wal)
           /\ \A i \in 1 .. ChunkSize(p) : wal[p + i].lsn = wal[p + 1].lsn
<1>. DEFINE S == {i \in p + 1 .. Len(wal) : wal[i].lsn = wal[p + 1].lsn}
            n == Cardinality(S)
<1>1. Len(wal) \in Nat /\ p + 1 \in 1 .. Len(wal) /\ \A i \in 1 .. Len(wal) : wal[i].lsn \in Nat
  BY WalElements
<1>2. \A i \in S : \A j \in p + 1 .. i : j \in S
  <2>1. SUFFICES ASSUME NEW i \in S, NEW j \in p + 1 .. i PROVE j \in S
    OBVIOUS
  <2>2. /\ i \in p + 1 .. Len(wal) /\ wal[i].lsn = wal[p + 1].lsn
        /\ i \in 1 .. Len(wal) /\ j \in 1 .. Len(wal) /\ j \in p + 1 .. Len(wal)
    BY <1>1
  <2>3. wal[p + 1].lsn <= wal[j].lsn /\ wal[j].lsn <= wal[i].lsn
    <3>1. \A a, b \in 1 .. Len(wal) : a < b => wal[a].lsn <= wal[b].lsn
      BY DEF IsWal
    <3>2. p + 1 = j \/ p + 1 < j
      BY <2>2
    <3>3. i = j \/ j < i
      BY <2>2
    <3>. QED BY <1>1, <2>2, <3>1, <3>2, <3>3
  <2>4. wal[j].lsn = wal[p + 1].lsn
    BY <1>1, <2>2, <2>3
  <2>. QED BY <2>2, <2>4
<1>3. S \in SUBSET (p + 1 .. Len(wal)) /\ p + 1 \in S
  BY <1>1
<1>4. ChunkSize(p) = Min({TargetRows, n})
  BY DEF ChunkSize
<1>5. \A i \in S : wal[i].lsn = wal[p + 1].lsn
  OBVIOUS
<1>. HIDE DEF S
<1>6. n \in Nat /\ S = p + 1 .. p + n /\ p + n <= Len(wal)
  BY <1>1, <1>2, <1>3, Downward
<1>. HIDE DEF n, ChunkSize
<1>7. n >= 1
  BY <1>3, <1>6
<1>8. TargetRows \in Nat \ {0} /\ TargetRows \in Nat
  BY PlanAssumption
<1>9. Min({TargetRows, n}) = IF TargetRows <= n THEN TargetRows ELSE n
  BY <1>6, <1>8, MinOfTwo
<1>. DEFINE m == ChunkSize(p)
<1>10. m \in Nat \ {0} /\ m <= n
  BY <1>4, <1>6, <1>7, <1>8, <1>9
<1>. HIDE DEF m
<1>11. p + m <= Len(wal) /\ \A i \in 1 .. m : p + i \in p + 1 .. p + n
  BY <1>1, <1>6, <1>10
<1>12. \A i \in 1 .. m : wal[p + i].lsn = wal[p + 1].lsn
  BY <1>5, <1>6, <1>11
<1>. QED BY <1>10, <1>11, <1>12 DEF m

\* f lists where the publisher stands after each of k more chunks.
IsPublishing(f, k) ==
    f[0] = sent /\ \A i \in 1 .. k : f[i] = f[i - 1] + ChunkSize(f[i - 1])

\* SentAfter is the last of such a list.
LEMMA PublishingDef ==
    ASSUME wal \in Seq(Change), sent \in Nat, NEW k \in Nat
    PROVE  \E f \in [0 .. k -> Nat] : IsPublishing(f, k) /\ SentAfter(k) = f[k]
<1>. DEFINE Step(q) == q + ChunkSize(q)
            g == [p \in Nat \X (1 .. k) |-> Step(p[1])]
            Lists(f) == f = [i \in 0 .. k |->
                               IF i = 0 THEN sent ELSE f[i - 1] + ChunkSize(f[i - 1])]
            at == CHOOSE f : Lists(f)
<1>1. \A x \in Nat : Step(x) \in Nat
  <2>1. \A x \in Nat : ChunkSize(x) \in Nat
    BY ChunkSizeType
  <2>. HIDE DEF ChunkSize
  <2>. QED BY <2>1
<1>2. \A x \in Nat, i \in 1 .. k : g[<<x, i>>] = Step(x) /\ Step(x) \in Nat
  <2>. HIDE DEF Step
  <2>. QED BY <1>1
<1>. HIDE DEF g
<1>3. PICK f \in [0 .. k -> Nat] : IsIteration(f, sent, g, k)
  <2>1. StepOn(g, Nat, k)
    <3>. HIDE DEF Step
    <3>. QED BY <1>2 DEF StepOn
  <2>. QED BY <2>1, IterationExists, Zenon
<1>4. \A i \in 0 .. k : f[i] = IF i = 0 THEN sent ELSE Step(f[i - 1])
  <2>1. SUFFICES ASSUME NEW i \in 0 .. k
                 PROVE  f[i] = IF i = 0 THEN sent ELSE Step(f[i - 1])
    OBVIOUS
  <2>2. f[i] = IF i = 0 THEN sent ELSE g[<<f[i - 1], i>>]
    BY <1>3 DEF IsIteration
  <2>3. i # 0 => f[i - 1] \in Nat /\ i \in 1 .. k
    BY <1>3
  <2>4. ASSUME i # 0 PROVE g[<<f[i - 1], i>>] = Step(f[i - 1])
    <3>. HIDE DEF Step
    <3>. QED BY <1>2, <2>3, <2>4
  <2>. HIDE DEF Step
  <2>. QED BY <2>2, <2>4, Zenon
<1>5. Lists(f)
  <2>1. f = [i \in 0 .. k |-> f[i]]
    OBVIOUS
  <2>. QED BY <1>4, <2>1, Zenon
<1>6. Lists(at)
  <2>. HIDE DEF Lists
  <2>. QED BY <1>5, Zenon
<1>7. SentAfter(k) = at[k]
  BY Zenon DEF SentAfter
<1>. HIDE DEF at
<1>8. \A i \in 0 .. k : at[i] = IF i = 0 THEN sent ELSE Step(at[i - 1])
  BY <1>6, Zenon
<1>9. \A i \in 1 .. k : at[i] = Step(at[i - 1]) /\ f[i] = Step(f[i - 1])
  <2>1. \A i \in 1 .. k : i \in 0 .. k /\ i # 0
    OBVIOUS
  <2>. HIDE DEF Step
  <2>. QED BY <1>4, <1>8, <2>1, Zenon
<1>10. at[0] = sent /\ f[0] = sent
  <2>1. 0 \in 0 .. k
    OBVIOUS
  <2>. HIDE DEF Step
  <2>. QED BY <1>4, <1>8, <2>1, Zenon
<1>11. StepAlike(at, f, k)
  <2>. HIDE DEF Step
  <2>. QED BY <1>9, <1>10, Zenon DEF StepAlike
<1>12. at[k] = f[k]
  <2>1. \A i \in 0 .. k : at[i] = f[i]
    BY <1>11, SameSteps
  <2>. QED BY <2>1
<1>13. IsPublishing(f, k)
  BY <1>9, <1>10, Zenon DEF IsPublishing
<1>. QED BY <1>3, <1>7, <1>12, <1>13

\* Lists that take the same steps end alike.
LEMMA SameLast ==
    ASSUME NEW k \in Nat, NEW f, NEW g, StepAlike(f, g, k)
    PROVE  f[k] = g[k]
BY SameSteps

\* One chunk after the other.
LEMMA SentNext ==
    ASSUME wal \in Seq(Change), sent \in Nat, NEW k \in Nat
    PROVE  /\ SentAfter(k) \in Nat /\ (k = 0 => SentAfter(k) = sent)
           /\ SentAfter(k + 1) = SentAfter(k) + ChunkSize(SentAfter(k))
<1>1. PICK f \in [0 .. k -> Nat] : IsPublishing(f, k) /\ SentAfter(k) = f[k]
  BY PublishingDef
<1>. DEFINE m == k + 1
<1>2. m \in Nat /\ m - 1 = k /\ m \in 1 .. m /\ \A i \in 1 .. k : i \in 1 .. m
  OBVIOUS
<1>. HIDE DEF m
<1>3. PICK g \in [0 .. m -> Nat] : IsPublishing(g, m) /\ SentAfter(m) = g[m]
  BY <1>2, PublishingDef
<1>4. StepAlike(f, g, k)
  BY <1>1, <1>2, <1>3 DEF StepAlike, IsPublishing
<1>5. f[k] = g[k]
  BY <1>4, SameLast
<1>6. g[m] = g[k] + ChunkSize(g[k])
  BY <1>2, <1>3, Zenon DEF IsPublishing
<1>7. SentAfter(m) = SentAfter(k) + ChunkSize(SentAfter(k))
  BY <1>1, <1>3, <1>5, <1>6, Zenon
<1>8. SentAfter(k) \in Nat /\ (k = 0 => SentAfter(k) = sent)
  BY <1>1 DEF IsPublishing
<1>. QED BY <1>7, <1>8 DEF m

\* The chunk of n commits behind position p.
ChunkOf(w, p, n) == Data(w[p + 1].lsn, Effects(SubSeq(w, p + 1, p + n)))

\* It is the source chunk for that position.
LEMMA ChunkOfFacts ==
    ASSUME NEW w \in Seq(Change), NEW e, IsWal(w, e), NEW p \in Nat, NEW n \in Nat \ {0},
           p + n <= Len(w), \A i \in 1 .. n : w[p + i].lsn = w[p + 1].lsn
    PROVE  LET x == ChunkOf(w, p, n)
           IN /\ x \in UnitChunk /\ x.lsn <= e /\ x.kind = "data" /\ x.rows # <<>>
              /\ Len(x.rows) = n /\ IsSource(w, x, p)
<1>. DEFINE x == ChunkOf(w, p, n)
            u == SubSeq(w, p + 1, p + n)
            lsn == w[p + 1].lsn
<1>1. Len(w) \in Nat /\ p + 1 \in 1 .. Len(w) /\ \A i \in 1 .. n : p + i \in 1 .. Len(w)
  BY WalElements
<1>2. lsn \in 2 .. MaxCommits + 1 /\ lsn <= e /\ lsn \in 1 .. MaxCommits + 1
  <2>1. lsn \in 2 .. MaxCommits + 1
    BY <1>1, WalElements
  <2>2. lsn <= e
    BY <1>1 DEF IsWal
  <2>. HIDE DEF lsn
  <2>. QED BY <2>1, <2>2, PlanAssumption
<1>3. u \in Seq(Change) /\ Len(u) = n /\ \A i \in 1 .. n : u[i] = w[p + i]
  <2>1. p + 1 \in Nat /\ p + n \in Nat /\ p + n - (p + 1) + 1 = n
    OBVIOUS
  <2>. HIDE DEF Change
  <2>. QED BY <1>1, <2>1
<1>. HIDE DEF u
<1>4. /\ Effects(u) \in Seq(UnitEffect) /\ Len(Effects(u)) = n
      /\ \A i \in 1 .. n : Effects(u)[i] = [row |-> u[i].row, w |-> u[i].w]
  BY <1>3, TableAsEffects
<1>. DEFINE rows == Effects(u)
<1>5. x = Data(lsn, rows)
  BY DEF ChunkOf, u
<1>. HIDE DEF x, rows, lsn
<1>6. x \in UnitChunk /\ x.kind = "data" /\ x.lsn = lsn /\ x.rows = rows
  BY <1>2, <1>4, <1>5, DataChunk DEF rows
<1>7. x.rows # <<>>
  <2>1. Len(rows) # 0
    BY <1>4 DEF rows
  <2>2. Len(<<>>) = 0
    BY EmptySeq
  <2>. QED BY <1>6, <2>1, <2>2
<1>8. ASSUME NEW i \in 1 .. n
      PROVE  x.rows[i] = [row |-> w[p + i].row, w |-> w[p + i].w] /\ x.lsn = w[p + i].lsn
  <2>1. rows[i] = [row |-> u[i].row, w |-> u[i].w]
    BY <1>4 DEF rows
  <2>2. u[i] = w[p + i]
    BY <1>3
  <2>3. lsn = w[p + i].lsn
    BY DEF lsn
  <2>. QED BY <1>6, <2>1, <2>2, <2>3
<1>9. Len(x.rows) = n
  BY <1>4, <1>6 DEF rows
<1>10. IsSource(w, x, p)
  BY <1>6, <1>8, <1>9 DEF IsSource
<1>. QED BY <1>2, <1>6, <1>7, <1>9, <1>10 DEF x

\* The source stream with one more chunk.
LEMMA SourceGrows ==
    ASSUME NEW w \in Seq(Change), NEW e, NEW l, IsLog(l, e), NEW p, Sourced(w, l, p),
           NEW x \in UnitChunk, x.lsn <= e, x.kind = "data", x.rows # <<>>, IsSource(w, x, p)
    PROVE  /\ IsLog(Append(l, x), e) /\ Sourced(w, Append(l, x), p + Len(x.rows))
           /\ Len(Append(l, x)) = Len(l) + 1 /\ Len(l) \in Nat
           /\ \A i \in 1 .. Len(l) : Append(l, x)[i] = l[i]
<1>. DEFINE m == Append(l, x)
<1>1. l \in Seq(UnitChunk)
      /\ \A i \in 1 .. Len(l) : l[i].lsn <= e /\ (l[i].kind = "frontier" <=> l[i].rows = <<>>)
  BY DEF IsLog
<1>2. /\ m \in Seq(UnitChunk) /\ Len(m) = Len(l) + 1 /\ Len(l) \in Nat /\ m[Len(l) + 1] = x
      /\ \A i \in 1 .. Len(l) : m[i] = l[i]
      /\ \A n \in 0 .. Len(l) : LenTo(m, n) = LenTo(l, n)
  BY <1>1, AppendFacts
<1>. HIDE DEF m
<1>3. \A i \in 1 .. Len(m) : i \in 1 .. Len(l) \/ i = Len(l) + 1
  BY <1>2
<1>4. IsLog(m, e)
  <2>1. x.kind # "frontier"
    OBVIOUS
  <2>2. SUFFICES ASSUME NEW i \in 1 .. Len(m)
                 PROVE  m[i].lsn <= e /\ (m[i].kind = "frontier" <=> m[i].rows = <<>>)
    BY <1>2 DEF IsLog
  <2>3. CASE i \in 1 .. Len(l)
    BY <1>1, <1>2, <2>3
  <2>4. CASE i = Len(l) + 1
    BY <1>2, <2>1, <2>4
  <2>. QED BY <1>3, <2>3, <2>4
<1>5. LenTo(l, Len(l)) = p /\ \A i \in 1 .. Len(l) : IsSource(w, l[i], LenTo(l, i - 1))
  BY DEF Sourced
<1>6. LenTo(m, Len(m)) = p + Len(x.rows)
  <2>1. Len(l) \in Nat /\ Len(l) < Len(m) /\ Len(l) \in 0 .. Len(l)
    BY <1>2
  <2>2. LenTo(m, Len(l) + 1) = LenTo(m, Len(l)) + Len(m[Len(l) + 1].rows)
    BY <1>2, <2>1, ToFacts
  <2>. QED BY <1>2, <1>5, <2>1, <2>2
<1>7. ASSUME NEW i \in 1 .. Len(m) PROVE IsSource(w, m[i], LenTo(m, i - 1))
  <2>1. i - 1 \in 0 .. Len(l) /\ (i = Len(l) + 1 => i - 1 = Len(l))
    BY <1>2
  <2>2. LenTo(m, i - 1) = LenTo(l, i - 1)
    BY <1>2, <2>1
  <2>3. CASE i \in 1 .. Len(l)
    BY <1>2, <1>5, <2>2, <2>3
  <2>4. CASE i = Len(l) + 1
    <3>1. LenTo(m, i - 1) = p /\ m[i] = x
      BY <1>2, <1>5, <2>1, <2>2, <2>4
    <3>. QED BY <3>1
  <2>. QED BY <1>3, <2>3, <2>4
<1>8. Sourced(w, m, p + Len(x.rows))
  BY <1>6, <1>7 DEF Sourced
<1>. QED BY <1>2, <1>4, <1>8 DEF m

\* m is l with chunks behind it.
Behind(l, m) ==
    /\ l \in Seq(UnitChunk) /\ m \in Seq(UnitChunk) /\ Len(l) <= Len(m)
    /\ \A i \in 1 .. Len(l) : m[i] = l[i]

\* A reader of l is at the same place in m.
LEMMA BehindCursor ==
    ASSUME NEW l, NEW m, Behind(l, m), NEW c, NEW k, IsCursor(l, c, k)
    PROVE  IsCursor(m, c, k) /\ LenTo(m, c.next - 1) = LenTo(l, c.next - 1)
<1>1. /\ l \in Seq(UnitChunk) /\ m \in Seq(UnitChunk) /\ Len(l) <= Len(m)
      /\ Len(l) \in Nat /\ Len(m) \in Nat /\ \A i \in 1 .. Len(l) : m[i] = l[i]
  BY ChunkFacts DEF Behind
<1>2. c.next \in 1 .. Len(l) + 1 /\ (k.phase = "none" => k = NoContinuation)
  BY DEF IsCursor
<1>3. c.next \in 1 .. Len(m) + 1 /\ c.next - 1 \in Nat /\ \A i \in 1 .. c.next - 1 : i \in 1 .. Len(l)
  BY <1>1, <1>2
<1>4. \A i \in 1 .. c.next - 1 : m[i] = l[i]
  BY <1>1, <1>3
<1>5. LenTo(m, c.next - 1) = LenTo(l, c.next - 1)
  BY <1>3, <1>4, SameStart
<1>6. ASSUME k.phase = "data"
      PROVE  c.next <= Len(m) /\ m[c.next].kind = "data" /\ k.at < Len(m[c.next].rows)
  <2>1. c.next <= Len(l) /\ l[c.next].kind = "data" /\ k.at < Len(l[c.next].rows)
    BY <1>6 DEF IsCursor
  <2>2. c.next \in 1 .. Len(l) /\ c.next <= Len(m)
    BY <1>1, <1>2, <2>1
  <2>3. m[c.next] = l[c.next]
    BY <1>1, <2>2
  <2>. QED BY <2>1, <2>2, <2>3
<1>7. IsCursor(m, c, k)
  BY <1>2, <1>3, <1>6 DEF IsCursor
<1>. QED BY <1>5, <1>7

\* The next k source chunks, and the source stream with them.
Chunks(k) == [i \in 1 .. k |-> SourceChunk(i)]
LogAfter(k) == log[0] \o Chunks(k)

\* They come behind what is there.
LEMMA LogAfterIs ==
    ASSUME log[0] \in Seq(UnitChunk), NEW k \in Nat, \A i \in 1 .. k : SourceChunk(i) \in UnitChunk
    PROVE  /\ LogAfter(k) \in Seq(UnitChunk) /\ Len(LogAfter(k)) = Len(log[0]) + k
           /\ \A i \in 1 .. Len(log[0]) : LogAfter(k)[i] = log[0][i]
           /\ \A i \in 1 .. k : LogAfter(k)[Len(log[0]) + i] = SourceChunk(i)
<1>. DEFINE u == Chunks(k)
            l == log[0]
            v == l \o u
<1>1. u \in Seq(UnitChunk) /\ Len(u) = k /\ \A i \in 1 .. k : u[i] = SourceChunk(i)
  <2>1. u \in [1 .. k -> UnitChunk] /\ \A i \in 1 .. k : u[i] = SourceChunk(i)
    <3>. HIDE DEF UnitChunk, SourceChunk
    <3>. QED BY DEF Chunks
  <2>. HIDE DEF u, SourceChunk
  <2>2. u \in Seq(UnitChunk)
    BY <2>1, SeqDef
  <2>3. Len(u) = k
    BY <2>1, <2>2, LenProperties
  <2>. QED BY <2>1, <2>2, <2>3
<1>. HIDE DEF u, l
<1>2. l \in Seq(UnitChunk) /\ Len(l) \in Nat
  BY ChunkFacts DEF l
<1>3. v \in Seq(UnitChunk) /\ Len(v) = Len(l) + Len(u)
      /\ \A i \in 1 .. Len(l) + Len(u) : v[i] = IF i <= Len(l) THEN l[i] ELSE u[i - Len(l)]
  <2>. HIDE DEF UnitChunk
  <2>. QED BY <1>1, <1>2, ConcatProperties
<1>. HIDE DEF v
<1>4. ASSUME NEW i \in 1 .. Len(l) PROVE v[i] = l[i]
  <2>1. i \in 1 .. Len(l) + Len(u) /\ i <= Len(l)
    BY <1>1, <1>2
  <2>. QED BY <1>3, <2>1
<1>5. ASSUME NEW i \in 1 .. k PROVE v[Len(l) + i] = SourceChunk(i)
  <2>1. Len(l) + i \in 1 .. Len(l) + Len(u) /\ ~(Len(l) + i <= Len(l)) /\ Len(l) + i - Len(l) = i
    BY <1>1, <1>2
  <2>2. v[Len(l) + i] = u[i]
    BY <1>3, <2>1
  <2>3. u[i] = SourceChunk(i)
    BY <1>1
  <2>. HIDE DEF SourceChunk
  <2>. QED BY <2>2, <2>3
<1>6. LogAfter(k) = v
  BY Zenon DEF LogAfter, v, l, u
<1>. QED BY <1>1, <1>3, <1>4, <1>5, <1>6 DEF l

\* No chunk more, and one chunk more.
LEMMA LogAfterNext ==
    ASSUME log[0] \in Seq(UnitChunk), NEW k \in Nat, \A i \in 1 .. k : SourceChunk(i) \in UnitChunk
    PROVE  /\ k = 0 => LogAfter(k) = log[0]
           /\ SourceChunk(k + 1) \in UnitChunk =>
                LogAfter(k + 1) = Append(LogAfter(k), SourceChunk(k + 1))
<1>. DEFINE u == LogAfter(k)
            l == log[0]
            x == SourceChunk(k + 1)
            v == LogAfter(k + 1)
            y == Append(u, x)
<1>1. /\ u \in Seq(UnitChunk) /\ Len(u) = Len(l) + k
      /\ \A i \in 1 .. Len(l) : u[i] = l[i]
      /\ \A i \in 1 .. k : u[Len(l) + i] = SourceChunk(i)
  BY LogAfterIs
<1>2. l \in Seq(UnitChunk) /\ Len(l) \in Nat
  BY ChunkFacts
<1>3. ASSUME k = 0 PROVE u = l
  <2>1. Len(u) = Len(l) /\ \A i \in 1 .. Len(u) : u[i] = l[i]
    <3>. HIDE DEF u, l
    <3>. QED BY <1>1, <1>2, <1>3
  <2>. HIDE DEF u, l
  <2>. QED BY <1>1, <1>2, <2>1, SeqEqual, Zenon
<1>4. ASSUME x \in UnitChunk PROVE v = y
  <2>1. \A i \in 1 .. k + 1 : SourceChunk(i) \in UnitChunk
    <3>1. \A i \in 1 .. k + 1 : i \in 1 .. k \/ i = k + 1
      OBVIOUS
    <3>. HIDE DEF SourceChunk
    <3>. QED BY <1>4, <3>1, Zenon
  <2>2. /\ v \in Seq(UnitChunk) /\ Len(v) = Len(l) + (k + 1)
        /\ \A i \in 1 .. Len(l) : v[i] = l[i]
        /\ \A i \in 1 .. k + 1 : v[Len(l) + i] = SourceChunk(i)
    <3>1. k + 1 \in Nat
      OBVIOUS
    <3>. QED BY <2>1, <3>1, LogAfterIs
  <2>3. /\ y \in Seq(UnitChunk) /\ Len(y) = Len(u) + 1 /\ y[Len(u) + 1] = x
        /\ \A i \in 1 .. Len(u) : y[i] = u[i]
    <3>. HIDE DEF u, x
    <3>. QED BY <1>1, <1>4, AppendFacts
  <2>4. v[Len(l) + (k + 1)] = x
    <3>1. k + 1 \in 1 .. k + 1
      OBVIOUS
    <3>. QED BY <2>2, <3>1
  <2>5. \A i \in 1 .. k : v[Len(l) + i] = u[Len(l) + i]
    <3>1. \A i \in 1 .. k : i \in 1 .. k + 1
      OBVIOUS
    <3>. HIDE DEF SourceChunk, u, v, l
    <3>. QED BY <1>1, <2>2, <3>1
  <2>. HIDE DEF u, v, l, x, y
  <2>6. Len(v) = Len(y)
    BY <1>1, <1>2, <2>2, <2>3
  <2>7. ASSUME NEW i \in 1 .. Len(v) PROVE v[i] = y[i]
    <3>1. CASE i \in 1 .. Len(l)
      <4>1. i \in 1 .. Len(u)
        BY <1>1, <1>2, <3>1
      <4>. QED BY <1>1, <2>2, <2>3, <3>1, <4>1
    <3>2. CASE i = Len(l) + (k + 1)
      <4>1. i = Len(u) + 1
        BY <1>1, <1>2, <3>2
      <4>. QED BY <2>3, <2>4, <3>2, <4>1
    <3>3. CASE i > Len(l) /\ i < Len(l) + (k + 1)
      <4>. DEFINE j == i - Len(l)
      <4>1. j \in 1 .. k /\ Len(l) + j = i /\ i \in 1 .. Len(u)
        BY <1>1, <1>2, <3>3
      <4>. HIDE DEF j
      <4>2. v[Len(l) + j] = u[Len(l) + j]
        BY <2>5, <4>1
      <4>. QED BY <2>3, <4>1, <4>2
    <3>. QED BY <1>2, <2>2, <3>1, <3>2, <3>3
  <2>. QED BY <2>2, <2>3, <2>6, <2>7, SeqEqual
<1>. QED BY <1>3, <1>4

\* The next chunk of the source stream.
LEMMA SourceChunkFacts ==
    ASSUME Inv, NEW k \in Nat, SentAfter(k) < Len(wal)
    PROVE  LET x == SourceChunk(k + 1)
           IN /\ x \in UnitChunk /\ x.lsn <= end /\ x.kind = "data" /\ x.rows # <<>>
              /\ IsSource(wal, x, SentAfter(k)) /\ SentAfter(k + 1) = SentAfter(k) + Len(x.rows)
              /\ SentAfter(k) \in Nat /\ SentAfter(k + 1) \in SentAfter(k) .. Len(wal)
<1>1. wal \in Seq(Change) /\ IsWal(wal, end) /\ sent \in Nat /\ Len(wal) \in Nat
  <2>1. wal \in Seq(Change) /\ IsWal(wal, end) /\ sent \in 0 .. Len(wal)
    BY DEF Inv, Types, WalLaw
  <2>. QED BY <2>1, WalElements
<1>. DEFINE p == SentAfter(k)
            n == ChunkSize(p)
            m == k + 1
            q == SentAfter(m)
<1>2. p \in Nat /\ q = p + n
  BY <1>1, SentNext
<1>3. n \in Nat \ {0} /\ p + n <= Len(wal) /\ \A i \in 1 .. n : wal[p + i].lsn = wal[p + 1].lsn
  BY <1>1, <1>2, ChunkSizeFacts
<1>4. m - 1 = k
  OBVIOUS
<1>. HIDE DEF m
<1>5. SourceChunk(m) = ChunkOf(wal, p, n)
  <2>1. SourceChunk(m) = Data(wal[p + 1].lsn, Effects(SubSeq(wal, p + 1, q)))
    BY <1>4, Zenon DEF SourceChunk
  <2>. HIDE DEF p, n, q
  <2>. QED BY <1>2, <2>1, Zenon DEF ChunkOf
<1>. HIDE DEF p, n, q
<1>. DEFINE x == ChunkOf(wal, p, n)
<1>6. /\ x \in UnitChunk /\ x.lsn <= end /\ x.kind = "data" /\ x.rows # <<>>
      /\ Len(x.rows) = n /\ IsSource(wal, x, p)
  BY <1>1, <1>2, <1>3, ChunkOfFacts
<1>. HIDE DEF x
<1>7. q \in p .. Len(wal)
  BY <1>1, <1>2, <1>3
<1>8. SourceChunk(m) = x
  BY <1>5 DEF x
<1>9. q = p + Len(x.rows)
  BY <1>2, <1>6
<1>. HIDE DEF SourceChunk, SentAfter
<1>. QED BY <1>2, <1>6, <1>7, <1>8, <1>9 DEF p, q, m

\* What the source stream is after k more chunks.
PublishedTo(k) ==
    /\ Behind(log[0], LogAfter(k)) /\ IsLog(LogAfter(k), end)
    /\ Sourced(wal, LogAfter(k), SentAfter(k)) /\ SentAfter(k) \in sent .. Len(wal)
    /\ \A i \in 1 .. k : SourceChunk(i) \in UnitChunk

\* Before the first one, it is what it was.
LEMMA PublishedFirst ==
    ASSUME Inv
    PROVE  PublishedTo(0)
<1>1. /\ wal \in Seq(Change) /\ sent \in 0 .. Len(wal) /\ Sourced(wal, log[0], sent)
      /\ \A s \in Stages : IsLog(log[s], end)
  BY DEF Inv, Types, SourceLaw, LogLaw
<1>2. Len(wal) \in Nat /\ sent \in Nat /\ sent \in sent .. Len(wal)
  <2>1. Len(wal) \in Nat
    BY <1>1, WalElements
  <2>. QED BY <1>1, <2>1
<1>3. SentAfter(0) = sent
  BY <1>1, <1>2, SentNext
<1>4. IsLog(log[0], end) /\ log[0] \in Seq(UnitChunk) /\ Len(log[0]) \in Nat
  <2>1. 0 \in Stages
    BY StageSets
  <2>. QED BY <1>1, <2>1, StageFacts
<1>5. \A i \in 1 .. 0 : SourceChunk(i) \in UnitChunk
  OBVIOUS
<1>6. LogAfter(0) = log[0]
  BY <1>4, <1>5, LogAfterNext
<1>7. Behind(log[0], log[0])
  BY <1>4 DEF Behind
<1>. HIDE DEF SentAfter, LogAfter
<1>. QED BY <1>1, <1>2, <1>3, <1>4, <1>5, <1>6, <1>7, Zenon DEF PublishedTo

\* One chunk more.
LEMMA PublishedNext ==
    ASSUME Inv, NEW k \in Nat, PublishedTo(k), SentAfter(k) < Len(wal)
    PROVE  PublishedTo(k + 1)
<1>. DEFINE x == SourceChunk(k + 1)
            l == LogAfter(k)
            m == Append(l, x)
            p == SentAfter(k)
            q == SentAfter(k + 1)
<1>1. /\ x \in UnitChunk /\ x.lsn <= end /\ x.kind = "data" /\ x.rows # <<>>
      /\ IsSource(wal, x, p) /\ q = p + Len(x.rows)
      /\ p \in Nat /\ q \in p .. Len(wal)
  BY SourceChunkFacts
<1>2. /\ Behind(log[0], l) /\ IsLog(l, end)
      /\ Sourced(wal, l, p) /\ p \in sent .. Len(wal)
      /\ \A i \in 1 .. k : SourceChunk(i) \in UnitChunk
  BY Zenon DEF PublishedTo
<1>3. wal \in Seq(Change) /\ sent \in Nat /\ Len(wal) \in Nat
  <2>1. wal \in Seq(Change) /\ sent \in 0 .. Len(wal)
    BY DEF Inv, Types
  <2>. QED BY <2>1, WalElements
<1>4. log[0] \in Seq(UnitChunk) /\ l \in Seq(UnitChunk) /\ Len(log[0]) \in Nat
      /\ Len(log[0]) <= Len(l) /\ \A i \in 1 .. Len(log[0]) : l[i] = log[0][i]
  BY <1>2, ChunkFacts DEF Behind
<1>5. LogAfter(k + 1) = m
  BY <1>1, <1>2, <1>4, LogAfterNext
<1>. HIDE DEF x, l, p, q
<1>6. /\ IsLog(m, end) /\ Sourced(wal, m, p + Len(x.rows))
      /\ Len(m) = Len(l) + 1 /\ Len(l) \in Nat /\ \A i \in 1 .. Len(l) : m[i] = l[i]
  BY <1>1, <1>2, <1>3, SourceGrows
<1>. HIDE DEF m
<1>7. Behind(log[0], m)
  <2>1. m \in Seq(UnitChunk)
    BY <1>6 DEF IsLog
  <2>2. \A i \in 1 .. Len(log[0]) : i \in 1 .. Len(l)
    BY <1>4, <1>6
  <2>3. \A i \in 1 .. Len(log[0]) : m[i] = log[0][i]
    BY <1>4, <1>6, <2>2
  <2>4. Len(log[0]) <= Len(m)
    BY <1>4, <1>6
  <2>. QED BY <1>4, <2>1, <2>3, <2>4 DEF Behind
<1>8. Sourced(wal, m, q) /\ q \in sent .. Len(wal)
  BY <1>1, <1>2, <1>3, <1>6
<1>9. \A i \in 1 .. k + 1 : SourceChunk(i) \in UnitChunk
  <2>1. \A i \in 1 .. k + 1 : i \in 1 .. k \/ i = k + 1
    OBVIOUS
  <2>. HIDE DEF SourceChunk
  <2>. QED BY <1>1, <1>2, <2>1, Zenon DEF x
<1>10. SentAfter(k + 1) = q
  BY DEF q
<1>. HIDE DEF SentAfter, LogAfter, SourceChunk
<1>. QED BY <1>5, <1>6, <1>7, <1>8, <1>9, <1>10, Zenon DEF PublishedTo

\* As many as there are.
LEMMA PublishedChunks ==
    ASSUME Inv, NEW k \in Nat, Publishable(k)
    PROVE  PublishedTo(k)
<1>. DEFINE N == {i \in Nat : i <= k => PublishedTo(i)}
<1>1. 0 \in N
  BY PublishedFirst
<1>2. ASSUME NEW i \in Nat, i \in N PROVE i + 1 \in N
  <2>1. SUFFICES ASSUME i + 1 <= k PROVE PublishedTo(i + 1)
    OBVIOUS
  <2>2. i <= k /\ i \in 0 .. k - 1
    BY <2>1
  <2>3. PublishedTo(i) /\ SentAfter(i) < Len(wal)
    BY <1>2, <2>2 DEF Publishable
  <2>. QED BY <2>3, PublishedNext
<1>. HIDE DEF N
<1>3. k \in N
  BY <1>1, <1>2, NatSetInduction
<1>. QED BY <1>3 DEF N

\* What a round does.
LEMMA RoundFacts ==
    ASSUME Inv, Round
    PROVE  /\ \E k \in Nat : /\ PublishedTo(k) /\ sent' = SentAfter(k)
                             /\ log' = [log EXCEPT ![0] = LogAfter(k)]
           /\ published' \in 0 .. end /\ UpToOf(wal, published') <= sent'
           /\ UNCHANGED <<wal, end, activation, spool, cur, cont, kept, full, result>>
<1>1. PICK k \in 0 .. MaxBurst :
        /\ Publishable(k) /\ sent' = SentAfter(k)
        /\ log' = [log EXCEPT ![0] = @ \o [i \in 1 .. k |-> SourceChunk(i)]]
  <2>. HIDE DEF Publishable, SentAfter, SourceChunk
  <2>. QED BY DEF Round
<1>2. k \in Nat
  BY PlanAssumption
<1>3. PublishedTo(k)
  BY <1>1, <1>2, PublishedChunks
<1>4. log' = [log EXCEPT ![0] = LogAfter(k)]
  BY <1>1, Zenon DEF LogAfter, Chunks
<1>5. /\ published \in 0 .. end /\ UpToOf(wal, published) <= sent /\ end \in Nat
      /\ wal \in Seq(Change) /\ Len(wal) \in Nat /\ sent \in 0 .. Len(wal)
  <2>1. /\ published \in 0 .. end /\ UpToOf(wal, published) <= sent /\ end \in 1 .. MaxCommits + 1
        /\ wal \in Seq(Change) /\ sent \in 0 .. Len(wal)
    BY DEF Inv, Types, WalLaw
  <2>. QED BY <2>1, WalElements
<1>6. sent' \in sent .. Len(wal)
  BY <1>1, <1>3 DEF PublishedTo
<1>7. UNCHANGED <<wal, end, activation, spool, cur, cont, kept, full, result>>
  BY DEF Round
<1>8. \/ NextCommit <= end /\ UpTo(NextCommit) <= sent' /\ published' = NextCommit
      \/ published' = published
  <2>. HIDE DEF Publishable, SentAfter, SourceChunk, NextCommit, UpTo
  <2>. QED BY DEF Round
<1>9. published' \in 0 .. end /\ UpToOf(wal, published') <= sent'
  <2>1. CASE published' = published
    <3>1. UpToOf(wal, published) \in Nat
      <4>1. UpToOf(wal, published) \in 0 .. Len(wal)
        BY <1>5, UpToType
      <4>. QED BY <1>5, <4>1
    <3>. QED BY <1>5, <1>6, <2>1, <3>1
  <2>2. CASE NextCommit <= end /\ UpTo(NextCommit) <= sent' /\ published' = NextCommit
    <3>1. NextCommit \in Nat
      <4>1. Max({published, 1}) \in {published, 1}
        <5>1. {published, 1} \in SUBSET Nat /\ {published, 1} # {}
              /\ \A y \in {published, 1} : y <= published + 1
          BY <1>5
        <5>2. published + 1 \in Nat
          BY <1>5
        <5>. QED BY <5>1, <5>2, MaxOfNats
      <4>. QED BY <1>5, <4>1 DEF NextCommit
    <3>2. UpTo(NextCommit) = UpToOf(wal, NextCommit)
      BY DEF UpTo, UpToOf
    <3>. HIDE DEF NextCommit
    <3>. QED BY <1>5, <2>2, <3>1, <3>2
  <2>. QED BY <1>8, <2>1, <2>2
<1>. HIDE DEF PublishedTo, SentAfter, LogAfter
<1>. QED BY <1>1, <1>2, <1>3, <1>4, <1>7, <1>9

\* The publisher appends to the source stream.
LEMMA RoundStep ==
    ASSUME Inv, Round
    PROVE  Inv'
<1>1. PICK k \in Nat : /\ PublishedTo(k) /\ sent' = SentAfter(k)
                       /\ log' = [log EXCEPT ![0] = LogAfter(k)]
  BY RoundFacts
<1>2. /\ published' \in 0 .. end /\ UpToOf(wal, published') <= sent'
      /\ UNCHANGED <<wal, end, activation, spool, cur, cont, kept, full, result>>
  BY RoundFacts
<1>. DEFINE l == log[0]
            m == LogAfter(k)
<1>3. /\ Behind(l, m) /\ IsLog(m, end) /\ Sourced(wal, m, sent') /\ sent' \in sent .. Len(wal)
  BY <1>1 DEF PublishedTo
<1>4. /\ sent \in 0 .. Len(wal) /\ wal \in Seq(Change) /\ end \in 1 .. MaxCommits + 1
      /\ activation \in 0 .. end /\ IsLogs(log)
      /\ \A i \in DOMAIN spool : i \in Nat /\ spool[i] \in Rows
      /\ cur \in [Stages -> [next : Nat, frontier : 0 .. end]]
      /\ cont \in [Stages -> [phase : Phase, at : Nat, rest : {0}]]
      /\ DOMAIN kept = Operators /\ \A s \in Operators : kept[s] \in 1 .. cur[s].next
      /\ full \in [Operators -> BOOLEAN]
      /\ result \in [Rows -> Nat]
  BY DEF Inv, Types
<1>5. /\ 0 \in Stages /\ SinkStage # 0 /\ 1 # 0
      /\ \A s \in Operators : s # 0 /\ s \in Stages
      /\ \A s \in Transforms : s # 0 /\ s + 1 # 0 /\ s \in Stages /\ s + 1 \in Stages
      /\ SinkStage \in Stages /\ 1 \in Stages
  BY StageSets
<1>. HIDE DEF l, m
<1>6. log'[0] = m /\ (\A s \in Stages : s # 0 => log'[s] = log[s]) /\ IsLogs(log')
  <2>1. log' = Put(log, 0, m)
    BY <1>1, Zenon DEF m, Put
  <2>. QED BY <1>4, <1>5, <2>1, PutFacts
<1>7. Types'
  <2>1. Len(wal) \in Nat
    BY <1>4, WalElements
  <2>2. sent' \in 0 .. Len(wal)
    BY <1>3, <1>4, <2>1
  <2>. QED BY <1>2, <1>4, <1>6, <2>2 DEF Types
<1>8. WalLaw'
  BY <1>2 DEF WalLaw, Inv
<1>9. LogLaw'
  <2>1. \A s \in Stages : IsLog(log[s], end)
    BY DEF Inv, LogLaw
  <2>2. \A s \in Stages : IsLog(log'[s], end)
    BY <1>3, <1>6, <2>1
  <2>. QED BY <1>2, <2>2 DEF LogLaw
<1>10. SourceLaw'
  BY <1>2, <1>3, <1>6 DEF SourceLaw
<1>11. IsCursor(m, cur[0], cont[0]) /\ LenTo(m, cur[0].next - 1) = LenTo(l, cur[0].next - 1)
  <2>1. IsCursor(l, cur[0], cont[0])
    BY <1>5, StageFacts DEF l
  <2>. QED BY <1>3, <2>1, BehindCursor
<1>12. CursorLaw'
  <2>1. /\ \A s \in Stages : IsCursor(log[s], cur[s], cont[s])
        /\ \A s \in Operators : Passed(log[s], cur[s], cont[s])
    BY DEF Inv, CursorLaw
  <2>2. \A s \in Stages : IsCursor(log'[s], cur[s], cont[s])
    BY <1>6, <1>11, <2>1
  <2>3. \A s \in Operators : Passed(log'[s], cur[s], cont[s])
    BY <1>5, <1>6, <2>1
  <2>. QED BY <1>2, <2>2, <2>3 DEF CursorLaw
<1>13. ScanLaw'
  <2>1. log'[1] = log[1] /\ \A s \in Operators : log'[s] = log[s]
    BY <1>5, <1>6
  <2>2. CASE activation = 0
    <3>1. Unregistered(spool, cont[0]) /\ \A s \in Operators : log[s] = <<>>
      BY <2>2 DEF Inv, ScanLaw
    <3>. QED BY <1>2, <2>1, <2>2, <3>1 DEF ScanLaw
  <2>3. CASE activation # 0
    <3>1. IsScan(wal, activation, spool, l, log[1], cur[0], cont[0])
      BY <2>3 DEF Inv, ScanLaw, l
    <3>2. ReachedOf(wal, activation, m, cur[0], cont[0]) = ReachedOf(wal, activation, l, cur[0], cont[0])
      BY <1>11, Zenon DEF ReachedOf
    <3>3. IsScan(wal, activation, spool, m, log[1], cur[0], cont[0])
      BY <3>1, <3>2, Zenon DEF IsScan
    <3>. QED BY <1>2, <1>6, <2>1, <2>3, <3>3 DEF ScanLaw
  <2>. QED BY <2>2, <2>3
<1>14. StageLaw'
  <2>1. \A s \in Transforms : IsImage(s, log[s], log[s + 1], cur[s], cont[s])
    BY DEF Inv, StageLaw
  <2>2. ASSUME NEW s \in Transforms PROVE IsImage(s, log'[s], log'[s + 1], cur[s], cont[s])
    <3>1. log'[s] = log[s] /\ log'[s + 1] = log[s + 1]
      BY <1>5, <1>6
    <3>. QED BY <2>1, <3>1, Zenon
  <2>. QED BY <1>2, <2>2 DEF StageLaw
<1>15. TraceLaw'
  <2>1. \A s \in Operators : Traces(wal, activation, s, log[s])
    BY DEF Inv, TraceLaw
  <2>2. \A s \in Operators : Traces(wal, activation, s, log'[s])
    BY <1>5, <1>6, <2>1
  <2>. QED BY <1>2, <2>2 DEF TraceLaw
<1>16. SinkLaw'
  <2>1. log'[SinkStage] = log[SinkStage]
    BY <1>5, <1>6
  <2>. QED BY <1>2, <2>1 DEF Inv, SinkLaw
<1>. QED BY <1>7, <1>8, <1>9, <1>10, <1>12, <1>13, <1>14, <1>15, <1>16, Zenon DEF Inv
-----------------------------------------------------------------------------
\* The snapshot that a registration takes.

\* How many of the first n rows of s are r.
CountOf(s, n, r) == Cardinality({i \in 1 .. n : s[i] = r})

\* One row more.
LEMMA CountNext ==
    ASSUME NEW n \in Nat, NEW s, NEW u, \A i \in 1 .. n : u[i] = s[i], NEW r
    PROVE  /\ CountOf(s, n, r) \in Nat
           /\ CountOf(u, n + 1, r) = CountOf(s, n, r) + IF u[n + 1] = r THEN 1 ELSE 0
<1>. DEFINE A == {i \in 1 .. n : s[i] = r}
            B == {i \in 1 .. n + 1 : u[i] = r}
<1>1. IsFiniteSet(A) /\ n + 1 \notin A
  <2>1. IsFiniteSet(1 .. n) /\ A \subseteq 1 .. n
    BY FS_Interval
  <2>2. n + 1 \notin A
    OBVIOUS
  <2>. HIDE DEF A
  <2>. QED BY <2>1, <2>2, FS_Subset
<1>2. B = IF u[n + 1] = r THEN A \cup {n + 1} ELSE A
  <2>1. \A i : i \in 1 .. n + 1 <=> i \in 1 .. n \/ i = n + 1
    OBVIOUS
  <2>2. ASSUME NEW i PROVE i \in B <=> (i \in A \/ (i = n + 1 /\ u[n + 1] = r))
    BY <2>1
  <2>. HIDE DEF A, B
  <2>. QED BY <2>2
<1>. HIDE DEF A, B
<1>3. Cardinality(A) \in Nat
  BY <1>1, FS_CardinalityType
<1>4. Cardinality(B) = Cardinality(A) + IF u[n + 1] = r THEN 1 ELSE 0
  <2>1. CASE u[n + 1] = r
    <3>1. Cardinality(A \cup {n + 1}) = Cardinality(A) + 1
      BY <1>1, FS_AddElement
    <3>. QED BY <1>2, <2>1, <3>1
  <2>2. CASE u[n + 1] # r
    BY <1>2, <1>3, <2>2
  <2>. QED BY <2>1, <2>2
<1>. QED BY <1>3, <1>4 DEF CountOf, A, B

\* s lists the rows of table t.
Lists(s, t, n) == s \in [1 .. n -> Rows] /\ \A r \in Rows : CountOf(s, n, r) = t[r]
Listable(n) == \A t \in [Rows -> Nat] : SetSum(t, Rows) = n => \E s : Lists(s, t, n)

\* A table that is not empty has a row.
LEMMA HasRow ==
    ASSUME NEW t \in [Rows -> Nat], SetSum(t, Rows) # 0
    PROVE  \E x \in Rows : t[x] # 0
<1>1. SUFFICES ASSUME \A x \in Rows : t[x] = 0 PROVE SetSum(t, Rows) = 0
  OBVIOUS
<1>. DEFINE z == [x \in Rows |-> 0]
<1>2. \A x \in Rows : t[x] \in Int /\ t[x] = z[x]
  BY <1>1
<1>. HIDE DEF z
<1>3. SetSum(t, Rows) = SetSum(z, Rows)
  BY <1>2, PlanAssumption, SetSumAgree
<1>4. SetSum(z, Rows) = 0
  BY PlanAssumption, ZeroSum DEF z
<1>. QED BY <1>3, <1>4

\* The table without one copy of row x.
Without(t, x) == [y \in Rows |-> IF y = x THEN t[y] - 1 ELSE t[y]]

\* It has one row less.
LEMMA WithoutFacts ==
    ASSUME NEW t \in [Rows -> Nat], NEW x \in Rows, t[x] # 0
    PROVE  /\ Without(t, x) \in [Rows -> Nat] /\ SetSum(t, Rows) = SetSum(Without(t, x), Rows) + 1
           /\ \A y \in Rows : t[y] = Without(t, x)[y] + IF x = y THEN 1 ELSE 0
<1>. DEFINE u == Without(t, x)
            d == [y \in Rows |-> IF y = x THEN 1 ELSE 0]
<1>1. u \in [Rows -> Nat] /\ \A y \in Rows : u[y] = IF y = x THEN t[y] - 1 ELSE t[y]
  BY DEF Without
<1>2. \A y \in Rows : d[y] = IF y = x THEN 1 ELSE 0
  OBVIOUS
<1>. HIDE DEF u, d
<1>3. \A y \in Rows : u[y] \in Int /\ d[y] \in Int /\ t[y] = u[y] + d[y]
  BY <1>1, <1>2
<1>4. SetSum(t, Rows) = SetSum(u, Rows) + SetSum(d, Rows)
  BY <1>3, PlanAssumption, SetSumAdd
<1>5. SetSum(d, Rows) = 1
  BY <1>2, PlanAssumption, SetSumPoint
<1>6. \A y \in Rows : t[y] = u[y] + IF x = y THEN 1 ELSE 0
  BY <1>2, <1>3
<1>. QED BY <1>1, <1>4, <1>5, <1>6 DEF u

\* Every table can be listed, by induction on the number of its rows.
LEMMA TablesListable == \A n \in Nat : Listable(n)
<1>. DEFINE N == {n \in Nat : Listable(n)}
<1>1. 0 \in N
  <2>1. SUFFICES ASSUME NEW t \in [Rows -> Nat], SetSum(t, Rows) = 0 PROVE \E s : Lists(s, t, 0)
    BY DEF Listable
  <2>2. \A r \in Rows : t[r] = 0
    <3>1. \A r \in Rows : t[r] <= SetSum(t, Rows)
      BY PlanAssumption, SetSumNat
    <3>. QED BY <2>1, <3>1
  <2>3. <<>> \in [1 .. 0 -> Rows]
    OBVIOUS
  <2>4. \A r \in Rows : CountOf(<<>>, 0, r) = 0
    <3>1. \A r \in Rows : {i \in 1 .. 0 : <<>>[i] = r} = {}
      OBVIOUS
    <3>. QED BY <3>1, FS_EmptySet DEF CountOf
  <2>5. Lists(<<>>, t, 0)
    BY <2>2, <2>3, <2>4 DEF Lists
  <2>. QED BY <2>5
<1>2. ASSUME NEW n \in Nat, n \in N PROVE n + 1 \in N
  <2>1. SUFFICES ASSUME NEW t \in [Rows -> Nat], SetSum(t, Rows) = n + 1
                 PROVE  \E s : Lists(s, t, n + 1)
    BY DEF Listable
  <2>2. PICK x \in Rows : t[x] # 0
    BY <2>1, HasRow
  <2>. DEFINE u == Without(t, x)
  <2>3. /\ u \in [Rows -> Nat] /\ SetSum(t, Rows) = SetSum(u, Rows) + 1
        /\ \A y \in Rows : t[y] = u[y] + IF x = y THEN 1 ELSE 0
    BY <2>2, WithoutFacts
  <2>. HIDE DEF u
  <2>4. SetSum(u, Rows) = n
    <3>1. SetSum(u, Rows) \in Nat
      BY <2>3, PlanAssumption, SetSumNat
    <3>. QED BY <2>1, <2>3, <3>1
  <2>5. PICK s : Lists(s, u, n)
    BY <1>2, <2>3, <2>4 DEF Listable
  <2>. DEFINE v == [i \in 1 .. n + 1 |-> IF i = n + 1 THEN x ELSE s[i]]
  <2>6. v \in [1 .. n + 1 -> Rows] /\ v[n + 1] = x /\ \A i \in 1 .. n : v[i] = s[i]
    <3>1. s \in [1 .. n -> Rows]
      BY <2>5 DEF Lists
    <3>2. \A i \in 1 .. n + 1 : i # n + 1 => i \in 1 .. n
      OBVIOUS
    <3>3. n + 1 \in 1 .. n + 1 /\ \A i \in 1 .. n : i \in 1 .. n + 1 /\ i # n + 1
      OBVIOUS
    <3>. QED BY <3>1, <3>2, <3>3
  <2>. HIDE DEF v
  <2>7. ASSUME NEW r \in Rows PROVE CountOf(v, n + 1, r) = t[r]
    <3>0. \A i \in 1 .. n : v[i] = s[i]
      BY <2>6
    <3>1. CountOf(v, n + 1, r) = CountOf(s, n, r) + IF v[n + 1] = r THEN 1 ELSE 0
      BY <3>0, CountNext
    <3>2. CountOf(s, n, r) = u[r]
      BY <2>5 DEF Lists
    <3>. QED BY <2>3, <2>6, <3>1, <3>2
  <2>8. Lists(v, t, n + 1)
    BY <2>6, <2>7 DEF Lists
  <2>. QED BY <2>8
<1>. HIDE DEF N
<1>3. Nat \subseteq N
  BY <1>1, <1>2, NatSetInduction
<1>. QED BY <1>3 DEF N

\* The weights of the commits add up to the number of rows in the table.
LEMMA TableSize ==
    ASSUME NEW w \in Seq(Change)
    PROVE  Total([i \in DOMAIN w |-> w[i].w]) = SetSum(TableOf(w, Len(w)), Rows)
<1>1. /\ Len(w) \in Nat /\ DOMAIN w = 1 .. Len(w)
      /\ \A i \in 1 .. Len(w) : w[i].row \in Rows /\ w[i].w \in {-1, 1}
  BY WalElements
<1>. DEFINE f == [i \in 1 .. Len(w) |-> w[i].w]
            e == Effects(w)
            T(p) == Total([i \in 1 .. p |-> f[i]])
            N == {p \in Nat : p <= Len(w) => T(p) = SetSum(TableOf(w, p), Rows)}
<1>2. \A i \in 1 .. Len(w) : f[i] = w[i].w /\ f[i] \in Int
  BY <1>1
<1>3. /\ e \in Seq(UnitEffect) /\ Len(e) = Len(w)
      /\ \A i \in 1 .. Len(w) : e[i] = [row |-> w[i].row, w |-> w[i].w]
      /\ \A p \in 0 .. Len(w) : \A r \in Rows : TableOf(w, p)[r] = Net(SubSeq(e, 1, p), r)
  BY TableAsEffects
<1>. HIDE DEF f, e
<1>4. 0 \in N
  <2>1. T(0) = 0
    <3>1. [i \in 1 .. 0 |-> f[i]] \in Seq(Int) /\ Len([i \in 1 .. 0 |-> f[i]]) = 0
      OBVIOUS
    <3>. QED BY <3>1, TotalEmpty
  <2>. DEFINE t == TableOf(w, 0)
              z == [r \in Rows |-> 0]
  <2>2. \A r \in Rows : t[r] \in Int /\ t[r] = z[r]
    <3>1. 0 \in 0 .. Len(e) /\ 0 \in 0 .. Len(w)
      BY <1>1, <1>3
    <3>2. \A r : Net(SubSeq(e, 1, 0), r) = 0
      BY <1>3, <3>1, UnitPrefix
    <3>3. \A r \in Rows : TableOf(w, 0)[r] = 0
      BY <1>3, <3>1, <3>2
    <3>. QED BY <3>3
  <2>. HIDE DEF t, z
  <2>3. SetSum(t, Rows) = SetSum(z, Rows)
    BY <2>2, PlanAssumption, SetSumAgree
  <2>4. SetSum(z, Rows) = 0
    BY PlanAssumption, ZeroSum DEF z
  <2>. HIDE DEF T
  <2>. QED BY <2>1, <2>3, <2>4 DEF t
<1>5. ASSUME NEW p \in Nat, p \in N PROVE p + 1 \in N
  <2>1. SUFFICES ASSUME p + 1 <= Len(w) PROVE T(p + 1) = SetSum(TableOf(w, p + 1), Rows)
    BY DEF N
  <2>. DEFINE q == p + 1
              t == TableOf(w, p)
              u == TableOf(w, q)
              d == [r \in Rows |-> IF r = w[q].row THEN w[q].w ELSE 0]
  <2>2. q \in 1 .. Len(w) /\ q \in 0 .. Len(w) /\ p \in 0 .. Len(w) /\ q - 1 = p
        /\ \A i \in 1 .. q : i \in 1 .. Len(w)
    BY <1>1, <2>1
  <2>3. T(p + 1) = T(p) + f[p + 1] /\ T(p) \in Int
    <3>1. \A i \in 1 .. p + 1 : f[i] \in Int
      BY <1>2, <2>2
    <3>. QED BY <3>1, Running
  <2>4. T(p) = SetSum(t, Rows)
    <3>1. p <= Len(w)
      BY <1>1, <2>1
    <3>. HIDE DEF T
    <3>. QED BY <1>5, <3>1
  <2>5. \A r \in Rows : d[r] = IF r = w[q].row THEN w[q].w ELSE 0
    OBVIOUS
  <2>6. w[q].row \in Rows /\ w[q].w \in {-1, 1} /\ f[q] = w[q].w /\ w[q].w \in Int
    BY <1>1, <1>2, <2>2
  <2>. HIDE DEF q, t, u, d
  <2>7. ASSUME NEW r \in Rows PROVE t[r] \in Int /\ d[r] \in Int /\ u[r] = t[r] + d[r]
    <3>1. t[r] \in Int
      <4>1. t \in [Rows -> Int]
        BY <2>2, TableType DEF t
      <4>. QED BY <4>1
    <3>2. d[r] \in Int
      BY <2>5, <2>6
    <3>3. u[r] = Net(SubSeq(e, 1, q), r) /\ t[r] = Net(SubSeq(e, 1, p), r)
      BY <1>3, <2>2 DEF t, u
    <3>4. Net(SubSeq(e, 1, q), r) = Net(SubSeq(e, 1, q - 1), r) + (IF e[q].row = r THEN e[q].w ELSE 0)
      <4>1. q \in 1 .. Len(e)
        BY <1>3, <2>2
      <4>. QED BY <1>3, <4>1, PrefixNext
    <3>5. e[q].row = w[q].row /\ e[q].w = w[q].w
      <4>1. e[q] = [row |-> w[q].row, w |-> w[q].w]
        BY <1>3, <2>2
      <4>. QED BY <4>1
    <3>6. d[r] = IF e[q].row = r THEN e[q].w ELSE 0
      BY <2>5, <3>5
    <3>. QED BY <2>2, <3>1, <3>2, <3>3, <3>4, <3>6
  <2>8. SetSum(u, Rows) = SetSum(t, Rows) + SetSum(d, Rows)
    BY <2>7, PlanAssumption, SetSumAdd
  <2>9. SetSum(d, Rows) = w[q].w
    <3>. DEFINE x == w[q].row
                c == w[q].w
    <3>1. x \in Rows /\ c \in Int /\ \A y \in Rows : d[y] = IF y = x THEN c ELSE 0
      BY <2>5, <2>6
    <3>. HIDE DEF x, c
    <3>2. SetSum(d, Rows) = c
      BY <3>1, PlanAssumption, SetSumPoint
    <3>. QED BY <3>2 DEF c
  <2>. HIDE DEF T
  <2>. QED BY <2>3, <2>4, <2>6, <2>8, <2>9 DEF q, u
<1>. HIDE DEF N, T
<1>6. Len(w) \in N
  BY <1>1, <1>4, <1>5, NatSetInduction
<1>7. T(Len(w)) = SetSum(TableOf(w, Len(w)), Rows)
  BY <1>1, <1>6 DEF N
<1>8. [i \in DOMAIN w |-> w[i].w] = [i \in 1 .. Len(w) |-> f[i]]
  BY <1>1, <1>2
<1>. QED BY <1>7, <1>8, Zenon DEF T

\* The snapshot lists the table.
LEMMA SnapshotFacts ==
    ASSUME wal \in Seq(Change), NEW e, IsWal(wal, e)
    PROVE  \E n \in Nat :
             Snapshot \in [1 .. n -> Rows] /\ DOMAIN Snapshot = 1 .. n
             /\ \A r \in Rows : Spooled(Snapshot, r) = TableOf(wal, Len(wal))[r]
<1>. DEFINE t == TableOf(wal, Len(wal))
            n == Total([i \in DOMAIN wal |-> wal[i].w])
            Good(s) == /\ s \in [1 .. n -> Rows]
                       /\ \A r \in Rows : Cardinality({i \in 1 .. n : s[i] = r}) = t[r]
<1>1. t \in [Rows -> Nat]
  <2>1. Len(wal) \in Nat
    BY WalElements
  <2>2. Len(wal) \in 0 .. Len(wal)
    BY <2>1
  <2>3. t \in [Rows -> Int] /\ \A r \in Rows : t[r] >= 0
    BY <2>2, TableType DEF IsWal
  <2>. HIDE DEF t
  <2>4. \A r \in Rows : t[r] \in Nat
    BY <2>3
  <2>. QED BY <2>3, <2>4
<1>2. n = SetSum(t, Rows)
  BY TableSize
<1>. HIDE DEF n, t
<1>3. n \in Nat
  BY <1>1, <1>2, PlanAssumption, SetSumNat
<1>4. \E s : Good(s)
  <2>1. PICK s : Lists(s, t, n)
    BY <1>1, <1>2, <1>3, TablesListable DEF Listable
  <2>2. Good(s)
    BY <2>1 DEF Lists, CountOf
  <2>. HIDE DEF Good
  <2>. QED BY <2>2
<1>5. Snapshot = CHOOSE s \in [1 .. n -> Rows] :
                   \A r \in Rows : Cardinality({i \in 1 .. n : s[i] = r}) = t[r]
  BY Zenon DEF Snapshot, n, t, TableAt, TableOf
<1>. DEFINE P(s) == \A r \in Rows : Cardinality({i \in 1 .. n : s[i] = r}) = t[r]
            B == [1 .. n -> Rows]
<1>6. Snapshot = CHOOSE s \in B : P(s)
  BY <1>5
<1>7. \E s \in B : P(s)
  BY <1>4
<1>8. Snapshot \in B /\ P(Snapshot)
  <2>. HIDE DEF P, B, Snapshot
  <2>. QED BY <1>6, <1>7, Zenon
<1>. DEFINE s == Snapshot
<1>9. s \in [1 .. n -> Rows] /\ \A r \in Rows : Cardinality({i \in 1 .. n : s[i] = r}) = t[r]
  BY <1>8
<1>. HIDE DEF s
<1>10. DOMAIN s = 1 .. n
  BY <1>9
<1>11. \A r \in Rows : Spooled(s, r) = t[r]
  BY <1>9, <1>10, Zenon DEF Spooled
<1>. QED BY <1>3, <1>9, <1>10, <1>11, Zenon DEF s, t

\* The Scan of a dataflow that is just registered.
LEMMA RegisteredScan ==
    ASSUME NEW w \in Seq(Change), NEW e \in Nat, IsWal(w, e),
           NEW n \in 0 .. Len(w), NEW l \in Seq(UnitChunk), Sourced(w, l, n),
           NEW sp, NEW m \in Nat, DOMAIN sp = 1 .. m,
           \A r \in Rows : Spooled(sp, r) = TableOf(w, Len(w))[r],
           NEW c, c.next = Len(l) + 1, c.frontier = e,
           NEW k, k = Continuation("bootstrap", 1, 0)
    PROVE  IsScan(w, e, sp, l, <<>>, c, k) /\ IsCursor(l, c, k)
<1>1. Len(w) \in Nat /\ Len(l) \in Nat /\ c.next - 1 = Len(l) /\ c.next \in 1 .. Len(l) + 1
  <2>1. Len(w) \in Nat /\ Len(l) \in Nat
    BY WalElements, ChunkFacts
  <2>. QED BY <2>1
<1>2. k.phase = "bootstrap" /\ k.at = 1 /\ AtOf(k) = 0
  BY DEF Continuation, AtOf
<1>3. UpToOf(w, e) = Len(w)
  <2>1. /\ UpToOf(w, e) \in 0 .. Len(w)
        /\ \A i \in 1 .. Len(w) : w[i].lsn <= e <=> i <= UpToOf(w, e)
    <3>1. e \in Int
      OBVIOUS
    <3>. QED BY <3>1, Covered
  <2>2. \A i \in 1 .. Len(w) : w[i].lsn <= e
    BY DEF IsWal
  <2>3. Len(w) \in 1 .. Len(w) \/ Len(w) = 0
    BY <1>1
  <2>4. Len(w) \in 1 .. Len(w) => Len(w) <= UpToOf(w, e)
    BY <2>1, <2>2
  <2>. HIDE DEF UpToOf
  <2>. QED BY <1>1, <2>1, <2>3, <2>4
<1>4. ReachedOf(w, e, l, c, k) = Len(w)
  <2>1. LenTo(l, Len(l)) = n
    BY DEF Sourced
  <2>2. LenTo(l, c.next - 1) + AtOf(k) <= UpToOf(w, e)
    BY <1>1, <1>2, <1>3, <2>1
  <2>. QED BY <1>3, <2>2 DEF ReachedOf
<1>5. \A r : NetTo(<<>>, Len(<<>>), r) = 0
  <2>1. <<>> \in Seq(UnitChunk) /\ Len(<<>>) = 0
    BY EmptySeq
  <2>. QED BY <2>1, ToFacts
<1>6. Frontiers(<<>>, Len(<<>>)) = {}
  <2>1. Len(<<>>) = 0 /\ 1 .. 0 = {}
    BY EmptySeq
  <2>. QED BY <2>1 DEF Frontiers
<1>7. \A r \in Rows : NetTo(<<>>, Len(<<>>), r) + Spooled(sp, r) = TableOf(w, Len(w))[r]
  <2>1. \A r \in Rows : TableOf(w, Len(w))[r] \in Int
    <3>1. Len(w) \in 0 .. Len(w)
      BY <1>1
    <3>. QED BY <3>1, TableType
  <2>. QED BY <1>5, <2>1
<1>8. IsCursor(l, c, k)
  <2>1. k.phase # "data" /\ k.phase # "none"
    BY <1>2
  <2>. QED BY <1>1, <2>1 DEF IsCursor
<1>9. UpToOf(w, c.frontier) <= Len(w)
  BY <1>1, <1>3
<1>10. \E q \in Nat : DOMAIN sp = k.at .. q
  BY <1>2
<1>. DEFINE out == <<>>
            reached == ReachedOf(w, e, l, c, k)
            passed == Frontiers(out, Len(out))
<1>11. /\ \A r \in Rows : NetTo(out, Len(out), r) + Spooled(sp, r) = TableOf(w, reached)[r]
       /\ UpToOf(w, c.frontier) <= reached
       /\ passed = {} /\ reached = UpToOf(w, e)
       /\ k.phase \in {"bootstrap", "snapshot_frontier"} /\ k.phase = "bootstrap"
  BY <1>2, <1>3, <1>4, <1>6, <1>7, <1>9
<1>12. IsScan(w, e, sp, l, out, c, k)
  <2>. HIDE DEF out
  <2>1. passed = {} => \A f \in passed : f <= c.frontier
    OBVIOUS
  <2>. HIDE DEF reached, passed
  <2>. QED BY <1>10, <1>11, <2>1, Zenon DEF IsScan, reached, passed
<1>. QED BY <1>8, <1>12

\* A dataflow is registered.
LEMMA RegisterStep ==
    ASSUME Inv, Register
    PROVE  Inv'
<1>1. /\ activation = 0 /\ activation' = end /\ spool' = Snapshot
      /\ cur' = [cur EXCEPT ![0] = JoinedCursor]
      /\ cont' = [cont EXCEPT ![0] = Continuation("bootstrap", 1, 0)]
      /\ UNCHANGED <<wal, sent, end, published, log, kept, full, result>>
  BY DEF Register, sourceVars
<1>2. /\ wal \in Seq(Change) /\ sent \in 0 .. Len(wal) /\ end \in 1 .. MaxCommits + 1
      /\ published \in 0 .. end /\ IsWal(wal, end) /\ Sourced(wal, log[0], sent)
      /\ IsLogs(log)
      /\ cur \in [Stages -> [next : Nat, frontier : 0 .. end]]
      /\ cont \in [Stages -> [phase : Phase, at : Nat, rest : {0}]]
      /\ DOMAIN kept = Operators /\ \A s \in Operators : kept[s] \in 1 .. cur[s].next
      /\ full \in [Operators -> BOOLEAN]
      /\ result \in [Rows -> Nat]
      /\ UpToOf(wal, published) <= sent
  BY DEF Inv, Types, WalLaw, SourceLaw
<1>3. end \in Nat /\ end \in 0 .. end
  BY <1>2, PlanAssumption
<1>4. /\ 0 \in Stages /\ SinkStage # 0 /\ SinkStage \in Stages /\ 1 \in Operators
      /\ \A s \in Operators : s # 0 /\ s \in Stages
      /\ \A s \in Transforms : s # 0 /\ s \in Stages
  BY StageSets
<1>5. log[0] \in Seq(UnitChunk) /\ Len(log[0]) \in Nat
  BY <1>4, StageFacts
<1>6. \A s \in Operators : log[s] = <<>>
  BY <1>1 DEF Inv, ScanLaw
<1>. DEFINE c == JoinedCursor
            k == Continuation("bootstrap", 1, 0)
<1>7. c.next = Len(log[0]) + 1 /\ c.frontier = end /\ c \in [next : Nat, frontier : 0 .. end]
  BY <1>3, <1>5 DEF JoinedCursor
<1>8. k \in [phase : Phase, at : Nat, rest : {0}]
  BY DEF Continuation, Phase
<1>. HIDE DEF c, k
<1>9. /\ cur'[0] = c /\ cont'[0] = k
      /\ \A s \in Stages : s # 0 => cur'[s] = cur[s] /\ cont'[s] = cont[s]
      /\ cur' \in [Stages -> [next : Nat, frontier : 0 .. end]]
      /\ cont' \in [Stages -> [phase : Phase, at : Nat, rest : {0}]]
  <2>1. cur' = [cur EXCEPT ![0] = c] /\ cont' = [cont EXCEPT ![0] = k]
    BY <1>1 DEF c, k
  <2>. QED BY <1>2, <1>4, <1>7, <1>8, <2>1
<1>10. PICK n \in Nat :
         spool' \in [1 .. n -> Rows] /\ DOMAIN spool' = 1 .. n
         /\ \A r \in Rows : Spooled(spool', r) = TableOf(wal, Len(wal))[r]
  <2>. HIDE DEF Snapshot
  <2>. QED BY <1>1, <1>2, SnapshotFacts
<1>11. IsScan(wal, end, spool', log[0], <<>>, c, k) /\ IsCursor(log[0], c, k)
  BY <1>2, <1>3, <1>5, <1>7, <1>10, RegisteredScan DEF k
<1>12. Types'
  <2>1. \A i \in DOMAIN spool' : i \in Nat /\ spool'[i] \in Rows
    BY <1>10
  <2>2. \A s \in Operators : kept'[s] \in 1 .. cur'[s].next
    BY <1>1, <1>2, <1>4, <1>9
  <2>. QED BY <1>1, <1>2, <1>3, <1>9, <2>1, <2>2 DEF Types
<1>13. WalLaw' /\ LogLaw' /\ SourceLaw'
  BY <1>1 DEF Inv, WalLaw, LogLaw, SourceLaw
<1>14. CursorLaw'
  <2>1. /\ \A s \in Stages : IsCursor(log[s], cur[s], cont[s])
        /\ \A s \in Operators : Passed(log[s], cur[s], cont[s])
    BY DEF Inv, CursorLaw
  <2>2. \A s \in Stages : IsCursor(log[s], cur'[s], cont'[s])
    BY <1>9, <1>11, <2>1
  <2>3. \A s \in Operators : Passed(log[s], cur'[s], cont'[s])
    BY <1>4, <1>9, <2>1
  <2>. QED BY <1>1, <2>2, <2>3 DEF CursorLaw
<1>15. ScanLaw'
  <2>1. activation' # 0 /\ log'[1] = <<>> /\ log'[0] = log[0]
    BY <1>1, <1>2, <1>4, <1>6
  <2>. QED BY <1>1, <1>9, <1>11, <2>1 DEF ScanLaw
<1>16. StageLaw'
  <2>1. \A s \in Transforms : IsImage(s, log[s], log[s + 1], cur[s], cont[s])
    BY DEF Inv, StageLaw
  <2>2. \A s \in Transforms : IsImage(s, log[s], log[s + 1], cur'[s], cont'[s])
    BY <1>4, <1>9, <2>1
  <2>. QED BY <1>1, <2>2 DEF StageLaw
<1>17. TraceLaw'
  <2>1. \A s \in Operators : Traces(wal, end, s, <<>>)
    BY <1>2, TracesEmpty
  <2>. QED BY <1>1, <1>6, <2>1 DEF TraceLaw
<1>18. SinkLaw'
  <2>1. cur'[SinkStage] = cur[SinkStage] /\ cont'[SinkStage] = cont[SinkStage]
    BY <1>4, <1>9
  <2>. QED BY <1>1, <2>1 DEF Inv, SinkLaw
<1>. QED BY <1>12, <1>13, <1>14, <1>15, <1>16, <1>17, <1>18, Zenon DEF Inv
-----------------------------------------------------------------------------
\* The invariant holds.

\* A table without rows has an empty image.
LEMMA ImgZero ==
    ASSUME NEW s \in Transforms, NEW t, \A q \in Rows : t[q] = 0, NEW r \in Rows
    PROVE  Img(s, t)[r] = 0
<1>1. \A q \in Rows : t[q] = IF q = r THEN 0 ELSE 0
  OBVIOUS
<1>2. Img(s, t)[r] = IF r \in Plan[s].keep /\ Plan[s].image[r] = r THEN 0 ELSE 0
  BY <1>1, ImgPoint
<1>. QED BY <1>2

\* Streams and commits at the start.
LEMMA NothingYet ==
    /\ <<>> \in Seq(Change) /\ Sourced(<<>>, <<>>, 0)
    /\ \A e : IsWal(<<>>, e) /\ IsLog(<<>>, e)
    /\ \A f : UpToOf(<<>>, f) = 0
    /\ \A r : NetTo(<<>>, Len(<<>>), r) = 0
    /\ \A c : c.next = 1 => /\ IsCursor(<<>>, c, NoContinuation)
                            /\ c.frontier = 0 => Passed(<<>>, c, NoContinuation)
                            /\ ReadOf(<<>>, c, NoContinuation) = [r \in Rows |-> 0]
                            /\ Frontiers(<<>>, c.next - 1) = Frontiers(<<>>, Len(<<>>))
<1>1. <<>> \in Seq(Change) /\ <<>> \in Seq(UnitChunk) /\ Len(<<>>) = 0 /\ 1 .. 0 = {}
      /\ DOMAIN <<>> = {}
  BY EmptySeq
<1>2. ASSUME NEW e PROVE IsWal(<<>>, e)
  <2>1. ASSUME NEW p \in 0 .. Len(<<>>), NEW r \in Rows PROVE TableOf(<<>>, p)[r] >= 0
    <3>1. p = 0 /\ SubSeq(<<>>, 1, 0) = <<>>
      BY <1>1
    <3>2. Net(<<>>, r) = 0
      BY NoEffects
    <3>3. Net(SubSeq(<<>>, 1, p), r) = 0
      BY <3>1, <3>2
    <3>4. TableOf(<<>>, p)[r] = Net(SubSeq(<<>>, 1, p), r)
      BY DEF TableOf
    <3>. QED BY <3>3, <3>4
  <2>2. \A i \in 1 .. Len(<<>>) : FALSE
    BY <1>1
  <2>. QED BY <2>1, <2>2 DEF IsWal
<1>3. \A f : UpToOf(<<>>, f) = 0
  <2>1. \A f : {i \in DOMAIN <<>> : <<>>[i].lsn <= f} = {}
    BY <1>1
  <2>2. Cardinality({}) = 0
    BY FS_EmptySet
  <2>. QED BY <2>1, <2>2, Zenon DEF UpToOf
<1>4. \A e : IsLog(<<>>, e)
  <2>1. \A i \in 1 .. Len(<<>>) : FALSE
    BY <1>1
  <2>. QED BY <1>1, <2>1 DEF IsLog
<1>5. LenTo(<<>>, 0) = 0 /\ \A r : NetTo(<<>>, 0, r) = 0
  BY <1>1, ToFacts
<1>6. Sourced(<<>>, <<>>, 0)
  <2>1. \A i \in 1 .. Len(<<>>) : FALSE
    BY <1>1
  <2>. QED BY <1>1, <1>5, <2>1 DEF Sourced
<1>7. \A n : Frontiers(<<>>, 0) = {}
  BY <1>1 DEF Frontiers
<1>8. NoContinuation.phase = "none" /\ AtOf(NoContinuation) = 0
  BY DEF NoContinuation, Continuation, AtOf
<1>9. ASSUME NEW c, c.next = 1
      PROVE  /\ IsCursor(<<>>, c, NoContinuation)
             /\ c.frontier = 0 => Passed(<<>>, c, NoContinuation)
             /\ ReadOf(<<>>, c, NoContinuation) = [r \in Rows |-> 0]
             /\ Frontiers(<<>>, c.next - 1) = Frontiers(<<>>, Len(<<>>))
  <2>1. c.next - 1 = 0 /\ c.next \in 1 .. Len(<<>>) + 1
    BY <1>1, <1>9
  <2>2. IsCursor(<<>>, c, NoContinuation)
    BY <1>8, <2>1 DEF IsCursor
  <2>3. Frontiers(<<>>, c.next - 1) = {} /\ Frontiers(<<>>, c.next - 1) = Frontiers(<<>>, Len(<<>>))
    BY <1>1, <1>7, <2>1
  <2>4. c.frontier = 0 => Passed(<<>>, c, NoContinuation)
    BY <1>8, <2>3 DEF Passed
  <2>5. \A r : NetAt(<<>>, c.next - 1, AtOf(NoContinuation), r) = 0
    BY <1>5, <1>8, <2>1 DEF NetAt
  <2>6. ReadOf(<<>>, c, NoContinuation) = [r \in Rows |-> 0]
    BY <2>5 DEF ReadOf
  <2>. QED BY <2>2, <2>3, <2>4, <2>6
<1>. QED BY <1>1, <1>2, <1>3, <1>4, <1>5, <1>6, <1>9

\* The initial state.
LEMMA InitInv ==
    ASSUME Init
    PROVE  Inv
<1>. DEFINE c == [next |-> 1, frontier |-> 0]
<1>1. /\ wal = <<>> /\ sent = 0 /\ end = 1 /\ published = 0
      /\ activation = 0 /\ spool = <<>>
      /\ log = [s \in Stages |-> <<>>]
      /\ cur = [s \in Stages |-> c]
      /\ cont = [s \in Stages |-> NoContinuation]
      /\ kept = [s \in Operators |-> 1]
      /\ full = [s \in Operators |-> FALSE]
      /\ result = [r \in Rows |-> 0]
  BY DEF Init, NoRows
<1>2. /\ c.next = 1 /\ c.frontier = 0 /\ c \in [next : Nat, frontier : 0 .. 1]
      /\ NoContinuation \in [phase : Phase, at : Nat, rest : {0}]
  BY DEF NoContinuation, Continuation, Phase
<1>. HIDE DEF c
<1>3. /\ 0 \in Stages /\ SinkStage \in Stages
      /\ \A s \in Operators : s \in Stages
      /\ \A s \in Transforms : s \in Stages /\ s + 1 \in Stages
  BY StageSets
<1>4. /\ \A s \in Stages : log[s] = <<>> /\ cur[s] = c /\ cont[s] = NoContinuation
      /\ \A s \in Operators : kept[s] = 1
  BY <1>1, <1>3
<1>5. Types
  <2>1. sent \in 0 .. Len(wal) /\ end \in 1 .. MaxCommits + 1 /\ published \in 0 .. end
        /\ activation \in 0 .. end
    <3>1. Len(<<>>) = 0
      BY EmptySeq
    <3>. QED BY <1>1, <3>1, PlanAssumption
  <2>2. \A i \in DOMAIN spool : i \in Nat /\ spool[i] \in Rows
    BY <1>1
  <2>3. IsLogs(log)
    BY <1>1 DEF IsLogs
  <2>4. /\ cur \in [Stages -> [next : Nat, frontier : 0 .. end]]
        /\ cont \in [Stages -> [phase : Phase, at : Nat, rest : {0}]]
    BY <1>1, <1>2
  <2>5. /\ DOMAIN kept = Operators /\ \A s \in Operators : kept[s] \in 1 .. cur[s].next
        /\ full \in [Operators -> BOOLEAN] /\ result \in [Rows -> Nat]
    BY <1>1, <1>2, <1>3, <1>4
  <2>6. wal \in Seq(Change)
    BY <1>1, NothingYet
  <2>. QED BY <2>1, <2>2, <2>3, <2>4, <2>5, <2>6 DEF Types
<1>6. WalLaw /\ LogLaw /\ SourceLaw
  <2>1. IsWal(wal, end) /\ UpToOf(wal, published) <= sent
    <3>1. IsWal(<<>>, end) /\ UpToOf(<<>>, published) = 0
      BY NothingYet
    <3>. QED BY <1>1, <3>1
  <2>2. \A s \in Stages : IsLog(log[s], end)
    BY <1>4, NothingYet
  <2>3. Sourced(wal, log[0], sent)
    BY <1>1, <1>3, <1>4, NothingYet
  <2>. QED BY <2>1, <2>2, <2>3 DEF WalLaw, LogLaw, SourceLaw
<1>7. /\ IsCursor(<<>>, c, NoContinuation) /\ Passed(<<>>, c, NoContinuation)
      /\ ReadOf(<<>>, c, NoContinuation) = [r \in Rows |-> 0]
      /\ Frontiers(<<>>, c.next - 1) = Frontiers(<<>>, Len(<<>>))
      /\ \A r : NetTo(<<>>, Len(<<>>), r) = 0
  BY <1>2, NothingYet
<1>8. CursorLaw
  BY <1>3, <1>4, <1>7 DEF CursorLaw
<1>9. ScanLaw
  BY <1>1, <1>3, <1>4 DEF ScanLaw, Unregistered
<1>10. StageLaw
  <2>1. ASSUME NEW s \in Transforms PROVE IsImage(s, <<>>, <<>>, c, NoContinuation)
    <3>. DEFINE t == ReadOf(<<>>, c, NoContinuation)
    <3>1. \A q \in Rows : t[q] = 0
      BY <1>7
    <3>. HIDE DEF t
    <3>2. \A r \in Rows : Img(s, t)[r] = 0
      BY <3>1, ImgZero
    <3>. QED BY <1>7, <3>2 DEF IsImage, t
  <2>2. ASSUME NEW s \in Transforms PROVE IsImage(s, log[s], log[s + 1], cur[s], cont[s])
    <3>1. log[s] = <<>> /\ log[s + 1] = <<>> /\ cur[s] = c /\ cont[s] = NoContinuation
      BY <1>3, <1>4
    <3>. QED BY <2>1, <3>1
  <2>. QED BY <2>2 DEF StageLaw
<1>11. TraceLaw
  <2>1. wal \in Seq(Change) /\ IsWal(wal, end)
    BY <1>6, <1>5 DEF WalLaw, Types
  <2>2. \A s \in Operators : Traces(wal, activation, s, <<>>)
    BY <2>1, TracesEmpty
  <2>3. \A s \in Operators : log[s] = <<>>
    BY <1>3, <1>4
  <2>. QED BY <2>2, <2>3 DEF TraceLaw
<1>12. SinkLaw
  <2>1. log[SinkStage] = <<>> /\ cur[SinkStage] = c /\ cont[SinkStage] = NoContinuation
    BY <1>3, <1>4
  <2>. QED BY <1>1, <1>7, <2>1 DEF SinkLaw
<1>. QED BY <1>5, <1>6, <1>8, <1>9, <1>10, <1>11, <1>12, Zenon DEF Inv

\* Every step.
LEMMA NextInv ==
    ASSUME Inv, [Next]_vars
    PROVE  Inv'
<1>1. CASE Commit
  BY <1>1, CommitStep
<1>2. CASE Round
  BY <1>2, RoundStep
<1>3. CASE Register
  BY <1>3, RegisterStep
<1>4. CASE ScanStep
  <2>1. Bootstrap \/ (SnapshotFrontier \/ AvailableFrontier \/ ScanFrontier) \/ ScanData
    BY <1>4, Zenon DEF ScanStep
  <2>. QED BY <2>1, BootstrapStep, ScanFrontierSteps, ScanDataStep, Zenon
<1>5. CASE SinkStep
  <2>1. SinkFrontier \/ SinkData
    BY <1>5, Zenon DEF SinkStep
  <2>. QED BY <2>1, SinkFrontierStep, SinkDataStep, Zenon
<1>6. ASSUME NEW s \in Transforms, TransformStep(s) PROVE Inv'
  <2>1. TransformFrontier(s) \/ DataStep(s)
    BY <1>6, Zenon DEF TransformStep
  <2>. QED BY <2>1, TransformFrontierStep, TransformDataStep, Zenon
<1>7. ASSUME NEW s \in Operators, Collect(s) PROVE Inv'
  BY <1>7, CollectStep
<1>8. CASE UNCHANGED vars
  BY <1>8, StutterStep
<1>. QED BY <1>1, <1>2, <1>3, <1>4, <1>5, <1>6, <1>7, <1>8, Zenon DEF Next

\* The invariant is inductive.
LEMMA InvHolds == Spec => []Inv
<1>1. Init => Inv
  BY InitInv
<1>2. Inv /\ [Next]_vars => Inv'
  BY NextInv
<1>. QED BY <1>1, <1>2, PTL DEF Spec
-----------------------------------------------------------------------------
\* Its chunks are chunks.
LEMMA UnitChunks == Seq(UnitChunk) \subseteq Seq(Chunk)
<1>1. UnitEffect \subseteq Effect
  BY DEF UnitEffect, Effect
<1>2. Seq(UnitEffect) \subseteq Seq(Effect)
  <2>. HIDE DEF UnitEffect, Effect
  <2>. QED BY <1>1, SeqMonotonic
<1>3. UnitChunk \subseteq Chunk
  <2>. HIDE DEF UnitEffect, Effect
  <2>. QED BY <1>2 DEF UnitChunk, Chunk
<1>. HIDE DEF UnitChunk, Chunk
<1>. QED BY <1>3, SeqMonotonic

\* The invariant says more than the types.
LEMMA InvTypeOK ==
    ASSUME Inv
    PROVE  TypeOK
<1>1. /\ wal \in Seq(Change)
      /\ sent \in 0 .. Len(wal) /\ end \in 1 .. MaxCommits + 1
      /\ published \in 0 .. end /\ activation \in 0 .. end
      /\ \A i \in DOMAIN spool : i \in Nat /\ spool[i] \in Rows
      /\ IsLogs(log)
      /\ cont \in [Stages -> [phase : Phase, at : Nat, rest : {0}]]
      /\ \A s \in Operators : kept[s] \in 1 .. cur[s].next
      /\ full \in [Operators -> BOOLEAN]
      /\ result \in [Rows -> Nat]
  BY DEF Inv, Types
<1>2. \A s \in Stages : /\ log[s] \in Seq(UnitChunk) /\ cur[s].next \in 1 .. Len(log[s]) + 1
                        /\ cur[s].frontier \in 0 .. end
  BY StageFacts
<1>3. log \in [Stages -> Seq(Chunk)]
  <2>1. \A s \in Stages : log[s] \in Seq(Chunk)
    BY <1>2, UnitChunks
  <2>2. log = [s \in Stages |-> log[s]]
    BY <1>1 DEF IsLogs
  <2>. HIDE DEF Chunk
  <2>. QED BY <2>1, <2>2
<1>4. wal \in Seq([lsn : 2 .. MaxCommits + 1, row : Rows, w : {-1, 1}])
  BY <1>1 DEF Change
<1>. QED BY <1>1, <1>2, <1>3, <1>4, Zenon DEF TypeOK

\* What the Sink has read is accounted for by a prefix of the commits.
LEMMA InvViewConsistent ==
    ASSUME Inv
    PROVE  ViewConsistent
<1>. DEFINE s == SinkStage
            l == log[s]
            c == cur[s]
            k == cont[s]
            F == Frontiers(l, c.next - 1)
            v == ReadOf(l, c, k)
<1>1. /\ l \in Seq(UnitChunk) /\ Len(l) \in Nat /\ c.next \in 1 .. Len(l) + 1 /\ k.at \in Nat
      /\ IsLog(l, end) /\ IsCursor(l, c, k) /\ Passed(l, c, k) /\ Traces(wal, activation, s, l)
  <2>1. s \in Stages /\ s # 0
    BY StageSets
  <2>. HIDE DEF s
  <2>. QED BY <2>1, StageFacts
<1>2. /\ wal \in Seq(Change) /\ result \in [Rows -> Nat] /\ activation \in 0 .. end
      /\ end \in 1 .. MaxCommits + 1 /\ \A r \in Rows : result[r] = v[r]
  BY DEF Inv, Types, SinkLaw
<1>3. s - 1 = Len(Plan)
  BY StageSets
<1>. HIDE DEF s, l, c, k
<1>4. Place(l, c.next - 1, AtOf(k)) /\ c.next - 1 \in Nat /\ AtOf(k) \in Nat
  <2>1. c.next - 1 \in 0 .. Len(l) /\ c.next - 1 \in Nat
    BY <1>1
  <2>2. AtOf(k) # 0 => k.phase = "data" /\ AtOf(k) = k.at
    BY DEF AtOf
  <2>3. AtOf(k) \in Nat
    BY <1>1 DEF AtOf
  <2>4. ASSUME k.phase = "data"
        PROVE  c.next - 1 < Len(l) /\ k.at <= Len(l[(c.next - 1) + 1].rows)
    <3>1. c.next <= Len(l) /\ k.at < Len(l[c.next].rows) /\ c.next \in 1 .. Len(l)
      BY <1>1, <2>4 DEF IsCursor
    <3>2. Len(l[c.next].rows) \in Nat
      BY <1>1, <3>1, ChunkFacts
    <3>3. (c.next - 1) + 1 = c.next
      BY <1>1
    <3>. QED BY <1>1, <3>1, <3>2, <3>3
  <2>. QED BY <2>1, <2>2, <2>3, <2>4 DEF Place
<1>5. TracedAt(wal, activation, s, F, v)
  <2>1. TracedAt(wal, activation, s, Frontiers(l, c.next - 1),
                 [r \in Rows |-> NetAt(l, c.next - 1, AtOf(k), r)])
    BY <1>1, <1>4, Zenon DEF Traces
  <2>. QED BY <2>1, Zenon DEF ReadOf
<1>6. IF F = {} THEN c.frontier = 0 ELSE c.frontier \in F
  BY <1>1, Zenon DEF Passed
<1>7. \A f \in F : f # 0
  <2>1. \A i \in 1 .. Len(l) : l[i].lsn # 0
    <3>1. \A i \in 1 .. Len(l) : l[i].lsn \in 1 .. MaxCommits + 1
      BY <1>1, ChunkFacts
    <3>2. \A x \in 1 .. MaxCommits + 1 : x # 0
      BY PlanAssumption
    <3>. QED BY <3>1, <3>2
  <2>2. \A i \in 1 .. c.next - 1 : i \in 1 .. Len(l)
    BY <1>1
  <2>. QED BY <2>1, <2>2 DEF Frontiers
<1>8. ASSUME NEW p \in 0 .. Len(wal)
      PROVE  TableAt(p) = TableOf(wal, p) /\ Query(TableAt(p)) = After(s - 1, TableOf(wal, p))
             /\ Query(TableAt(p)) \in [Rows -> Int]
  <2>1. TableAt(p) = TableOf(wal, p)
    BY DEF TableAt, TableOf
  <2>. DEFINE t == TableOf(wal, p)
  <2>2. t \in [Rows -> Int]
    BY <1>2, TableType
  <2>. HIDE DEF t
  <2>3. Query(t) = After(Len(Plan), t) /\ \A q \in 0 .. Len(Plan) : After(q, t) \in [Rows -> Int]
    BY <2>2, AfterFacts
  <2>4. Len(Plan) \in 0 .. Len(Plan)
    BY PlanAssumption
  <2>. HIDE DEF Query, TableAt
  <2>. QED BY <1>3, <2>1, <2>3, <2>4 DEF t
<1>9. \A f : UpTo(f) = UpToOf(wal, f) /\ UpToOf(wal, f) \in 0 .. Len(wal)
  BY <1>2, UpToType DEF UpTo, UpToOf
<1>. HIDE DEF F, v
<1>10. CASE F = {}
  <2>. DEFINE u == UpToOf(wal, activation)
  <2>1. c.frontier = 0 /\ \A r \in Rows : v[r] <= After(s - 1, TableOf(wal, u))[r]
    BY <1>5, <1>6, <1>10, Zenon DEF TracedAt
  <2>2. u \in 0 .. Len(wal) /\ UpTo(activation) = u
    BY <1>9
  <2>. HIDE DEF u
  <2>3. Query(TableAt(u)) = After(s - 1, TableOf(wal, u))
    BY <1>8, <2>2
  <2>4. \A r \in Rows : result[r] <= Query(TableAt(UpTo(activation)))[r]
    <3>. HIDE DEF Query, TableAt, UpTo
    <3>. QED BY <1>2, <2>1, <2>2, <2>3
  <2>. QED BY <2>1, <2>4, Zenon DEF ViewConsistent, c, s
<1>11. CASE F # {}
  <2>1. c.frontier \in F /\ c.frontier # 0
    BY <1>6, <1>7, <1>11
  <2>2. PICK p \in 0 .. Len(wal) : /\ \A f \in F : UpToOf(wal, f) <= p
                                   /\ \A r \in Rows : v[r] = After(s - 1, TableOf(wal, p))[r]
    BY <1>5, <1>11, Zenon DEF TracedAt
  <2>3. p \in UpTo(c.frontier) .. Len(wal)
    <3>. DEFINE u == UpTo(c.frontier)
    <3>1. u \in 0 .. Len(wal) /\ u <= p
      BY <1>9, <2>1, <2>2
    <3>. HIDE DEF u
    <3>2. p \in u .. Len(wal)
      BY <3>1
    <3>. QED BY <3>2 DEF u
  <2>4. result = Query(TableAt(p))
    <3>. DEFINE q == Query(TableAt(p))
    <3>1. q \in [Rows -> Int] /\ q = After(s - 1, TableOf(wal, p))
      BY <1>8, <2>2
    <3>. HIDE DEF q
    <3>2. \A r \in Rows : result[r] = q[r]
      BY <1>2, <2>2, <3>1
    <3>3. result = q
      BY <1>2, <3>1, <3>2
    <3>. QED BY <3>3 DEF q
  <2>. QED BY <2>1, <2>3, <2>4, Zenon DEF ViewConsistent, c, s
<1>. QED BY <1>10, <1>11

\* Every state has the types that the module declares: cursors stand in their
\* streams, LSNs are those of commits, no result row has a negative count.
THEOREM TypeCorrect == Spec => []TypeOK
<1>1. Inv => TypeOK
  BY InvTypeOK
<1>. QED BY <1>1, InvHolds, PTL

\* Whatever the plan, the transactions, the page and chunk sizes and the
\* watermarks, the result of the dataflow is the query on the source after a
\* prefix of the commits that covers the frontier of the Sink, and a part of the
\* query on the snapshot until the first frontier has come.
THEOREM ViewIsConsistent == Spec => []ViewConsistent
<1>1. Inv => ViewConsistent
  BY InvViewConsistent
<1>. QED BY <1>1, InvHolds, PTL
=============================================================================
