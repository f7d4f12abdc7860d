--------------------------- MODULE SinkPageProofs ---------------------------
(***************************************************************************)
(* Facts about sequences of weighted effects and about the page of the     *)
(* Sink kernel: a page and what it leaves of its chunk add up to what was  *)
(* there, and no page asks for more copies than its budget.                *)
(***************************************************************************)
EXTENDS SinkPage, Induction

\* Effects on rows of any type; a weight may be 0.
Weighted(R) == [row : R, w : Int]

\* The numbers that Net, Copies and Mutations add up.
NetTerms(e, r) == [i \in DOMAIN e |-> IF e[i].row = r THEN e[i].w ELSE 0]
CopyTerms(e, r, sign) ==
    [i \in DOMAIN e |-> IF e[i].row = r /\ Sign(e[i].w) = sign THEN Abs(e[i].w) ELSE 0]
AbsTerms(e) == [i \in DOMAIN e |-> Abs(e[i].w)]

\* The type of an element of a sequence of weighted effects, and of the terms.
LEMMA Elements ==
    ASSUME NEW R, NEW e \in Seq(Weighted(R))
    PROVE  /\ Len(e) \in Nat /\ DOMAIN e = 1 .. Len(e)
           /\ \A i \in 1 .. Len(e) : e[i] \in Weighted(R) /\ e[i].w \in Int
<1>1. \A i \in 1 .. Len(e) : e[i] \in Weighted(R)
  BY ElementOfSeq
<1>. QED BY <1>1 DEF Weighted

\* Net and Mutations are sums of sequences of integers.
LEMMA Terms ==
    ASSUME NEW R, NEW e \in Seq(Weighted(R)), NEW r
    PROVE  /\ NetTerms(e, r) \in Seq(Int) /\ Len(NetTerms(e, r)) = Len(e)
           /\ AbsTerms(e) \in Seq(Int) /\ Len(AbsTerms(e)) = Len(e)
           /\ Net(e, r) = Total(NetTerms(e, r))
           /\ Mutations(e) = Total(AbsTerms(e))
<1>1. /\ Len(e) \in Nat /\ DOMAIN e = 1 .. Len(e)
      /\ \A i \in 1 .. Len(e) : e[i].w \in Int /\ Abs(e[i].w) \in Int
  BY Elements DEF Abs
<1>2. NetTerms(e, r) \in [1 .. Len(e) -> Int] /\ AbsTerms(e) \in [1 .. Len(e) -> Int]
  BY <1>1 DEF NetTerms, AbsTerms
<1>3. \A t \in [1 .. Len(e) -> Int] : t \in Seq(Int) /\ Len(t) = Len(e)
  BY <1>1
<1>4. Net(e, r) = Total(NetTerms(e, r)) /\ Mutations(e) = Total(AbsTerms(e))
  BY Zenon DEF Net, Mutations, NetTerms, AbsTerms
<1>. QED BY <1>2, <1>3, <1>4

\* So is Copies.
LEMMA CopyTermsType ==
    ASSUME NEW R, NEW e \in Seq(Weighted(R)), NEW r, NEW sign
    PROVE  /\ CopyTerms(e, r, sign) \in Seq(Int) /\ Len(CopyTerms(e, r, sign)) = Len(e)
           /\ Copies(e, r, sign) = Total(CopyTerms(e, r, sign))
<1>1. /\ Len(e) \in Nat /\ DOMAIN e = 1 .. Len(e)
      /\ \A i \in 1 .. Len(e) : e[i].w \in Int /\ Abs(e[i].w) \in Int
  BY Elements DEF Abs
<1>2. CopyTerms(e, r, sign) \in [1 .. Len(e) -> Int]
  BY <1>1 DEF CopyTerms
<1>3. Copies(e, r, sign) = Total(CopyTerms(e, r, sign))
  BY Zenon DEF Copies, CopyTerms
<1>. QED BY <1>1, <1>2, <1>3

\* Net multiplicities and copy counts are integers.
LEMMA NetInt ==
    ASSUME NEW R, NEW e \in Seq(Weighted(R)), NEW r
    PROVE  Net(e, r) \in Int /\ Mutations(e) \in Int
BY Terms, TotalInt

\* No effects: nothing added up.
LEMMA NetEmpty ==
    ASSUME NEW R, NEW e \in Seq(Weighted(R)), Len(e) = 0, NEW r
    PROVE  Net(e, r) = 0 /\ Mutations(e) = 0
BY Terms, TotalEmpty

\* Both add up over the parts of a sequence.
LEMMA NetSplit ==
    ASSUME NEW R, NEW s \in Seq(Weighted(R)), NEW a \in Seq(Weighted(R)), NEW b \in Seq(Weighted(R)),
           NEW r, Parts(s, a, b)
    PROVE  Net(s, r) = Net(a, r) + Net(b, r) /\ Mutations(s) = Mutations(a) + Mutations(b)
<1>1. /\ Len(s) \in Nat /\ DOMAIN s = 1 .. Len(s) /\ Len(s) = Len(a) + Len(b)
      /\ Len(a) \in Nat /\ DOMAIN a = 1 .. Len(a) /\ \A i \in 1 .. Len(a) : s[i] = a[i]
      /\ Len(b) \in Nat /\ DOMAIN b = 1 .. Len(b) /\ \A i \in 1 .. Len(b) : s[Len(a) + i] = b[i]
  BY Elements DEF Parts
<1>2. \A x \in {s, a, b} :
        /\ NetTerms(x, r) \in Seq(Int) /\ Len(NetTerms(x, r)) = Len(x)
        /\ AbsTerms(x) \in Seq(Int) /\ Len(AbsTerms(x)) = Len(x)
        /\ Net(x, r) = Total(NetTerms(x, r)) /\ Mutations(x) = Total(AbsTerms(x))
  BY Terms
<1>3. Total(NetTerms(s, r)) = Total(NetTerms(a, r)) + Total(NetTerms(b, r))
  <2>. DEFINE S == NetTerms(s, r)
              A == NetTerms(a, r)
              B == NetTerms(b, r)
  <2>1. /\ \A i \in 1 .. Len(a) : S[i] = A[i]
        /\ \A i \in 1 .. Len(b) : S[Len(a) + i] = B[i]
    BY <1>1 DEF NetTerms
  <2>2. /\ S \in Seq(Int) /\ A \in Seq(Int) /\ B \in Seq(Int)
        /\ Len(S) = Len(s) /\ Len(A) = Len(a) /\ Len(B) = Len(b)
    BY <1>2
  <2>. HIDE DEF S, A, B
  <2>3. Parts(S, A, B)
    BY <1>1, <2>1, <2>2 DEF Parts
  <2>4. Total(S) = Total(A) + Total(B)
    BY <2>2, <2>3, TotalSplit
  <2>. QED BY <2>4 DEF S, A, B
<1>4. Total(AbsTerms(s)) = Total(AbsTerms(a)) + Total(AbsTerms(b))
  <2>. DEFINE S == AbsTerms(s)
              A == AbsTerms(a)
              B == AbsTerms(b)
  <2>1. /\ \A i \in 1 .. Len(a) : S[i] = A[i]
        /\ \A i \in 1 .. Len(b) : S[Len(a) + i] = B[i]
    BY <1>1 DEF AbsTerms
  <2>2. /\ S \in Seq(Int) /\ A \in Seq(Int) /\ B \in Seq(Int)
        /\ Len(S) = Len(s) /\ Len(A) = Len(a) /\ Len(B) = Len(b)
    BY <1>2
  <2>. HIDE DEF S, A, B
  <2>3. Parts(S, A, B)
    BY <1>1, <2>1, <2>2 DEF Parts
  <2>4. Total(S) = Total(A) + Total(B)
    BY <2>2, <2>3, TotalSplit
  <2>. QED BY <2>4 DEF S, A, B
<1>. QED BY <1>2, <1>3, <1>4

\* One more effect.
LEMMA NetAppend ==
    ASSUME NEW R, NEW e \in Seq(Weighted(R)), NEW x \in Weighted(R), NEW r
    PROVE  /\ Append(e, x) \in Seq(Weighted(R))
           /\ Net(Append(e, x), r) = Net(e, r) + (IF x.row = r THEN x.w ELSE 0)
           /\ Mutations(Append(e, x)) = Mutations(e) + Abs(x.w)
<1>. DEFINE one == <<x>>
            terms == IF x.row = r THEN x.w ELSE 0
<1>1. x.w \in Int /\ terms \in Int /\ Abs(x.w) \in Int
  BY DEF Weighted, Abs
<1>2. one \in Seq(Weighted(R)) /\ Len(one) = 1 /\ one[1] = x /\ DOMAIN one = 1 .. 1
  OBVIOUS
<1>3. Append(e, x) \in Seq(Weighted(R)) /\ Parts(Append(e, x), e, one)
  BY <1>2 DEF Parts
<1>. HIDE DEF one
<1>4. Net(one, r) = terms /\ Mutations(one) = Abs(x.w)
  <2>1. PICK f : PrefixSums(f, NetTerms(one, r)) /\ Total(NetTerms(one, r)) = f[Len(NetTerms(one, r))]
    BY <1>2, Terms, TotalDef
  <2>2. PICK g : PrefixSums(g, AbsTerms(one)) /\ Total(AbsTerms(one)) = g[Len(AbsTerms(one))]
    BY <1>2, Terms, TotalDef
  <2>3. Len(NetTerms(one, r)) = 1 /\ Len(AbsTerms(one)) = 1
    BY <1>2, Terms
  <2>4. NetTerms(one, r)[1] = terms /\ AbsTerms(one)[1] = Abs(x.w)
    BY <1>2 DEF NetTerms, AbsTerms
  <2>6. f[0] = 0 /\ f[1] = f[0] + NetTerms(one, r)[1] /\ g[0] = 0 /\ g[1] = g[0] + AbsTerms(one)[1]
    BY <2>1, <2>2, <2>3 DEF PrefixSums
  <2>5. f[1] = 0 + terms /\ g[1] = 0 + Abs(x.w)
    BY <2>4, <2>6
  <2>. QED BY <1>1, <1>2, <2>1, <2>2, <2>3, <2>5, Terms
<1>5. /\ Net(Append(e, x), r) = Net(e, r) + Net(one, r)
      /\ Mutations(Append(e, x)) = Mutations(e) + Mutations(one)
  <2>. DEFINE s == Append(e, x)
  <2>1. s \in Seq(Weighted(R)) /\ Parts(s, e, one)
    BY <1>3
  <2>2. e \in Seq(Weighted(R)) /\ one \in Seq(Weighted(R))
    BY <1>2
  <2>. HIDE DEF s
  <2>3. Net(s, r) = Net(e, r) + Net(one, r)
    BY <2>1, <2>2, NetSplit
  <2>4. Mutations(s) = Mutations(e) + Mutations(one)
    BY <2>1, <2>2, NetSplit
  <2>. QED BY <2>3, <2>4 DEF s
<1>. QED BY <1>3, <1>4, <1>5

\* Net is what is inserted less what is deleted.
LEMMA NetCopies ==
    ASSUME NEW R, NEW e \in Seq(Weighted(R)), NEW r
    PROVE  Net(e, r) = Copies(e, r, 1) - Copies(e, r, -1) /\ Copies(e, r, 1) \in Int
           /\ Copies(e, r, -1) \in Int
<1>1. /\ Len(e) \in Nat /\ DOMAIN e = 1 .. Len(e)
      /\ \A i \in 1 .. Len(e) : e[i].w \in Int
  BY Elements
<1>2. \A i \in 1 .. Len(CopyTerms(e, r, 1)) :
        CopyTerms(e, r, 1)[i] = NetTerms(e, r)[i] + CopyTerms(e, r, -1)[i]
  BY <1>1, CopyTermsType DEF CopyTerms, NetTerms, Abs, Sign
<1>3. Total(CopyTerms(e, r, 1)) = Total(NetTerms(e, r)) + Total(CopyTerms(e, r, -1))
  BY <1>2, Terms, CopyTermsType, TotalSum
<1>4. /\ Total(CopyTerms(e, r, 1)) \in Int /\ Total(NetTerms(e, r)) \in Int
      /\ Total(CopyTerms(e, r, -1)) \in Int
  BY Terms, CopyTermsType, TotalInt
<1>. QED BY <1>3, <1>4, Terms, CopyTermsType
-----------------------------------------------------------------------------
\* The page.

\* What is left of a chunk is a sequence of effects.
IsRest(e, at, rest, l) ==
    /\ Len(l) = Len(e) - at
    /\ \A i \in 1 .. Len(e) - at :
         /\ l[i].row = e[at + i].row
         /\ i # 1 \/ rest = 0 => l[i] = e[at + i]
         /\ i = 1 /\ rest # 0 => l[i].w = rest

\* Rest describes exactly the effects from a continuation on.
LEMMA RestFacts ==
    ASSUME NEW R, NEW e \in Seq(Weighted(R)), NEW at \in 0 .. Len(e), NEW rest \in Int
    PROVE  /\ Rest(e, at, rest) \in Seq(Weighted(R))
           /\ IsRest(e, at, rest, Rest(e, at, rest))
<1>1. Len(e) \in Nat /\ Len(e) - at \in Nat
  BY Elements
<1>2. ASSUME NEW i \in 1 .. Len(e) - at
      PROVE  e[at + i] \in Weighted(R) /\ [e[at + i] EXCEPT !.w = rest] \in Weighted(R)
             /\ [e[at + i] EXCEPT !.w = rest].row = e[at + i].row
             /\ [e[at + i] EXCEPT !.w = rest].w = rest
  <2>1. e[at + i] \in Weighted(R)
    <3>1. at + i \in 1 .. Len(e)
      BY <1>1
    <3>. QED BY <3>1, Elements
  <2>. QED BY <2>1 DEF Weighted
<1>. DEFINE item(i) == IF i = 1 /\ rest # 0
                       THEN [e[at + 1] EXCEPT !.w = rest] ELSE e[at + i]
<1>3. \A i \in 1 .. Len(e) - at :
        /\ item(i) \in Weighted(R) /\ item(i).row = e[at + i].row
        /\ i # 1 \/ rest = 0 => item(i) = e[at + i]
        /\ i = 1 /\ rest # 0 => item(i).w = rest
  BY <1>2
<1>4. Rest(e, at, rest) = [i \in 1 .. Len(e) - at |-> item(i)]
  BY Zenon DEF Rest
<1>. HIDE DEF item
<1>. QED BY <1>1, <1>3, <1>4 DEF IsRest

\* Two facts about absolute values and minima.
LEMMA AbsFacts ==
    ASSUME NEW w \in Int
    PROVE  Abs(w) \in Nat /\ w = Sign(w) * Abs(w) /\ Sign(w) \in {1, -1}
BY DEF Abs, Sign

\* The smaller one of two numbers.
LEMMA MinOfTwo ==
    ASSUME NEW a \in Nat, NEW b \in Nat
    PROVE  Min({a, b}) = IF a <= b THEN a ELSE b
<1>1. Min({a, b}) \in {a, b} /\ \A y \in {a, b} : Min({a, b}) <= y
  BY MinOfNats
<1>. QED BY <1>1

\* A prefix of a sequence of effects.
LEMMA Prefix ==
    ASSUME NEW R, NEW e \in Seq(Weighted(R)), NEW k \in 0 .. Len(e)
    PROVE  /\ SubSeq(e, 1, k) \in Seq(Weighted(R)) /\ Len(SubSeq(e, 1, k)) = k
           /\ \A i \in 1 .. k : SubSeq(e, 1, k)[i] = e[i]
<1>1. Len(e) \in Nat /\ \A i \in 1 .. Len(e) : e[i] \in Weighted(R)
  BY Elements
<1>. HIDE DEF Weighted
<1>. QED BY <1>1

\* The effects that fit whole, and that one more does not fit.
LEMMA WholeFacts ==
    ASSUME NEW R, NEW heads \in Seq(Weighted(R))
    PROVE  LET whole == Whole(heads)
           IN /\ whole \in 0 .. Len(heads)
              /\ Mutations(SubSeq(heads, 1, whole)) <= BatchRows
              /\ whole < Len(heads) =>
                   Mutations(SubSeq(heads, 1, whole)) + Abs(heads[whole + 1].w) > BatchRows
<1>. DEFINE J == {j \in 0 .. Len(heads) : Mutations(SubSeq(heads, 1, j)) <= BatchRows}
            whole == Whole(heads)
<1>1. Len(heads) \in Nat
  BY Elements
<1>2. J \in SUBSET Nat /\ (\A y \in J : y <= Len(heads)) /\ 0 \in J
  <2>1. Mutations(SubSeq(heads, 1, 0)) = 0
    <3>1. 0 \in 0 .. Len(heads)
      BY <1>1
    <3>2. SubSeq(heads, 1, 0) \in Seq(Weighted(R)) /\ Len(SubSeq(heads, 1, 0)) = 0
      BY <3>1, Prefix
    <3>. QED BY <3>2, NetEmpty
  <2>2. 0 <= BatchRows
    BY BatchAssumption
  <2>. QED BY <1>1, <2>1, <2>2
<1>3. whole = Max(J)
  BY Zenon DEF Whole
<1>4. whole \in J /\ \A y \in J : whole >= y
  <2>. HIDE DEF J, whole
  <2>1. J # {}
    BY <1>2
  <2>. QED BY <1>1, <1>2, <1>3, <2>1, MaxOfNats
<1>. HIDE DEF whole
<1>5. ASSUME whole < Len(heads)
      PROVE  Mutations(SubSeq(heads, 1, whole)) + Abs(heads[whole + 1].w) > BatchRows
  <2>. DEFINE taken == SubSeq(heads, 1, whole)
              more == SubSeq(heads, 1, whole + 1)
  <2>1. whole \in 0 .. Len(heads) /\ whole + 1 \in 0 .. Len(heads) /\ whole + 1 \in 1 .. Len(heads)
    BY <1>1, <1>4, <1>5
  <2>2. heads[whole + 1] \in Weighted(R)
    BY <2>1, Elements
  <2>3. /\ taken \in Seq(Weighted(R)) /\ Len(taken) = whole /\ \A i \in 1 .. whole : taken[i] = heads[i]
        /\ more \in Seq(Weighted(R)) /\ Len(more) = whole + 1
        /\ \A i \in 1 .. whole + 1 : more[i] = heads[i]
    BY <2>1, Prefix
  <2>4. ~(Mutations(more) <= BatchRows)
    BY <2>1, <1>4
  <2>. HIDE DEF taken, more
  <2>5. more = Append(taken, heads[whole + 1])
    <3>1. Len(Append(taken, heads[whole + 1])) = whole + 1
          /\ \A i \in 1 .. whole : Append(taken, heads[whole + 1])[i] = taken[i]
          /\ Append(taken, heads[whole + 1])[whole + 1] = heads[whole + 1]
          /\ Append(taken, heads[whole + 1]) \in Seq(Weighted(R))
      BY <2>2, <2>3, <2>1
    <3>2. \A i \in 1 .. whole + 1 : more[i] = Append(taken, heads[whole + 1])[i]
      BY <3>1, <2>1, <2>3
    <3>. QED BY <3>1, <3>2, <2>3, SeqEqual
  <2>6. Mutations(more) = Mutations(taken) + Abs(heads[whole + 1].w)
    BY <2>2, <2>3, <2>5, NetAppend
  <2>7. Mutations(more) \in Int /\ BatchRows \in Int
    BY <2>3, NetInt, BatchAssumption
  <2>. QED BY <2>4, <2>6, <2>7 DEF taken
<1>. QED BY <1>4, <1>5 DEF whole

\* The page p taken at a continuation and what it leaves add up to what was
\* there, it takes no more copies than the budget, and it gets on.
IsPageOf(R, e, at, rest, p) ==
    /\ p.actions \in Seq(Weighted(R)) /\ Mutations(p.actions) <= BatchRows
    /\ p.at \in at .. Len(e) /\ p.rest \in Int
    /\ p.rest # 0 => p.at < Len(e)
    /\ p.at # Len(e) => p.at # at \/ p.rest # rest
    /\ \A r : Net(Rest(e, at, rest), r) = Net(p.actions, r) + Net(Rest(e, p.at, p.rest), r)

\* What consume_data plans is a page: within the budget, and what it takes and
\* what it leaves add up to what was there.
LEMMA PageFacts ==
    ASSUME NEW R, NEW e \in Seq(Weighted(R)), NEW at \in 0 .. Len(e), NEW rest \in Int,
           rest # 0 => at < Len(e)
    PROVE  IsPageOf(R, e, at, rest, Page(Heads(e, at, rest), Whole(Heads(e, at, rest)), at))
<1>. DEFINE n == Len(e)
            left == Rest(e, at, rest)
            heads == Heads(e, at, rest)
            whole == Whole(heads)
            taken == SubSeq(heads, 1, whole)
            spare == BatchRows - Mutations(taken)
            page == Page(heads, whole, at)
<1>1. n \in Nat /\ n - at \in Nat /\ BatchRows \in Nat /\ BatchRows > 0 /\ BatchRows \in Int
  BY Elements, BatchAssumption
<1>a. left \in Seq(Weighted(R)) /\ IsRest(e, at, rest, left)
  BY RestFacts
<1>. HIDE DEF left
<1>2. /\ left \in Seq(Weighted(R)) /\ Len(left) = n - at
      /\ \A i \in 1 .. n - at :
           /\ left[i].row = e[at + i].row
           /\ i # 1 \/ rest = 0 => left[i] = e[at + i]
           /\ i = 1 /\ rest # 0 => left[i].w = rest
  BY <1>a DEF IsRest
<1>. DEFINE m == Min({n - at, BatchRows})
<1>3. m = (IF n - at <= BatchRows THEN n - at ELSE BatchRows) /\ m \in 0 .. n - at
  BY <1>1, MinOfTwo
<1>4. heads = SubSeq(left, 1, m)
  BY Zenon DEF Heads, left
<1>. HIDE DEF heads, m
<1>5. /\ heads \in Seq(Weighted(R)) /\ Len(heads) = m /\ \A i \in 1 .. m : heads[i] = left[i]
  BY <1>2, <1>3, <1>4, Prefix
<1>6. /\ whole \in 0 .. Len(heads) /\ Mutations(taken) <= BatchRows
      /\ whole < Len(heads) => Mutations(taken) + Abs(heads[whole + 1].w) > BatchRows
  BY <1>5, WholeFacts
<1>. HIDE DEF whole
<1>7. taken \in Seq(Weighted(R)) /\ Len(taken) = whole /\ \A i \in 1 .. whole : taken[i] = heads[i]
  BY <1>5, <1>6, Prefix
<1>. HIDE DEF taken
<1>8. Mutations(taken) \in Int /\ spare \in Nat
  <2>1. Mutations(taken) \in Int
    BY <1>7, NetInt
  <2>. QED BY <1>1, <1>6, <2>1
<1>9. whole = 0 => Mutations(taken) = 0 /\ spare = BatchRows
  <2>1. whole = 0 => Mutations(taken) = 0
    BY <1>7, NetEmpty
  <2>. QED BY <1>1, <2>1
<1>10. CASE whole = Len(heads) \/ spare = 0
  <2>1. page = [actions |-> taken, at |-> at + whole, rest |-> 0]
    BY <1>10, Zenon DEF Page, taken
  <2>2. page.actions = taken /\ page.at = at + whole /\ page.rest = 0
    BY <2>1
  <2>3. at + whole \in at .. n /\ (at + whole = n \/ whole # 0)
    BY <1>1, <1>3, <1>5, <1>6, <1>9, <1>10
  <2>4. ASSUME NEW r PROVE Net(left, r) = Net(taken, r) + Net(Rest(e, at + whole, 0), r)
    <3>. DEFINE after == Rest(e, at + whole, 0)
    <3>1. at + whole \in 0 .. n /\ n - (at + whole) \in Nat /\ 0 \in Int
      BY <1>1, <2>3
    <3>5. after \in Seq(Weighted(R)) /\ IsRest(e, at + whole, 0, after)
      BY <3>1, RestFacts
    <3>. HIDE DEF after
    <3>2. /\ after \in Seq(Weighted(R)) /\ Len(after) = n - (at + whole)
          /\ \A i \in 1 .. n - (at + whole) : after[i] = e[at + whole + i]
      BY <3>1, <3>5 DEF IsRest
    <3>3. CASE whole = 0
      <4>1. n - at = 0
        BY <1>1, <2>3, <3>3
      <4>2. Net(left, r) = 0 /\ Net(taken, r) = 0 /\ Net(after, r) = 0
        BY <4>1, <3>2, <3>3, <1>2, <1>7, NetEmpty
      <4>. QED BY <4>2 DEF after
    <3>4. CASE whole # 0
      <4>1. Len(left) = Len(taken) + Len(after)
        BY <1>1, <1>2, <1>7, <3>1, <3>2, <1>6, <1>5, <1>3
      <4>2. \A i \in 1 .. Len(taken) : left[i] = taken[i]
        <5>1. \A i \in 1 .. whole : i \in 1 .. m
          BY <1>5, <1>6, <1>3, <1>1
        <5>. QED BY <5>1, <1>5, <1>7
      <4>3. ASSUME NEW i \in 1 .. Len(after) PROVE left[Len(taken) + i] = after[i]
        <5>1. whole + i \in 1 .. n - at /\ whole + i # 1 /\ at + (whole + i) = at + whole + i
          BY <1>1, <1>2, <1>3, <1>5, <1>6, <3>1, <3>2, <3>4
        <5>2. left[whole + i] = e[at + (whole + i)]
          BY <5>1, <1>2
        <5>. QED BY <5>1, <5>2, <1>7, <3>2
      <4>4. Parts(left, taken, after)
        BY <4>1, <4>2, <4>3 DEF Parts
      <4>5. Net(left, r) = Net(taken, r) + Net(after, r)
        BY <4>4, <1>2, <1>7, <3>2, NetSplit
      <4>. QED BY <4>5 DEF after
    <3>. QED BY <3>3, <3>4
  <2>5. 0 \in Int /\ (at + whole # n => at + whole # at)
    BY <1>1, <1>6, <2>3
  <2>. HIDE DEF page
  <2>6. IsPageOf(R, e, at, rest, page)
    BY <1>6, <1>7, <2>2, <2>3, <2>4, <2>5 DEF IsPageOf, left, n
  <2>. QED BY <2>6 DEF page, whole, heads
<1>11. CASE ~(whole = Len(heads) \/ spare = 0)
  <2>. DEFINE h == heads[whole + 1]
              part == plan_weight_page(h, spare)
              more == h.w - part.w
  <2>1. page = [actions |-> Append(taken, part), at |-> at + whole, rest |-> more]
    BY <1>11, Zenon DEF Page, taken
  <2>2. page.actions = Append(taken, part) /\ page.at = at + whole /\ page.rest = more
    BY <2>1
  <2>3. whole < Len(heads) /\ spare > 0 /\ whole + 1 \in 1 .. m /\ Abs(h.w) > spare
    <3>1. whole < Len(heads) /\ spare > 0 /\ whole + 1 \in 1 .. m
      BY <1>3, <1>5, <1>6, <1>8, <1>11
    <3>2. h \in Weighted(R)
      BY <3>1, <1>5, Elements
    <3>3. Abs(h.w) \in Int
      BY <3>2 DEF Weighted, Abs
    <3>. QED BY <3>1, <3>3, <1>1, <1>6, <1>8
  <2>4. h \in Weighted(R) /\ h.w \in Int
    BY <2>3, <1>5, Elements
  <2>5. /\ part \in Weighted(R) /\ part.row = h.row /\ part.w = Sign(h.w) * spare
    <3>1. Abs(h.w) \in Nat /\ Min({Abs(h.w), spare}) = spare
      <4>1. Abs(h.w) \in Nat
        BY <2>4, AbsFacts
      <4>. QED BY <4>1, <1>8, <2>3, MinOfTwo
    <3>2. part = [h EXCEPT !.w = Sign(h.w) * spare]
      BY <3>1, Zenon DEF plan_weight_page
    <3>3. Sign(h.w) * spare \in Int
      BY <1>8, <2>4 DEF Sign
    <3>. QED BY <3>2, <3>3, <2>4 DEF Weighted
  <2>6. /\ more \in Int /\ more # 0 /\ Abs(part.w) = spare
        /\ Abs(more) < Abs(h.w) /\ Abs(h.w) \in Int
    <3>1. CASE h.w < 0
      <4>1. part.w = -spare /\ Abs(h.w) = -h.w
        BY <3>1, <1>8, <2>4, <2>5 DEF Sign, Abs
      <4>2. more = h.w + spare /\ -h.w > spare /\ spare > 0 /\ h.w \in Int /\ spare \in Int
        BY <4>1, <1>8, <2>3, <2>4
      <4>3. more < 0 /\ more \in Int /\ -more < -h.w
        BY <4>2
      <4>4. Abs(more) = -more /\ Abs(part.w) = spare
        BY <4>1, <4>2, <4>3 DEF Abs
      <4>. QED BY <4>1, <4>2, <4>3, <4>4
    <3>2. CASE ~(h.w < 0)
      <4>1. part.w = spare /\ Abs(h.w) = h.w
        BY <3>2, <1>8, <2>4, <2>5 DEF Sign, Abs
      <4>2. more = h.w - spare /\ h.w > spare /\ spare > 0 /\ h.w \in Int /\ spare \in Int
        BY <4>1, <1>8, <2>3, <2>4
      <4>3. more > 0 /\ more \in Int /\ more < h.w
        BY <4>2
      <4>4. Abs(more) = more /\ Abs(part.w) = spare
        BY <4>1, <4>2, <4>3 DEF Abs
      <4>. QED BY <4>1, <4>2, <4>3, <4>4
    <3>. QED BY <3>1, <3>2
  <2>. HIDE DEF part, more
  <2>7. /\ Append(taken, part) \in Seq(Weighted(R))
        /\ Mutations(Append(taken, part)) <= BatchRows
        /\ \A r : Net(Append(taken, part), r) = Net(taken, r) + (IF h.row = r THEN part.w ELSE 0)
    <3>1. Mutations(Append(taken, part)) = Mutations(taken) + Abs(part.w)
      BY <1>7, <2>5, NetAppend
    <3>2. Mutations(taken) + spare = BatchRows
      BY <1>1, <1>8
    <3>3. Append(taken, part) \in Seq(Weighted(R))
      BY <1>7, <2>5, NetAppend
    <3>4. \A r : Net(Append(taken, part), r) = Net(taken, r) + (IF h.row = r THEN part.w ELSE 0)
      BY <1>7, <2>5, NetAppend
    <3>. QED BY <3>1, <3>2, <3>3, <3>4, <2>6, <1>1
  <2>8. at + whole \in at .. n /\ at + whole < n /\ at + whole \in 0 .. n
    BY <1>1, <1>3, <1>5, <2>3, <1>6
  <2>9. at + whole = at => more # rest
    <3>1. SUFFICES ASSUME at + whole = at, rest # 0 PROVE more # rest
      BY <2>6
    <3>2. whole = 0 /\ h = left[1] /\ 1 \in 1 .. n - at
      BY <3>1, <1>1, <1>3, <1>5, <1>6, <2>3
    <3>3. h.w = rest
      BY <3>1, <3>2, <1>2
    <3>4. SUFFICES ASSUME more = h.w PROVE FALSE
      BY <3>3
    <3>5. Abs(more) = Abs(h.w)
      BY <3>4
    <3>. HIDE DEF h
    <3>. QED BY <3>5, <2>6
  <2>10. ASSUME NEW r
         PROVE  Net(left, r) = Net(Append(taken, part), r) + Net(Rest(e, at + whole, more), r)
    <3>. DEFINE after == Rest(e, at + whole, more)
                tail == [i \in 1 .. n - (at + whole) - 1 |-> e[at + whole + 1 + i]]
                first == Append(<<>>, after[1])
                both == Append(taken, h)
    <3>0. n - (at + whole) \in Nat /\ n - (at + whole) - 1 \in Nat /\ n - (at + whole) >= 1
      BY <1>1, <2>8
    <3>a. after \in Seq(Weighted(R)) /\ IsRest(e, at + whole, more, after)
      BY <2>6, <2>8, RestFacts
    <3>1. /\ after \in Seq(Weighted(R)) /\ Len(after) = n - (at + whole)
          /\ \A i \in 1 .. n - (at + whole) :
               /\ after[i].row = e[at + whole + i].row
               /\ i # 1 => after[i] = e[at + whole + i]
               /\ i = 1 => after[i].w = more
      BY <3>a, <2>6 DEF IsRest
    <3>. HIDE DEF after
    <3>2. tail \in Seq(Weighted(R)) /\ Len(tail) = n - (at + whole) - 1
      <4>1. \A i \in 1 .. n - (at + whole) - 1 : e[at + whole + 1 + i] \in Weighted(R)
        <5>1. SUFFICES ASSUME NEW i \in 1 .. n - (at + whole) - 1
                       PROVE  e[at + whole + 1 + i] \in Weighted(R)
          OBVIOUS
        <5>2. at + whole + 1 + i \in 1 .. n
          BY <1>1, <2>8, <3>0
        <5>. QED BY <5>2, Elements
      <4>. QED BY <4>1, <3>0
    <3>3. \A i \in 1 .. Len(tail) : tail[i] = e[at + whole + 1 + i]
      BY <3>2
    <3>. HIDE DEF tail
    <3>4. after[1] \in Weighted(R) /\ after[1].row = h.row /\ after[1].w = more
      <4>1. 1 \in 1 .. n - (at + whole) /\ after[1] \in Weighted(R)
        BY <3>0, <3>1, Elements
      <4>2. h.row = e[at + (whole + 1)].row /\ at + (whole + 1) = at + whole + 1
        <5>1. whole + 1 \in 1 .. n - at /\ at + (whole + 1) = at + whole + 1
          BY <1>1, <1>3, <2>3, <1>6
        <5>2. h = left[whole + 1]
          BY <1>5, <2>3
        <5>. QED BY <5>1, <5>2, <1>2
      <4>3. after[1].row = e[at + whole + 1].row /\ after[1].w = more
        BY <3>1, <4>1
      <4>. QED BY <4>1, <4>2, <4>3
    <3>5. /\ first \in Seq(Weighted(R)) /\ Len(first) = 1 /\ first[1] = after[1]
          /\ Net(first, r) = (IF h.row = r THEN more ELSE 0)
      <4>1. <<>> \in Seq(Weighted(R)) /\ Len(<<>>) = 0
        OBVIOUS
      <4>2. Net(<<>>, r) = 0
        BY <4>1, NetEmpty
      <4>3. Net(first, r) = 0 + (IF h.row = r THEN more ELSE 0)
        <5>. DEFINE none == <<>>
        <5>1. none \in Seq(Weighted(R)) /\ Net(none, r) = 0
          BY <4>1, <4>2
        <5>. HIDE DEF none
        <5>2. Net(Append(none, after[1]), r) = 0 + (IF h.row = r THEN more ELSE 0)
          BY <5>1, <3>4, NetAppend
        <5>. QED BY <5>2 DEF none
      <4>. QED BY <4>3, <3>4, <2>6
    <3>. HIDE DEF first
    <3>6. Net(after, r) = Net(first, r) + Net(tail, r)
      <4>1. Parts(after, first, tail)
        <5>1. Len(after) = Len(first) + Len(tail)
          BY <3>0, <3>1, <3>2, <3>5
        <5>2. \A i \in 1 .. Len(first) : after[i] = first[i]
          BY <3>5
        <5>3. ASSUME NEW i \in 1 .. Len(tail) PROVE after[Len(first) + i] = tail[i]
          <6>1. /\ 1 + i \in 1 .. n - (at + whole) /\ 1 + i # 1
                /\ at + whole + (1 + i) = at + whole + 1 + i
            BY <3>0, <3>2, <1>1, <1>6
          <6>2. after[1 + i] = e[at + whole + (1 + i)]
            BY <3>1, <6>1
          <6>. QED BY <6>1, <6>2, <3>3, <3>5
        <5>. QED BY <5>1, <5>2, <5>3 DEF Parts
      <4>. QED BY <4>1, <3>1, <3>2, <3>5, NetSplit
    <3>7. /\ both \in Seq(Weighted(R)) /\ Len(both) = whole + 1
          /\ (\A i \in 1 .. whole : both[i] = taken[i]) /\ both[whole + 1] = h
          /\ Net(both, r) = Net(taken, r) + (IF h.row = r THEN h.w ELSE 0)
      <4>1. /\ both \in Seq(Weighted(R)) /\ Len(both) = whole + 1
            /\ (\A i \in 1 .. whole : both[i] = taken[i]) /\ both[whole + 1] = h
        BY <1>7, <2>4
      <4>2. Net(both, r) = Net(taken, r) + (IF h.row = r THEN h.w ELSE 0)
        BY <1>7, <2>4, NetAppend
      <4>. QED BY <4>1, <4>2
    <3>. HIDE DEF both
    <3>8. Net(left, r) = Net(both, r) + Net(tail, r)
      <4>1. Parts(left, both, tail)
        <5>1. Len(left) = Len(both) + Len(tail)
          BY <1>1, <1>2, <3>0, <3>2, <3>7, <1>6, <2>8
        <5>2. ASSUME NEW i \in 1 .. Len(both) PROVE left[i] = both[i]
          <6>1. CASE i = whole + 1
            BY <6>1, <3>7, <1>5, <2>3
          <6>2. CASE i # whole + 1
            <7>1. i \in 1 .. whole /\ i \in 1 .. m
              BY <6>2, <3>7, <2>3, <1>6, <1>5, <1>3
            <7>. QED BY <7>1, <3>7, <1>7, <1>5
          <6>. QED BY <6>1, <6>2
        <5>3. ASSUME NEW i \in 1 .. Len(tail) PROVE left[Len(both) + i] = tail[i]
          <6>1. /\ whole + 1 + i \in 1 .. n - at /\ whole + 1 + i # 1
                /\ at + (whole + 1 + i) = at + whole + 1 + i
            BY <3>0, <3>2, <1>1, <1>6
          <6>2. left[whole + 1 + i] = e[at + (whole + 1 + i)]
            BY <1>2, <6>1
          <6>. QED BY <6>1, <6>2, <3>3, <3>7
        <5>. QED BY <5>1, <5>2, <5>3 DEF Parts
      <4>. QED BY <4>1, <1>2, <3>2, <3>7, NetSplit
    <3>9. Net(Append(taken, part), r) = Net(taken, r) + (IF h.row = r THEN part.w ELSE 0)
      BY <2>7
    <3>10. /\ Net(taken, r) \in Int /\ Net(tail, r) \in Int /\ part.w \in Int /\ more \in Int
           /\ h.w \in Int /\ h.w = part.w + more
      <4>1. Net(taken, r) \in Int /\ Net(tail, r) \in Int
        BY <1>7, <3>2, NetInt
      <4>2. part.w \in Int
        BY <2>5 DEF Weighted
      <4>. QED BY <4>1, <4>2, <2>4, <2>6 DEF more
    <3>11. Net(left, r) = Net(Append(taken, part), r) + Net(after, r)
      <4>1. CASE h.row = r
        BY <4>1, <3>5, <3>6, <3>7, <3>8, <3>9, <3>10
      <4>2. CASE h.row # r
        BY <4>2, <3>5, <3>6, <3>7, <3>8, <3>9, <3>10
      <4>. QED BY <4>1, <4>2
    <3>. QED BY <3>11 DEF after
  <2>. HIDE DEF page
  <2>11. IsPageOf(R, e, at, rest, page)
    BY <2>2, <2>6, <2>7, <2>8, <2>9, <2>10 DEF IsPageOf, left, n
  <2>. QED BY <2>11 DEF page, whole, heads
<1>. QED BY <1>10, <1>11
-----------------------------------------------------------------------------
\* The statement that applies a page.

\* A page that applies changes each row by its net multiplicity.
LEMMA ApplyFacts ==
    ASSUME NEW R, NEW actions \in Seq(Weighted(R)), NEW old, PageApplies(old, actions),
           NEW r \in Rows, old[r] \in Int
    PROVE  /\ mutate_result_page(old, actions)[r] \in Int
           /\ mutate_result_page(old, actions)[r] = old[r] + Net(actions, r)
<1>1. Deleted(old, actions)[r] = Copies(actions, r, -1)
  BY DEF PageApplies
<1>2. mutate_result_page(old, actions)[r] = old[r] + Copies(actions, r, 1) - Copies(actions, r, -1)
  BY <1>1 DEF mutate_result_page
<1>3. /\ Net(actions, r) = Copies(actions, r, 1) - Copies(actions, r, -1)
      /\ Copies(actions, r, 1) \in Int /\ Copies(actions, r, -1) \in Int
  BY NetCopies
<1>. QED BY <1>2, <1>3

\* The change of every row, in absolute value.
Changed(e) == [r \in Rows |-> Abs(Net(e, r))]

\* All rows together change by no more than the copies that are asked for.
LEMMA ChangeBound ==
    ASSUME IsFiniteSet(Rows), NEW R, NEW e \in Seq(Weighted(R))
    PROVE  SetSum(Changed(e), Rows) <= Mutations(e)
<1>. DEFINE P(k) == k <= Len(e) => SetSum(Changed(SubSeq(e, 1, k)), Rows) <= Mutations(SubSeq(e, 1, k))
            N == {k \in Nat : P(k)}
<1>0. Len(e) \in Nat
  BY Elements
<1>t. ASSUME NEW a \in Seq(Weighted(R))
      PROVE  \A r \in Rows : Changed(a)[r] \in Int
  BY NetInt DEF Changed, Abs
<1>1. P(0)
  <2>. DEFINE none == SubSeq(e, 1, 0)
  <2>1. none \in Seq(Weighted(R)) /\ Len(none) = 0
    <3>1. 0 \in 0 .. Len(e)
      BY <1>0
    <3>. QED BY <3>1, Prefix
  <2>. HIDE DEF none
  <2>2. Mutations(none) = 0 /\ \A r \in Rows : Net(none, r) = 0
    BY <2>1, NetEmpty
  <2>3. \A r \in Rows : Changed(none)[r] = 0
    BY <2>2 DEF Changed, Abs
  <2>4. SetSum(Changed(none), Rows) = 0
    <3>. DEFINE zero == [r \in Rows |-> 0]
    <3>1. \A r \in Rows : Changed(none)[r] \in Int /\ Changed(none)[r] = zero[r]
      BY <2>3
    <3>2. SetSum(Changed(none), Rows) = SetSum(zero, Rows)
      <4>. HIDE DEF zero
      <4>. QED BY <3>1, SetSumAgree
    <3>3. SetSum(zero, Rows) = 0
      BY ZeroSum
    <3>. QED BY <3>2, <3>3
  <2>. QED BY <2>2, <2>4 DEF none
<1>2. ASSUME NEW k \in Nat, P(k) PROVE P(k + 1)
  <2>1. SUFFICES ASSUME k + 1 <= Len(e)
                 PROVE  SetSum(Changed(SubSeq(e, 1, k + 1)), Rows) <= Mutations(SubSeq(e, 1, k + 1))
    OBVIOUS
  <2>. DEFINE a == SubSeq(e, 1, k)
              b == SubSeq(e, 1, k + 1)
              x == e[k + 1]
  <2>2. k \in 0 .. Len(e) /\ k + 1 \in 0 .. Len(e) /\ k + 1 \in 1 .. Len(e)
    BY <1>0, <2>1
  <2>3. /\ a \in Seq(Weighted(R)) /\ Len(a) = k /\ \A i \in 1 .. k : a[i] = e[i]
        /\ b \in Seq(Weighted(R)) /\ Len(b) = k + 1 /\ \A i \in 1 .. k + 1 : b[i] = e[i]
        /\ x \in Weighted(R) /\ x.w \in Int
    BY <2>2, Prefix, Elements
  <2>4. SetSum(Changed(a), Rows) <= Mutations(a)
    BY <1>2, <2>1, <1>0
  <2>. HIDE DEF a, b, x
  <2>5. b = Append(a, x)
    <3>1. /\ Append(a, x) \in Seq(Weighted(R)) /\ Len(Append(a, x)) = k + 1
          /\ (\A i \in 1 .. k : Append(a, x)[i] = a[i]) /\ Append(a, x)[k + 1] = x
      BY <2>3
    <3>2. \A i \in 1 .. k + 1 : b[i] = Append(a, x)[i]
      BY <3>1, <2>3 DEF x
    <3>. QED BY <3>1, <3>2, <2>3, SeqEqual
  <2>6. /\ Mutations(b) = Mutations(a) + Abs(x.w)
        /\ \A r \in Rows : Net(b, r) = Net(a, r) + (IF x.row = r THEN x.w ELSE 0)
    BY <2>3, <2>5, NetAppend
  <2>7. /\ Mutations(a) \in Int /\ Abs(x.w) \in Nat
        /\ \A r \in Rows : Net(a, r) \in Int
    BY <2>3, NetInt, AbsFacts
  <2>8. /\ \A r \in Rows : Changed(a)[r] \in Int
        /\ \A r \in Rows : Changed(b)[r] \in Int
    BY <1>t, <2>3
  <2>9. \A r \in Rows : x.row # r => Changed(b)[r] = Changed(a)[r]
    BY <2>6, <2>7 DEF Changed
  <2>10. CASE x.row \in Rows
    <3>. DEFINE q == x.row
    <3>1. Changed(b)[q] <= Changed(a)[q] + Abs(x.w)
      <4>1. Net(b, q) = Net(a, q) + x.w /\ Net(a, q) \in Int
        BY <2>6, <2>7, <2>10
      <4>. QED BY <4>1, <2>3, <2>10 DEF Changed, Abs
    <3>2. IsFiniteSet(Rows \ {q})
      BY FS_RemoveElement
    <3>3. SetSum(Changed(a), Rows \ {q}) = SetSum(Changed(b), Rows \ {q})
      <4>1. \A r \in Rows \ {q} : Changed(a)[r] \in Int /\ Changed(a)[r] = Changed(b)[r]
        BY <2>8, <2>9
      <4>. QED BY <3>2, <4>1, SetSumAgree
    <3>4. /\ SetSum(Changed(a), Rows) = Changed(a)[q] + SetSum(Changed(a), Rows \ {q})
          /\ SetSum(Changed(a), Rows \ {q}) \in Int
      BY <2>8, <2>10, SetSumRemove
    <3>5. SetSum(Changed(b), Rows) = Changed(b)[q] + SetSum(Changed(b), Rows \ {q})
      BY <2>8, <2>10, SetSumRemove
    <3>6. Changed(a)[q] \in Int /\ Changed(b)[q] \in Int
      BY <2>8, <2>10
    <3>. HIDE DEF q
    <3>7. SetSum(Changed(b), Rows) <= Mutations(b)
      BY <3>1, <3>3, <3>4, <3>5, <3>6, <2>4, <2>6, <2>7
    <3>. QED BY <3>7 DEF b
  <2>11. CASE x.row \notin Rows
    <3>1. \A r \in Rows : Changed(b)[r] \in Int /\ Changed(b)[r] = Changed(a)[r]
      BY <2>8, <2>9, <2>11
    <3>2. SetSum(Changed(b), Rows) = SetSum(Changed(a), Rows)
      BY <3>1, SetSumAgree
    <3>3. SetSum(Changed(a), Rows) \in Int
      BY <2>8, SetSumInt
    <3>4. SetSum(Changed(b), Rows) <= Mutations(b)
      BY <3>2, <3>3, <2>4, <2>6, <2>7
    <3>. QED BY <3>4 DEF b
  <2>. QED BY <2>10, <2>11
<1>3. Nat \subseteq N
  <2>. HIDE DEF P
  <2>1. 0 \in N /\ \A k \in Nat : k \in N => k + 1 \in N
    BY <1>1, <1>2
  <2>. HIDE DEF N
  <2>. QED BY <2>1, NatSetInduction
<1>4. P(Len(e))
  <2>. HIDE DEF P
  <2>. QED BY <1>3, <1>0
<1>5. SubSeq(e, 1, Len(e)) = e
  <2>1. Len(e) \in 0 .. Len(e)
    BY <1>0
  <2>. QED BY <2>1, Prefix, SeqEqual
<1>6. SetSum(Changed(SubSeq(e, 1, Len(e))), Rows) <= Mutations(SubSeq(e, 1, Len(e)))
  BY <1>0, <1>4
<1>. HIDE DEF P, N
<1>. QED BY <1>5, <1>6
=============================================================================
