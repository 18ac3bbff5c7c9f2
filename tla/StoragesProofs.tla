--------------------------- MODULE StoragesProofs ---------------------------
(***************************************************************************)
(* Proofs about Storages.                                                  *)
(***************************************************************************)
EXTENDS Storages, FoldTheorems

(***************************************************************************)
(* The loops.  FoldLeft is a recursion over the sets of positions; what it *)
(* computes cannot be stated for an operator parameter, so the bodies of   *)
(* all loops are arms of one operator, told apart by what the loop is.     *)
(***************************************************************************)

\* What a query looks for.
Test(l, x) ==
    CASE l[1] = "id" -> x.id = l[2]
      [] l[1] = "output" -> /\ x.hash = l[2].hash
                            /\ x.direction = DirectionString(l[2].direction)
                            /\ x.address = l[2].address
      [] l[1] = "pending" -> \/ x.status = StatusString(PendingTransaction)
                             \/ x.status = StatusString(PendingColdStorageTransaction)
      [] l[1] = "broadcast" -> x.confirmations < MaxConfirmations /\ x.hash # ""
      [] l[1] = "from" -> x.seq >= l[2]

\* One turn of the loop l.
Turn(l, acc, x) ==
    CASE l[1] = "report" -> Report(acc, l[2], x)
      [] l[1] = "mark" -> Mark(acc, x, l[2])
      [] l[1] = "listed" -> TakeListed(acc, x)
      [] l[1] = "known" -> TakeKnown(acc, x)
      [] OTHER -> IF Test(l, x) THEN Append(acc, x) ELSE acc

TurnOf(l, base, seq, loop, s) ==
    IF s = {} THEN base ELSE Turn(l, loop[s \ {Max(s)}], seq[Max(s)])

\* loop holds the result for every set of positions in D.
Loops(l, base, seq, loop, D) == loop = [s \in D |-> TurnOf(l, base, seq, loop, s)]

\* The greatest of a nonempty set of the first n numbers.
LEMMA MaxOf ==
    ASSUME NEW n \in Nat, NEW s \in SUBSET (1 .. n), s # {}
    PROVE  Max(s) \in s /\ \A x \in s : x <= Max(s)
<1>. DEFINE T == {k \in Nat : \A x \in s : x <= k}
<1>1. n \in T
  OBVIOUS
<1>2. PICK k \in T : \A y \in T : k <= y
  <2>1. T \in SUBSET Nat /\ T # {}
    BY <1>1
  <2>. HIDE DEF T
  <2>. QED BY <2>1, LeastNatural
<1>3. k \in s
  <2>1. SUFFICES ASSUME k \notin s PROVE FALSE
    OBVIOUS
  <2>2. \A x \in s : x <= k - 1 /\ x >= 1
    BY <1>2, <2>1
  <2>3. k - 1 \in Nat
    <3>1. PICK x \in s : TRUE
      OBVIOUS
    <3>2. x \in Nat /\ k \in Nat /\ x <= k - 1 /\ x >= 1
      BY <1>2, <2>2
    <3>. QED BY ONLY <3>2
  <2>4. k - 1 \in T
    BY <2>2, <2>3
  <2>. QED BY <1>2, <2>4
<1>4. \E x \in s : \A y \in s : x >= y
  BY <1>2, <1>3
<1>5. Max(s) \in s /\ \A y \in s : Max(s) >= y
  BY <1>4 DEF Max
<1>. QED
  BY <1>5

\* The recursion of a loop has a solution: it is built up from the smaller sets.
LEMMA LoopsExist ==
    ASSUME NEW l, NEW base, NEW seq, NEW n \in Nat
    PROVE  \E loop : Loops(l, base, seq, loop, SUBSET (1 .. n))
<1>. DEFINE S == 1 .. n
            Low(k) == {s \in SUBSET S : Cardinality(s) <= k}
            G == {k \in Nat : \E loop : Loops(l, base, seq, loop, Low(k))}
<1>0. IsFiniteSet(S) /\ Cardinality(S) = n
  BY FS_Interval
<1>1. \A s \in SUBSET S : IsFiniteSet(s) /\ Cardinality(s) \in Nat
  BY <1>0, FS_Subset, FS_CardinalityType
<1>2. \A s \in SUBSET S : s # {} => Cardinality(s \ {Max(s)}) = Cardinality(s) - 1
  BY <1>1, MaxOf, FS_RemoveElement
<1>3. 0 \in G
  <2>1. \A s \in Low(0) : s = {}
    BY <1>1, FS_EmptySet
  <2>2. Loops(l, base, seq, [s \in Low(0) |-> base], Low(0))
    BY <2>1 DEF Loops, TurnOf
  <2>. QED BY <2>2
<1>4. ASSUME NEW k \in G PROVE k + 1 \in G
  <2>0. k \in Nat
    BY <1>4
  <2>1. PICK g : Loops(l, base, seq, g, Low(k))
    BY <1>4
  <2>. DEFINE h == [s \in Low(k + 1) |-> TurnOf(l, base, seq, g, s)]
  <2>2. ASSUME NEW s \in Low(k + 1) PROVE h[s] = TurnOf(l, base, seq, h, s)
    <3>1. CASE s = {}
      BY <3>1 DEF TurnOf
    <3>2. CASE s # {}
      <4>. DEFINE t == s \ {Max(s)}
      <4>1. t \in Low(k) /\ t \in Low(k + 1)
        <5>1. /\ t \in SUBSET S /\ Cardinality(t) \in Nat /\ Cardinality(s) \in Nat
              /\ Cardinality(t) = Cardinality(s) - 1 /\ Cardinality(s) <= k + 1
          BY <1>1, <1>2, <3>2
        <5>. HIDE DEF t
        <5>2. Cardinality(t) <= k /\ Cardinality(t) <= k + 1
          BY ONLY <2>0, <5>1
        <5>. QED BY <5>1, <5>2
      <4>2. h[t] = g[t]
        BY <2>1, <4>1 DEF Loops
      <4>. QED BY <3>2, <4>2 DEF TurnOf
    <3>. QED BY <3>1, <3>2
  <2>3. Loops(l, base, seq, h, Low(k + 1))
    BY <2>2 DEF Loops
  <2>. HIDE DEF h
  <2>4. \E loop : Loops(l, base, seq, loop, Low(k + 1))
    BY <2>3
  <2>5. k + 1 \in Nat
    BY <2>0
  <2>. HIDE DEF Low
  <2>. QED BY <2>4, <2>5
<1>5. G = Nat
  <2>. HIDE DEF G
  <2>1. G \in SUBSET Nat
    BY DEF G
  <2>. QED BY <1>3, <1>4, <2>1, NaturalsBySet
<1>6. Low(n) = SUBSET S
  BY <1>0, <1>1, FS_Subset
<1>7. \E loop : Loops(l, base, seq, loop, Low(n))
  BY <1>5
<1>. QED BY <1>6, <1>7

\* steps is the course of the loop l over seq, from base to the result.
Course(l, base, seq, steps, result) ==
    /\ steps[0] = base
    /\ \A k \in DOMAIN seq : steps[k] = Turn(l, steps[k - 1], seq[k])
    /\ result = steps[Len(seq)]

\* A solution of the recursion is a course.
LEMMA CourseOf ==
    ASSUME NEW l, NEW base, NEW seq, NEW n \in Nat, Len(seq) = n, DOMAIN seq = 1 .. n,
           NEW loop, Loops(l, base, seq, loop, SUBSET DOMAIN seq)
    PROVE  \E steps : Course(l, base, seq, steps, loop[DOMAIN seq])
<1>. DEFINE steps == [k \in 0 .. n |-> loop[1 .. k]]
<1>1. \A k \in 0 .. n : (1 .. k) \in SUBSET (1 .. n)
  OBVIOUS
<1>2. \A k \in 0 .. n : loop[1 .. k] = TurnOf(l, base, seq, loop, 1 .. k)
  BY <1>1 DEF Loops
<1>3. steps[0] = base
  <2>1. 1 .. 0 = {} /\ 0 \in 0 .. n
    OBVIOUS
  <2>2. loop[1 .. 0] = TurnOf(l, base, seq, loop, 1 .. 0)
    BY <1>2, <2>1
  <2>. QED BY <2>1, <2>2 DEF TurnOf
<1>4. ASSUME NEW k \in 1 .. n PROVE steps[k] = Turn(l, steps[k - 1], seq[k])
  <2>1. k \in 1 .. k /\ k \in 0 .. n /\ k - 1 \in 0 .. n
    OBVIOUS
  <2>2. 1 .. k # {} /\ (1 .. k) \in SUBSET (1 .. n)
    BY <2>1
  <2>3. Max(1 .. k) = k
    <3>1. Max(1 .. k) \in 1 .. k /\ \A x \in 1 .. k : x <= Max(1 .. k)
      BY <2>2, MaxOf
    <3>. QED BY <2>1, <3>1
  <2>4. (1 .. k) \ {k} = 1 .. (k - 1)
    OBVIOUS
  <2>5. loop[1 .. k] = TurnOf(l, base, seq, loop, 1 .. k)
    BY <1>2, <2>1
  <2>6. loop[1 .. k] = Turn(l, loop[1 .. (k - 1)], seq[k])
    BY <2>2, <2>3, <2>4, <2>5 DEF TurnOf
  <2>. QED BY <2>1, <2>6
<1>5. steps[Len(seq)] = loop[DOMAIN seq]
  OBVIOUS
<1>. HIDE DEF steps
<1>6. Course(l, base, seq, steps, loop[DOMAIN seq])
  BY <1>3, <1>4, <1>5 DEF Course
<1>. QED
  BY <1>6

IsSeq(q) == Len(q) \in Nat /\ q = [i \in 1 .. Len(q) |-> q[i]]

\* The rows the queries select.
RowsById(rows, id) == Selected(rows, LAMBDA r : r.id = id)
RowsByOutput(rows, tx) ==
    Selected(rows, LAMBDA r : /\ r.hash = tx.hash
                              /\ r.direction = DirectionString(tx.direction)
                              /\ r.address = tx.address)
RowsPending(rows) ==
    Selected(rows, LAMBDA r : \/ r.status = StatusString(PendingTransaction)
                              \/ r.status = StatusString(PendingColdStorageTransaction))
RowsBroadcast(rows) ==
    Selected(rows, LAMBDA r : r.confirmations < MaxConfirmations /\ r.hash # "")

\* They are what the queries answer with.
LEMMA Queries ==
    ASSUME NEW s, NEW id, NEW tx
    PROVE  /\ PgGetTransactionByID(s, id) = PgAnswer(RowsById(s.rows, id))
           /\ PgGetTransactionByHashDirectionAndAddress(s, tx)
                = PgAnswer(RowsByOutput(s.rows, tx))
           /\ PgGetPendingTransactions(s) = PgAnswer(RowsPending(s.rows))
           /\ PgGetBroadcastedTransactionsWithLessConfirmations(s)
                = PgAnswer(RowsBroadcast(s.rows))
BY DEF PgGetTransactionByID, PgGetTransactionByHashDirectionAndAddress,
       PgGetPendingTransactions, PgGetBroadcastedTransactionsWithLessConfirmations,
       PgQuery, RowsById, RowsByOutput, RowsPending, RowsBroadcast, Selected,
       FoldLeft, MapThenFoldSet

\* The query by id is a loop.
LEMMA IdLoop ==
    ASSUME NEW rows, IsSeq(rows), NEW id
    PROVE  \E steps : Course(<<"id", id>>, << >>, rows, steps, RowsById(rows, id))
<1>. DEFINE D == DOMAIN rows
            l == <<"id", id>>
            P(loop) == loop = [x \in SUBSET D |->
                IF x = {} THEN << >>
                ELSE IF rows[Max(x)].id = id
                       THEN Append(loop[x \ {Max(x)}], rows[Max(x)])
                       ELSE loop[x \ {Max(x)}]]
<1>1. RowsById(rows, id) = (CHOOSE loop : P(loop))[D]
  BY DEF RowsById, Selected, FoldLeft, MapThenFoldSet
<1>2. \A loop : P(loop) <=> Loops(l, << >>, rows, loop, SUBSET D)
  BY DEF Loops, TurnOf, Turn, Test
<1>3. \E loop : Loops(l, << >>, rows, loop, SUBSET D)
  BY LoopsExist DEF IsSeq
<1>4. Loops(l, << >>, rows, CHOOSE loop : P(loop), SUBSET D)
  <2>. HIDE DEF P
  <2>. QED BY <1>2, <1>3
<1>5. Len(rows) \in Nat /\ DOMAIN rows = 1 .. Len(rows)
  BY DEF IsSeq
<1>. DEFINE solution == CHOOSE loop : P(loop)
<1>. HIDE DEF P, l, solution
<1>6. \E steps : Course(l, << >>, rows, steps, solution[DOMAIN rows])
  BY <1>4, <1>5, CourseOf DEF solution
<1>. QED
  BY <1>1, <1>6 DEF l, solution

\* The query by output is a loop.
LEMMA OutputLoop ==
    ASSUME NEW rows, IsSeq(rows), NEW tx
    PROVE  \E steps : Course(<<"output", tx>>, << >>, rows, steps, RowsByOutput(rows, tx))
<1>. DEFINE D == DOMAIN rows
            l == <<"output", tx>>
            P(loop) == loop = [x \in SUBSET D |->
                IF x = {} THEN << >>
                ELSE IF /\ rows[Max(x)].hash = tx.hash
                        /\ rows[Max(x)].direction = DirectionString(tx.direction)
                        /\ rows[Max(x)].address = tx.address
                       THEN Append(loop[x \ {Max(x)}], rows[Max(x)])
                       ELSE loop[x \ {Max(x)}]]
<1>1. RowsByOutput(rows, tx) = (CHOOSE loop : P(loop))[D]
  BY DEF RowsByOutput, Selected, FoldLeft, MapThenFoldSet
<1>2. \A loop : P(loop) <=> Loops(l, << >>, rows, loop, SUBSET D)
  BY DEF Loops, TurnOf, Turn, Test
<1>3. \E loop : Loops(l, << >>, rows, loop, SUBSET D)
  BY LoopsExist DEF IsSeq
<1>4. Loops(l, << >>, rows, CHOOSE loop : P(loop), SUBSET D)
  <2>. HIDE DEF P
  <2>. QED BY <1>2, <1>3
<1>5. Len(rows) \in Nat /\ DOMAIN rows = 1 .. Len(rows)
  BY DEF IsSeq
<1>. DEFINE solution == CHOOSE loop : P(loop)
<1>. HIDE DEF P, l, solution
<1>6. \E steps : Course(l, << >>, rows, steps, solution[DOMAIN rows])
  BY <1>4, <1>5, CourseOf DEF solution
<1>. QED
  BY <1>1, <1>6 DEF l, solution

\* The query for pending withdrawals is a loop.
LEMMA PendingLoop ==
    ASSUME NEW rows, IsSeq(rows)
    PROVE  \E steps : Course(<<"pending">>, << >>, rows, steps, RowsPending(rows))
<1>. DEFINE D == DOMAIN rows
            l == <<"pending">>
            P(loop) == loop = [x \in SUBSET D |->
                IF x = {} THEN << >>
                ELSE IF \/ rows[Max(x)].status = StatusString(PendingTransaction)
                        \/ rows[Max(x)].status = StatusString(PendingColdStorageTransaction)
                       THEN Append(loop[x \ {Max(x)}], rows[Max(x)])
                       ELSE loop[x \ {Max(x)}]]
<1>1. RowsPending(rows) = (CHOOSE loop : P(loop))[D]
  BY DEF RowsPending, Selected, FoldLeft, MapThenFoldSet
<1>2. \A loop : P(loop) <=> Loops(l, << >>, rows, loop, SUBSET D)
  BY DEF Loops, TurnOf, Turn, Test
<1>3. \E loop : Loops(l, << >>, rows, loop, SUBSET D)
  BY LoopsExist DEF IsSeq
<1>4. Loops(l, << >>, rows, CHOOSE loop : P(loop), SUBSET D)
  <2>. HIDE DEF P
  <2>. QED BY <1>2, <1>3
<1>5. Len(rows) \in Nat /\ DOMAIN rows = 1 .. Len(rows)
  BY DEF IsSeq
<1>. DEFINE solution == CHOOSE loop : P(loop)
<1>. HIDE DEF P, l, solution
<1>6. \E steps : Course(l, << >>, rows, steps, solution[DOMAIN rows])
  BY <1>4, <1>5, CourseOf DEF solution
<1>. QED
  BY <1>1, <1>6 DEF l, solution

\* The query for broadcast transactions is a loop.
LEMMA BroadcastLoop ==
    ASSUME NEW rows, IsSeq(rows)
    PROVE  \E steps : Course(<<"broadcast">>, << >>, rows, steps, RowsBroadcast(rows))
<1>. DEFINE D == DOMAIN rows
            l == <<"broadcast">>
            P(loop) == loop = [x \in SUBSET D |->
                IF x = {} THEN << >>
                ELSE IF rows[Max(x)].confirmations < MaxConfirmations /\ rows[Max(x)].hash # ""
                       THEN Append(loop[x \ {Max(x)}], rows[Max(x)])
                       ELSE loop[x \ {Max(x)}]]
<1>1. RowsBroadcast(rows) = (CHOOSE loop : P(loop))[D]
  BY DEF RowsBroadcast, Selected, FoldLeft, MapThenFoldSet
<1>2. \A loop : P(loop) <=> Loops(l, << >>, rows, loop, SUBSET D)
  BY DEF Loops, TurnOf, Turn, Test
<1>3. \E loop : Loops(l, << >>, rows, loop, SUBSET D)
  BY LoopsExist DEF IsSeq
<1>4. Loops(l, << >>, rows, CHOOSE loop : P(loop), SUBSET D)
  <2>. HIDE DEF P
  <2>. QED BY <1>2, <1>3
<1>5. Len(rows) \in Nat /\ DOMAIN rows = 1 .. Len(rows)
  BY DEF IsSeq
<1>. DEFINE solution == CHOOSE loop : P(loop)
<1>. HIDE DEF P, l, solution
<1>6. \E steps : Course(l, << >>, rows, steps, solution[DOMAIN rows])
  BY <1>4, <1>5, CourseOf DEF solution
<1>. QED
  BY <1>1, <1>6 DEF l, solution

-----------------------------------------------------------------------------
(* What the queries select.                                                *)

QueryKinds == {"id", "output", "pending", "broadcast", "from"}

\* Appending to a sequence.
LEMMA AppendSeq ==
    ASSUME NEW q, IsSeq(q), NEW x
    PROVE  /\ IsSeq(Append(q, x)) /\ Len(Append(q, x)) = Len(q) + 1
           /\ \A i \in 1 .. Len(q) : Append(q, x)[i] = q[i]
           /\ Append(q, x)[Len(q) + 1] = x
<1>. DEFINE S == {q[i] : i \in 1 .. Len(q)} \cup {x}
<1>1. q \in Seq(S)
  BY DEF IsSeq
<1>2. x \in S
  OBVIOUS
<1>. HIDE DEF S
<1>3. /\ Append(q, x) \in Seq(S) /\ Len(Append(q, x)) = Len(q) + 1
      /\ \A i \in 1 .. Len(q) : Append(q, x)[i] = q[i]
      /\ Append(q, x)[Len(q) + 1] = x
  BY <1>1, <1>2
<1>4. IsSeq(Append(q, x))
  <2>. DEFINE t == Append(q, x)
  <2>1. t \in Seq(S)
    BY <1>3
  <2>. HIDE DEF t
  <2>2. IsSeq(t)
    BY <2>1 DEF IsSeq
  <2>. QED BY <2>2 DEF t
<1>. QED
  BY <1>3, <1>4

\* q and r hold what was selected at the same of the first k positions.
Chosen(l, rows, list, k, q, r) ==
    /\ IsSeq(q) /\ IsSeq(r) /\ Len(r) = Len(q)
    /\ \E at \in [1 .. Len(q) -> 1 .. k] :
         /\ \A j \in 1 .. Len(q) : /\ q[j] = rows[at[j]] /\ r[j] = list[at[j]]
                                   /\ Test(l, rows[at[j]])
         /\ \A i, j \in 1 .. Len(q) : i < j => at[i] < at[j]
         /\ \A i \in 1 .. k : Test(l, rows[i]) => \E j \in 1 .. Len(q) : at[j] = i

\* Two queries that agree at every position select at the same positions.
LEMMA SelectedTogether ==
    ASSUME NEW l, l[1] \in QueryKinds, NEW m, m[1] \in QueryKinds,
           NEW rows, IsSeq(rows), NEW list, IsSeq(list), Len(list) = Len(rows),
           \A i \in 1 .. Len(rows) : Test(l, rows[i]) <=> Test(m, list[i]),
           NEW f, NEW q, Course(l, << >>, rows, f, q),
           NEW g, NEW r, Course(m, << >>, list, g, r)
    PROVE  Chosen(l, rows, list, Len(rows), q, r)
<1>. DEFINE n == Len(rows)
            Claim(k) == k <= n => Chosen(l, rows, list, k, f[k], g[k])
            G == {k \in Nat : Claim(k)}
<1>0. n \in Nat /\ DOMAIN rows = 1 .. n /\ DOMAIN list = 1 .. n
  BY DEF IsSeq
<1>. HIDE DEF n
<1>1. Claim(0)
  <2>1. f[0] = << >> /\ g[0] = << >>
    BY DEF Course
  <2>2. IsSeq(<< >>) /\ Len(<< >>) = 0
    BY DEF IsSeq
  <2>3. 1 .. 0 = {}
    OBVIOUS
  <2>4. \E at : at \in [1 .. 0 -> 1 .. 0]
    <3>1. [i \in 1 .. 0 |-> i] \in [1 .. 0 -> 1 .. 0]
      OBVIOUS
    <3>. QED BY <3>1
  <2>. QED BY <2>1, <2>2, <2>3, <2>4 DEF Chosen
<1>2. ASSUME NEW k \in Nat, Claim(k), k + 1 <= n
      PROVE  Chosen(l, rows, list, k + 1, f[k + 1], g[k + 1])
  <2>. DEFINE i == k + 1
  <2>1. i \in 1 .. n /\ i - 1 = k /\ k <= n /\ i \in Nat
    BY <1>0, <1>2
  <2>2. Chosen(l, rows, list, k, f[k], g[k])
    BY <1>2, <2>1
  <2>3. f[i] = Turn(l, f[k], rows[i]) /\ g[i] = Turn(m, g[k], list[i])
    BY <1>0, <2>1 DEF Course
  <2>4. /\ f[i] = IF Test(l, rows[i]) THEN Append(f[k], rows[i]) ELSE f[k]
        /\ g[i] = IF Test(m, list[i]) THEN Append(g[k], list[i]) ELSE g[k]
    BY <2>3 DEF Turn, QueryKinds
  <2>5. Test(l, rows[i]) <=> Test(m, list[i])
    BY <2>1 DEF n
  <2>6. PICK at \in [1 .. Len(f[k]) -> 1 .. k] :
         /\ \A j \in 1 .. Len(f[k]) : /\ f[k][j] = rows[at[j]] /\ g[k][j] = list[at[j]]
                                      /\ Test(l, rows[at[j]])
         /\ \A h, j \in 1 .. Len(f[k]) : h < j => at[h] < at[j]
         /\ \A h \in 1 .. k : Test(l, rows[h]) => \E j \in 1 .. Len(f[k]) : at[j] = h
    BY <2>2 DEF Chosen
  <2>7. IsSeq(f[k]) /\ IsSeq(g[k]) /\ Len(g[k]) = Len(f[k]) /\ Len(f[k]) \in Nat
    BY <2>2 DEF Chosen, IsSeq
  <2>. HIDE DEF i
  <2>8. CASE ~Test(l, rows[i])
    <3>1. f[i] = f[k] /\ g[i] = g[k]
      BY <2>4, <2>5, <2>8
    <3>2. at \in [1 .. Len(f[k]) -> 1 .. i]
      BY <2>1, <2>6
    <3>3. \A h \in 1 .. i : h = i \/ h \in 1 .. k
      BY <2>1
    <3>. QED BY <2>6, <2>7, <2>8, <3>1, <3>2, <3>3 DEF Chosen, i
  <2>9. CASE Test(l, rows[i])
    <3>. DEFINE c == Len(f[k]) + 1
                more == [j \in 1 .. c |-> IF j = c THEN i ELSE at[j]]
    <3>1. f[i] = Append(f[k], rows[i]) /\ g[i] = Append(g[k], list[i])
      BY <2>4, <2>5, <2>9
    <3>2. /\ IsSeq(f[i]) /\ IsSeq(g[i]) /\ Len(f[i]) = c /\ Len(g[i]) = c
          /\ \A j \in 1 .. Len(f[k]) : f[i][j] = f[k][j] /\ g[i][j] = g[k][j]
          /\ f[i][c] = rows[i] /\ g[i][c] = list[i]
      BY <2>7, <3>1, AppendSeq
    <3>3. \A j \in 1 .. c : j = c \/ (j # c /\ j \in 1 .. Len(f[k]))
      BY <2>7
    <3>4. more \in [1 .. c -> 1 .. i]
      BY <2>1, <2>6, <2>7
    <3>5. \A j \in 1 .. c : /\ f[i][j] = rows[more[j]] /\ g[i][j] = list[more[j]]
                            /\ Test(l, rows[more[j]])
      BY <2>6, <2>9, <3>2, <3>3
    <3>6. \A h, j \in 1 .. c : h < j => more[h] < more[j]
      <4>1. TAKE h, j \in 1 .. c
      <4>2. SUFFICES ASSUME h < j PROVE more[h] < more[j]
        OBVIOUS
      <4>3. h \in 1 .. Len(f[k]) /\ more[h] = at[h] /\ at[h] \in 1 .. k
        <5>1. h \in 1 .. Len(f[k]) /\ h # c
          <6>. HIDE DEF more
          <6>. QED BY <2>7, <4>2
        <5>2. at[h] \in 1 .. k
          BY <2>6, <5>1
        <5>. QED BY <5>1, <5>2
      <4>4. CASE j = c
        BY <2>1, <4>3, <4>4
      <4>5. CASE j # c
        BY <2>6, <3>3, <4>2, <4>3, <4>5
      <4>. QED BY <4>4, <4>5
    <3>7. \A h \in 1 .. i : Test(l, rows[h]) => \E j \in 1 .. c : more[j] = h
      <4>1. TAKE h \in 1 .. i
      <4>2. CASE h = i
        <5>1. c \in 1 .. c
          BY <2>7
        <5>. QED BY <4>2, <5>1
      <4>3. CASE h # i
        <5>1. h \in 1 .. k
          BY <2>1, <4>3
        <5>2. \A j \in 1 .. Len(f[k]) : j \in 1 .. c /\ more[j] = at[j]
          BY <2>7
        <5>. HIDE DEF more, c
        <5>. QED BY <2>6, <5>1, <5>2
      <4>. QED BY <4>2, <4>3
    <3>. HIDE DEF more, c
    <3>8. Chosen(l, rows, list, i, f[i], g[i])
      BY <3>2, <3>4, <3>5, <3>6, <3>7 DEF Chosen
    <3>. QED BY <3>8 DEF i
  <2>. QED BY <2>8, <2>9
<1>3. G = Nat
  <2>1. G \in SUBSET Nat /\ 0 \in G
    BY <1>1
  <2>2. \A k \in G : k + 1 \in G
    BY <1>2
  <2>. HIDE DEF G
  <2>. QED BY <2>1, <2>2, NaturalsBySet
<1>4. Claim(n)
  BY <1>0, <1>3
<1>5. q = f[n] /\ r = g[n]
  BY DEF Course, n
<1>. QED
  BY <1>0, <1>4, <1>5 DEF n
-----------------------------------------------------------------------------
(* Rows and transactions.                                                  *)

Money == 0 .. 2 ^ (Width - 1) - 1

\* A transaction as the program can hold it; its address may be any.
TxOK(t) ==
    t \in [id : Ids \cup Nat, hash : Hashes \cup {""}, confirmations : Int,
          address : {t.address}, direction : 0 .. 2, status : 0 .. 6,
          amount : Money, fee : Money, feeType : 0 .. 2, cold : BOOLEAN,
          reported : Int]

Tx(row) == transactionFromDatabaseRow(row)
RowOK(row) == row = Row(Tx(row)) /\ TxOK(Tx(row))

\* The text of a direction is read back.
LEMMA DirectionText ==
    ASSUME NEW d \in 0 .. 2
    PROVE  TransactionDirectionFromString(DirectionString(d)) = [value |-> d, ok |-> TRUE]
<1>1. d = 0 \/ d = 1 \/ d = 2
  OBVIOUS
<1>. DEFINE names == transactionDirectionToStringMap
<1>2. /\ DOMAIN names = 0 .. 2
      /\ names[0] = "incoming" /\ names[1] = "outgoing" /\ names[2] = "unknown"
  BY DEF transactionDirectionToStringMap
<1>3. \A v \in 0 .. 2 : names[v] = names[d] => v = d
  BY <1>1, <1>2
<1>. HIDE DEF names
<1>4. (CHOOSE v \in 0 .. 2 : names[v] = names[d]) = d
  BY <1>3
<1>. QED
  BY <1>2, <1>4 DEF TransactionDirectionFromString, DirectionString, Parsed, Text, names

\* The text of a status is read back.
LEMMA StatusText ==
    ASSUME NEW d \in 0 .. 6
    PROVE  TransactionStatusFromString(StatusString(d)) = [value |-> d, ok |-> TRUE]
<1>1. d = 0 \/ d = 1 \/ d = 2 \/ d = 3 \/ d = 4 \/ d = 5 \/ d = 6
  OBVIOUS
<1>. DEFINE names == transactionStatusToStringMap
<1>2. /\ DOMAIN names = 0 .. 6
      /\ names[0] = "new" /\ names[1] = "confirmed" /\ names[2] = "fully-confirmed"
      /\ names[3] = "pending" /\ names[4] = "pending-cold-storage"
      /\ names[5] = "pending-manual-confirmation" /\ names[6] = "cancelled"
  BY DEF transactionStatusToStringMap
<1>3. \A v \in 0 .. 6 : names[v] = names[d] => v = d
  BY <1>1, <1>2
<1>. HIDE DEF names
<1>4. (CHOOSE v \in 0 .. 6 : names[v] = names[d]) = d
  BY <1>3
<1>. QED
  BY <1>2, <1>4 DEF TransactionStatusFromString, StatusString, Parsed, Text, names

\* The text of a fee type is read back, "invalid" included.
LEMMA FeeTypeText ==
    ASSUME NEW d \in 0 .. 2
    PROVE  FeeTypeFromString(FeeTypeString(d)) = [value |-> d, ok |-> TRUE]
<1>1. d = 0 \/ d = 1 \/ d = 2
  OBVIOUS
<1>. DEFINE names == feeTypeToStringMap
<1>2. /\ DOMAIN names = 0 .. 2
      /\ names[0] = "invalid" /\ names[1] = "per-kb-rate" /\ names[2] = "fixed"
  BY DEF feeTypeToStringMap
<1>3. \A v \in 0 .. 2 : names[v] = names[d] => v = d
  BY <1>1, <1>2
<1>. HIDE DEF names
<1>4. (CHOOSE v \in 0 .. 2 : names[v] = names[d]) = d
  BY <1>3
<1>. QED
  BY <1>2, <1>4 DEF FeeTypeFromString, FeeTypeString, Parsed, Text, names

\* A row is read back as the transaction it was written from.
LEMMA RowTx ==
    ASSUME NEW t, TxOK(t)
    PROVE  Tx(Row(t)) = t /\ RowIsRead(Row(t)) /\ RowOK(Row(t))
<1>1. t = [id |-> t.id, hash |-> t.hash, confirmations |-> t.confirmations,
           address |-> t.address, direction |-> t.direction, status |-> t.status,
           amount |-> t.amount, fee |-> t.fee, feeType |-> t.feeType,
           cold |-> t.cold, reported |-> t.reported]
  BY DEF TxOK
<1>2. /\ t.direction \in 0 .. 2 /\ t.status \in 0 .. 6 /\ t.feeType \in 0 .. 2
  BY DEF TxOK
<1>3. Tx(Row(t)) = [id |-> t.id, hash |-> t.hash, confirmations |-> t.confirmations,
           address |-> t.address, direction |-> t.direction, status |-> t.status,
           amount |-> t.amount, fee |-> t.fee, feeType |-> t.feeType,
           cold |-> t.cold, reported |-> t.reported]
  BY <1>2, DirectionText, StatusText, FeeTypeText DEF Tx, Row, transactionFromDatabaseRow
<1>4. RowIsRead(Row(t))
  BY <1>2, DirectionText, StatusText DEF RowIsRead, Row
<1>. QED
  BY <1>1, <1>3, <1>4 DEF RowOK

-----------------------------------------------------------------------------
(* The PostgreSQL storage as the transactions its rows are read as.        *)

PgOK(s) ==
    /\ s \in [kind : {"postgres"}, rows : {s.rows}, accounts : {s.accounts},
              meta : {s.meta}, events : {s.events}]
    /\ IsSeq(s.rows)
    /\ \A i \in 1 .. Len(s.rows) : RowOK(s.rows[i])

PgView(s) == [i \in 1 .. Len(s.rows) |-> Tx(s.rows[i])]

SetRow(s, i, t) == [s EXCEPT !.rows = [@ EXCEPT ![i] = Row(t)]]
AddRow(s, t) == [s EXCEPT !.rows = Append(@, Row(t))]

\* Len of a function on the first n numbers.
LEMMA LenOf ==
    ASSUME NEW n \in Nat, NEW f, DOMAIN f = 1 .. n, f = [i \in 1 .. n |-> f[i]]
    PROVE  IsSeq(f) /\ Len(f) = n
<1>1. f \in Seq({f[i] : i \in 1 .. n})
  OBVIOUS
<1>2. Len(f) = n
  BY <1>1
<1>. QED
  BY <1>2 DEF IsSeq

\* The transactions of the rows.
LEMMA ViewOf ==
    ASSUME NEW s, PgOK(s)
    PROVE  /\ IsSeq(PgView(s)) /\ Len(PgView(s)) = Len(s.rows) /\ Len(s.rows) \in Nat
           /\ DOMAIN s.rows = 1 .. Len(s.rows)
           /\ \A i \in 1 .. Len(s.rows) :
                /\ PgView(s)[i] = Tx(s.rows[i]) /\ TxOK(PgView(s)[i])
                /\ s.rows[i] = Row(PgView(s)[i])
<1>1. Len(s.rows) \in Nat /\ DOMAIN s.rows = 1 .. Len(s.rows)
  BY DEF PgOK, IsSeq
<1>. DEFINE n == Len(s.rows)
<1>. HIDE DEF n
<1>2. PgView(s) = [i \in 1 .. n |-> Tx(s.rows[i])] /\ n \in Nat
  BY <1>1 DEF PgView, n
<1>3. IsSeq(PgView(s)) /\ Len(PgView(s)) = n
  BY <1>2, LenOf
<1>. QED
  BY <1>1, <1>2, <1>3 DEF PgOK, RowOK, n

\* Writing a row.
LEMMA SetRowView ==
    ASSUME NEW s, PgOK(s), NEW i \in 1 .. Len(s.rows), NEW t, TxOK(t)
    PROVE  /\ PgOK(SetRow(s, i, t))
           /\ PgView(SetRow(s, i, t)) = [PgView(s) EXCEPT ![i] = t]
           /\ Len(SetRow(s, i, t).rows) = Len(s.rows)
           /\ SetRow(s, i, t).events = s.events /\ SetRow(s, i, t).meta = s.meta
           /\ SetRow(s, i, t).accounts = s.accounts
<1>. DEFINE q == s.rows
            n == Len(q)
            r == [q EXCEPT ![i] = Row(t)]
            u == SetRow(s, i, t)
<1>1. n \in Nat /\ DOMAIN q = 1 .. n /\ q = [j \in 1 .. n |-> q[j]]
  BY DEF PgOK, IsSeq
<1>2. DOMAIN r = 1 .. n /\ r = [j \in 1 .. n |-> r[j]]
  BY <1>1
<1>3. IsSeq(r) /\ Len(r) = n
  <2>. HIDE DEF r, n
  <2>. QED BY <1>1, <1>2, LenOf
<1>4. u \in [kind : {"postgres"}, rows : {r}, accounts : {s.accounts},
             meta : {s.meta}, events : {s.events}]
  BY DEF PgOK, SetRow
<1>5. u.rows = r /\ u.events = s.events /\ u.meta = s.meta /\ u.accounts = s.accounts
  BY <1>4
<1>6. RowOK(Row(t)) /\ Tx(Row(t)) = t
  BY RowTx
<1>7. \A j \in 1 .. n : r[j] = IF j = i THEN Row(t) ELSE q[j]
  BY <1>1
<1>8. PgOK(u)
  <2>. HIDE DEF u, r
  <2>. QED BY <1>3, <1>4, <1>5, <1>6, <1>7 DEF PgOK
<1>9. PgView(u) = [j \in 1 .. n |-> IF j = i THEN t ELSE Tx(q[j])]
  <2>. HIDE DEF u, r, n
  <2>. QED BY <1>3, <1>5, <1>6, <1>7 DEF PgView
<1>10. [PgView(s) EXCEPT ![i] = t] = [j \in 1 .. n |-> IF j = i THEN t ELSE Tx(q[j])]
  BY DEF PgView
<1>. HIDE DEF u, r, n
<1>. QED
  BY <1>3, <1>5, <1>8, <1>9, <1>10 DEF u, n

\* Adding a row.
LEMMA AddRowView ==
    ASSUME NEW s, PgOK(s), NEW t, TxOK(t)
    PROVE  /\ PgOK(AddRow(s, t))
           /\ PgView(AddRow(s, t)) = Append(PgView(s), t)
           /\ Len(AddRow(s, t).rows) = Len(s.rows) + 1
           /\ AddRow(s, t).events = s.events /\ AddRow(s, t).meta = s.meta
           /\ AddRow(s, t).accounts = s.accounts
<1>. DEFINE q == s.rows
            n == Len(q)
            r == Append(q, Row(t))
            u == AddRow(s, t)
<1>1. IsSeq(q) /\ n \in Nat
  BY DEF PgOK, IsSeq
<1>2. /\ IsSeq(r) /\ Len(r) = n + 1 /\ r[n + 1] = Row(t)
      /\ \A j \in 1 .. n : r[j] = q[j]
  BY <1>1, AppendSeq
<1>3. u \in [kind : {"postgres"}, rows : {r}, accounts : {s.accounts},
             meta : {s.meta}, events : {s.events}]
  BY DEF PgOK, AddRow
<1>4. u.rows = r /\ u.events = s.events /\ u.meta = s.meta /\ u.accounts = s.accounts
  BY <1>3
<1>5. RowOK(Row(t)) /\ Tx(Row(t)) = t
  BY RowTx
<1>6. \A j \in 1 .. n + 1 : j = n + 1 \/ j \in 1 .. n
  BY <1>1
<1>7. PgOK(u)
  <2>1. \A j \in 1 .. n : RowOK(q[j])
    BY DEF PgOK
  <2>. HIDE DEF u, r, q, n
  <2>. QED BY <1>2, <1>3, <1>4, <1>5, <1>6, <2>1 DEF PgOK
<1>8. PgView(u) = Append(PgView(s), t)
  <2>1. IsSeq(PgView(s)) /\ Len(PgView(s)) = n /\ \A j \in 1 .. n : PgView(s)[j] = Tx(q[j])
    BY ViewOf
  <2>. DEFINE w == Append(PgView(s), t)
  <2>2. /\ IsSeq(w) /\ Len(w) = n + 1 /\ w[n + 1] = t
        /\ \A j \in 1 .. n : w[j] = Tx(q[j])
    BY <2>1, AppendSeq
  <2>3. IsSeq(PgView(u)) /\ Len(PgView(u)) = n + 1
    BY <1>2, <1>4, <1>7, ViewOf
  <2>4. \A j \in 1 .. n + 1 : PgView(u)[j] = Tx(r[j])
    BY <1>2, <1>4, <1>7, ViewOf
  <2>. HIDE DEF u, r, q, n, w
  <2>5. \A j \in 1 .. n + 1 : PgView(u)[j] = w[j]
    BY <1>2, <1>5, <1>6, <2>2, <2>4
  <2>6. PgView(u) = w
    BY <2>2, <2>3, <2>5 DEF IsSeq
  <2>. QED BY <2>6 DEF w
<1>. HIDE DEF u, r, n
<1>. QED
  BY <1>2, <1>4, <1>7, <1>8 DEF u, n

-----------------------------------------------------------------------------
(* StoreTransaction on PostgreSQL.                                         *)

HasHash(t) == t.hash # ""
SameOutput(t, u) ==
    HasHash(t) /\ u.hash = t.hash /\ u.direction = t.direction /\ u.address = t.address

\* What is pending or cancelled is a request that was not broadcast.
Settled(t) == t.status > FullyConfirmedTransaction => ~HasHash(t) /\ t.id \in Ids

\* What is kept of the transactions in v: generated ids are positions, and ids
\* and outputs are told apart.
Kept(v) ==
    /\ \A i \in 1 .. Len(v) : v[i].id \in Ids \/ v[i].id = i
    /\ \A i, j \in 1 .. Len(v) : v[i].id = v[j].id => i = j
    /\ \A i, j \in 1 .. Len(v) : SameOutput(v[i], v[j]) => i = j
    /\ \A i \in 1 .. Len(v) : Settled(v[i])

\* The transaction at i is the one an update t belongs to.
Matches(v, t, i) ==
    \/ t.id # Nil /\ v[i].id = t.id
    \/ /\ t.id = Nil \/ \A j \in 1 .. Len(v) : v[j].id # t.id
       /\ SameOutput(t, v[i])

\* The query by id.
LEMMA FindById ==
    ASSUME NEW s, PgOK(s), NEW id
    PROVE  /\ PgGetTransactionByID(s, id) = << >>
                <=> \A i \in 1 .. Len(s.rows) : PgView(s)[i].id # id
           /\ PgGetTransactionByID(s, id) # << >> =>
                \E i \in 1 .. Len(s.rows) : /\ PgView(s)[i].id = id
                                            /\ PgGetTransactionByID(s, id)[1]
                                                 = Private(PgView(s)[i])
<1>. DEFINE l == <<"id", id>>
            q == RowsById(s.rows, id)
            n == Len(s.rows)
            a == PgAnswer(q)
<1>1. IsSeq(s.rows)
  BY DEF PgOK
<1>2. PICK steps : Course(l, << >>, s.rows, steps, q)
  BY <1>1, IdLoop
<1>3. l[1] \in QueryKinds
  BY DEF QueryKinds
<1>4. \A i \in 1 .. n : Test(l, s.rows[i]) <=> s.rows[i].id = id
  BY DEF Test
<1>. HIDE DEF q, l
<1>5. Chosen(l, s.rows, s.rows, n, q, q)
  BY <1>1, <1>2, <1>3, SelectedTogether
<1>6. PICK at \in [1 .. Len(q) -> 1 .. n] :
         /\ \A j \in 1 .. Len(q) : q[j] = s.rows[at[j]] /\ Test(l, s.rows[at[j]])
         /\ \A i \in 1 .. n : Test(l, s.rows[i]) => \E j \in 1 .. Len(q) : at[j] = i
  BY <1>5 DEF Chosen
<1>7. IsSeq(q) /\ Len(q) \in Nat
  BY <1>5 DEF Chosen, IsSeq
<1>8. \A i \in 1 .. n : PgView(s)[i] = Tx(s.rows[i]) /\ PgView(s)[i].id = s.rows[i].id
  BY ViewOf DEF Tx, transactionFromDatabaseRow
<1>9. /\ DOMAIN a = 1 .. Len(q)
      /\ \A j \in 1 .. Len(q) : a[j] = Private(Tx(q[j]))
  BY <1>7 DEF PgAnswer, IsSeq, Tx
<1>10. PgGetTransactionByID(s, id) = a
  BY Queries DEF q
<1>. HIDE DEF a, n
<1>11. CASE Len(q) = 0
  <2>1. a = << >>
    BY <1>7, <1>9, <1>11 DEF a, PgAnswer, IsSeq
  <2>2. \A i \in 1 .. n : s.rows[i].id # id
    BY <1>4, <1>6, <1>11
  <2>. QED BY <1>8, <1>10, <2>1, <2>2 DEF n
<1>12. CASE Len(q) # 0
  <2>1. 1 \in 1 .. Len(q)
    BY <1>7, <1>12
  <2>2. a # << >> /\ a[1] = Private(Tx(q[1]))
    BY <1>9, <2>1
  <2>3. at[1] \in 1 .. n /\ q[1] = s.rows[at[1]] /\ s.rows[at[1]].id = id
    BY <1>4, <1>6, <2>1
  <2>. QED BY <1>8, <1>10, <2>2, <2>3 DEF n
<1>. QED
  BY <1>11, <1>12

\* The query by output.
LEMMA FindByOutput ==
    ASSUME NEW s, PgOK(s), NEW t, TxOK(t), HasHash(t)
    PROVE  LET a == PgGetTransactionByHashDirectionAndAddress(s, t)
           IN /\ a = << >> <=> \A i \in 1 .. Len(s.rows) : ~SameOutput(t, PgView(s)[i])
              /\ a # << >> => \E i \in 1 .. Len(s.rows) :
                                SameOutput(t, PgView(s)[i]) /\ a[1] = Private(PgView(s)[i])
<1>. DEFINE l == <<"output", t>>
            q == RowsByOutput(s.rows, t)
            n == Len(s.rows)
            a == PgAnswer(q)
<1>1. IsSeq(s.rows)
  BY DEF PgOK
<1>2. PICK steps : Course(l, << >>, s.rows, steps, q)
  BY <1>1, OutputLoop
<1>3. l[1] \in QueryKinds
  BY DEF QueryKinds
<1>4. \A i \in 1 .. n : Test(l, s.rows[i]) <=> SameOutput(t, PgView(s)[i])
  <2>1. TAKE i \in 1 .. n
  <2>2. /\ PgView(s)[i].hash = s.rows[i].hash /\ PgView(s)[i].address = s.rows[i].address
        /\ s.rows[i].direction = DirectionString(PgView(s)[i].direction)
        /\ PgView(s)[i].direction \in 0 .. 2 /\ t.direction \in 0 .. 2
    <3>1. s.rows[i] = Row(PgView(s)[i]) /\ TxOK(PgView(s)[i])
      BY ViewOf
    <3>2. /\ Row(PgView(s)[i]).hash = PgView(s)[i].hash
          /\ Row(PgView(s)[i]).address = PgView(s)[i].address
          /\ Row(PgView(s)[i]).direction = DirectionString(PgView(s)[i].direction)
      BY DEF Row
    <3>3. PgView(s)[i].direction \in 0 .. 2 /\ t.direction \in 0 .. 2
      BY <3>1 DEF TxOK
    <3>. QED BY <3>1, <3>2, <3>3
  <2>3. DirectionString(t.direction) = DirectionString(PgView(s)[i].direction)
          <=> t.direction = PgView(s)[i].direction
    <3>. DEFINE d == t.direction
                e == PgView(s)[i].direction
    <3>1. d \in 0 .. 2 /\ e \in 0 .. 2
      BY <2>2
    <3>. HIDE DEF d, e
    <3>2. /\ TransactionDirectionFromString(DirectionString(d)).value = d
          /\ TransactionDirectionFromString(DirectionString(e)).value = e
      BY <3>1, DirectionText
    <3>3. DirectionString(d) = DirectionString(e) <=> d = e
      BY <3>2
    <3>. QED BY <3>3 DEF d, e
  <2>4. Test(l, s.rows[i]) <=> /\ s.rows[i].hash = t.hash
                               /\ s.rows[i].direction = DirectionString(t.direction)
                               /\ s.rows[i].address = t.address
    BY DEF Test
  <2>. QED BY <2>2, <2>3, <2>4 DEF SameOutput
<1>. HIDE DEF q, l
<1>5. Chosen(l, s.rows, s.rows, n, q, q)
  BY <1>1, <1>2, <1>3, SelectedTogether
<1>6. PICK at \in [1 .. Len(q) -> 1 .. n] :
         /\ \A j \in 1 .. Len(q) : q[j] = s.rows[at[j]] /\ Test(l, s.rows[at[j]])
         /\ \A i \in 1 .. n : Test(l, s.rows[i]) => \E j \in 1 .. Len(q) : at[j] = i
  BY <1>5 DEF Chosen
<1>7. IsSeq(q) /\ Len(q) \in Nat
  BY <1>5 DEF Chosen, IsSeq
<1>8. \A i \in 1 .. n : PgView(s)[i] = Tx(s.rows[i])
  BY ViewOf
<1>9. /\ DOMAIN a = 1 .. Len(q)
      /\ \A j \in 1 .. Len(q) : a[j] = Private(Tx(q[j]))
  BY <1>7 DEF PgAnswer, IsSeq, Tx
<1>10. PgGetTransactionByHashDirectionAndAddress(s, t) = a
  BY Queries DEF q
<1>. HIDE DEF a, n
<1>11. CASE Len(q) = 0
  <2>1. a = << >>
    BY <1>7, <1>9, <1>11 DEF a, PgAnswer, IsSeq
  <2>2. \A i \in 1 .. n : ~SameOutput(t, PgView(s)[i])
    BY <1>4, <1>6, <1>11
  <2>. QED BY <1>10, <2>1, <2>2 DEF n
<1>12. CASE Len(q) # 0
  <2>1. 1 \in 1 .. Len(q)
    BY <1>7, <1>12
  <2>2. a # << >> /\ a[1] = Private(Tx(q[1]))
    BY <1>9, <2>1
  <2>3. at[1] \in 1 .. n /\ q[1] = s.rows[at[1]] /\ SameOutput(t, PgView(s)[at[1]])
    BY <1>4, <1>6, <2>1
  <2>. QED BY <1>8, <1>10, <2>2, <2>3 DEF n
<1>. QED
  BY <1>11, <1>12


\* The results of StoreTransaction.
Updated(s, i, h) ==
    [s |-> SetRow(s, i, Update(PgView(s)[i], h.tx)),
     h |-> Private(Update(PgView(s)[i], h.tx)), own |-> h]
Inserted(s, h) ==
    [s |-> AddRow(s, WithId(h.tx, Len(s.rows) + 1)),
     h |-> Private(WithId(h.tx, Len(s.rows) + 1)),
     own |-> Private(WithId(h.tx, Len(s.rows) + 1))]

\* A transaction takes over what the node and the wallet know of it.
LEMMA UpdateTx ==
    ASSUME NEW t, TxOK(t), NEW u, TxOK(u)
    PROVE  /\ TxOK(Update(t, u))
           /\ Update(t, u).hash = u.hash /\ Update(t, u).status = u.status
           /\ Update(t, u).confirmations = u.confirmations
           /\ Update(t, u).id = t.id /\ Update(t, u).address = t.address
           /\ Update(t, u).direction = t.direction /\ Update(t, u).amount = t.amount
           /\ Update(t, u).fee = t.fee /\ Update(t, u).feeType = t.feeType
           /\ Update(t, u).cold = t.cold /\ Update(t, u).reported = t.reported
BY DEF Update, TxOK

\* A new transaction gets an id.
LEMMA WithIdTx ==
    ASSUME NEW t, TxOK(t), NEW n \in Nat
    PROVE  /\ TxOK(WithId(t, n)) /\ WithId(t, n).id = (IF t.id = Nil THEN n ELSE t.id)
           /\ WithId(t, n).hash = t.hash /\ WithId(t, n).status = t.status
           /\ WithId(t, n).confirmations = t.confirmations
           /\ WithId(t, n).address = t.address /\ WithId(t, n).direction = t.direction
           /\ WithId(t, n).amount = t.amount /\ WithId(t, n).fee = t.fee
           /\ WithId(t, n).feeType = t.feeType /\ WithId(t, n).cold = t.cold
           /\ WithId(t, n).reported = t.reported
BY DEF WithId, TxOK

\* The columns of a row.
LEMMA RowFields ==
    ASSUME NEW t
    PROVE  /\ Row(t) \in [id : {t.id}, hash : {t.hash}, confirmations : {t.confirmations},
                          address : {t.address}, direction : {DirectionString(t.direction)},
                          status : {StatusString(t.status)}, amount : {t.amount},
                          fee : {t.fee}, fee_type : {FeeTypeString(t.feeType)},
                          cold_storage : {t.cold}, reported_confirmations : {t.reported}]
           /\ Row(t).id = t.id
BY DEF Row

\* The UPDATE of one row.
LEMMA PgUpdateEffect ==
    ASSUME NEW s, PgOK(s), Kept(PgView(s)), NEW i \in 1 .. Len(s.rows),
           NEW h, TxOK(h.tx)
    PROVE  PgUpdate(s, Private(PgView(s)[i]), h) = Updated(s, i, h)
<1>. DEFINE v == PgView(s)
            n == Len(s.rows)
            t == Update(v[i], h.tx)
            row(j) == [s.rows[j] EXCEPT !.hash = h.tx.hash,
                                        !.confirmations = h.tx.confirmations,
                                        !.status = StatusString(h.tx.status)]
            rows == [j \in DOMAIN s.rows |->
                        IF s.rows[j].id # Private(v[i]).tx.id THEN s.rows[j] ELSE row(j)]
<1>1. /\ DOMAIN s.rows = 1 .. n /\ Len(v) = n
      /\ \A j \in 1 .. n : TxOK(v[j]) /\ s.rows[j] = Row(v[j])
  BY ViewOf
<1>2. \A j \in 1 .. n : s.rows[j].id = v[j].id
  <2>. HIDE DEF v
  <2>. QED BY <1>1, RowFields
<1>3. Private(v[i]).tx = v[i]
  BY DEF Private
<1>4. \A j \in 1 .. n : s.rows[j].id # v[i].id <=> j # i
  BY <1>1, <1>2 DEF Kept
<1>5. row(i) = Row(t)
  <2>1. TxOK(v[i]) /\ s.rows[i] = Row(v[i])
    BY <1>1
  <2>2. row(i) = [id |-> v[i].id, hash |-> h.tx.hash, confirmations |-> h.tx.confirmations,
                  address |-> v[i].address, direction |-> DirectionString(v[i].direction),
                  status |-> StatusString(h.tx.status), amount |-> v[i].amount,
                  fee |-> v[i].fee, fee_type |-> FeeTypeString(v[i].feeType),
                  cold_storage |-> v[i].cold, reported_confirmations |-> v[i].reported]
    <3>. DEFINE u == v[i]
                r == s.rows[i]
    <3>1. r \in [id : {u.id}, hash : {u.hash}, confirmations : {u.confirmations},
                 address : {u.address}, direction : {DirectionString(u.direction)},
                 status : {StatusString(u.status)}, amount : {u.amount},
                 fee : {u.fee}, fee_type : {FeeTypeString(u.feeType)},
                 cold_storage : {u.cold}, reported_confirmations : {u.reported}]
      BY <2>1, RowFields
    <3>. HIDE DEF u, r
    <3>. DEFINE w == [r EXCEPT !.hash = h.tx.hash, !.confirmations = h.tx.confirmations,
                               !.status = StatusString(h.tx.status)]
    <3>2. w \in [id : {u.id}, hash : {h.tx.hash}, confirmations : {h.tx.confirmations},
                 address : {u.address}, direction : {DirectionString(u.direction)},
                 status : {StatusString(h.tx.status)}, amount : {u.amount},
                 fee : {u.fee}, fee_type : {FeeTypeString(u.feeType)},
                 cold_storage : {u.cold}, reported_confirmations : {u.reported}]
      BY <3>1
    <3>. HIDE DEF w
    <3>3. w = [id |-> u.id, hash |-> h.tx.hash, confirmations |-> h.tx.confirmations,
               address |-> u.address, direction |-> DirectionString(u.direction),
               status |-> StatusString(h.tx.status), amount |-> u.amount,
               fee |-> u.fee, fee_type |-> FeeTypeString(u.feeType),
               cold_storage |-> u.cold, reported_confirmations |-> u.reported]
      BY <3>2
    <3>. QED BY <3>3 DEF u, r, w
  <2>3. /\ t.id = v[i].id /\ t.hash = h.tx.hash /\ t.confirmations = h.tx.confirmations
        /\ t.address = v[i].address /\ t.direction = v[i].direction
        /\ t.status = h.tx.status /\ t.amount = v[i].amount /\ t.fee = v[i].fee
        /\ t.feeType = v[i].feeType /\ t.cold = v[i].cold /\ t.reported = v[i].reported
    BY <2>1, UpdateTx
  <2>. HIDE DEF t, v
  <2>. QED BY <2>2, <2>3 DEF Row
<1>6. rows = [s.rows EXCEPT ![i] = Row(t)]
  <2>. HIDE DEF t, v
  <2>. QED BY <1>1, <1>3, <1>4, <1>5
<1>7. PgUpdate(s, Private(v[i]), h)
        = [s |-> [s EXCEPT !.rows = rows], h |-> Private(Update(Private(v[i]).tx, h.tx)),
           own |-> h]
  BY DEF PgUpdate
<1>8. [s EXCEPT !.rows = rows] = SetRow(s, i, t)
  <2>. HIDE DEF t, rows
  <2>. QED BY <1>6 DEF SetRow
<1>. QED
  BY <1>3, <1>7, <1>8 DEF Updated

\* What StoreTransaction finds.
FoundFor(s, t) ==
    LET byId == IF t.id # Nil THEN PgGetTransactionByID(s, t.id) ELSE << >>
    IN IF byId = << >> /\ HasHash(t)
         THEN PgGetTransactionByHashDirectionAndAddress(s, t) ELSE byId

\* StoreTransaction on PostgreSQL, with the choice of the storage made.
LEMMA StoreUnfolds ==
    ASSUME NEW s, IsPg(s), NEW h
    PROVE  StoreTransaction(s, h)
             = IF FoundFor(s, h.tx) # << >> THEN PgUpdate(s, FoundFor(s, h.tx)[1], h)
               ELSE PgInsert(s, h)
<1>1. GetTransactionByID(s, h.tx.id) = PgGetTransactionByID(s, h.tx.id)
  BY DEF GetTransactionByID
<1>2. GetTransactionByHashDirectionAndAddress(s, h.tx)
        = PgGetTransactionByHashDirectionAndAddress(s, h.tx)
  BY DEF GetTransactionByHashDirectionAndAddress
<1>. QED
  BY <1>1, <1>2, Zenon DEF StoreTransaction, UpdateOrInsert, FoundByHash, FoundById, HasHash, FoundFor

\* StoreTransaction updates the row it belongs to.
LEMMA PgStoreFound ==
    ASSUME NEW s, PgOK(s), Kept(PgView(s)), NEW h, TxOK(h.tx),
           NEW i \in 1 .. Len(s.rows), Matches(PgView(s), h.tx, i)
    PROVE  StoreTransaction(s, h) = Updated(s, i, h)
<1>. DEFINE v == PgView(s)
            t == h.tx
            byId == IF t.id # Nil THEN PgGetTransactionByID(s, t.id) ELSE << >>
            found == FoundFor(s, t)
<1>1. found = IF byId = << >> /\ HasHash(t)
                THEN PgGetTransactionByHashDirectionAndAddress(s, t) ELSE byId
  BY DEF FoundFor
<1>2. StoreTransaction(s, h) = IF found # << >> THEN PgUpdate(s, found[1], h) ELSE PgInsert(s, h)
  BY StoreUnfolds DEF PgOK, IsPg
<1>. HIDE DEF found
<1>3. Len(v) = Len(s.rows)
  BY ViewOf
<1>4. found # << >> /\ found[1] = Private(v[i])
  <2>1. CASE t.id # Nil /\ v[i].id = t.id
    <3>1. byId = PgGetTransactionByID(s, t.id)
      BY <2>1
    <3>2. PgGetTransactionByID(s, t.id) # << >>
      BY <2>1, FindById
    <3>3. PICK j \in 1 .. Len(s.rows) :
            v[j].id = t.id /\ PgGetTransactionByID(s, t.id)[1] = Private(v[j])
      BY <3>2, FindById
    <3>4. j = i
      BY <1>3, <2>1, <3>3 DEF Kept
    <3>. HIDE DEF v, t
    <3>. QED BY <1>1, <3>1, <3>2, <3>3, <3>4
  <2>2. CASE (t.id = Nil \/ \A j \in 1 .. Len(v) : v[j].id # t.id) /\ SameOutput(t, v[i])
    <3>1. byId = << >>
      BY <1>3, <2>2, FindById
    <3>2. HasHash(t)
      BY <2>2 DEF SameOutput
    <3>. DEFINE a == PgGetTransactionByHashDirectionAndAddress(s, t)
    <3>3. found = a
      <4>. HIDE DEF byId, a
      <4>. QED BY <1>1, <3>1, <3>2 DEF a
    <3>4. a # << >> /\ \E j \in 1 .. Len(s.rows) : SameOutput(t, v[j]) /\ a[1] = Private(v[j])
      BY <2>2, <3>2, FindByOutput
    <3>5. PICK j \in 1 .. Len(s.rows) : SameOutput(t, v[j]) /\ a[1] = Private(v[j])
      BY <3>4
    <3>6. SameOutput(v[i], v[j])
      BY <2>2, <3>5 DEF SameOutput, HasHash
    <3>7. j = i
      BY <1>3, <3>6 DEF Kept
    <3>. HIDE DEF v, t, a
    <3>. QED BY <3>3, <3>4, <3>5, <3>7
  <2>. QED BY <2>1, <2>2 DEF Matches
<1>. QED
  BY <1>2, <1>4, PgUpdateEffect

\* StoreTransaction inserts a row if there is none.
LEMMA PgStoreNew ==
    ASSUME NEW s, PgOK(s), NEW h, TxOK(h.tx),
           \A i \in 1 .. Len(s.rows) : ~Matches(PgView(s), h.tx, i)
    PROVE  StoreTransaction(s, h) = Inserted(s, h)
<1>. DEFINE v == PgView(s)
            t == h.tx
            byId == IF t.id # Nil THEN PgGetTransactionByID(s, t.id) ELSE << >>
            found == FoundFor(s, t)
<1>1. found = IF byId = << >> /\ HasHash(t)
                THEN PgGetTransactionByHashDirectionAndAddress(s, t) ELSE byId
  BY DEF FoundFor
<1>2. StoreTransaction(s, h) = IF found # << >> THEN PgUpdate(s, found[1], h) ELSE PgInsert(s, h)
  BY StoreUnfolds DEF PgOK, IsPg
<1>. HIDE DEF found
<1>3. Len(v) = Len(s.rows)
  BY ViewOf
<1>4. t.id # Nil => \A i \in 1 .. Len(s.rows) : v[i].id # t.id
  BY DEF Matches
<1>5. byId = << >>
  BY <1>4, FindById
<1>6. \A i \in 1 .. Len(s.rows) : ~SameOutput(t, v[i])
  BY <1>3, <1>4 DEF Matches
<1>7. HasHash(t) => PgGetTransactionByHashDirectionAndAddress(s, t) = << >>
  BY <1>6, FindByOutput
<1>8. found = << >>
  <2>. HIDE DEF byId
  <2>. QED BY <1>1, <1>5, <1>7
<1>9. StoreTransaction(s, h) = PgInsert(s, h)
  BY <1>2, <1>8
<1>10. Private(WithId(h.tx, Len(s.rows) + 1)).tx = WithId(h.tx, Len(s.rows) + 1)
  BY DEF Private
<1>. QED
  BY <1>9, <1>10 DEF PgInsert, Inserted, AddRow

-----------------------------------------------------------------------------
(* What a call may do to the transactions.                                 *)

\* A generated id is not the id of a request.
LEMMA NumbersApart == \A n \in Nat : n \notin Ids
<1>1. Ids \cap Nat = {}
  BY StoragesAssumption, Zenon
<1>. QED
  BY <1>1

\* u is what t may have become.
Goes(t, u) ==
    /\ u.id = t.id /\ u.address = t.address /\ u.direction = t.direction
    /\ u.amount = t.amount /\ u.fee = t.fee /\ u.feeType = t.feeType /\ u.cold = t.cold
    /\ HasHash(t) => u.hash = t.hash
    /\ t.reported <= u.reported

Grown(v, w) == Len(v) <= Len(w) /\ \A i \in 1 .. Len(v) : Goes(v[i], w[i])

\* Transactions with integer reports do not lose anything by staying.
LEMMA GrownSame ==
    ASSUME NEW v, IsSeq(v), \A i \in 1 .. Len(v) : TxOK(v[i])
    PROVE  Grown(v, v)
<1>1. \A i \in 1 .. Len(v) : v[i].reported \in Int
  BY DEF TxOK
<1>2. \A i \in 1 .. Len(v) : v[i].reported <= v[i].reported
  BY <1>1
<1>3. Len(v) <= Len(v)
  BY DEF IsSeq
<1>. QED
  BY <1>2, <1>3 DEF Grown, Goes

\* Growing step by step.
LEMMA GrownTwice ==
    ASSUME NEW u, IsSeq(u), NEW v, IsSeq(v), NEW w, IsSeq(w),
           \A i \in 1 .. Len(u) : TxOK(u[i]), \A i \in 1 .. Len(v) : TxOK(v[i]),
           \A i \in 1 .. Len(w) : TxOK(w[i]),
           Grown(u, v), Grown(v, w)
    PROVE  Grown(u, w)
<1>1. Len(u) \in Nat /\ Len(v) \in Nat /\ Len(w) \in Nat /\ Len(u) <= Len(v) /\ Len(v) <= Len(w)
  BY DEF IsSeq, Grown
<1>2. Len(u) <= Len(w) /\ \A i \in 1 .. Len(u) : i \in 1 .. Len(v) /\ i \in 1 .. Len(w)
  BY ONLY <1>1
<1>3. ASSUME NEW i \in 1 .. Len(u) PROVE Goes(u[i], w[i])
  <2>1. Goes(u[i], v[i]) /\ Goes(v[i], w[i])
    BY <1>2 DEF Grown
  <2>2. u[i].reported \in Int /\ v[i].reported \in Int /\ w[i].reported \in Int
    BY <1>2 DEF TxOK
  <2>3. u[i].reported <= v[i].reported /\ v[i].reported <= w[i].reported
    BY <2>1 DEF Goes
  <2>4. u[i].reported <= w[i].reported
    BY ONLY <2>2, <2>3
  <2>. QED BY <2>1, <2>4 DEF Goes, HasHash
<1>. QED
  BY <1>2, <1>3 DEF Grown

\* A transaction takes a new state that fits.
LEMMA KeptSet ==
    ASSUME NEW v, IsSeq(v), Kept(v), NEW i \in 1 .. Len(v), NEW t,
           t.id = v[i].id, t.address = v[i].address, t.direction = v[i].direction,
           HasHash(v[i]) => t.hash = v[i].hash,
           HasHash(t) /\ ~HasHash(v[i]) => \A j \in 1 .. Len(v) : v[j].hash # t.hash,
           Settled(t)
    PROVE  /\ IsSeq([v EXCEPT ![i] = t]) /\ Len([v EXCEPT ![i] = t]) = Len(v)
           /\ Kept([v EXCEPT ![i] = t])
<1>. DEFINE w == [v EXCEPT ![i] = t]
            n == Len(v)
<1>1. n \in Nat /\ DOMAIN v = 1 .. n /\ v = [j \in 1 .. n |-> v[j]]
  BY DEF IsSeq
<1>2. DOMAIN w = 1 .. n /\ w = [j \in 1 .. n |-> w[j]]
  BY <1>1
<1>3. IsSeq(w) /\ Len(w) = n
  <2>. HIDE DEF w, n
  <2>. QED BY <1>1, <1>2, LenOf
<1>4. w[i] = t /\ \A j \in 1 .. n : j # i => w[j] = v[j]
  BY <1>1
<1>. HIDE DEF w, n
<1>5. i \in 1 .. n
  BY DEF n
<1>6. \A j \in 1 .. n : /\ w[j].id = v[j].id /\ w[j].address = v[j].address
                        /\ w[j].direction = v[j].direction
  BY <1>4
<1>7. \A j \in 1 .. n : w[j].id \in Ids \/ w[j].id = j
  BY <1>6 DEF Kept, n
<1>8. \A j, k \in 1 .. n : w[j].id = w[k].id => j = k
  BY <1>6 DEF Kept, n
<1>9. ASSUME NEW j \in 1 .. n, NEW k \in 1 .. n, SameOutput(w[j], w[k]) PROVE j = k
  <2>1. /\ HasHash(w[j]) /\ HasHash(w[k]) /\ w[k].hash = w[j].hash
        /\ v[k].direction = v[j].direction /\ v[k].address = v[j].address
    BY <1>6, <1>9 DEF SameOutput, HasHash
  <2>2. CASE HasHash(v[j]) /\ HasHash(v[k])
    <3>1. v[j].hash = w[j].hash /\ v[k].hash = w[k].hash
      BY <1>4, <2>2
    <3>2. SameOutput(v[j], v[k])
      BY <2>1, <2>2, <3>1 DEF SameOutput
    <3>. QED BY <3>2 DEF Kept, n
  <2>3. CASE ~HasHash(v[j]) \/ ~HasHash(v[k])
    <3>1. SUFFICES ASSUME j # k PROVE FALSE
      OBVIOUS
    <3>2. CASE ~HasHash(v[j])
      <4>1. j = i /\ ~HasHash(v[i]) /\ HasHash(t)
        BY <1>4, <2>1, <3>2
      <4>2. v[k].hash # t.hash
        BY <4>1 DEF n
      <4>. QED BY <1>4, <2>1, <3>1, <4>1, <4>2
    <3>3. CASE ~HasHash(v[k])
      <4>1. k = i /\ ~HasHash(v[i]) /\ HasHash(t)
        BY <1>4, <2>1, <3>3
      <4>2. v[j].hash # t.hash
        BY <4>1 DEF n
      <4>. QED BY <1>4, <2>1, <3>1, <4>1, <4>2
    <3>. QED BY <2>3, <3>2, <3>3
  <2>. QED BY <2>2, <2>3
<1>10. \A j \in 1 .. n : Settled(w[j])
  BY <1>4 DEF Kept, n
<1>11. Kept(w)
  BY <1>3, <1>7, <1>8, <1>9, <1>10 DEF Kept
<1>. QED
  BY <1>3, <1>11 DEF w, n

\* A transaction is added.
LEMMA KeptAdd ==
    ASSUME NEW v, IsSeq(v), Kept(v), NEW t,
           t.id = Len(v) + 1 \/ (t.id \in Ids /\ \A j \in 1 .. Len(v) : v[j].id # t.id),
           \A j \in 1 .. Len(v) : ~SameOutput(t, v[j]),
           Settled(t)
    PROVE  /\ IsSeq(Append(v, t)) /\ Len(Append(v, t)) = Len(v) + 1
           /\ Kept(Append(v, t))
<1>. DEFINE w == Append(v, t)
            n == Len(v)
<1>1. n \in Nat
  BY DEF IsSeq
<1>2. /\ IsSeq(w) /\ Len(w) = n + 1 /\ w[n + 1] = t
      /\ \A j \in 1 .. n : w[j] = v[j]
  BY AppendSeq
<1>. HIDE DEF w, n
<1>3. \A j \in 1 .. n + 1 : j = n + 1 \/ j \in 1 .. n
  BY <1>1
<1>4. \A j \in 1 .. n : v[j].id \in Ids \/ v[j].id = j
  BY DEF Kept, n
<1>5. \A j \in 1 .. n : v[j].id # t.id
  <2>1. CASE t.id = n + 1
    <3>1. \A j \in 1 .. n : j # n + 1
      BY <1>1
    <3>2. n + 1 \in Nat /\ n + 1 \notin Ids
      BY <1>1, NumbersApart
    <3>. QED BY <1>4, <2>1, <3>1, <3>2
  <2>2. CASE t.id # n + 1
    BY <2>2 DEF n
  <2>. QED BY <2>1, <2>2
<1>6. \A j \in 1 .. n + 1 : w[j].id \in Ids \/ w[j].id = j
  BY <1>2, <1>3, <1>4 DEF n
<1>7. \A j, k \in 1 .. n + 1 : w[j].id = w[k].id => j = k
  <2>1. \A j, k \in 1 .. n : v[j].id = v[k].id => j = k
    BY DEF Kept, n
  <2>. QED BY <1>2, <1>3, <1>5, <2>1
<1>8. \A j, k \in 1 .. n + 1 : SameOutput(w[j], w[k]) => j = k
  <2>1. \A j, k \in 1 .. n : SameOutput(v[j], v[k]) => j = k
    BY DEF Kept, n
  <2>2. \A j \in 1 .. n : ~SameOutput(t, v[j]) /\ ~SameOutput(v[j], t)
    BY DEF SameOutput, HasHash, n
  <2>. QED BY <1>2, <1>3, <2>1, <2>2
<1>9. \A j \in 1 .. n + 1 : Settled(w[j])
  <2>1. \A j \in 1 .. n : Settled(v[j])
    BY DEF Kept, n
  <2>. QED BY <1>2, <1>3, <2>1
<1>10. Kept(w)
  BY <1>2, <1>6, <1>7, <1>8, <1>9 DEF Kept
<1>. QED
  BY <1>2, <1>10 DEF w, n

-----------------------------------------------------------------------------
(* StoreTransaction keeps the table.                                       *)

\* A storage all of whose hashes are in H.
PgGood(s, H) ==
    /\ PgOK(s) /\ Kept(PgView(s))
    /\ \A i \in 1 .. Len(s.rows) : PgView(s)[i].hash \in H

\* A transaction that may be stored: it is new or has a row, a row of its id has
\* its hash or gets one that no row has, and what is pending was not broadcast.
Fits(v, t) ==
    /\ t.id \in Ids \/ t.id = Nil \/ \E i \in 1 .. Len(v) : v[i].id = t.id
    /\ \A i \in 1 .. Len(v) : t.id # Nil /\ v[i].id = t.id =>
         /\ HasHash(v[i]) => t.hash = v[i].hash
         /\ HasHash(t) /\ ~HasHash(v[i]) => \A j \in 1 .. Len(v) : v[j].hash # t.hash
    /\ Settled(t)

\* The table after StoreTransaction.
LEMMA PgStoreKeeps ==
    ASSUME NEW H, NEW s, PgGood(s, H), NEW h, h = Private(h.tx), TxOK(h.tx),
           h.tx.hash \in H, Fits(PgView(s), h.tx), NEW r, r = StoreTransaction(s, h)
    PROVE  /\ PgGood(r.s, H) /\ Grown(PgView(s), PgView(r.s))
           /\ \A i \in 1 .. Len(s.rows) : PgView(r.s)[i].reported = PgView(s)[i].reported
           /\ r.h = Private(r.h.tx) /\ TxOK(r.h.tx)
           /\ \E i \in 1 .. Len(r.s.rows) : PgView(r.s)[i] = r.h.tx
           /\ \/ r.own = h /\ Len(r.s.rows) = Len(s.rows)
              \/ r.own = r.h /\ r.h.tx = WithId(h.tx, Len(s.rows) + 1)
           /\ r.h.tx.hash = h.tx.hash /\ r.h.tx.status = h.tx.status
           /\ r.h.tx.confirmations = h.tx.confirmations
           /\ \/ r.h.tx.id = h.tx.id \/ h.tx.id = Nil
              \/ \E i \in 1 .. Len(s.rows) : SameOutput(h.tx, PgView(s)[i])
           /\ (\E i \in 1 .. Len(s.rows) : h.tx.id # Nil /\ PgView(s)[i].id = h.tx.id) =>
                /\ Len(r.s.rows) = Len(s.rows)
                /\ \A i \in 1 .. Len(s.rows) : PgView(s)[i].id # h.tx.id
                                               => PgView(r.s)[i] = PgView(s)[i]
           /\ r.s.events = s.events /\ r.s.meta = s.meta /\ r.s.accounts = s.accounts
<1>. DEFINE v == PgView(s)
            n == Len(s.rows)
            t == h.tx
<1>0. PgOK(s) /\ Kept(v) /\ \A i \in 1 .. n : v[i].hash \in H
  BY DEF PgGood
<1>1. IsSeq(v) /\ Len(v) = n /\ n \in Nat /\ \A i \in 1 .. n : TxOK(v[i])
  BY <1>0, ViewOf
<1>2. \A u : Private(u).tx = u
  BY DEF Private
<1>3. ASSUME NEW i \in 1 .. n, Matches(v, t, i)
      PROVE  /\ PgGood(r.s, H) /\ Grown(v, PgView(r.s))
             /\ \A j \in 1 .. n : PgView(r.s)[j].reported = v[j].reported
             /\ r.h = Private(r.h.tx) /\ TxOK(r.h.tx)
             /\ \E j \in 1 .. Len(r.s.rows) : PgView(r.s)[j] = r.h.tx
             /\ r.own = h /\ Len(r.s.rows) = Len(s.rows)
             /\ r.h.tx.hash = t.hash /\ r.h.tx.status = t.status
             /\ r.h.tx.confirmations = t.confirmations
             /\ r.h.tx.id = t.id \/ t.id = Nil \/ SameOutput(t, v[i])
             /\ \A j \in 1 .. n : t.id # Nil /\ v[j].id = t.id => j = i
             /\ \A j \in 1 .. n : j # i => PgView(r.s)[j] = v[j]
             /\ r.s.events = s.events /\ r.s.meta = s.meta /\ r.s.accounts = s.accounts
  <2>. DEFINE u == Update(v[i], t)
              w == [v EXCEPT ![i] = u]
  <2>1. r = Updated(s, i, h)
    BY <1>0, <1>3, PgStoreFound
  <2>2. r.s = SetRow(s, i, u) /\ r.h = Private(u) /\ r.own = h
    BY <2>1 DEF Updated
  <2>3. /\ TxOK(u) /\ u.hash = t.hash /\ u.status = t.status /\ u.id = v[i].id
        /\ u.confirmations = t.confirmations
        /\ u.address = v[i].address /\ u.direction = v[i].direction
        /\ u.amount = v[i].amount /\ u.fee = v[i].fee /\ u.feeType = v[i].feeType
        /\ u.cold = v[i].cold /\ u.reported = v[i].reported
    BY <1>1, UpdateTx
  <2>. HIDE DEF u, v
  <2>4. /\ PgOK(r.s) /\ PgView(r.s) = w /\ Len(r.s.rows) = n
        /\ r.s.events = s.events /\ r.s.meta = s.meta /\ r.s.accounts = s.accounts
    BY <1>0, <2>2, <2>3, SetRowView DEF v
  <2>5. /\ HasHash(v[i]) => u.hash = v[i].hash
        /\ HasHash(u) /\ ~HasHash(v[i]) => \A j \in 1 .. Len(v) : v[j].hash # u.hash
    <3>1. CASE t.id # Nil /\ v[i].id = t.id
      BY <1>1, <2>3, <3>1 DEF Fits, HasHash, v
    <3>2. CASE SameOutput(t, v[i])
      BY <2>3, <3>2 DEF SameOutput, HasHash
    <3>. QED BY <1>3, <3>1, <3>2 DEF Matches
  <2>6. Settled(u)
    <3>1. t.id \in Ids => t.id # Nil
      BY NumbersApart DEF Nil
    <3>. QED BY <1>3, <2>3, <3>1 DEF Fits, Settled, HasHash, Matches, SameOutput
  <2>7. i \in 1 .. Len(v)
    BY <1>1
  <2>8. IsSeq(w) /\ Len(w) = n /\ Kept(w)
    <3>. HIDE DEF w, n
    <3>. QED BY <1>0, <1>1, <2>3, <2>5, <2>6, <2>7, KeptSet DEF w
  <2>9. w[i] = u /\ \A j \in 1 .. n : j # i => w[j] = v[j]
    BY <1>1 DEF IsSeq
  <2>. HIDE DEF w
  <2>10. \A j \in 1 .. n : w[j].hash \in H
    BY <1>0, <2>3, <2>9
  <2>11. \A j \in 1 .. n : v[j].reported \in Int
    BY <1>1 DEF TxOK
  <2>12. Goes(v[i], u)
    <3>1. v[i].reported <= u.reported
      BY <2>3, <2>11
    <3>. QED BY <2>3, <2>5, <3>1 DEF Goes
  <2>13. \A j \in 1 .. n : Goes(v[j], v[j])
    <3>1. \A j \in 1 .. n : v[j].reported <= v[j].reported
      BY <2>11
    <3>. QED BY <3>1 DEF Goes
  <2>14. Grown(v, w)
    <3>1. Len(v) <= Len(w)
      BY <1>1, <2>8
    <3>. QED BY <1>1, <2>9, <2>12, <2>13, <3>1 DEF Grown
  <2>15. PgGood(r.s, H)
    BY <2>4, <2>8, <2>10 DEF PgGood
  <2>16. r.h.tx = u
    BY <1>2, <2>2
  <2>17. \A j \in 1 .. n : w[j].reported = v[j].reported
    BY <2>3, <2>9
  <2>18. \A j \in 1 .. n : t.id # Nil /\ v[j].id = t.id => j = i
    BY <1>0, <1>1, <1>3 DEF Kept, Matches
  <2>19. u.id = t.id \/ t.id = Nil \/ SameOutput(t, v[i])
    BY <1>3, <2>3 DEF Matches
  <2>. QED BY <1>3, <2>2, <2>3, <2>4, <2>9, <2>14, <2>15, <2>16, <2>17, <2>18, <2>19
<1>4. ASSUME \A i \in 1 .. n : ~Matches(v, t, i)
      PROVE  /\ PgGood(r.s, H) /\ Grown(v, PgView(r.s))
             /\ \A j \in 1 .. n : PgView(r.s)[j].reported = v[j].reported
             /\ r.h = Private(r.h.tx) /\ TxOK(r.h.tx)
             /\ \E j \in 1 .. Len(r.s.rows) : PgView(r.s)[j] = r.h.tx
             /\ r.own = r.h /\ r.h.tx = WithId(t, n + 1)
             /\ r.h.tx.hash = t.hash /\ r.h.tx.status = t.status
             /\ r.h.tx.confirmations = t.confirmations
             /\ r.h.tx.id = t.id \/ t.id = Nil
             /\ \A j \in 1 .. n : t.id = Nil \/ v[j].id # t.id
             /\ r.s.events = s.events /\ r.s.meta = s.meta /\ r.s.accounts = s.accounts
  <2>. DEFINE u == WithId(t, n + 1)
              w == Append(v, u)
  <2>1. r = Inserted(s, h)
    BY <1>0, <1>4, PgStoreNew
  <2>2. r.s = AddRow(s, u) /\ r.h = Private(u) /\ r.own = Private(u)
    BY <2>1 DEF Inserted
  <2>3. n + 1 \in Nat
    BY <1>1
  <2>4. /\ TxOK(u) /\ u.id = (IF t.id = Nil THEN n + 1 ELSE t.id) /\ u.hash = t.hash
        /\ u.status = t.status /\ u.address = t.address /\ u.direction = t.direction
        /\ u.confirmations = t.confirmations
    BY <2>3, WithIdTx
  <2>. HIDE DEF u, v
  <2>5. /\ PgOK(r.s) /\ PgView(r.s) = w /\ Len(r.s.rows) = n + 1
        /\ r.s.events = s.events /\ r.s.meta = s.meta /\ r.s.accounts = s.accounts
    BY <1>0, <2>2, <2>4, AddRowView DEF v
  <2>6. t.id # Nil => \A i \in 1 .. n : v[i].id # t.id
    BY <1>4 DEF Matches
  <2>7. \A i \in 1 .. n : ~SameOutput(t, v[i])
    BY <1>1, <1>4, <2>6 DEF Matches
  <2>8. \A i \in 1 .. Len(v) : ~SameOutput(u, v[i])
    BY <1>1, <2>4, <2>7 DEF SameOutput, HasHash
  <2>9. u.id = Len(v) + 1 \/ (u.id \in Ids /\ \A j \in 1 .. Len(v) : v[j].id # u.id)
    <3>1. CASE t.id = Nil
      BY <1>1, <2>4, <3>1
    <3>2. CASE t.id # Nil
      <4>1. t.id \in Ids
        BY <1>1, <2>6, <3>2 DEF Fits, v
      <4>. QED BY <1>1, <2>4, <2>6, <3>2, <4>1
    <3>. QED BY <3>1, <3>2
  <2>10. Settled(u)
    <3>1. t.id \in Ids => t.id # Nil
      BY NumbersApart DEF Nil
    <3>. QED BY <2>4, <3>1 DEF Fits, Settled, HasHash
  <2>11. IsSeq(w) /\ Len(w) = n + 1 /\ Kept(w)
    <3>. HIDE DEF n
    <3>. QED BY <1>0, <1>1, <2>8, <2>9, <2>10, KeptAdd
  <2>12. w[n + 1] = u /\ \A j \in 1 .. n : w[j] = v[j]
    BY <1>1, AppendSeq
  <2>. HIDE DEF w
  <2>13. \A j \in 1 .. n + 1 : j = n + 1 \/ j \in 1 .. n
    BY <1>1
  <2>14. \A j \in 1 .. n + 1 : w[j].hash \in H
    BY <1>0, <2>4, <2>12, <2>13
  <2>15. \A j \in 1 .. n : Goes(v[j], w[j])
    <3>1. \A j \in 1 .. n : v[j].reported \in Int
      BY <1>1 DEF TxOK
    <3>2. \A j \in 1 .. n : v[j].reported <= v[j].reported
      BY <3>1
    <3>. QED BY <2>12, <3>2 DEF Goes
  <2>16. Grown(v, w)
    <3>1. Len(v) <= Len(w)
      BY <1>1, <2>11
    <3>. QED BY <1>1, <2>15, <3>1 DEF Grown
  <2>17. PgGood(r.s, H)
    BY <2>5, <2>11, <2>14 DEF PgGood
  <2>18. r.h.tx = u /\ u = WithId(t, n + 1)
    BY <1>2, <2>2 DEF u
  <2>19. n + 1 \in 1 .. n + 1
    BY <2>3
  <2>. QED BY <2>2, <2>4, <2>5, <2>6, <2>12, <2>16, <2>17, <2>18, <2>19
<1>. HIDE DEF v, n, t
<1>5. CASE \E i \in 1 .. n : Matches(v, t, i)
  <2>1. PICK i \in 1 .. n : Matches(v, t, i)
    BY <1>5
  <2>2. (\E j \in 1 .. n : t.id # Nil /\ v[j].id = t.id)
          => \A j \in 1 .. n : v[j].id # t.id => PgView(r.s)[j] = v[j]
    BY <1>3, <2>1
  <2>. QED BY <1>3, <2>1, <2>2 DEF v, n, t
<1>6. CASE \A i \in 1 .. n : ~Matches(v, t, i)
  BY <1>4, <1>6 DEF v, n, t
<1>. QED
  BY <1>5, <1>6

-----------------------------------------------------------------------------
(* Events and reports.                                                     *)

\* What only the metadata's and the accounts' own calls change.
Beside(s, r) == r.meta = s.meta /\ r.accounts = s.accounts

\* t is what u was when it was reported.
Names(t, u) ==
    /\ u.id = t.id /\ u.address = t.address /\ u.direction = t.direction
    /\ u.amount = t.amount /\ u.fee = t.fee /\ u.feeType = t.feeType /\ u.cold = t.cold
    /\ HasHash(t) => u.hash = t.hash

About(t, v) == \E i \in 1 .. Len(v) : Names(t, v[i])

\* A row of the events table.
EventRow(n, type, data) == [seq |-> n, type |-> EventTypeString(type), data |-> data]

\* The event with the number n names an account or a transaction of the storage.
EventOK(e, n, s) ==
    \/ \E a \in s.accounts : e = EventRow(n, NewAddressEvent, a)
    \/ \E type \in 1 .. 6 : \E t :
          /\ TxOK(t) /\ About(t, PgView(s))
          /\ e = EventRow(n, type, MarshalNotification(TxNotification(t)))

EventsKept(s) ==
    IsSeq(s.events) /\ \A n \in 1 .. Len(s.events) : EventOK(s.events[n], n, s)

\* From s to r the events stay true.
Tells(s, r) == EventsKept(s) => EventsKept(r)

\* An event leaves the rows alone.
LEMMA NotifyRows ==
    ASSUME NEW s, PgOK(s), NEW type, NEW data, NEW r, r = Notify(s, type, data)
    PROVE  /\ PgOK(r) /\ r.rows = s.rows /\ PgView(r) = PgView(s) /\ Beside(s, r)
           /\ r.events = Append(s.events, EventRow(Len(s.events) + 1, type,
                 IF type = NewAddressEvent THEN data ELSE MarshalNotification(data)))
<1>. DEFINE e == [seq |-> Len(s.events) + 1, type |-> EventTypeString(type),
                  data |-> IF type = NewAddressEvent THEN data
                           ELSE MarshalNotification(data)]
<1>1. r = [s EXCEPT !.events = Append(s.events, e)]
  BY DEF Notify, PgStoreEvent, PgOK, IsPg
<1>. HIDE DEF e
<1>2. r \in [kind : {"postgres"}, rows : {s.rows}, accounts : {s.accounts},
             meta : {s.meta}, events : {Append(s.events, e)}]
  BY <1>1 DEF PgOK
<1>3. /\ r.rows = s.rows /\ r.meta = s.meta /\ r.accounts = s.accounts
      /\ r.events = Append(s.events, e)
      /\ r \in [kind : {"postgres"}, rows : {r.rows}, accounts : {r.accounts},
             meta : {r.meta}, events : {r.events}]
  BY <1>2
<1>4. PgOK(r)
  BY <1>3 DEF PgOK
<1>5. r.events = Append(s.events, EventRow(Len(s.events) + 1, type,
                 IF type = NewAddressEvent THEN data ELSE MarshalNotification(data)))
  BY <1>3 DEF e, EventRow
<1>. QED
  BY <1>3, <1>4, <1>5 DEF PgView, Beside

\* A transaction stays what it was reported as.
LEMMA AboutGrown ==
    ASSUME NEW v, IsSeq(v), NEW w, IsSeq(w), Grown(v, w), NEW t, About(t, v)
    PROVE  About(t, w)
<1>1. PICK i \in 1 .. Len(v) : Names(t, v[i])
  BY DEF About
<1>2. i \in 1 .. Len(w) /\ Goes(v[i], w[i])
  BY DEF Grown, IsSeq
<1>3. Names(t, w[i])
  BY <1>1, <1>2 DEF Names, Goes, HasHash
<1>. QED
  BY <1>2, <1>3 DEF About

\* What is true of the events stays true while the table grows.
LEMMA TellsGrown ==
    ASSUME NEW s, PgOK(s), NEW r, PgOK(r), Grown(PgView(s), PgView(r)),
           r.events = s.events, s.accounts \subseteq r.accounts
    PROVE  Tells(s, r)
<1>1. IsSeq(PgView(s)) /\ IsSeq(PgView(r))
  BY ViewOf
<1>2. \A t : About(t, PgView(s)) => About(t, PgView(r))
  BY <1>1, AboutGrown
<1>3. \A e, n : EventOK(e, n, s) => EventOK(e, n, r)
  BY <1>2 DEF EventOK
<1>. QED
  BY <1>3 DEF Tells, EventsKept

\* A call that touches neither rows nor events.
LEMMA TellsSame ==
    ASSUME NEW s, PgOK(s), NEW r, PgOK(r), PgView(r) = PgView(s),
           r.events = s.events, s.accounts \subseteq r.accounts
    PROVE  Tells(s, r)
<1>1. IsSeq(PgView(s)) /\ \A i \in 1 .. Len(PgView(s)) : TxOK(PgView(s)[i])
  BY ViewOf
<1>. QED
  BY <1>1, GrownSame, TellsGrown

\* One more event that is true.
LEMMA TellsAppended ==
    ASSUME NEW s, NEW r, PgView(r) = PgView(s), r.accounts = s.accounts, NEW e,
           r.events = Append(s.events, e), EventOK(e, Len(s.events) + 1, r)
    PROVE  Tells(s, r)
<1>. SUFFICES ASSUME EventsKept(s) PROVE EventsKept(r)
  BY DEF Tells
<1>. DEFINE c == Len(s.events)
<1>1. IsSeq(s.events) /\ c \in Nat /\ \A n \in 1 .. c : EventOK(s.events[n], n, s)
  BY DEF EventsKept, IsSeq
<1>2. /\ IsSeq(r.events) /\ Len(r.events) = c + 1 /\ r.events[c + 1] = e
      /\ \A i \in 1 .. c : r.events[i] = s.events[i]
  BY <1>1, AppendSeq
<1>3. \A x, n : EventOK(x, n, s) => EventOK(x, n, r)
  BY DEF EventOK
<1>4. ASSUME NEW n \in 1 .. c + 1 PROVE EventOK(r.events[n], n, r)
  <2>. HIDE DEF c
  <2>1. CASE n = c + 1
    BY <1>2, <2>1 DEF c
  <2>2. CASE n # c + 1
    <3>1. n \in 1 .. c
      BY <1>1, <2>2
    <3>. QED BY <1>1, <1>2, <1>3, <3>1
  <2>. QED BY <2>1, <2>2
<1>. QED
  BY <1>2, <1>4 DEF EventsKept

\* An event about a transaction of the table.
LEMMA NotifyTells ==
    ASSUME NEW s, PgOK(s), NEW type \in 1 .. 6, NEW t, TxOK(t), About(t, PgView(s)),
           NEW r, r = Notify(s, type, TxNotification(t))
    PROVE  Tells(s, r)
<1>. DEFINE e == EventRow(Len(s.events) + 1, type, MarshalNotification(TxNotification(t)))
<1>1. type # NewAddressEvent
  BY DEF NewAddressEvent
<1>2. PgView(r) = PgView(s) /\ r.accounts = s.accounts /\ r.events = Append(s.events, e)
  BY <1>1, NotifyRows DEF Beside
<1>3. EventOK(e, Len(s.events) + 1, r)
  BY <1>2 DEF EventOK
<1>. HIDE DEF e
<1>. QED
  BY <1>2, <1>3, TellsAppended

\* The event about an account.
LEMMA AddressTells ==
    ASSUME NEW s, PgOK(s), NEW a \in s.accounts, NEW r, r = Notify(s, NewAddressEvent, a)
    PROVE  Tells(s, r)
<1>. DEFINE e == EventRow(Len(s.events) + 1, NewAddressEvent, a)
<1>1. PgView(r) = PgView(s) /\ r.accounts = s.accounts /\ r.events = Append(s.events, e)
  BY NotifyRows DEF Beside
<1>2. EventOK(e, Len(s.events) + 1, r)
  BY <1>1 DEF EventOK
<1>. HIDE DEF e
<1>. QED
  BY <1>1, <1>2, TellsAppended


\* The transactions once the one of that id has n reported confirmations.
Reported(v, id, n) ==
    [i \in 1 .. Len(v) |-> IF v[i].id = id THEN [v[i] EXCEPT !.reported = n] ELSE v[i]]

\* A transaction gets a number of reported confirmations.
LEMMA ReportedTx ==
    ASSUME NEW t, TxOK(t), NEW n \in Int
    PROVE  LET u == [t EXCEPT !.reported = n]
           IN /\ TxOK(u) /\ u.id = t.id /\ u.hash = t.hash /\ u.status = t.status
              /\ u.confirmations = t.confirmations /\ u.address = t.address
              /\ u.direction = t.direction /\ u.amount = t.amount /\ u.fee = t.fee
              /\ u.feeType = t.feeType /\ u.cold = t.cold /\ u.reported = n
              /\ [Row(t) EXCEPT !.reported_confirmations = n] = Row(u)
<1>. DEFINE u == [t EXCEPT !.reported = n]
<1>1. /\ TxOK(u) /\ u.id = t.id /\ u.hash = t.hash /\ u.status = t.status
      /\ u.confirmations = t.confirmations /\ u.address = t.address
      /\ u.direction = t.direction /\ u.amount = t.amount /\ u.fee = t.fee
      /\ u.feeType = t.feeType /\ u.cold = t.cold /\ u.reported = n
  BY DEF TxOK
<1>. HIDE DEF u
<1>2. [Row(t) EXCEPT !.reported_confirmations = n] = Row(u)
  BY <1>1 DEF Row
<1>. QED
  BY <1>1, <1>2 DEF u

\* The UPDATE of the column.
LEMMA ReportedRows ==
    ASSUME NEW s, PgOK(s), NEW id, NEW n \in Int,
           NEW r, r = PgUpdateReportedConfirmations(s, id, n)
    PROVE  /\ PgOK(r) /\ PgView(r) = Reported(PgView(s), id, n)
           /\ Len(r.rows) = Len(s.rows) /\ Beside(s, r) /\ r.events = s.events
<1>. DEFINE v == PgView(s)
            q == s.rows
            c == Len(q)
            rows == [i \in DOMAIN q |-> IF q[i].id = id
                                          THEN [q[i] EXCEPT !.reported_confirmations = n]
                                          ELSE q[i]]
            u(i) == IF v[i].id = id THEN [v[i] EXCEPT !.reported = n] ELSE v[i]
<1>1. /\ DOMAIN q = 1 .. c /\ Len(v) = c /\ c \in Nat
      /\ \A j \in 1 .. c : TxOK(v[j]) /\ q[j] = Row(v[j])
  BY ViewOf
<1>2. \A j \in 1 .. c : q[j].id = v[j].id
  <2>. HIDE DEF v
  <2>. QED BY <1>1, RowFields
<1>3. \A j \in 1 .. c : TxOK(u(j)) /\ rows[j] = Row(u(j))
  <2>. HIDE DEF v, q, c
  <2>. QED BY <1>1, <1>2, ReportedTx
<1>4. \A j \in 1 .. c : RowOK(rows[j]) /\ Tx(rows[j]) = u(j)
  <2>. HIDE DEF u, rows
  <2>. QED BY <1>3, RowTx
<1>5. DOMAIN rows = 1 .. c /\ rows = [i \in 1 .. c |-> rows[i]]
  BY <1>1
<1>6. IsSeq(rows) /\ Len(rows) = c
  <2>. HIDE DEF rows, c
  <2>. QED BY <1>1, <1>5, LenOf
<1>7. r = [s EXCEPT !.rows = rows]
  BY DEF PgUpdateReportedConfirmations
<1>. HIDE DEF rows
<1>8. r \in [kind : {"postgres"}, rows : {rows}, accounts : {s.accounts},
             meta : {s.meta}, events : {s.events}]
  BY <1>7 DEF PgOK
<1>9. /\ r.rows = rows /\ r.meta = s.meta /\ r.accounts = s.accounts /\ r.events = s.events
      /\ r \in [kind : {"postgres"}, rows : {r.rows}, accounts : {r.accounts},
             meta : {r.meta}, events : {r.events}]
  BY <1>8
<1>. HIDE DEF u, c, v
<1>10. PgOK(r)
  BY <1>4, <1>6, <1>9 DEF PgOK
<1>11. PgView(r) = [i \in 1 .. c |-> u(i)]
  BY <1>4, <1>6, <1>9 DEF PgView
<1>12. [i \in 1 .. c |-> u(i)] = Reported(v, id, n)
  BY <1>1 DEF Reported, u
<1>. QED
  BY <1>6, <1>9, <1>10, <1>11, <1>12 DEF Beside, v, c

\* The status a number of confirmations stands for.
LEMMA StatusKind ==
    ASSUME NEW t, TxOK(t)
    PROVE  /\ statusByConfirmations(t) \in 0 .. 6
           /\ t.status > FullyConfirmedTransaction => statusByConfirmations(t) = t.status
           /\ t.status <= FullyConfirmedTransaction
                => statusByConfirmations(t) <= FullyConfirmedTransaction
<1>1. t.status \in 0 .. 6 /\ t.confirmations \in Int
  BY DEF TxOK
<1>2. MaxConfirmations \in Nat
  BY StoragesAssumption, Zenon
<1>. QED
  BY <1>1, <1>2 DEF statusByConfirmations, FullyConfirmedTransaction, NewTransaction,
                    ConfirmedTransaction

\* Another status.
LEMMA StatusTx ==
    ASSUME NEW t, TxOK(t), NEW status \in 0 .. 6
    PROVE  LET u == [t EXCEPT !.status = status]
           IN /\ TxOK(u) /\ u.id = t.id /\ u.hash = t.hash /\ u.status = status
              /\ u.confirmations = t.confirmations /\ u.address = t.address
              /\ u.direction = t.direction /\ u.amount = t.amount /\ u.fee = t.fee
              /\ u.feeType = t.feeType /\ u.cold = t.cold /\ u.reported = t.reported
BY DEF TxOK

\* The event and the UPDATE.
LEMMA ReportEffect ==
    ASSUME NEW s, PgOK(s), NEW t, TxOK(t), About(t, PgView(s)), NEW n \in Int,
           NEW r, r = Report(s, t, n)
    PROVE  /\ PgOK(r) /\ PgView(r) = Reported(PgView(s), t.id, n)
           /\ Len(r.rows) = Len(s.rows) /\ Beside(s, r)
           /\ Grown(PgView(s), PgView(r)) => Tells(s, r)
<1>. DEFINE tx == [t EXCEPT !.confirmations = n, !.reported = n - 1]
            notification == [tx EXCEPT !.status = statusByConfirmations(tx)]
            type == getTransactionNotificationType(n, t)
            e == NotifyTransaction(s, type, notification)
<1>1. r = updateReportedConfirmations(e, t.id, n)
  BY DEF Report
<1>2. e = Notify(s, type, TxNotification(notification))
  BY DEF NotifyTransaction
<1>. HIDE DEF e
<1>3. PgOK(e) /\ e.rows = s.rows /\ PgView(e) = PgView(s) /\ Beside(s, e)
  <2>. HIDE DEF notification
  <2>. QED BY <1>2, NotifyRows
<1>4. r = PgUpdateReportedConfirmations(e, t.id, n)
  BY <1>1, <1>3 DEF updateReportedConfirmations, PgOK, IsPg
<1>5. /\ PgOK(r) /\ PgView(r) = Reported(PgView(e), t.id, n)
      /\ Len(r.rows) = Len(e.rows) /\ Beside(e, r) /\ r.events = e.events
  BY <1>3, <1>4, ReportedRows
<1>6. /\ TxOK(tx) /\ tx.id = t.id /\ tx.hash = t.hash /\ tx.address = t.address
      /\ tx.direction = t.direction /\ tx.amount = t.amount /\ tx.fee = t.fee
      /\ tx.feeType = t.feeType /\ tx.cold = t.cold
  <2>1. n - 1 \in Int
    OBVIOUS
  <2>. QED BY <2>1 DEF TxOK
<1>. HIDE DEF tx
<1>7. TxOK(notification) /\ About(notification, PgView(s))
  <2>1. statusByConfirmations(tx) \in 0 .. 6
    BY <1>6, StatusKind
  <2>2. /\ TxOK(notification) /\ notification.id = t.id /\ notification.hash = t.hash
        /\ notification.address = t.address /\ notification.direction = t.direction
        /\ notification.amount = t.amount /\ notification.fee = t.fee
        /\ notification.feeType = t.feeType /\ notification.cold = t.cold
    BY <1>6, <2>1, StatusTx, ZenonT(60)
  <2>. HIDE DEF notification
  <2>. QED BY <2>2 DEF About, Names, HasHash
<1>8. type \in 1 .. 6
  BY DEF getTransactionNotificationType, NewIncomingTxEvent, IncomingTxConfirmedEvent,
         NewOutgoingTxEvent, OutgoingTxConfirmedEvent
<1>. HIDE DEF notification, type
<1>9. Tells(s, e)
  BY <1>2, <1>7, <1>8, NotifyTells
<1>10. Grown(PgView(s), PgView(r)) => Tells(e, r)
  BY <1>3, <1>5, TellsGrown DEF Beside
<1>. QED
  BY <1>3, <1>5, <1>9, <1>10 DEF Beside, Tells

\* The numbers not reported yet follow the last one reported.
LEMMA UnreportedSeq ==
    ASSUME NEW t, TxOK(t)
    PROVE  /\ IsSeq(Unreported(t))
           /\ \A k \in 1 .. Len(Unreported(t)) : Unreported(t)[k] = t.reported + k
<1>. DEFINE last == IF t.confirmations < MaxConfirmations
                      THEN t.confirmations ELSE MaxConfirmations
            m == last - t.reported
            q == [i \in 1 .. m |-> t.reported + i]
<1>1. MaxConfirmations \in Nat
  BY StoragesAssumption, Zenon
<1>2. t.confirmations \in Int /\ t.reported \in Int
  BY DEF TxOK
<1>3. m \in Int
  BY <1>1, <1>2
<1>. HIDE DEF m
<1>4. Unreported(t) = q
  BY DEF Unreported, m
<1>5. CASE m \in Nat
  BY <1>4, <1>5, LenOf
<1>6. CASE m \notin Nat
  <2>1. 1 .. m = {}
    BY <1>3, <1>6
  <2>2. q = << >>
    BY <2>1
  <2>3. IsSeq(<< >>) /\ Len(<< >>) = 0
    BY DEF IsSeq
  <2>4. 1 .. 0 = {}
    OBVIOUS
  <2>. HIDE DEF q
  <2>. QED BY <1>4, <2>2, <2>3, <2>4
<1>. QED
  BY <1>5, <1>6

\* The reports are a loop.
LEMMA ReportLoop ==
    ASSUME NEW s, NEW h, IsSeq(Unreported(h.tx))
    PROVE  \E steps : Course(<<"report", h.tx>>, s, Unreported(h.tx), steps,
                             notifyTransaction(s, h))
<1>. DEFINE q == Unreported(h.tx)
            D == DOMAIN q
            l == <<"report", h.tx>>
            P(loop) == loop = [x \in SUBSET D |->
                IF x = {} THEN s ELSE Report(loop[x \ {Max(x)}], h.tx, q[Max(x)])]
<1>1. notifyTransaction(s, h) = (CHOOSE loop : P(loop))[D]
  BY DEF notifyTransaction, FoldLeft, MapThenFoldSet
<1>2. \A loop : P(loop) <=> Loops(l, s, q, loop, SUBSET D)
  BY DEF Loops, TurnOf, Turn
<1>3. \E loop : Loops(l, s, q, loop, SUBSET D)
  BY LoopsExist DEF IsSeq
<1>4. Loops(l, s, q, CHOOSE loop : P(loop), SUBSET D)
  <2>. HIDE DEF P
  <2>. QED BY <1>2, <1>3
<1>5. Len(q) \in Nat /\ DOMAIN q = 1 .. Len(q)
  BY DEF IsSeq
<1>. DEFINE solution == CHOOSE loop : P(loop)
<1>. HIDE DEF P, l, solution
<1>6. \E steps : Course(l, s, q, steps, solution[DOMAIN q])
  BY <1>4, <1>5, CourseOf DEF solution
<1>. QED
  BY <1>1, <1>6 DEF l, solution

\* The loops of the handlers.
AllMarked(s, q, covered) ==
    FoldLeft(LAMBDA storage, h : Mark(storage, h, covered), s, q)
AllListedTaken(s, q) == FoldLeft(TakeListed, s, q)
AllKnownTaken(s, q) == FoldLeft(TakeKnown, s, q)
MoneyExceeding(q, covered) == FoldLeft(LAMBDA money, h : Exceed(money, h, covered), 0, q)

\* The handlers end with them.
LEMMA HandlerLoops ==
    ASSUME NEW s, NEW covered
    PROVE  /\ MarkAll(s, covered) = SetMoneyRequiredFromColdStorage(
                AllMarked(s, GetPendingTransactions(s), covered),
                MoneyExceeding(GetPendingTransactions(s), covered))
           /\ TakeAllListed(s)
                = SetLastSeenBlockHash(AllListedTaken(s, SetToSeq(Listed(s))), height)
           /\ TakeAllKnown(s)
                = AllKnownTaken(s, GetBroadcastedTransactionsWithLessConfirmations(s))
BY DEF MarkAll, TakeAllListed, TakeAllKnown, AllMarked, AllListedTaken, AllKnownTaken,
       MoneyExceeding, FoldLeft, MapThenFoldSet

\* The marks are a loop.
LEMMA MarkLoop ==
    ASSUME NEW s, NEW covered, NEW q, IsSeq(q)
    PROVE  \E steps : Course(<<"mark", covered>>, s, q, steps, AllMarked(s, q, covered))
<1>. DEFINE D == DOMAIN q
            l == <<"mark", covered>>
            P(loop) == loop = [x \in SUBSET D |->
                IF x = {} THEN s ELSE Mark(loop[x \ {Max(x)}], q[Max(x)], covered)]
<1>1. AllMarked(s, q, covered) = (CHOOSE loop : P(loop))[D]
  BY DEF AllMarked, FoldLeft, MapThenFoldSet
<1>2. \A loop : P(loop) <=> Loops(l, s, q, loop, SUBSET D)
  BY DEF Loops, TurnOf, Turn
<1>3. \E loop : Loops(l, s, q, loop, SUBSET D)
  BY LoopsExist DEF IsSeq
<1>4. Loops(l, s, q, CHOOSE loop : P(loop), SUBSET D)
  <2>. HIDE DEF P
  <2>. QED BY <1>2, <1>3
<1>5. Len(q) \in Nat /\ DOMAIN q = 1 .. Len(q)
  BY DEF IsSeq
<1>. DEFINE solution == CHOOSE loop : P(loop)
<1>. HIDE DEF P, l, solution
<1>6. \E steps : Course(l, s, q, steps, solution[DOMAIN q])
  BY <1>4, <1>5, CourseOf DEF solution
<1>. QED
  BY <1>1, <1>6 DEF l, solution

\* What is done with the listed outputs is a loop.
LEMMA ListedLoop ==
    ASSUME NEW s, NEW q, IsSeq(q)
    PROVE  \E steps : Course(<<"listed">>, s, q, steps, AllListedTaken(s, q))
<1>. DEFINE D == DOMAIN q
            l == <<"listed">>
            P(loop) == loop = [x \in SUBSET D |->
                IF x = {} THEN s ELSE TakeListed(loop[x \ {Max(x)}], q[Max(x)])]
<1>1. AllListedTaken(s, q) = (CHOOSE loop : P(loop))[D]
  BY DEF AllListedTaken, FoldLeft, MapThenFoldSet
<1>2. \A loop : P(loop) <=> Loops(l, s, q, loop, SUBSET D)
  BY DEF Loops, TurnOf, Turn
<1>3. \E loop : Loops(l, s, q, loop, SUBSET D)
  BY LoopsExist DEF IsSeq
<1>4. Loops(l, s, q, CHOOSE loop : P(loop), SUBSET D)
  <2>. HIDE DEF P
  <2>. QED BY <1>2, <1>3
<1>5. Len(q) \in Nat /\ DOMAIN q = 1 .. Len(q)
  BY DEF IsSeq
<1>. DEFINE solution == CHOOSE loop : P(loop)
<1>. HIDE DEF P, l, solution
<1>6. \E steps : Course(l, s, q, steps, solution[DOMAIN q])
  BY <1>4, <1>5, CourseOf DEF solution
<1>. QED
  BY <1>1, <1>6 DEF l, solution

\* What is done with the known transactions is a loop.
LEMMA KnownLoop ==
    ASSUME NEW s, NEW q, IsSeq(q)
    PROVE  \E steps : Course(<<"known">>, s, q, steps, AllKnownTaken(s, q))
<1>. DEFINE D == DOMAIN q
            l == <<"known">>
            P(loop) == loop = [x \in SUBSET D |->
                IF x = {} THEN s ELSE TakeKnown(loop[x \ {Max(x)}], q[Max(x)])]
<1>1. AllKnownTaken(s, q) = (CHOOSE loop : P(loop))[D]
  BY DEF AllKnownTaken, FoldLeft, MapThenFoldSet
<1>2. \A loop : P(loop) <=> Loops(l, s, q, loop, SUBSET D)
  BY DEF Loops, TurnOf, Turn
<1>3. \E loop : Loops(l, s, q, loop, SUBSET D)
  BY LoopsExist DEF IsSeq
<1>4. Loops(l, s, q, CHOOSE loop : P(loop), SUBSET D)
  <2>. HIDE DEF P
  <2>. QED BY <1>2, <1>3
<1>5. Len(q) \in Nat /\ DOMAIN q = 1 .. Len(q)
  BY DEF IsSeq
<1>. DEFINE solution == CHOOSE loop : P(loop)
<1>. HIDE DEF P, l, solution
<1>6. \E steps : Course(l, s, q, steps, solution[DOMAIN q])
  BY <1>4, <1>5, CourseOf DEF solution
<1>. QED
  BY <1>1, <1>6 DEF l, solution


-----------------------------------------------------------------------------
(* The reports keep the table.                                             *)

\* From s to r nothing of the table is lost, and the events stay true.
Keeps(s, r, H) == PgGood(r, H) /\ Grown(PgView(s), PgView(r)) /\ Tells(s, r)

\* The rows stand for the same bitcoin transactions.
SameRows(s, r) ==
    /\ Len(r.rows) = Len(s.rows)
    /\ \A i \in 1 .. Len(s.rows) : /\ PgView(r)[i].id = PgView(s)[i].id
                                   /\ PgView(r)[i].hash = PgView(s)[i].hash

\* Keeping the table step by step.
LEMMA KeepsTwice ==
    ASSUME NEW H, NEW s, PgGood(s, H), NEW u, NEW r, Keeps(s, u, H), Keeps(u, r, H)
    PROVE  Keeps(s, r, H)
<1>1. PgOK(s) /\ PgOK(u) /\ PgOK(r)
  BY DEF Keeps, PgGood
<1>2. /\ IsSeq(PgView(s)) /\ \A i \in 1 .. Len(PgView(s)) : TxOK(PgView(s)[i])
      /\ IsSeq(PgView(u)) /\ \A i \in 1 .. Len(PgView(u)) : TxOK(PgView(u)[i])
      /\ IsSeq(PgView(r)) /\ \A i \in 1 .. Len(PgView(r)) : TxOK(PgView(r)[i])
  BY <1>1, ViewOf
<1>3. Grown(PgView(s), PgView(u)) /\ Grown(PgView(u), PgView(r))
  BY DEF Keeps
<1>4. Grown(PgView(s), PgView(r))
  BY <1>2, <1>3, GrownTwice
<1>. QED
  BY <1>4 DEF Keeps, Tells

\* A storage that stays as it is.
LEMMA KeepsSame ==
    ASSUME NEW H, NEW s, PgGood(s, H)
    PROVE  Keeps(s, s, H)
<1>1. PgOK(s)
  BY DEF PgGood
<1>2. IsSeq(PgView(s)) /\ \A i \in 1 .. Len(PgView(s)) : TxOK(PgView(s)[i])
  BY <1>1, ViewOf
<1>. QED
  BY <1>2, GrownSame DEF Keeps, Tells

\* A call that leaves the rows alone.
LEMMA KeepsRows ==
    ASSUME NEW H, NEW s, PgGood(s, H), NEW r, PgOK(r), PgView(r) = PgView(s), Tells(s, r)
    PROVE  Keeps(s, r, H) /\ SameRows(s, r)
<1>1. Keeps(s, s, H) /\ PgOK(s)
  BY KeepsSame DEF PgGood
<1>2. Len(r.rows) = Len(s.rows)
  BY <1>1, ViewOf
<1>. QED
  BY <1>1, <1>2 DEF Keeps, PgGood, SameRows

\* One report.
LEMMA ReportKeeps ==
    ASSUME NEW H, NEW s, PgGood(s, H), NEW t, TxOK(t), About(t, PgView(s)), NEW n \in Int,
           \A i \in 1 .. Len(s.rows) : PgView(s)[i].id = t.id => PgView(s)[i].reported <= n,
           NEW r, r = Report(s, t, n)
    PROVE  /\ Keeps(s, r, H) /\ SameRows(s, r) /\ Beside(s, r)
           /\ \A i \in 1 .. Len(r.rows) : PgView(r)[i].id = t.id => PgView(r)[i].reported <= n
<1>. DEFINE v == PgView(s)
            w == PgView(r)
            c == Len(s.rows)
<1>0. PgOK(s) /\ Kept(v) /\ \A i \in 1 .. c : v[i].hash \in H
  BY DEF PgGood
<1>1. Len(v) = c /\ c \in Nat /\ \A i \in 1 .. c : TxOK(v[i])
  BY <1>0, ViewOf
<1>2. /\ PgOK(r) /\ w = Reported(v, t.id, n) /\ Len(r.rows) = c /\ Beside(s, r)
      /\ Grown(v, w) => Tells(s, r)
  BY <1>0, ReportEffect
<1>. HIDE DEF v, w, c
<1>3. \A i \in 1 .. c : w[i] = IF v[i].id = t.id THEN [v[i] EXCEPT !.reported = n] ELSE v[i]
  BY <1>1, <1>2 DEF Reported
<1>4. \A i \in 1 .. c : [v[i] EXCEPT !.reported = n].reported = n
  BY <1>1, ReportedTx
<1>5. ASSUME NEW i \in 1 .. c
      PROVE  /\ w[i].id = v[i].id /\ w[i].hash = v[i].hash /\ w[i].status = v[i].status
             /\ w[i].address = v[i].address /\ w[i].direction = v[i].direction
             /\ w[i].amount = v[i].amount /\ w[i].fee = v[i].fee
             /\ w[i].feeType = v[i].feeType /\ w[i].cold = v[i].cold
             /\ w[i].reported = IF v[i].id = t.id THEN n ELSE v[i].reported
             /\ v[i].reported \in Int
  <2>1. TxOK(v[i])
    BY <1>1
  <2>2. v[i].reported \in Int
    BY <2>1 DEF TxOK
  <2>. DEFINE u == v[i]
  <2>3. LET x == [u EXCEPT !.reported = n]
        IN /\ x.id = u.id /\ x.hash = u.hash /\ x.status = u.status
           /\ x.address = u.address /\ x.direction = u.direction /\ x.amount = u.amount
           /\ x.fee = u.fee /\ x.feeType = u.feeType /\ x.cold = u.cold /\ x.reported = n
    BY <2>1, ReportedTx
  <2>4. w[i] = IF u.id = t.id THEN [u EXCEPT !.reported = n] ELSE u
    BY <1>3
  <2>. HIDE DEF u
  <2>. QED BY <2>2, <2>3, <2>4 DEF u
<1>6. Len(w) = c
  BY <1>2, ViewOf DEF w
<1>7. Kept(w)
  <2>1. \A i \in 1 .. c : w[i].id \in Ids \/ w[i].id = i
    BY <1>0, <1>1, <1>5 DEF Kept
  <2>2. \A i, j \in 1 .. c : w[i].id = w[j].id => i = j
    BY <1>0, <1>1, <1>5 DEF Kept
  <2>3. ASSUME NEW i \in 1 .. c, NEW j \in 1 .. c, SameOutput(w[i], w[j]) PROVE i = j
    <3>1. SameOutput(v[i], v[j])
      BY <1>5, <2>3 DEF SameOutput, HasHash
    <3>. QED BY <1>0, <1>1, <3>1 DEF Kept
  <2>4. ASSUME NEW i \in 1 .. c PROVE Settled(w[i])
    <3>1. Settled(v[i])
      BY <1>0, <1>1 DEF Kept
    <3>. QED BY <1>5, <3>1 DEF Settled, HasHash
  <2>. QED BY <1>6, <2>1, <2>2, <2>3, <2>4 DEF Kept
<1>8. PgGood(r, H)
  BY <1>0, <1>2, <1>5, <1>7 DEF PgGood, w
<1>9. Grown(v, w)
  <2>1. Len(v) <= Len(w)
    BY <1>1, <1>6
  <2>2. ASSUME NEW i \in 1 .. c PROVE v[i].reported <= w[i].reported
    <3>1. v[i].id = t.id => v[i].reported <= n
      BY DEF v, c
    <3>. QED BY <1>5, <3>1
  <2>. QED BY <1>1, <1>5, <2>1, <2>2 DEF Grown, Goes
<1>10. SameRows(s, r)
  BY <1>2, <1>5 DEF SameRows, v, w, c
<1>11. \A i \in 1 .. c : w[i].id = t.id => w[i].reported <= n
  BY <1>5
<1>. QED
  BY <1>2, <1>8, <1>9, <1>10, <1>11 DEF Keeps, v, w, c

\* All reports of a transaction whose row has nothing reported that it has not.
LEMMA NotifyKeeps ==
    ASSUME NEW H, NEW s, PgGood(s, H), NEW h, TxOK(h.tx), About(h.tx, PgView(s)),
           \A i \in 1 .. Len(s.rows) : PgView(s)[i].id = h.tx.id
                                         => PgView(s)[i].reported <= h.tx.reported,
           NEW r, r = notifyTransaction(s, h)
    PROVE  Keeps(s, r, H) /\ SameRows(s, r) /\ Beside(s, r)
<1>. DEFINE t == h.tx
            q == Unreported(t)
            m == Len(q)
<1>1. IsSeq(q) /\ \A k \in 1 .. m : q[k] = t.reported + k
  BY UnreportedSeq
<1>2. PICK f : Course(<<"report", t>>, s, q, f, r)
  BY <1>1, ReportLoop
<1>3. m \in Nat /\ DOMAIN q = 1 .. m /\ t.reported \in Int
  BY <1>1 DEF IsSeq, TxOK
<1>. DEFINE Claim(k) ==
                /\ Keeps(s, f[k], H) /\ SameRows(s, f[k]) /\ Beside(s, f[k])
                /\ \A i \in 1 .. Len(f[k].rows) :
                     PgView(f[k])[i].id = t.id => PgView(f[k])[i].reported <= t.reported + k
            G == {k \in Nat : k <= m => Claim(k)}
<1>4. Claim(0)
  <2>1. f[0] = s
    BY <1>2 DEF Course
  <2>2. t.reported + 0 = t.reported
    BY <1>3
  <2>3. PgOK(s)
    BY DEF PgGood
  <2>4. Keeps(s, s, H) /\ SameRows(s, s) /\ Beside(s, s)
    BY <2>3, KeepsRows DEF Beside, Tells
  <2>. QED BY <2>1, <2>2, <2>4
<1>5. ASSUME NEW k \in Nat, k <= m => Claim(k), k + 1 <= m PROVE Claim(k + 1)
  <2>1. k + 1 \in 1 .. m /\ (k + 1) - 1 = k /\ k <= m
    BY <1>3, <1>5
  <2>2. Claim(k)
    BY <1>5, <2>1
  <2>3. f[k + 1] = Turn(<<"report", t>>, f[k], q[k + 1])
    BY <1>2, <1>3, <2>1 DEF Course
  <2>. DEFINE n == t.reported + (k + 1)
  <2>4. f[k + 1] = Report(f[k], t, n)
    BY <1>1, <2>1, <2>3 DEF Turn
  <2>5. n \in Int
    BY <1>3
  <2>6. PgGood(f[k], H) /\ About(t, PgView(f[k]))
    <3>1. PgGood(f[k], H) /\ PgOK(f[k]) /\ PgOK(s) /\ Grown(PgView(s), PgView(f[k]))
      BY <2>2 DEF Keeps, PgGood
    <3>2. IsSeq(PgView(s)) /\ IsSeq(PgView(f[k]))
      BY <3>1, ViewOf
    <3>. QED BY <3>1, <3>2, AboutGrown
  <2>7. \A i \in 1 .. Len(f[k].rows) : PgView(f[k])[i].id = t.id => PgView(f[k])[i].reported <= n
    <3>1. \A i \in 1 .. Len(f[k].rows) : PgView(f[k])[i].reported \in Int
      BY <2>6, ViewOf DEF PgGood, TxOK
    <3>. QED BY <1>3, <2>2, <3>1
  <2>. HIDE DEF n, t
  <2>0. TxOK(t)
    BY DEF t
  <2>8. /\ Keeps(f[k], f[k + 1], H) /\ SameRows(f[k], f[k + 1]) /\ Beside(f[k], f[k + 1])
        /\ \A i \in 1 .. Len(f[k + 1].rows) :
             PgView(f[k + 1])[i].id = t.id => PgView(f[k + 1])[i].reported <= n
    BY <2>0, <2>4, <2>5, <2>6, <2>7, ReportKeeps
  <2>9. Keeps(s, f[k + 1], H)
    BY <2>2, <2>8, KeepsTwice
  <2>10. SameRows(s, f[k + 1]) /\ Beside(s, f[k + 1])
    BY <2>2, <2>8 DEF SameRows, Beside
  <2>. QED BY <2>8, <2>9, <2>10 DEF n
<1>6. G = Nat
  <2>. HIDE DEF Claim
  <2>1. G \in SUBSET Nat /\ 0 \in G
    BY <1>4
  <2>2. ASSUME NEW k \in G PROVE k + 1 \in G
    <3>1. k \in Nat /\ (k <= m => Claim(k)) /\ k + 1 \in Nat
      OBVIOUS
    <3>2. k + 1 <= m => Claim(k + 1)
      BY <1>5, <3>1
    <3>. HIDE DEF m
    <3>. QED BY <3>1, <3>2
  <2>. HIDE DEF G
  <2>. QED BY <2>1, <2>2, NaturalsBySet
<1>7. Claim(m)
  <2>. HIDE DEF Claim
  <2>. QED BY <1>3, <1>6
<1>8. r = f[m]
  BY <1>2 DEF Course
<1>. QED
  BY <1>7, <1>8


-----------------------------------------------------------------------------
(* The handlers keep the table.                                            *)

\* Writing to a copy.
LEMMA WritePrivate ==
    ASSUME NEW s, NEW h, h = Private(h.tx), NEW tx
    PROVE  Write(s, h, tx) = [s |-> s, h |-> Private(tx)]
<1>1. h.ref = 0 /\ h = [ref |-> 0, tx |-> h.tx]
  BY DEF Private
<1>2. [h EXCEPT !.tx = tx] = Private(tx)
  BY <1>1 DEF Private
<1>. QED
  BY <1>1, <1>2 DEF Write

\* A transaction is stored, and reported as the row that has it.
LEMMA StoreNotifyKeeps ==
    ASSUME NEW H, NEW s, PgGood(s, H), NEW h, h = Private(h.tx), TxOK(h.tx),
           h.tx.hash \in H, Fits(PgView(s), h.tx), NEW p, p = StoreTransaction(s, h),
           NEW g, g = notifyTransaction(p.s, p.h)
    PROVE  /\ Keeps(s, p.s, H) /\ Beside(s, p.s)
           /\ Keeps(s, g, H) /\ Beside(s, g)
<1>1. /\ PgGood(p.s, H) /\ Grown(PgView(s), PgView(p.s)) /\ TxOK(p.h.tx)
      /\ \E i \in 1 .. Len(p.s.rows) : PgView(p.s)[i] = p.h.tx
      /\ p.s.meta = s.meta /\ p.s.accounts = s.accounts /\ p.s.events = s.events
  BY PgStoreKeeps
<1>2. Keeps(s, p.s, H) /\ Beside(s, p.s)
  <2>1. Tells(s, p.s)
    BY <1>1, TellsGrown DEF PgGood
  <2>. QED BY <1>1, <2>1 DEF Keeps, Beside
<1>3. \A i \in 1 .. Len(p.s.rows) : PgView(p.s)[i].id = p.h.tx.id
                                       => PgView(p.s)[i].reported <= p.h.tx.reported
  <2>1. p.h.tx.reported \in Int
    BY <1>1 DEF TxOK
  <2>2. Kept(PgView(p.s)) /\ Len(PgView(p.s)) = Len(p.s.rows)
    BY <1>1, ViewOf DEF PgGood
  <2>. QED BY <1>1, <2>1, <2>2 DEF Kept
<1>4. Keeps(p.s, g, H) /\ Beside(p.s, g)
  <2>1. Len(PgView(p.s)) = Len(p.s.rows)
    BY <1>1, ViewOf DEF PgGood
  <2>2. About(p.h.tx, PgView(p.s))
    BY <1>1, <2>1 DEF About, Names
  <2>. QED BY <1>1, <1>3, <2>2, NotifyKeeps
<1>5. Keeps(s, g, H) /\ Beside(s, g)
  BY <1>2, <1>4, KeepsTwice DEF Beside
<1>. QED
  BY <1>2, <1>5

\* What the node says of a transaction is stored and reported.
LEMMA UpdateTxInfoKeeps ==
    ASSUME NEW H, NEW s, PgGood(s, H), NEW h, h = Private(h.tx), TxOK(h.tx),
           h.tx.hash \in H, Fits(PgView(s), h.tx), NEW r, r = updateTxInfo(s, h)
    PROVE  Keeps(s, r, H) /\ Beside(s, r)
<1>. DEFINE t == h.tx
            u == [t EXCEPT !.status = statusByConfirmations(t)]
            p == StoreTransaction(s, Private(u))
<1>1. Write(s, h, u) = [s |-> s, h |-> Private(u)]
  BY WritePrivate
<1>2. r = IF t.address = hot \/ p.h.tx.cold THEN p.s ELSE notifyTransaction(p.s, p.h)
  <2>. HIDE DEF u
  <2>. QED BY <1>1 DEF updateTxInfo, u
<1>3. /\ TxOK(u) /\ u.id = t.id /\ u.hash = t.hash /\ u.status = statusByConfirmations(t)
      /\ u.direction = t.direction /\ u.address = t.address
  BY StatusTx, StatusKind, ZenonT(60)
<1>4. t.status \in Int /\ u.status \in Int
  <2>. HIDE DEF u
  <2>1. t.status \in 0 .. 6
    BY DEF TxOK
  <2>2. u.status \in 0 .. 6
    BY <1>3 DEF TxOK
  <2>. QED BY <2>1, <2>2
<1>5. Settled(u)
  <2>1. Settled(t)
    BY DEF Fits
  <2>2. u.status > FullyConfirmedTransaction => t.status > FullyConfirmedTransaction
    BY <1>3, <1>4, StatusKind DEF FullyConfirmedTransaction
  <2>. QED BY <1>3, <2>1, <2>2 DEF Settled, HasHash
<1>6. Fits(PgView(s), u)
  BY <1>3, <1>5 DEF Fits, HasHash
<1>7. Private(u).tx = u
  BY DEF Private
<1>. HIDE DEF u, p, t
<1>8. Private(u) = Private(Private(u).tx) /\ u.hash \in H
  BY <1>3, <1>7 DEF t
<1>9. /\ Keeps(s, p.s, H) /\ Beside(s, p.s)
      /\ Keeps(s, notifyTransaction(p.s, p.h), H) /\ Beside(s, notifyTransaction(p.s, p.h))
  BY <1>3, <1>6, <1>7, <1>8, StoreNotifyKeeps DEF p
<1>. QED
  BY <1>2, <1>9

\* A withdrawal the wallet holds: a row of it is about the same, and was not
\* broadcast or reported on since.
Held(v, t) ==
    /\ t.id \in Ids /\ ~HasHash(t)
    /\ \A i \in 1 .. Len(v) : v[i].id = t.id =>
         ~HasHash(v[i]) /\ v[i].reported = t.reported /\ Names(t, v[i])

\* It may be stored in any state that is not broadcast.
LEMMA HeldFits ==
    ASSUME NEW v, NEW t, Held(v, t), NEW u, u.id = t.id, u.hash = t.hash
    PROVE  Fits(v, u)
<1>1. t.id \in Ids /\ ~HasHash(t) /\ ~HasHash(u) /\ u.id \in Ids
  BY DEF Held, HasHash
<1>2. Settled(u)
  BY <1>1 DEF Settled
<1>3. \A i \in 1 .. Len(v) : v[i].id = u.id => ~HasHash(v[i])
  BY DEF Held
<1>. QED
  BY <1>1, <1>2, <1>3 DEF Fits

\* A withdrawal becomes pending, or cancelled.
LEMMA PendingKeeps ==
    ASSUME NEW H, NEW s, PgGood(s, H), NEW h, h = Private(h.tx), TxOK(h.tx),
           h.tx.hash \in H, Held(PgView(s), h.tx), NEW status \in 0 .. 6,
           NEW r, r = updatePendingTxStatus(s, h, status)
    PROVE  /\ Keeps(s, r, H) /\ Beside(s, r)
           /\ (\E i \in 1 .. Len(s.rows) : PgView(s)[i].id = h.tx.id) => SameRows(s, r)
           /\ \A i \in 1 .. Len(s.rows) : PgView(r)[i].reported = PgView(s)[i].reported
<1>. DEFINE t == h.tx
            u == [t EXCEPT !.status = status]
            p == StoreTransaction(s, Private(u))
            event == IF status = CancelledTransaction
                       THEN PendingTxCancelledEvent ELSE PendingStatusUpdatedEvent
            g == Notify(p.s, event, TxNotification(p.own.tx))
<1>1. Write(s, h, u) = [s |-> s, h |-> Private(u)]
  BY WritePrivate
<1>2. r = IF status = t.status THEN s ELSE g
  <2>. HIDE DEF u
  <2>. QED BY <1>1 DEF updatePendingTxStatus, NotifyTransaction, u
<1>3. /\ TxOK(u) /\ u.id = t.id /\ u.hash = t.hash /\ u.address = t.address
      /\ u.direction = t.direction /\ u.amount = t.amount /\ u.fee = t.fee
      /\ u.feeType = t.feeType /\ u.cold = t.cold
  BY StatusTx
<1>4. Fits(PgView(s), u)
  BY <1>3, HeldFits
<1>5. Private(u).tx = u
  BY DEF Private
<1>6. t.id \in Ids /\ ~HasHash(t)
  BY DEF Held
<1>7. t.id # Nil
  BY <1>6, NumbersApart DEF Nil
<1>. HIDE DEF u, p, t, event
<1>8. Private(u) = Private(Private(u).tx) /\ u.hash \in H
  BY <1>3, <1>5 DEF t
<1>9. /\ PgGood(p.s, H) /\ Grown(PgView(s), PgView(p.s))
      /\ \A i \in 1 .. Len(s.rows) : PgView(p.s)[i].reported = PgView(s)[i].reported
      /\ p.s.meta = s.meta /\ p.s.accounts = s.accounts /\ p.s.events = s.events
      /\ \E i \in 1 .. Len(p.s.rows) : PgView(p.s)[i] = p.h.tx
      /\ p.h.tx.hash = u.hash /\ TxOK(p.h.tx)
      /\ (p.own = Private(u) /\ Len(p.s.rows) = Len(s.rows)) \/ p.own = p.h
      /\ \/ p.h.tx.id = u.id \/ u.id = Nil
         \/ \E i \in 1 .. Len(s.rows) : SameOutput(u, PgView(s)[i])
      /\ (\E i \in 1 .. Len(s.rows) : u.id # Nil /\ PgView(s)[i].id = u.id) =>
           /\ Len(p.s.rows) = Len(s.rows)
           /\ \A i \in 1 .. Len(s.rows) : PgView(s)[i].id # u.id
                                          => PgView(p.s)[i] = PgView(s)[i]
  BY <1>3, <1>4, <1>5, <1>8, PgStoreKeeps DEF p
<1>10. Keeps(s, p.s, H) /\ Beside(s, p.s) /\ PgOK(p.s) /\ PgOK(s)
  <2>1. PgOK(s) /\ PgOK(p.s)
    BY <1>9 DEF PgGood
  <2>2. Tells(s, p.s)
    BY <1>9, <2>1, TellsGrown
  <2>. QED BY <1>9, <2>1, <2>2 DEF Keeps, Beside
<1>11. ASSUME NEW k \in 1 .. Len(s.rows), PgView(s)[k].id = t.id PROVE SameRows(s, p.s)
  <2>1. /\ Len(p.s.rows) = Len(s.rows)
        /\ \A i \in 1 .. Len(s.rows) : PgView(s)[i].id # u.id
                                          => PgView(p.s)[i] = PgView(s)[i]
    BY <1>3, <1>7, <1>9, <1>11
  <2>2. p.h.tx.id = t.id
    BY <1>3, <1>6, <1>7, <1>9 DEF SameOutput, HasHash
  <2>3. \A i \in 1 .. Len(s.rows) : PgView(p.s)[i].id = PgView(s)[i].id
    <3>1. Len(PgView(s)) = Len(s.rows)
      BY <1>10, ViewOf
    <3>. QED BY <1>9, <3>1 DEF Grown, Goes
  <2>4. Kept(PgView(p.s)) /\ Len(PgView(p.s)) = Len(s.rows)
    BY <1>9, <1>10, <2>1, ViewOf DEF PgGood
  <2>5. ASSUME NEW i \in 1 .. Len(s.rows), PgView(s)[i].id = t.id
        PROVE  PgView(p.s)[i].hash = PgView(s)[i].hash
    <3>1. PgView(p.s)[i] = p.h.tx
      BY <1>9, <2>1, <2>2, <2>3, <2>4, <2>5 DEF Kept
    <3>2. ~HasHash(PgView(s)[i])
      <4>1. Len(PgView(s)) = Len(s.rows)
        BY <1>10, ViewOf
      <4>. QED BY <2>5, <4>1 DEF Held, t
    <3>. QED BY <1>3, <1>6, <1>9, <3>1, <3>2 DEF HasHash
  <2>. QED BY <1>3, <2>1, <2>3, <2>5 DEF SameRows
<1>12. PgOK(g) /\ PgView(g) = PgView(p.s) /\ Beside(p.s, g)
  BY <1>10, NotifyRows
<1>17. TxOK(p.own.tx) /\ About(p.own.tx, PgView(p.s))
  <2>1. PICK i \in 1 .. Len(p.s.rows) : PgView(p.s)[i] = p.h.tx
    BY <1>9
  <2>2. Len(PgView(p.s)) = Len(p.s.rows) /\ Len(PgView(s)) = Len(s.rows)
    BY <1>10, ViewOf
  <2>3. CASE p.own = p.h
    BY <1>9, <2>1, <2>2, <2>3 DEF About, Names
  <2>4. CASE p.own = Private(u) /\ Len(p.s.rows) = Len(s.rows)
    <3>1. p.own.tx = u /\ i \in 1 .. Len(PgView(s))
      BY <1>5, <2>2, <2>4
    <3>2. Goes(PgView(s)[i], p.h.tx)
      BY <1>9, <2>1, <3>1 DEF Grown
    <3>3. p.h.tx.id = t.id
      BY <1>3, <1>6, <1>7, <1>9 DEF SameOutput, HasHash
    <3>4. PgView(s)[i].id = t.id
      BY <3>2, <3>3 DEF Goes
    <3>5. Names(t, PgView(s)[i])
      BY <3>1, <3>4 DEF Held, t
    <3>6. Names(u, p.h.tx)
      BY <1>3, <1>6, <3>2, <3>5 DEF Names, Goes, HasHash
    <3>. QED BY <1>3, <2>1, <2>2, <3>1, <3>6 DEF About
  <2>. QED BY <1>9, <2>3, <2>4
<1>18. Tells(p.s, g)
  <2>1. event \in 1 .. 6
    BY DEF event, PendingTxCancelledEvent, PendingStatusUpdatedEvent
  <2>. QED BY <1>10, <1>17, <2>1, NotifyTells
<1>. HIDE DEF g
<1>13. Keeps(p.s, g, H) /\ SameRows(p.s, g)
  BY <1>9, <1>12, <1>18, KeepsRows
<1>14. Keeps(s, g, H) /\ Beside(s, g)
  BY <1>10, <1>12, <1>13, KeepsTwice DEF Beside
<1>15. SameRows(s, p.s) => SameRows(s, g)
  BY <1>13 DEF SameRows
<1>16. Keeps(s, s, H) /\ Beside(s, s) /\ SameRows(s, s)
  BY KeepsSame DEF Beside, SameRows
<1>. QED
  BY <1>2, <1>9, <1>11, <1>12, <1>14, <1>15, <1>16 DEF t


\* The metadata leaves the rows alone; one key leaves the others alone.
LEMMA MetaRows ==
    ASSUME NEW s, PgOK(s), NEW key, NEW text, NEW r, r = SetMeta(s, key, text)
    PROVE  /\ PgOK(r) /\ r.rows = s.rows /\ PgView(r) = PgView(s) /\ Tells(s, r)
           /\ r.accounts = s.accounts /\ r.events = s.events
           /\ \A k, default : GetMeta(r, k, default)
                                = IF k = key THEN text ELSE GetMeta(s, k, default)
<1>. DEFINE meta == [k \in DOMAIN s.meta \cup {key} |-> IF k = key THEN text ELSE s.meta[k]]
<1>1. r = [s EXCEPT !.meta = meta]
  BY DEF SetMeta
<1>2. /\ DOMAIN meta = DOMAIN s.meta \cup {key} /\ meta[key] = text
      /\ \A k \in DOMAIN s.meta : k # key => meta[k] = s.meta[k]
  OBVIOUS
<1>. HIDE DEF meta
<1>3. r \in [kind : {"postgres"}, rows : {s.rows}, accounts : {s.accounts},
             meta : {meta}, events : {s.events}]
  BY <1>1 DEF PgOK
<1>4. /\ r.rows = s.rows /\ r.meta = meta /\ r.accounts = s.accounts /\ r.events = s.events
      /\ r \in [kind : {"postgres"}, rows : {r.rows}, accounts : {r.accounts},
             meta : {r.meta}, events : {r.events}]
  BY <1>3
<1>5. PgOK(r)
  BY <1>4 DEF PgOK
<1>6. PgView(r) = PgView(s)
  BY <1>4 DEF PgView
<1>7. Tells(s, r)
  BY <1>4, <1>5, <1>6, TellsSame
<1>. QED
  BY <1>2, <1>4, <1>5, <1>6, <1>7 DEF GetMeta

\* Hashes may become known.
LEMMA GoodMore ==
    ASSUME NEW H, NEW s, PgGood(s, H), NEW K, H \subseteq K
    PROVE  PgGood(s, K)
BY DEF PgGood

\* The numbers the amounts are made of.
LEMMA MoneyFacts ==
    /\ 0 \in Money /\ 1 \in Money
    /\ \A x, y \in Money : y <= x => x - y \in Money
    /\ Money \subseteq Nat
<1>1. 2 ^ (Width - 1) \in Nat \ {0, 1}
  BY WidthAssumption, Zenon
<1>. DEFINE m == 2 ^ (Width - 1)
<1>. HIDE DEF m
<1>2. Money = 0 .. m - 1 /\ m \in Nat /\ m # 0 /\ m # 1
  BY <1>1 DEF Money, m
<1>. QED
  BY <1>2

SameSeen(s, r) == PgGetLastSeenBlockHash(r) = PgGetLastSeenBlockHash(s)

\* Locking and unlocking the wallet.
LEMMA LockKeeps ==
    ASSUME NEW H, NEW s, PgGood(s, H), NEW op,
           NEW r, r = LockWallet(s, op) \/ r = ClearWallet(s)
    PROVE  Keeps(s, r, H) /\ SameSeen(s, r) /\ PgView(r) = PgView(s)
<1>1. PgOK(s)
  BY DEF PgGood
<1>2. \E text : r = SetMeta(s, "wallet_operation", text)
  BY <1>1 DEF LockWallet, ClearWallet, PgLockWallet, PgClearWallet, IsPg, PgOK
<1>3. PICK text : r = SetMeta(s, "wallet_operation", text)
  BY <1>2
<1>4. PgOK(r) /\ PgView(r) = PgView(s) /\ SameSeen(s, r) /\ Tells(s, r)
  BY <1>1, <1>3, MetaRows DEF SameSeen, PgGetLastSeenBlockHash
<1>. QED
  BY <1>4, KeepsRows

\* The fee a transfer between accounts takes, and its two transactions.
FeeOf(t) == IF t.feeType = FixedFee THEN t.fee ELSE 0
Affordable(t) == t.feeType = FixedFee => t.amount >= t.fee
DoneTx(t) == [t EXCEPT !.fee = FeeOf(t), !.confirmations = MaxConfirmations,
                       !.status = FullyConfirmedTransaction]
DepositTx(t, fee) == [t EXCEPT !.reported = -1, !.direction = IncomingDirection,
                               !.id = Nil, !.amount = @ - fee]

\* They are transactions.
LEMMA TransferTx ==
    ASSUME NEW t, TxOK(t), Affordable(t)
    PROVE  LET d == DoneTx(t)
               e == DepositTx(d, FeeOf(t))
           IN /\ TxOK(d) /\ d.id = t.id /\ d.hash = t.hash /\ d.cold = t.cold
              /\ d.status = FullyConfirmedTransaction /\ d.reported = t.reported
              /\ TxOK(e) /\ e.id = Nil /\ e.hash = t.hash
              /\ e.status = FullyConfirmedTransaction
<1>. DEFINE fee == FeeOf(t)
            d == DoneTx(t)
            e == DepositTx(d, fee)
<1>1. t.fee \in Money /\ t.amount \in Money /\ t.amount \in Nat /\ t.fee \in Nat
  BY MoneyFacts DEF TxOK
<1>2. MaxConfirmations \in Int
  <2>1. MaxConfirmations \in Nat
    BY StoragesAssumption, Zenon
  <2>. QED BY <2>1
<1>3. fee \in Money /\ fee <= t.amount
  BY <1>1, MoneyFacts DEF Affordable, FeeOf
<1>4. t.amount - fee \in Money
  BY <1>1, <1>3, MoneyFacts
<1>. HIDE DEF fee
<1>5. FullyConfirmedTransaction \in 0 .. 6 /\ IncomingDirection \in 0 .. 2 /\ Nil \in Nat
  BY DEF FullyConfirmedTransaction, IncomingDirection, Nil
<1>6. /\ TxOK(d) /\ d.id = t.id /\ d.hash = t.hash /\ d.cold = t.cold
      /\ d.status = FullyConfirmedTransaction /\ d.reported = t.reported
      /\ d.amount = t.amount
  BY <1>2, <1>3, <1>5 DEF DoneTx, TxOK, fee
<1>. HIDE DEF d
<1>7. TxOK(e) /\ e.id = Nil /\ e.hash = d.hash /\ e.status = d.status
  <2>1. d.amount - fee \in Money /\ -1 \in Int /\ Nil \in Ids \cup Nat
    BY <1>4, <1>5, <1>6
  <2>. DEFINE a == d.amount - fee
              m == -1
  <2>2. e = [d EXCEPT !.reported = m, !.direction = IncomingDirection,
                      !.id = Nil, !.amount = a]
    BY DEF DepositTx
  <2>. HIDE DEF a, m, e
  <2>. QED BY <1>5, <1>6, <2>1, <2>2 DEF TxOK, a, m
<1>. QED
  BY <1>6, <1>7 DEF d, fee

\* A transfer between accounts: a withdrawal and a deposit.
LEMMA InternalKeeps ==
    ASSUME NEW H, NEW s, PgGood(s, H), NEW h, h = Private(h.tx), TxOK(h.tx),
           h.tx.hash \in H, Held(PgView(s), h.tx), Affordable(h.tx),
           NEW r, r = internalWithdrawBetweenOurAccounts(s, h)
    PROVE  Keeps(s, r, H) /\ Beside(s, r)
<1>. DEFINE t == h.tx
            fee == FeeOf(t)
            d == DoneTx(t)
            p == StoreTransaction(s, Private(d))
            g == notifyTransaction(p.s, p.h)
            out == IF t.cold THEN [s |-> s, own |-> Private(d)]
                   ELSE [s |-> g, own |-> p.own]
            e == DepositTx(d, fee)
            c == StoreTransaction(out.s, Private(e))
            z == notifyTransaction(c.s, c.h)
<1>1. /\ \A u : Private(u).tx = u /\ Private(u) = Private(Private(u).tx)
      /\ \A x, y, tx : Write(x, Private(y), tx) = [s |-> x, h |-> Private(tx)]
  BY WritePrivate DEF Private
<1>2. ~HasHash(t) /\ t.id \in Ids /\ t.id # Nil
  <2>1. t.id \in Ids /\ ~HasHash(t)
    BY DEF Held
  <2>. QED BY <2>1, NumbersApart DEF Nil
<1>3. /\ TxOK(d) /\ d.id = t.id /\ d.hash = t.hash
      /\ TxOK(e) /\ e.id = Nil /\ e.hash = t.hash /\ e.status = FullyConfirmedTransaction
  BY TransferTx
<1>4. out.own = Private(d) => r = z
  <2>1. SUFFICES ASSUME out.own = Private(d) PROVE r = z
    OBVIOUS
  <2>. DEFINE done == Write(s, h, d)
              stored == StoreTransaction(done.s, done.h)
              paid == IF h.tx.cold THEN [s |-> done.s, own |-> done.h]
                      ELSE [s |-> notifyTransaction(stored.s, stored.h), own |-> stored.own]
              deposit == Write(paid.s, paid.own, DepositTx(paid.own.tx, fee))
              credited == StoreTransaction(deposit.s, deposit.h)
  <2>2. r = notifyTransaction(credited.s, credited.h)
    BY DEF internalWithdrawBetweenOurAccounts, DoneTx, DepositTx, FeeOf
  <2>. HIDE DEF d, fee
  <2>3. done.s = s /\ done.h = Private(d)
    BY WritePrivate
  <2>4. paid = out
    BY <2>3
  <2>. HIDE DEF paid, out
  <2>5. deposit.s = out.s /\ deposit.h = Private(e)
    BY <1>1, <2>1, <2>4
  <2>. QED BY <2>2, <2>5
<1>. HIDE DEF d, e, fee, t
<1>5. Fits(PgView(s), d)
  BY <1>3, HeldFits DEF t
<1>6. /\ Keeps(s, g, H) /\ Beside(s, g) /\ p.own = Private(d)
  <2>1. d.hash \in H
    BY <1>3 DEF t
  <2>2. Keeps(s, g, H) /\ Beside(s, g)
    BY <1>1, <1>3, <1>5, <2>1, StoreNotifyKeeps
  <2>3. p.own = Private(d) \/ (p.own = p.h /\ p.h.tx = WithId(d, Len(s.rows) + 1)
                                /\ p.h = Private(p.h.tx))
    BY <1>1, <1>3, <1>5, <2>1, PgStoreKeeps
  <2>4. WithId(d, Len(s.rows) + 1) = d
    BY <1>2, <1>3 DEF WithId
  <2>. HIDE DEF p
  <2>. QED BY <2>2, <2>3, <2>4
<1>7. Keeps(s, out.s, H) /\ Beside(s, out.s) /\ out.own = Private(d)
  <2>. HIDE DEF g, p
  <2>. QED BY <1>6, KeepsSame DEF Beside
<1>. HIDE DEF out
<1>8. Fits(PgView(out.s), e) /\ e.hash \in H
  <2>1. Settled(e)
    BY <1>3 DEF Settled, FullyConfirmedTransaction
  <2>2. ~HasHash(e)
    BY <1>2, <1>3 DEF HasHash
  <2>. QED BY <1>3, <2>1, <2>2 DEF Fits, t
<1>9. Keeps(out.s, z, H) /\ Beside(out.s, z)
  <2>1. PgGood(out.s, H)
    BY <1>7 DEF Keeps
  <2>. QED BY <1>1, <1>3, <1>8, <2>1, StoreNotifyKeeps
<1>10. r = z
  BY <1>4, <1>7
<1>. HIDE DEF z
<1>11. Keeps(s, z, H) /\ Beside(s, z)
  BY <1>7, <1>9, KeepsTwice DEF Beside
<1>. QED
  BY <1>10, <1>11


\* The hash of a broadcast is not empty.
LEMMA IdHash == \A id \in Ids : id \in Hashes /\ id # ""
<1>1. "" \notin Ids \cup Deposits
  BY StoragesAssumption, Zenon
<1>. QED
  BY <1>1 DEF Hashes

\* A withdrawal as it is once broadcast.
SentTx(t) == [t EXCEPT !.status = NewTransaction, !.hash = t.id]

\* It is a transaction.
LEMMA SentTxOK ==
    ASSUME NEW t, TxOK(t), t.id \in Ids
    PROVE  LET u == SentTx(t)
           IN /\ TxOK(u) /\ HasHash(u) /\ u.id = t.id /\ u.hash = t.id /\ u.cold = t.cold
              /\ u.status = NewTransaction /\ u.reported = t.reported
              /\ u.address = t.address /\ u.direction = t.direction
              /\ u.amount = t.amount /\ u.fee = t.fee /\ u.feeType = t.feeType
<1>. DEFINE u == SentTx(t)
            k == t.id
<1>1. k \in Hashes \cup {""} /\ k # "" /\ NewTransaction \in 0 .. 6 /\ k \in Ids \cup Nat
  <2>1. k \in Ids
    OBVIOUS
  <2>. HIDE DEF k
  <2>2. k \in Hashes /\ k # ""
    BY <2>1, IdHash
  <2>3. NewTransaction \in 0 .. 6
    BY DEF NewTransaction
  <2>. QED BY <2>1, <2>2, <2>3, Zenon
<1>2. u = [t EXCEPT !.status = NewTransaction, !.hash = k]
  BY DEF SentTx
<1>. HIDE DEF u, k
<1>3. /\ TxOK(u) /\ u.hash = k /\ u.id = t.id /\ u.cold = t.cold
      /\ u.status = NewTransaction /\ u.reported = t.reported
      /\ u.address = t.address /\ u.direction = t.direction
      /\ u.amount = t.amount /\ u.fee = t.fee /\ u.feeType = t.feeType
  BY <1>1, <1>2 DEF TxOK
<1>. QED
  BY <1>1, <1>3 DEF u, k, HasHash

\* No transaction has this hash.
Unheard(v, hash) == \A i \in 1 .. Len(v) : v[i].hash # hash

\* The node has broadcast the withdrawal.
LEMMA SuccessKeeps ==
    ASSUME NEW H, NEW s, PgGood(s, H), NEW h, h = Private(h.tx), TxOK(h.tx),
           Held(PgView(s), h.tx), Unheard(PgView(s), h.tx.id),
           NEW r, r = handleWithdrawalSuccess(s, h)
    PROVE  /\ Keeps(s, r, H \cup {h.tx.id}) /\ SameSeen(s, r)
           /\ \E i \in 1 .. Len(r.rows) :
                PgView(r)[i].id = h.tx.id /\ PgView(r)[i].hash = h.tx.id
<1>. DEFINE t == h.tx
            K == H \cup {t.id}
            u == SentTx(t)
            p == StoreTransaction(s, Private(u))
            g == IF t.cold THEN p.s ELSE notifyTransaction(p.s, p.own)
            v == PgView(s)
<1>1. \A x : Private(x).tx = x /\ Private(x) = Private(Private(x).tx)
  BY DEF Private
<1>2. t.id \in Ids /\ t.id # Nil /\ ~HasHash(t)
  <2>1. t.id \in Ids /\ ~HasHash(t)
    BY DEF Held
  <2>. QED BY <2>1, NumbersApart DEF Nil
<1>3. /\ TxOK(u) /\ HasHash(u) /\ u.id = t.id /\ u.hash = t.id
      /\ u.status = NewTransaction /\ u.reported = t.reported
      /\ u.address = t.address /\ u.direction = t.direction
      /\ u.amount = t.amount /\ u.fee = t.fee /\ u.feeType = t.feeType /\ u.cold = t.cold
  BY <1>2, SentTxOK
<1>4. r = ClearWallet(g)
  <2>1. Write(s, h, u) = [s |-> s, h |-> Private(u)]
    BY WritePrivate
  <2>. QED BY <2>1 DEF handleWithdrawalSuccess, SentTx
<1>5. PgGood(s, K)
  BY GoodMore
<1>6. Len(v) = Len(s.rows)
  BY ViewOf DEF PgGood
<1>. HIDE DEF u, t, K
<1>7. Fits(v, u)
  <2>1. Settled(u)
    BY <1>3 DEF Settled, NewTransaction, FullyConfirmedTransaction
  <2>2. \A i \in 1 .. Len(v) : v[i].id = u.id => ~HasHash(v[i])
    BY <1>3 DEF Held, t
  <2>3. \A i \in 1 .. Len(v) : v[i].hash # u.hash
    BY <1>3 DEF Unheard, t
  <2>. QED BY <1>2, <1>3, <2>1, <2>2, <2>3 DEF Fits
<1>8. \A i \in 1 .. Len(s.rows) : ~SameOutput(u, v[i])
  BY <1>3, <1>6 DEF SameOutput, Unheard, t
<1>9. u.hash \in K
  BY <1>3 DEF K
<1>10. /\ PgGood(p.s, K) /\ Grown(v, PgView(p.s))
       /\ \A i \in 1 .. Len(s.rows) : PgView(p.s)[i].reported = v[i].reported
       /\ p.h = Private(p.h.tx) /\ TxOK(p.h.tx) /\ p.h.tx.hash = u.hash
       /\ \E i \in 1 .. Len(p.s.rows) : PgView(p.s)[i] = p.h.tx
       /\ \/ p.own = Private(u) /\ Len(p.s.rows) = Len(s.rows)
          \/ p.own = p.h /\ p.h.tx = WithId(u, Len(s.rows) + 1)
       /\ \/ p.h.tx.id = u.id \/ u.id = Nil
          \/ \E i \in 1 .. Len(s.rows) : SameOutput(u, v[i])
       /\ p.s.meta = s.meta /\ p.s.accounts = s.accounts /\ p.s.events = s.events
  BY <1>1, <1>3, <1>5, <1>7, <1>9, PgStoreKeeps
<1>. HIDE DEF p
<1>11. p.h.tx.id = t.id /\ p.h.tx.hash = t.id
  BY <1>2, <1>3, <1>8, <1>10
<1>12. WithId(u, Len(s.rows) + 1) = u
  BY <1>2, <1>3 DEF WithId
<1>13. p.own = Private(u)
  BY <1>10, <1>12
<1>14. PICK k \in 1 .. Len(p.s.rows) : PgView(p.s)[k] = p.h.tx
  BY <1>10
<1>15. p.h.tx.reported = u.reported
  <2>1. CASE p.h.tx = u
    BY <2>1
  <2>2. CASE Len(p.s.rows) = Len(s.rows)
    <3>1. k \in 1 .. Len(s.rows) /\ PgView(p.s)[k].reported = v[k].reported
      BY <1>10, <1>14, <2>2
    <3>2. v[k].id = t.id
      BY <1>6, <1>10, <1>11, <1>14, <3>1 DEF Grown, Goes
    <3>3. v[k].reported = t.reported
      BY <1>6, <3>1, <3>2 DEF Held, t
    <3>. QED BY <1>3, <1>14, <3>1, <3>3
  <2>. QED BY <1>10, <1>12, <2>1, <2>2
<1>16. \A i \in 1 .. Len(p.s.rows) : PgView(p.s)[i].id = u.id
                                       => PgView(p.s)[i].reported <= u.reported
  <2>1. u.reported \in Int
    BY <1>3 DEF TxOK
  <2>2. Kept(PgView(p.s)) /\ Len(PgView(p.s)) = Len(p.s.rows)
    BY <1>10, ViewOf DEF PgGood
  <2>3. \A i \in 1 .. Len(p.s.rows) : PgView(p.s)[i].id = u.id => i = k
    BY <1>3, <1>11, <1>14, <2>2 DEF Kept
  <2>. QED BY <1>14, <1>15, <2>1, <2>3
<1>17. Keeps(s, p.s, K) /\ Beside(s, p.s)
  <2>1. PgOK(s) /\ PgOK(p.s)
    BY <1>10 DEF PgGood
  <2>2. Tells(s, p.s)
    BY <1>10, <2>1, TellsGrown
  <2>. QED BY <1>10, <2>2 DEF Keeps, Beside
<1>24. About(u, PgView(p.s))
  <2>0. Len(PgView(p.s)) = Len(p.s.rows)
    BY <1>10, ViewOf DEF PgGood
  <2>1. CASE p.h.tx = u
    BY <1>14, <2>0, <2>1 DEF About, Names
  <2>2. CASE Len(p.s.rows) = Len(s.rows)
    <3>1. k \in 1 .. Len(v) /\ Goes(v[k], p.h.tx)
      BY <1>6, <1>10, <1>14, <2>2 DEF Grown
    <3>2. v[k].id = t.id
      BY <1>11, <3>1 DEF Goes
    <3>3. Names(t, v[k])
      BY <3>1, <3>2 DEF Held, t
    <3>4. Names(u, p.h.tx)
      BY <1>3, <1>11, <3>1, <3>3 DEF Names, Goes
    <3>. QED BY <1>14, <2>0, <3>4 DEF About
  <2>. QED BY <1>10, <1>12, <2>1, <2>2
<1>18. Keeps(p.s, g, K) /\ Beside(p.s, g) /\ SameRows(p.s, g)
  <2>1. CASE t.cold
    BY <1>10, <2>1, KeepsSame DEF Beside, SameRows
  <2>2. CASE ~t.cold
    <3>1. g = notifyTransaction(p.s, p.own)
      BY <2>2
    <3>2. p.own.tx = u
      BY <1>1, <1>13
    <3>. HIDE DEF g
    <3>. QED BY <1>3, <1>10, <1>16, <1>24, <3>1, <3>2, NotifyKeeps
  <2>. QED BY <2>1, <2>2
<1>. HIDE DEF g
<1>19. Keeps(s, g, K) /\ Beside(s, g)
  BY <1>5, <1>17, <1>18, KeepsTwice DEF Beside
<1>20. Keeps(g, r, K) /\ SameSeen(g, r) /\ PgView(r) = PgView(g)
  <2>1. PgGood(g, K)
    BY <1>19 DEF Keeps
  <2>. QED BY <1>4, <2>1, LockKeeps
<1>21. Keeps(s, r, K)
  BY <1>5, <1>19, <1>20, KeepsTwice
<1>22. SameSeen(s, r)
  BY <1>19, <1>20 DEF SameSeen, Beside, PgGetLastSeenBlockHash, GetMeta
<1>23. k \in 1 .. Len(r.rows) /\ PgView(r)[k].id = t.id /\ PgView(r)[k].hash = t.id
  <2>1. PgOK(r) /\ PgOK(g)
    BY <1>19, <1>20 DEF Keeps, PgGood
  <2>2. Len(r.rows) = Len(g.rows)
    BY <1>20, <2>1, ViewOf
  <2>. QED BY <1>11, <1>14, <1>18, <1>20, <2>2 DEF SameRows
<1>. QED
  BY <1>21, <1>22, <1>23 DEF t, K

\* The node has not.
LEMMA ErrorKeeps ==
    ASSUME NEW H, NEW s, PgGood(s, H), NEW h, h = Private(h.tx), TxOK(h.tx),
           h.tx.hash \in H, Held(PgView(s), h.tx), NEW insufficient \in BOOLEAN,
           NEW r, r = handleWithdrawalError(s, h, insufficient)
    PROVE  Keeps(s, r, H) /\ SameSeen(s, r)
<1>. DEFINE g == IF insufficient /\ ~h.tx.cold
                   THEN updatePendingTxStatus(s, Private(h.tx), PendingTransaction) ELSE s
<1>1. r = ClearWallet(g)
  BY DEF handleWithdrawalError
<1>2. PendingTransaction \in 0 .. 6 /\ Private(h.tx) = h
  BY DEF PendingTransaction
<1>3. Keeps(s, updatePendingTxStatus(s, h, PendingTransaction), H)
      /\ Beside(s, updatePendingTxStatus(s, h, PendingTransaction))
  BY <1>2, PendingKeeps
<1>4. Keeps(s, g, H) /\ Beside(s, g)
  BY <1>2, <1>3, KeepsSame DEF Beside
<1>. HIDE DEF g
<1>5. PgGood(g, H)
  BY <1>4 DEF Keeps
<1>6. Keeps(g, r, H) /\ SameSeen(g, r)
  BY <1>1, <1>5, LockKeeps
<1>7. Keeps(s, r, H)
  BY <1>4, <1>6, KeepsTwice
<1>. QED
  BY <1>4, <1>6, <1>7 DEF SameSeen, Beside, PgGetLastSeenBlockHash, GetMeta


-----------------------------------------------------------------------------
(* The loops over what a query answers with.                               *)

\* The text of a status tells it apart.
LEMMA StatusApart ==
    ASSUME NEW c \in 0 .. 6, NEW d \in 0 .. 6, StatusString(c) = StatusString(d)
    PROVE  c = d
<1>1. /\ TransactionStatusFromString(StatusString(c)).value = c
      /\ TransactionStatusFromString(StatusString(d)).value = d
  BY StatusText
<1>. QED
  BY <1>1

\* The columns the other queries look at.
LEMMA RowColumns ==
    ASSUME NEW s, PgOK(s), NEW i \in 1 .. Len(s.rows)
    PROVE  /\ s.rows[i].hash = PgView(s)[i].hash
           /\ s.rows[i].confirmations = PgView(s)[i].confirmations
           /\ s.rows[i].status = StatusString(PgView(s)[i].status)
           /\ PgView(s)[i].status \in 0 .. 6
<1>1. s.rows[i] = Row(PgView(s)[i]) /\ TxOK(PgView(s)[i])
  BY ViewOf
<1>. DEFINE t == PgView(s)[i]
<1>. HIDE DEF t
<1>2. /\ Row(t).hash = t.hash /\ Row(t).confirmations = t.confirmations
      /\ Row(t).status = StatusString(t.status)
  BY DEF Row
<1>3. t.status \in 0 .. 6
  BY <1>1 DEF TxOK, t
<1>. QED
  BY <1>1, <1>2, <1>3 DEF t

\* A query answers with copies of rows.
Copies(s, q) ==
    /\ IsSeq(q)
    /\ \A j \in 1 .. Len(q) : \E i \in 1 .. Len(s.rows) : q[j] = Private(PgView(s)[i])

\* A copy of a row the query l looks for.
CopyFor(s, l, h) ==
    \E i \in 1 .. Len(s.rows) : h = Private(PgView(s)[i]) /\ Test(l, s.rows[i])

\* An answer holds what is read from the selected rows.
LEMMA AnswerCopies ==
    ASSUME NEW s, PgOK(s), NEW l, NEW q, Chosen(l, s.rows, s.rows, Len(s.rows), q, q),
           NEW a, a = PgAnswer(q)
    PROVE  /\ Copies(s, a) /\ Len(a) = Len(q)
           /\ \A j \in 1 .. Len(q) : CopyFor(s, l, a[j])
<1>. DEFINE n == Len(s.rows)
<1>1. IsSeq(q) /\ Len(q) \in Nat
  BY DEF Chosen, IsSeq
<1>2. PICK at \in [1 .. Len(q) -> 1 .. n] :
         \A j \in 1 .. Len(q) : q[j] = s.rows[at[j]] /\ Test(l, s.rows[at[j]])
  BY DEF Chosen
<1>3. a = [j \in 1 .. Len(q) |-> Private(Tx(q[j]))]
  BY <1>1 DEF PgAnswer, IsSeq, Tx
<1>4. \A i \in 1 .. n : PgView(s)[i] = Tx(s.rows[i])
  BY ViewOf
<1>5. IsSeq(a) /\ Len(a) = Len(q)
  BY <1>1, <1>3, LenOf
<1>6. ASSUME NEW j \in 1 .. Len(q)
      PROVE  \E i \in 1 .. n : a[j] = Private(PgView(s)[i]) /\ Test(l, s.rows[i])
  <2>1. at[j] \in 1 .. n /\ a[j] = Private(Tx(s.rows[at[j]])) /\ Test(l, s.rows[at[j]])
    BY <1>2, <1>3
  <2>. QED BY <1>4, <2>1
<1>. QED
  BY <1>5, <1>6 DEF Copies, CopyFor

\* The answer with pending withdrawals.
LEMMA PendingAnswer ==
    ASSUME NEW s, PgOK(s), NEW q, q = GetPendingTransactions(s)
    PROVE  /\ Copies(s, q)
           /\ \A j \in 1 .. Len(q) : q[j].tx.status \in {PendingTransaction,
                                                         PendingColdStorageTransaction}
<1>. DEFINE l == <<"pending">>
            rows == RowsPending(s.rows)
<1>1. IsSeq(s.rows)
  BY DEF PgOK
<1>2. PICK f : Course(l, << >>, s.rows, f, rows)
  BY <1>1, PendingLoop
<1>3. l[1] \in QueryKinds
  BY DEF QueryKinds
<1>4. q = PgAnswer(rows)
  BY Queries DEF GetPendingTransactions, PgOK, IsPg
<1>5. \A i \in 1 .. Len(s.rows) : Test(l, s.rows[i])
        => PgView(s)[i].status \in {PendingTransaction, PendingColdStorageTransaction}
  <2>1. TAKE i \in 1 .. Len(s.rows)
  <2>2. s.rows[i].status = StatusString(PgView(s)[i].status) /\ PgView(s)[i].status \in 0 .. 6
    BY RowColumns
  <2>3. PendingTransaction \in 0 .. 6 /\ PendingColdStorageTransaction \in 0 .. 6
    BY DEF PendingTransaction, PendingColdStorageTransaction
  <2>4. SUFFICES ASSUME Test(l, s.rows[i])
                 PROVE  PgView(s)[i].status \in {PendingTransaction,
                                                 PendingColdStorageTransaction}
    OBVIOUS
  <2>5. \/ s.rows[i].status = StatusString(PendingTransaction)
        \/ s.rows[i].status = StatusString(PendingColdStorageTransaction)
    BY <2>4 DEF Test
  <2>. QED BY <2>2, <2>3, <2>5, StatusApart
<1>. HIDE DEF rows, l
<1>6. Chosen(l, s.rows, s.rows, Len(s.rows), rows, rows)
  BY <1>1, <1>2, <1>3, SelectedTogether
<1>7. /\ Copies(s, q) /\ Len(q) = Len(rows)
      /\ \A j \in 1 .. Len(rows) : CopyFor(s, l, q[j])
  BY <1>4, <1>6, AnswerCopies
<1>8. \A t : Private(t).tx = t
  BY DEF Private
<1>. QED
  BY <1>5, <1>7, <1>8 DEF CopyFor

\* The answer with broadcast transactions.
LEMMA BroadcastAnswer ==
    ASSUME NEW s, PgOK(s), NEW q, q = GetBroadcastedTransactionsWithLessConfirmations(s)
    PROVE  Copies(s, q) /\ \A j \in 1 .. Len(q) : HasHash(q[j].tx)
<1>. DEFINE l == <<"broadcast">>
            rows == RowsBroadcast(s.rows)
<1>1. IsSeq(s.rows)
  BY DEF PgOK
<1>2. PICK f : Course(l, << >>, s.rows, f, rows)
  BY <1>1, BroadcastLoop
<1>3. l[1] \in QueryKinds
  BY DEF QueryKinds
<1>4. q = PgAnswer(rows)
  BY Queries DEF GetBroadcastedTransactionsWithLessConfirmations, PgOK, IsPg
<1>5. \A i \in 1 .. Len(s.rows) : Test(l, s.rows[i]) => HasHash(PgView(s)[i])
  <2>1. TAKE i \in 1 .. Len(s.rows)
  <2>2. s.rows[i].hash = PgView(s)[i].hash
    BY RowColumns
  <2>3. Test(l, s.rows[i]) => s.rows[i].hash # ""
    BY DEF Test
  <2>. QED BY <2>2, <2>3 DEF HasHash
<1>. HIDE DEF rows, l
<1>6. Chosen(l, s.rows, s.rows, Len(s.rows), rows, rows)
  BY <1>1, <1>2, <1>3, SelectedTogether
<1>7. /\ Copies(s, q) /\ Len(q) = Len(rows)
      /\ \A j \in 1 .. Len(rows) : CopyFor(s, l, q[j])
  BY <1>4, <1>6, AnswerCopies
<1>8. \A t : Private(t).tx = t
  BY DEF Private
<1>. QED
  BY <1>5, <1>7, <1>8 DEF CopyFor

\* A withdrawal that was not broadcast has one of these hashes.
Unsent(H) == "" \in H

\* Pending withdrawals are marked.
LEMMA MarkAllKeeps ==
    ASSUME NEW H, Unsent(H), NEW s, PgGood(s, H), NEW covered,
           NEW r, r = MarkAll(s, covered)
    PROVE  Keeps(s, r, H) /\ SameSeen(s, r)
<1>. DEFINE q == GetPendingTransactions(s)
            m == Len(q)
            g == AllMarked(s, q, covered)
            v == PgView(s)
<1>1. PgOK(s) /\ Kept(v)
  BY DEF PgGood
<1>2. /\ Copies(s, q)
      /\ \A j \in 1 .. m : q[j].tx.status \in {PendingTransaction, PendingColdStorageTransaction}
  BY <1>1, PendingAnswer
<1>3. PICK f : Course(<<"mark", covered>>, s, q, f, g)
  BY <1>2, MarkLoop DEF Copies
<1>4. m \in Nat /\ DOMAIN q = 1 .. m
  BY <1>2 DEF Copies, IsSeq
<1>5. r = SetMoneyRequiredFromColdStorage(g, MoneyExceeding(q, covered))
  BY HandlerLoops
<1>6. /\ Len(v) = Len(s.rows) /\ \A i \in 1 .. Len(s.rows) : TxOK(v[i])
  BY <1>1, ViewOf
<1>7. \A t : Private(t).tx = t
  BY DEF Private
<1>. HIDE DEF q, m, g, v
<1>8. ASSUME NEW j \in 1 .. m
      PROVE  /\ q[j] = Private(q[j].tx) /\ TxOK(q[j].tx) /\ ~HasHash(q[j].tx)
             /\ q[j].tx.id \in Ids
             /\ \E i \in 1 .. Len(s.rows) : q[j].tx = v[i]
  <2>1. PICK i \in 1 .. Len(s.rows) : q[j] = Private(v[i])
    BY <1>2 DEF Copies, v, m
  <2>2. q[j].tx = v[i] /\ TxOK(v[i])
    BY <1>6, <1>7, <2>1
  <2>3. v[i].status > FullyConfirmedTransaction
    <3>1. v[i].status \in {PendingTransaction, PendingColdStorageTransaction}
      BY <1>2, <2>2
    <3>. QED BY <3>1 DEF PendingTransaction, PendingColdStorageTransaction,
                         FullyConfirmedTransaction
  <2>4. Settled(v[i])
    BY <1>1, <1>6 DEF Kept
  <2>5. ~HasHash(v[i]) /\ v[i].id \in Ids
    BY <2>3, <2>4 DEF Settled
  <2>. QED BY <2>1, <2>2, <2>5
<1>. DEFINE Claim(k) ==
                /\ Keeps(s, f[k], H) /\ SameRows(s, f[k]) /\ Beside(s, f[k])
                /\ \A i \in 1 .. Len(s.rows) : PgView(f[k])[i].reported = v[i].reported
            G == {k \in Nat : k <= m => Claim(k)}
<1>9. Claim(0)
  <2>1. f[0] = s
    BY <1>3 DEF Course
  <2>2. Keeps(s, s, H) /\ SameRows(s, s) /\ Beside(s, s)
    BY <1>1, KeepsRows DEF Beside, Tells
  <2>. QED BY <2>1, <2>2 DEF v
<1>10. ASSUME NEW k \in Nat, k <= m => Claim(k), k + 1 <= m PROVE Claim(k + 1)
  <2>1. k + 1 \in 1 .. m /\ (k + 1) - 1 = k /\ k <= m
    BY <1>4, <1>10
  <2>2. Claim(k)
    BY <1>10, <2>1
  <2>. DEFINE h == q[k + 1]
              status == IF h.tx.id \in covered THEN PendingTransaction
                        ELSE PendingColdStorageTransaction
  <2>3. f[k + 1] = Turn(<<"mark", covered>>, f[k], h)
    BY <1>3, <1>4, <2>1 DEF Course
  <2>4. f[k + 1] = updatePendingTxStatus(f[k], h, status)
    BY <2>3 DEF Turn, Mark
  <2>5. status \in 0 .. 6
    BY DEF PendingTransaction, PendingColdStorageTransaction
  <2>6. PgGood(f[k], H) /\ PgOK(f[k])
    BY <2>2 DEF Keeps, PgGood
  <2>7. /\ h = Private(h.tx) /\ TxOK(h.tx) /\ ~HasHash(h.tx) /\ h.tx.id \in Ids
        /\ \E i \in 1 .. Len(s.rows) : h.tx = v[i]
    BY <1>8, <2>1
  <2>8. PICK i \in 1 .. Len(s.rows) : h.tx = v[i]
    BY <2>7
  <2>. HIDE DEF h, status
  <2>9. Len(PgView(f[k])) = Len(s.rows) /\ Len(f[k].rows) = Len(s.rows)
    BY <2>2, <2>6, ViewOf DEF SameRows
  <2>10. Held(PgView(f[k]), h.tx)
    <3>1. ASSUME NEW j \in 1 .. Len(s.rows), PgView(f[k])[j].id = h.tx.id
          PROVE  /\ ~HasHash(PgView(f[k])[j]) /\ PgView(f[k])[j].reported = h.tx.reported
                 /\ Names(h.tx, PgView(f[k])[j])
      <4>1. v[j].id = v[i].id /\ PgView(f[k])[j].hash = v[j].hash
        BY <2>2, <2>8, <3>1 DEF SameRows, v
      <4>2. j = i
        BY <1>1, <1>6, <4>1 DEF Kept
      <4>3. Goes(v[j], PgView(f[k])[j])
        BY <1>6, <2>2 DEF Keeps, Grown, v
      <4>4. Names(h.tx, PgView(f[k])[j])
        BY <2>8, <4>2, <4>3 DEF Names, Goes
      <4>. QED BY <2>2, <2>7, <2>8, <4>1, <4>2, <4>4 DEF HasHash
    <3>. QED BY <2>7, <2>9, <3>1 DEF Held
  <2>11. h.tx.hash \in H
    BY <2>7 DEF HasHash, Unsent
  <2>12. \E j \in 1 .. Len(f[k].rows) : PgView(f[k])[j].id = h.tx.id
    BY <2>2, <2>8, <2>9 DEF SameRows, v
  <2>13. Keeps(f[k], f[k + 1], H) /\ Beside(f[k], f[k + 1]) /\ SameRows(f[k], f[k + 1])
    BY <2>4, <2>5, <2>6, <2>7, <2>10, <2>11, <2>12, PendingKeeps
  <2>14. \A j \in 1 .. Len(s.rows) : PgView(f[k + 1])[j].reported = v[j].reported
    <3>1. \A j \in 1 .. Len(f[k].rows) : PgView(f[k + 1])[j].reported = PgView(f[k])[j].reported
      BY <2>4, <2>5, <2>6, <2>7, <2>10, <2>11, <2>12, PendingKeeps
    <3>. QED BY <2>2, <2>9, <3>1
  <2>15. Keeps(s, f[k + 1], H)
    BY <2>2, <2>13, KeepsTwice
  <2>16. SameRows(s, f[k + 1]) /\ Beside(s, f[k + 1])
    BY <2>2, <2>13 DEF SameRows, Beside
  <2>. QED BY <2>14, <2>15, <2>16
<1>11. G = Nat
  <2>. HIDE DEF Claim
  <2>1. G \in SUBSET Nat /\ 0 \in G
    BY <1>9
  <2>2. \A k \in G : k + 1 \in G
    BY <1>10, <1>4
  <2>. HIDE DEF G
  <2>. QED BY <2>1, <2>2, NaturalsBySet
<1>12. Claim(m)
  <2>. HIDE DEF Claim
  <2>. QED BY <1>4, <1>11
<1>13. g = f[m]
  BY <1>3 DEF Course, m
<1>14. Keeps(s, g, H) /\ Beside(s, g)
  BY <1>12, <1>13
<1>15. PgGood(g, H) /\ PgOK(g)
  BY <1>14 DEF Keeps, PgGood
<1>16. r = SetMeta(g, "money_required_from_cold_storage",
                   FormatUint(MoneyExceeding(q, covered)))
  BY <1>5, <1>15 DEF SetMoneyRequiredFromColdStorage, PgSetMoneyRequired, PgOK, IsPg
<1>17. PgOK(r) /\ PgView(r) = PgView(g) /\ SameSeen(g, r) /\ Tells(g, r)
  BY <1>15, <1>16, MetaRows DEF SameSeen, PgGetLastSeenBlockHash
<1>18. Keeps(g, r, H)
  BY <1>15, <1>17, KeepsRows
<1>19. Keeps(s, r, H)
  BY <1>14, <1>18, KeepsTwice
<1>. QED
  BY <1>14, <1>17, <1>19 DEF SameSeen, Beside, PgGetLastSeenBlockHash, GetMeta


-----------------------------------------------------------------------------
(* The outputs the node lists.                                             *)

\* The image of a finite set.
LEMMA ImageOf ==
    ASSUME NEW S, IsFiniteSet(S), NEW f, f = [x \in S |-> f[x]],
           NEW T, T = {f[x] : x \in S}
    PROVE  IsFiniteSet(T)
<1>1. f \in [S -> T] /\ \A y \in T : \E x \in S : f[x] = y
  BY Zenon
<1>2. f \in Surjection(S, T)
  BY <1>1 DEF Surjection
<1>. QED
  BY <1>2, FS_Surjection

\* The sequence made of a finite set.
LEMMA ListOf ==
    ASSUME NEW S, IsFiniteSet(S), NEW q, q = SetToSeq(S)
    PROVE  IsSeq(q) /\ \A j \in 1 .. Len(q) : q[j] \in S
<1>. DEFINE n == Cardinality(S)
<1>1. n \in Nat /\ ExistsBijection(1 .. n, S)
  BY FS_CardinalityType
<1>2. \E f \in [1 .. n -> S] : IsInjective(f)
  BY <1>1 DEF ExistsBijection, Bijection, Injection
<1>3. q \in [1 .. n -> S]
  BY <1>2 DEF SetToSeq
<1>. HIDE DEF n
<1>4. IsSeq(q) /\ Len(q) = n
  BY <1>1, <1>3, LenOf
<1>. QED
  BY <1>3, <1>4

\* There are finitely many outputs.
LEMMA FiniteOutputs == IsFiniteSet(Outputs)
<1>. DEFINE P == {q \in Deposits \X {AccountAddress, HotAddress} : q[2] \in PaysTo[q[1]]}
            I == {i \in Ids : Request[i].address \in {AccountAddress, HotAddress}}
            a == [p \in P |-> [hash |-> p[1], category |-> "receive", address |-> p[2],
                               amount |-> 1]]
            b == [id \in Ids |-> [hash |-> id, category |-> "send",
                                  address |-> Request[id].address,
                                  amount |-> Request[id].amount]]
            c == [id \in I |-> [hash |-> id, category |-> "receive",
                                address |-> Request[id].address,
                                amount |-> Request[id].amount]]
            A == {a[p] : p \in P}
            B == {b[id] : id \in Ids}
            C == {c[id] : id \in I}
<1>1. IsFiniteSet(Ids) /\ IsFiniteSet(Deposits)
  BY StoragesAssumption, Zenon
<1>2. IsFiniteSet(P)
  <2>1. IsFiniteSet({AccountAddress}) /\ IsFiniteSet({HotAddress})
    BY FS_Singleton
  <2>2. {AccountAddress, HotAddress} = {AccountAddress} \cup {HotAddress}
    OBVIOUS
  <2>3. IsFiniteSet({AccountAddress, HotAddress})
    BY <2>1, <2>2, FS_Union
  <2>4. IsFiniteSet(Deposits \X {AccountAddress, HotAddress})
    BY <1>1, <2>3, FS_Product
  <2>5. P \subseteq Deposits \X {AccountAddress, HotAddress}
    OBVIOUS
  <2>. HIDE DEF P
  <2>. QED BY <2>4, <2>5, FS_Subset
<1>3. IsFiniteSet(I)
  <2>1. I \subseteq Ids
    OBVIOUS
  <2>. HIDE DEF I
  <2>. QED BY <1>1, <2>1, FS_Subset
<1>4. Outputs = (A \cup B) \cup C
  BY DEF Outputs
<1>5. a = [p \in P |-> a[p]] /\ b = [id \in Ids |-> b[id]] /\ c = [id \in I |-> c[id]]
  OBVIOUS
<1>. HIDE DEF a, b, c, P, I
<1>6. IsFiniteSet(A) /\ IsFiniteSet(B) /\ IsFiniteSet(C)
  <2>1. IsFiniteSet(A)
    BY <1>2, <1>5, ImageOf
  <2>2. IsFiniteSet(B)
    BY <1>1, <1>5, ImageOf
  <2>3. IsFiniteSet(C)
    BY <1>3, <1>5, ImageOf
  <2>. QED BY <2>1, <2>2, <2>3
<1>. HIDE DEF A, B, C
<1>7. IsFiniteSet(A \cup B)
  BY <1>6, FS_Union
<1>8. IsFiniteSet((A \cup B) \cup C)
  BY <1>6, <1>7, FS_Union
<1>. QED
  BY <1>4, <1>8

\* What is known of an output.
LEMMA OutputFields ==
    ASSUME NEW o \in Outputs
    PROVE  o.hash \in Hashes /\ o.amount \in Money
<1>1. \A id \in Ids : Request[id].amount \in Money
  <2>1. \A id \in Ids : Request[id].amount \in 0 .. 2 ^ (Width - 1) - 1
    BY StoragesAssumption, Zenon
  <2>. QED BY <2>1 DEF Money
<1>2. CASE \E p \in Deposits \X {AccountAddress, HotAddress} :
             o = [hash |-> p[1], category |-> "receive", address |-> p[2], amount |-> 1]
  BY <1>2, MoneyFacts DEF Hashes
<1>3. CASE \E id \in Ids : \/ o = [hash |-> id, category |-> "send",
                                   address |-> Request[id].address,
                                   amount |-> Request[id].amount]
                           \/ o = [hash |-> id, category |-> "receive",
                                   address |-> Request[id].address,
                                   amount |-> Request[id].amount]
  BY <1>1, <1>3 DEF Hashes
<1>. QED
  BY <1>2, <1>3 DEF Outputs

\* The hashes of bitcoin transactions the node knows, and that of what is none.
Heard == {""} \cup {x \in Hashes : node[x] >= 0}

NodeOK == node \in [Hashes -> Int] /\ height \in Int

\* A transaction is one by its fields.
LEMMA MakeTx ==
    ASSUME NEW id \in Ids \cup Nat, NEW hash \in Hashes \cup {""},
           NEW confirmations \in Int, NEW address, NEW direction \in 0 .. 2,
           NEW status \in 0 .. 6, NEW amount \in Money, NEW fee \in Money,
           NEW feeType \in 0 .. 2, NEW cold \in BOOLEAN, NEW reported \in Int,
           NEW t, t = [id |-> id, hash |-> hash, confirmations |-> confirmations,
                       address |-> address, direction |-> direction, status |-> status,
                       amount |-> amount, fee |-> fee, feeType |-> feeType,
                       cold |-> cold, reported |-> reported]
    PROVE  TxOK(t)
<1>1. t \in [id : Ids \cup Nat, hash : Hashes \cup {""}, confirmations : Int,
            address : {address}, direction : 0 .. 2, status : 0 .. 6,
            amount : Money, fee : Money, feeType : 0 .. 2, cold : BOOLEAN,
            reported : Int]
  OBVIOUS
<1>2. t.address = address
  OBVIOUS
<1>. QED
  BY <1>1, <1>2 DEF TxOK

\* The transaction made of an output.
LEMMA ListedTx ==
    ASSUME NodeOK, NEW o \in Outputs, NEW t, t = NewTransactionFromBTCJSON(o)
    PROVE  TxOK(t) /\ t.id = Nil /\ t.hash = o.hash /\ t.status = NewTransaction
<1>. DEFINE d == CASE o.category = "receive" -> IncomingDirection
                   [] o.category = "send" -> OutgoingDirection
                   [] OTHER -> UnknownDirection
            c == node[o.hash]
            no == FALSE
            none == -1
            zero == 0
<1>1. o.hash \in Hashes /\ o.amount \in Money
  BY OutputFields
<1>2. c \in Int
  BY <1>1 DEF NodeOK
<1>3. d \in 0 .. 2
  BY DEF IncomingDirection, OutgoingDirection, UnknownDirection
<1>4. t = [id |-> Nil, hash |-> o.hash, confirmations |-> c, address |-> o.address,
           direction |-> d, status |-> NewTransaction, amount |-> o.amount, fee |-> zero,
           feeType |-> InvalidFee, cold |-> no, reported |-> none]
  BY DEF NewTransactionFromBTCJSON
<1>. HIDE DEF d, c
<1>5. Nil \in Ids \cup Nat /\ NewTransaction \in 0 .. 6 /\ InvalidFee \in 0 .. 2
  BY DEF Nil, NewTransaction, InvalidFee
<1>6. zero \in Money /\ none \in Int
  BY MoneyFacts
<1>8. o.hash \in Hashes \cup {""}
  BY <1>1
<1>7. no \in BOOLEAN
  OBVIOUS
<1>. HIDE DEF no, none, zero
<1>9. TxOK(t)
  BY <1>1, <1>2, <1>3, <1>4, <1>5, <1>6, <1>7, <1>8, MakeTx, ZenonT(60)
<1>10. t.address = o.address /\ t.id = Nil /\ t.hash = o.hash /\ t.status = NewTransaction
  BY <1>4
<1>. QED
  BY <1>9, <1>10 DEF TxOK


-----------------------------------------------------------------------------
(* What the node lists and what it says of known transactions.             *)

\* The loop over the listed outputs.
LEMMA ListedKeeps ==
    ASSUME NodeOK, NEW s, PgGood(s, Heard), PgGetLastSeenBlockHash(s) \in Int,
           NEW r, r = TakeAllListed(s)
    PROVE  Keeps(s, r, Heard) /\ PgGetLastSeenBlockHash(r) \in Int
<1>. DEFINE q == SetToSeq(Listed(s))
            m == Len(q)
            g == AllListedTaken(s, q)
<1>1. PgOK(s)
  BY DEF PgGood
<1>2. r = SetLastSeenBlockHash(g, height)
  BY HandlerLoops
<1>3. IsFiniteSet(Listed(s))
  <2>1. Listed(s) \subseteq Outputs
    BY DEF Listed
  <2>. QED BY <2>1, FiniteOutputs, FS_Subset
<1>4. IsSeq(q) /\ \A j \in 1 .. m : q[j] \in Listed(s)
  BY <1>3, ListOf
<1>5. PICK f : Course(<<"listed">>, s, q, f, g)
  BY <1>4, ListedLoop
<1>6. m \in Nat /\ DOMAIN q = 1 .. m
  BY <1>4 DEF IsSeq
<1>7. ASSUME NEW o \in Listed(s) PROVE o \in Outputs /\ o.hash \in Heard
  <2>1. o \in Outputs /\ node[o.hash] \in 0 .. height - GetLastSeenBlockHash(s)
    BY DEF Listed
  <2>2. GetLastSeenBlockHash(s) \in Int
    BY <1>1 DEF GetLastSeenBlockHash, PgOK, IsPg
  <2>3. o.hash \in Hashes
    BY <2>1, OutputFields
  <2>4. node[o.hash] >= 0
    BY <2>1, <2>2 DEF NodeOK
  <2>. QED BY <2>1, <2>3, <2>4 DEF Heard
<1>. HIDE DEF q, m, g
<1>. DEFINE Claim(k) == Keeps(s, f[k], Heard) /\ Beside(s, f[k])
            G == {k \in Nat : k <= m => Claim(k)}
<1>8. Claim(0)
  <2>1. f[0] = s
    BY <1>5 DEF Course
  <2>. QED BY <2>1, KeepsSame DEF Beside
<1>9. ASSUME NEW k \in Nat, k <= m => Claim(k), k + 1 <= m PROVE Claim(k + 1)
  <2>1. k + 1 \in 1 .. m /\ (k + 1) - 1 = k /\ k <= m
    BY <1>6, <1>9
  <2>2. Claim(k)
    BY <1>9, <2>1
  <2>. DEFINE o == q[k + 1]
              t == NewTransactionFromBTCJSON(o)
  <2>3. f[k + 1] = Turn(<<"listed">>, f[k], o)
    BY <1>5, <1>6, <2>1 DEF Course
  <2>4. f[k + 1] = updateTxInfo(f[k], Private(t))
    BY <2>3 DEF Turn, TakeListed
  <2>5. o \in Outputs /\ o.hash \in Heard
    BY <1>4, <1>7, <2>1
  <2>6. TxOK(t) /\ t.id = Nil /\ t.hash = o.hash /\ t.status = NewTransaction
    BY <2>5, ListedTx
  <2>. HIDE DEF o, t
  <2>7. Fits(PgView(f[k]), t)
    <3>1. Settled(t)
      BY <2>6 DEF Settled, NewTransaction, FullyConfirmedTransaction
    <3>. QED BY <2>6, <3>1 DEF Fits
  <2>8. Private(t).tx = t
    BY DEF Private
  <2>9. PgGood(f[k], Heard)
    BY <2>2 DEF Keeps
  <2>10. Keeps(f[k], f[k + 1], Heard) /\ Beside(f[k], f[k + 1])
    <3>1. Private(t) = Private(Private(t).tx) /\ t.hash \in Heard
      BY <2>5, <2>6, <2>8
    <3>. QED BY <2>4, <2>6, <2>7, <2>8, <2>9, <3>1, UpdateTxInfoKeeps
  <2>11. Keeps(s, f[k + 1], Heard)
    BY <2>2, <2>10, KeepsTwice
  <2>. QED BY <2>2, <2>10, <2>11 DEF Beside
<1>10. G = Nat
  <2>. HIDE DEF Claim
  <2>1. G \in SUBSET Nat /\ 0 \in G
    BY <1>8
  <2>2. \A k \in G : k + 1 \in G
    BY <1>9, <1>6
  <2>. HIDE DEF G
  <2>. QED BY <2>1, <2>2, NaturalsBySet
<1>11. Claim(m)
  <2>. HIDE DEF Claim
  <2>. QED BY <1>6, <1>10
<1>12. g = f[m]
  BY <1>5 DEF Course, m
<1>13. Keeps(s, g, Heard) /\ PgGood(g, Heard) /\ PgOK(g)
  BY <1>11, <1>12 DEF Keeps, PgGood
<1>14. r = SetMeta(g, "last_seen_block_hash", height)
  BY <1>2, <1>13 DEF SetLastSeenBlockHash, PgSetLastSeenBlockHash, PgOK, IsPg
<1>15. PgOK(r) /\ PgView(r) = PgView(g) /\ PgGetLastSeenBlockHash(r) = height /\ Tells(g, r)
  BY <1>13, <1>14, MetaRows DEF PgGetLastSeenBlockHash
<1>16. Keeps(g, r, Heard)
  BY <1>13, <1>15, KeepsRows
<1>17. Keeps(s, r, Heard)
  BY <1>13, <1>16, KeepsTwice
<1>. QED
  BY <1>15, <1>17 DEF NodeOK

\* The loop over the known transactions.
LEMMA KnownKeeps ==
    ASSUME NodeOK, NEW s, PgGood(s, Heard), NEW r, r = TakeAllKnown(s)
    PROVE  Keeps(s, r, Heard) /\ Beside(s, r)
<1>. DEFINE q == GetBroadcastedTransactionsWithLessConfirmations(s)
            m == Len(q)
            v == PgView(s)
<1>1. PgOK(s) /\ Kept(v)
  BY DEF PgGood
<1>2. Copies(s, q) /\ \A j \in 1 .. m : HasHash(q[j].tx)
  BY <1>1, BroadcastAnswer
<1>3. r = AllKnownTaken(s, q)
  BY HandlerLoops
<1>4. PICK f : Course(<<"known">>, s, q, f, r)
  BY <1>2, <1>3, KnownLoop DEF Copies
<1>5. m \in Nat /\ DOMAIN q = 1 .. m
  BY <1>2 DEF Copies, IsSeq
<1>6. Len(v) = Len(s.rows) /\ \A i \in 1 .. Len(s.rows) : TxOK(v[i]) /\ v[i].hash \in Heard
  BY <1>1, ViewOf DEF PgGood
<1>7. \A t : Private(t).tx = t
  BY DEF Private
<1>. HIDE DEF q, m, v
<1>. DEFINE Claim(k) == Keeps(s, f[k], Heard) /\ Beside(s, f[k])
            G == {k \in Nat : k <= m => Claim(k)}
<1>8. Claim(0)
  <2>1. f[0] = s
    BY <1>4 DEF Course
  <2>. QED BY <2>1, KeepsSame DEF Beside
<1>9. ASSUME NEW k \in Nat, k <= m => Claim(k), k + 1 <= m PROVE Claim(k + 1)
  <2>1. k + 1 \in 1 .. m /\ (k + 1) - 1 = k /\ k <= m
    BY <1>5, <1>9
  <2>2. Claim(k)
    BY <1>9, <2>1
  <2>. DEFINE h == q[k + 1]
              t == h.tx
              u == [t EXCEPT !.confirmations = node[t.hash]]
              w == PgView(f[k])
  <2>3. PICK i \in 1 .. Len(s.rows) : h = Private(v[i])
    BY <1>2, <2>1 DEF Copies, v, m
  <2>4. t = v[i] /\ TxOK(t) /\ t.hash \in Heard /\ h = Private(t)
    BY <1>6, <1>7, <2>3
  <2>5. HasHash(t)
    BY <1>2, <2>1
  <2>6. f[k + 1] = Turn(<<"known">>, f[k], h)
    BY <1>4, <1>5, <2>1 DEF Course
  <2>7. f[k + 1] = updateTxInfo(f[k], Private(u))
    <3>1. Write(f[k], h, u) = [s |-> f[k], h |-> Private(u)]
      BY <2>4, WritePrivate
    <3>. QED BY <2>6, <3>1 DEF Turn, TakeKnown, UpdateFromFullTxInfo
  <2>8. TxOK(u) /\ u.id = t.id /\ u.hash = t.hash /\ u.status = t.status
    <3>1. t.hash \in Hashes
      BY <2>4, <2>5 DEF TxOK, HasHash
    <3>. DEFINE c == node[t.hash]
    <3>2. c \in Int
      BY <3>1 DEF NodeOK
    <3>3. u = [t EXCEPT !.confirmations = c]
      OBVIOUS
    <3>. HIDE DEF c, u, t
    <3>. QED BY <2>4, <3>2, <3>3 DEF TxOK
  <2>. HIDE DEF h, t, u
  <2>9. PgGood(f[k], Heard) /\ PgOK(f[k]) /\ Kept(w) /\ Grown(v, w)
    BY <2>2 DEF Keeps, PgGood, v
  <2>10. Len(w) = Len(f[k].rows) /\ i \in 1 .. Len(w)
    <3>1. Len(w) = Len(f[k].rows) /\ Len(w) \in Nat /\ Len(v) \in Nat
      BY <1>1, <2>9, ViewOf DEF v
    <3>2. Len(v) <= Len(w) /\ i \in 1 .. Len(v)
      BY <1>6, <2>9 DEF Grown
    <3>3. i \in 1 .. Len(w)
      <4>. HIDE DEF w
      <4>. QED BY <3>1, <3>2
    <3>. QED BY <3>1, <3>3
  <2>. HIDE DEF w
  <2>11. w[i].id = t.id /\ w[i].hash = t.hash
    BY <1>6, <2>4, <2>5, <2>9 DEF Grown, Goes
  <2>12. \A j \in 1 .. Len(w) : w[j].id = t.id => j = i
    BY <2>9, <2>10, <2>11 DEF Kept
  <2>13. Settled(u)
    <3>1. Settled(t)
      BY <1>1, <1>6, <2>4 DEF Kept
    <3>. QED BY <2>8, <3>1 DEF Settled, HasHash
  <2>14. Fits(w, u)
    BY <2>5, <2>8, <2>10, <2>11, <2>12, <2>13 DEF Fits, HasHash
  <2>15. Keeps(f[k], f[k + 1], Heard) /\ Beside(f[k], f[k + 1])
    <3>1. Private(u) = Private(Private(u).tx) /\ Private(u).tx = u /\ u.hash \in Heard
      BY <1>7, <2>4, <2>8
    <3>. QED BY <2>7, <2>8, <2>9, <2>14, <3>1, UpdateTxInfoKeeps DEF w
  <2>16. Keeps(s, f[k + 1], Heard)
    BY <2>2, <2>15, KeepsTwice
  <2>. QED BY <2>2, <2>15, <2>16 DEF Beside
<1>10. G = Nat
  <2>. HIDE DEF Claim
  <2>1. G \in SUBSET Nat /\ 0 \in G
    BY <1>8
  <2>2. \A k \in G : k + 1 \in G
    BY <1>9, <1>5
  <2>. HIDE DEF G
  <2>. QED BY <2>1, <2>2, NaturalsBySet
<1>11. Claim(m)
  <2>. HIDE DEF Claim
  <2>. QED BY <1>5, <1>10
<1>12. r = f[m]
  BY <1>4 DEF Course, m
<1>. QED
  BY <1>11, <1>12


-----------------------------------------------------------------------------
(* The inductive invariant of the PostgreSQL storage.                      *)

\* A broadcast withdrawal has a row with its hash.
BroadcastKept ==
    \A id \in Ids : node[id] >= 0 =>
        \E i \in 1 .. Len(pg.rows) : PgView(pg)[i].id = id /\ PgView(pg)[i].hash = id

\* The withdrawal the node is sending has not been stored otherwise since.
SendingHeld ==
    sending # Idle => /\ sending[1].pg = Private(sending[1].pg.tx)
                      /\ TxOK(sending[1].pg.tx)
                      /\ Held(PgView(pg), sending[1].pg.tx)

PgInv ==
    /\ NodeOK
    /\ PgGood(pg, Heard)
    /\ PgGetLastSeenBlockHash(pg) \in Int
    /\ BroadcastKept
    /\ SendingHeld
    /\ EventsKept(pg)

\* What the storage is at the start.
LEMMA PgInvInit == Init => PgInv /\ PgView(pg) = << >> /\ pg.rows = << >>
<1>. SUFFICES ASSUME Init PROVE PgInv /\ PgView(pg) = << >> /\ pg.rows = << >>
  OBVIOUS
<1>1. NodeOK /\ sending = Idle /\ \A h \in Hashes : node[h] = -1
  <2>1. node = [h \in Hashes |-> -1] /\ height = 0 /\ sending = Idle
    BY Zenon DEF Init
  <2>. QED BY <2>1 DEF NodeOK
<1>2. pg = [kind |-> "postgres", rows |-> << >>, accounts |-> {},
            meta |-> << >>, events |-> << >>]
  BY DEF Init
<1>3. pg.rows = << >> /\ pg.meta = << >> /\ IsSeq(pg.rows) /\ Len(pg.rows) = 0
  BY <1>2 DEF IsSeq
<1>4. PgOK(pg)
  <2>1. pg \in [kind : {"postgres"}, rows : {pg.rows}, accounts : {pg.accounts},
                meta : {pg.meta}, events : {pg.events}]
    BY <1>2
  <2>. QED BY <1>3, <2>1 DEF PgOK
<1>5. PgView(pg) = << >> /\ Len(PgView(pg)) = 0
  <2>1. Len(PgView(pg)) = 0 /\ IsSeq(PgView(pg))
    BY <1>3, <1>4, ViewOf
  <2>2. PgView(pg) = [i \in 1 .. 0 |-> PgView(pg)[i]] /\ 1 .. 0 = {}
    BY <2>1 DEF IsSeq
  <2>. QED BY <2>1, <2>2
<1>6. PgGood(pg, Heard)
  BY <1>3, <1>4, <1>5 DEF PgGood, Kept
<1>7. PgGetLastSeenBlockHash(pg) = 0
  <2>1. DOMAIN pg.meta = {}
    BY <1>3
  <2>. QED BY <2>1 DEF PgGetLastSeenBlockHash, GetMeta
<1>8. BroadcastKept
  <2>1. \A id \in Ids : id \in Hashes
    BY DEF Hashes
  <2>. QED BY <1>1, <2>1 DEF BroadcastKept
<1>9. EventsKept(pg)
  <2>1. pg.events = << >>
    BY <1>2
  <2>. QED BY <2>1 DEF EventsKept, IsSeq
<1>. QED
  BY <1>1, <1>3, <1>5, <1>6, <1>7, <1>8, <1>9 DEF PgInv, SendingHeld

\* Broadcast withdrawals keep their rows.
LEMMA BroadcastGrown ==
    ASSUME PgInv, PgOK(pg'), Grown(PgView(pg), PgView(pg')), NEW id \in Ids, node[id] >= 0
    PROVE  \E i \in 1 .. Len(pg'.rows) : PgView(pg')[i].id = id /\ PgView(pg')[i].hash = id
<1>1. PgOK(pg)
  BY DEF PgInv, PgGood
<1>2. PICK i \in 1 .. Len(pg.rows) : PgView(pg)[i].id = id /\ PgView(pg)[i].hash = id
  BY DEF PgInv, BroadcastKept
<1>3. /\ Len(PgView(pg)) = Len(pg.rows) /\ Len(pg.rows) \in Nat
      /\ Len(PgView(pg')) = Len(pg'.rows) /\ Len(pg'.rows) \in Nat
  BY <1>1, ViewOf
<1>4. Len(pg.rows) <= Len(pg'.rows)
  BY <1>3 DEF Grown
<1>5. i \in 1 .. Len(pg'.rows)
  BY <1>3, <1>4
<1>6. HasHash(PgView(pg)[i])
  BY <1>2, IdHash DEF HasHash
<1>7. PgView(pg')[i].id = id /\ PgView(pg')[i].hash = id
  BY <1>2, <1>3, <1>6 DEF Grown, Goes
<1>. QED
  BY <1>5, <1>7

\* A handler that keeps the table, with nothing new from the node.
LEMMA HandlerStep ==
    ASSUME PgInv, UNCHANGED <<node, height>>, Keeps(pg, pg', Heard),
           PgGetLastSeenBlockHash(pg') \in Int, SendingHeld'
    PROVE  PgInv' /\ Grown(PgView(pg), PgView(pg'))
<1>1. /\ PgGood(pg', Heard) /\ Grown(PgView(pg), PgView(pg')) /\ PgOK(pg) /\ PgOK(pg')
      /\ EventsKept(pg')
  BY DEF Keeps, PgInv, PgGood, Tells
<1>2. Heard' = Heard /\ NodeOK'
  BY DEF Heard, PgInv, NodeOK
<1>3. BroadcastKept'
  BY <1>1, BroadcastGrown DEF BroadcastKept
<1>. QED
  BY <1>1, <1>2, <1>3 DEF PgInv

\* Nothing is being sent afterwards.
LEMMA IdleHeld == ASSUME sending' = Idle PROVE SendingHeld'
BY DEF SendingHeld

\* A withdrawal that waits is held by nobody else.
LEMMA WaitingHeld ==
    ASSUME NEW H, NEW s, PgGood(s, H), NEW i \in 1 .. Len(s.rows),
           PgView(s)[i].status > FullyConfirmedTransaction
    PROVE  TxOK(PgView(s)[i]) /\ Held(PgView(s), PgView(s)[i]) /\ PgView(s)[i].hash \in H
<1>. DEFINE v == PgView(s)
<1>1. PgOK(s) /\ Kept(v) /\ v[i].hash \in H
  BY DEF PgGood
<1>2. Len(v) = Len(s.rows) /\ TxOK(v[i])
  BY <1>1, ViewOf
<1>3. ~HasHash(v[i]) /\ v[i].id \in Ids
  BY <1>1, <1>2 DEF Kept, Settled
<1>4. \A j \in 1 .. Len(v) : v[j].id = v[i].id => j = i
  BY <1>1, <1>2 DEF Kept
<1>. HIDE DEF v
<1>5. Held(v, v[i])
  BY <1>3, <1>4 DEF Held, Names
<1>. QED
  BY <1>1, <1>2, <1>5 DEF v

\* Not broadcast.
LEMMA HeldHash ==
    ASSUME NEW v, NEW t, Held(v, t)
    PROVE  t.hash \in Heard
BY DEF Held, HasHash, Heard

\* A withdrawal is sent, or transferred at once.
LEMMA SendStep ==
    ASSUME PgInv, NEW inPg, NEW inMem, sendWithdrawal(inPg, inMem), sending = Idle,
           UNCHANGED <<node, height>>,
           inPg = Private(inPg.tx), TxOK(inPg.tx), Held(PgView(pg), inPg.tx)
    PROVE  PgInv' /\ Grown(PgView(pg), PgView(pg'))
<1>0. PgGood(pg, Heard) /\ PgGetLastSeenBlockHash(pg) \in Int
  BY DEF PgInv
<1>1. CASE /\ Affordable(inPg.tx) /\ sending' = sending
           /\ pg' = internalWithdrawBetweenOurAccounts(pg, inPg)
  <2>1. Keeps(pg, pg', Heard) /\ Beside(pg, pg')
    BY <1>0, <1>1, HeldHash, InternalKeeps
  <2>2. PgGetLastSeenBlockHash(pg') \in Int
    BY <1>0, <2>1 DEF Beside, PgGetLastSeenBlockHash, GetMeta
  <2>. QED BY <1>1, <2>1, <2>2, IdleHeld, HandlerStep
<1>2. CASE pg' = LockWallet(pg, inPg.tx.id) /\ sending' = <<[pg |-> inPg, mem |-> inMem]>>
  <2>1. Keeps(pg, pg', Heard) /\ SameSeen(pg, pg') /\ PgView(pg') = PgView(pg)
    BY <1>0, <1>2, LockKeeps
  <2>2. PgGetLastSeenBlockHash(pg') \in Int
    BY <1>0, <2>1 DEF SameSeen
  <2>3. sending'[1].pg = inPg
    BY <1>2
  <2>4. SendingHeld'
    BY <2>1, <2>3 DEF SendingHeld
  <2>. QED BY <2>1, <2>2, <2>4, HandlerStep
<1>. QED
  BY <1>1, <1>2 DEF sendWithdrawal, Affordable


-----------------------------------------------------------------------------
(* Every step keeps it.                                                    *)

\* The transaction made of a request.
LEMMA OutgoingTxOK ==
    ASSUME NEW id \in Ids, NEW t, t = outgoingTx(id)
    PROVE  TxOK(t) /\ t.id = id /\ ~HasHash(t)
<1>. DEFINE q == Request[id]
            none == -1
            zero == 0
<1>1. q.amount \in Money /\ q.fee \in Money
  <2>1. Request[id].amount \in 0 .. 2 ^ (Width - 1) - 1
    BY StoragesAssumption, Zenon
  <2>2. Request[id].fee \in 0 .. 2 ^ (Width - 1) - 1
    BY StoragesAssumption, Zenon
  <2>. QED BY <2>1, <2>2 DEF Money
<1>2. q.feeType \in 0 .. 2
  <2>1. Request[id].feeType \in {PerKBRateFee, FixedFee}
    BY StoragesAssumption, Zenon
  <2>. QED BY <2>1 DEF PerKBRateFee, FixedFee
<1>3. q.cold \in BOOLEAN
  BY StoragesAssumption, Zenon
<1>4. t = [id |-> id, hash |-> "", confirmations |-> zero, address |-> q.address,
           direction |-> OutgoingDirection, status |-> NewTransaction,
           amount |-> q.amount, fee |-> q.fee, feeType |-> q.feeType,
           cold |-> q.cold, reported |-> none]
  BY DEF outgoingTx
<1>5. OutgoingDirection \in 0 .. 2 /\ NewTransaction \in 0 .. 6 /\ zero \in Int /\ none \in Int
  BY DEF OutgoingDirection, NewTransaction
<1>6. id \in Ids \cup Nat /\ "" \in Hashes \cup {""}
  OBVIOUS
<1>. HIDE DEF q, none, zero
<1>7. TxOK(t)
  BY <1>1, <1>2, <1>3, <1>4, <1>5, <1>6, MakeTx, ZenonT(60)
<1>8. t.id = id
  BY DEF outgoingTx
<1>9. ~HasHash(t)
  BY DEF outgoingTx, HasHash
<1>. QED
  BY <1>7, <1>8, <1>9

\* The storage does not change.
LEMMA SameStep ==
    ASSUME PgInv, UNCHANGED <<pg, sending, node, height>>
    PROVE  PgInv' /\ Grown(PgView(pg), PgView(pg'))
<1>1. Keeps(pg, pg, Heard) /\ PgGetLastSeenBlockHash(pg) \in Int /\ SendingHeld
  BY KeepsSame DEF PgInv
<1>2. SendingHeld'
  BY <1>1 DEF SendingHeld
<1>. QED
  BY <1>1, <1>2, HandlerStep

\* The hot wallet address and the account do not touch the rows.
LEMMA RowsStep ==
    ASSUME PgInv, UNCHANGED <<sending, node, height>>, PgOK(pg'), PgView(pg') = PgView(pg),
           Tells(pg, pg'), PgGetLastSeenBlockHash(pg') = PgGetLastSeenBlockHash(pg)
    PROVE  PgInv' /\ Grown(PgView(pg), PgView(pg'))
<1>1. Keeps(pg, pg', Heard) /\ PgGetLastSeenBlockHash(pg') \in Int
  BY KeepsRows DEF PgInv
<1>2. SendingHeld'
  BY DEF PgInv, SendingHeld
<1>. QED
  BY <1>1, <1>2, HandlerStep

\* An address is generated.
LEMMA AddressStep ==
    ASSUME PgInv, initHotWallet \/ CreateAccount
    PROVE  PgInv' /\ Grown(PgView(pg), PgView(pg'))
<1>0. PgOK(pg)
  BY DEF PgInv, PgGood
<1>1. CASE initHotWallet
  <2>1. pg' = SetMeta(pg, "hot_wallet_address", HotAddress) /\ UNCHANGED <<sending, node, height>>
    BY <1>0, <1>1 DEF initHotWallet, setHotWalletAddress, PgSetHotWalletAddress, IsPg, PgOK
  <2>2. /\ PgOK(pg') /\ PgView(pg') = PgView(pg)
        /\ PgGetLastSeenBlockHash(pg') = PgGetLastSeenBlockHash(pg) /\ Tells(pg, pg')
    BY <1>0, <2>1, MetaRows DEF PgGetLastSeenBlockHash
  <2>. QED BY <2>1, <2>2, RowsStep
<1>2. CASE CreateAccount
  <2>. DEFINE g == [pg EXCEPT !.accounts = @ \cup {AccountAddress}]
  <2>1. pg' = Notify(g, NewAddressEvent, AccountAddress) /\ UNCHANGED <<sending, node, height>>
    BY <1>0, <1>2 DEF CreateAccount, StoreAccount, PgStoreAccount, IsPg, PgOK
  <2>2. /\ PgOK(g) /\ g.rows = pg.rows /\ g.meta = pg.meta /\ g.events = pg.events
        /\ g.accounts = pg.accounts \cup {AccountAddress}
    <3>1. g \in [kind : {"postgres"}, rows : {pg.rows},
                 accounts : {pg.accounts \cup {AccountAddress}},
                 meta : {pg.meta}, events : {pg.events}]
      BY <1>0 DEF PgOK
    <3>. HIDE DEF g
    <3>2. /\ g.rows = pg.rows /\ g.meta = pg.meta /\ g.events = pg.events
          /\ g.accounts = pg.accounts \cup {AccountAddress}
          /\ g \in [kind : {"postgres"}, rows : {g.rows}, accounts : {g.accounts},
                    meta : {g.meta}, events : {g.events}]
      BY <3>1
    <3>. QED BY <1>0, <3>2 DEF PgOK
  <2>. HIDE DEF g
  <2>3. PgOK(pg') /\ PgView(pg') = PgView(g) /\ Beside(g, pg')
    BY <2>1, <2>2, NotifyRows
  <2>4. /\ PgView(pg') = PgView(pg)
        /\ PgGetLastSeenBlockHash(pg') = PgGetLastSeenBlockHash(pg)
    BY <2>2, <2>3 DEF PgView, Beside, PgGetLastSeenBlockHash, GetMeta
  <2>5. Tells(pg, g)
    <3>1. PgView(g) = PgView(pg)
      BY <2>2 DEF PgView
    <3>. QED BY <1>0, <2>2, <3>1, TellsSame
  <2>6. Tells(g, pg')
    BY <2>1, <2>2, AddressTells
  <2>. QED BY <2>1, <2>3, <2>4, <2>5, <2>6, RowsStep DEF Tells
<1>. QED
  BY <1>1, <1>2

\* A request is held or sent.
LEMMA WithdrawStep ==
    ASSUME PgInv, NEW id \in Ids, Withdraw(id)
    PROVE  PgInv' /\ Grown(PgView(pg), PgView(pg'))
<1>. DEFINE t == outgoingTx(id)
            h == Private(t)
<1>0. PgOK(pg) /\ PgGood(pg, Heard) /\ PgGetLastSeenBlockHash(pg) \in Int
  BY DEF PgInv, PgGood
<1>1. TxOK(t) /\ t.id = id /\ ~HasHash(t)
  BY OutgoingTxOK
<1>2. sending = Idle /\ UNCHANGED <<node, height>>
  BY DEF Withdraw, Ready, AtLoop
<1>3. h.tx = t
  BY DEF Private
<1>4. PgGetTransactionByID(pg, id) = << >>
  BY <1>0 DEF Withdraw, GetTransactionByID, IsPg, PgOK
<1>5. Held(PgView(pg), t)
  <2>1. \A i \in 1 .. Len(pg.rows) : PgView(pg)[i].id # id
    BY <1>0, <1>4, FindById
  <2>2. Len(PgView(pg)) = Len(pg.rows)
    BY <1>0, ViewOf
  <2>. HIDE DEF t
  <2>. QED BY <1>1, <2>1, <2>2 DEF Held
<1>6. \/ /\ pg' = updatePendingTxStatus(pg, h, PendingManualConfirmationTransaction)
         /\ UNCHANGED sending
      \/ sendWithdrawal(h, h)
  BY DEF Withdraw
<1>. HIDE DEF t, h
<1>7. h = Private(h.tx) /\ TxOK(h.tx) /\ Held(PgView(pg), h.tx)
  BY <1>1, <1>3, <1>5 DEF h
<1>8. CASE /\ pg' = updatePendingTxStatus(pg, h, PendingManualConfirmationTransaction)
           /\ UNCHANGED sending
  <2>1. PendingManualConfirmationTransaction \in 0 .. 6 /\ h.tx.hash \in Heard
    BY <1>7, HeldHash DEF PendingManualConfirmationTransaction
  <2>2. Keeps(pg, pg', Heard) /\ Beside(pg, pg')
    BY <1>0, <1>7, <1>8, <2>1, PendingKeeps
  <2>3. PgGetLastSeenBlockHash(pg') \in Int
    BY <1>0, <2>2 DEF Beside, PgGetLastSeenBlockHash, GetMeta
  <2>4. sending' = Idle
    BY <1>2, <1>8
  <2>. QED BY <1>2, <2>2, <2>3, <2>4, IdleHeld, HandlerStep
<1>9. CASE sendWithdrawal(h, h)
  BY <1>2, <1>7, <1>9, SendStep
<1>. QED
  BY <1>6, <1>8, <1>9

\* What a query by id finds of a withdrawal that waits.
LEMMA FoundHeld ==
    ASSUME PgInv, NEW id, NEW a, a = GetTransactionByID(pg, id), a # << >>,
           a[1].tx.status > FullyConfirmedTransaction
    PROVE  a[1] = Private(a[1].tx) /\ TxOK(a[1].tx) /\ Held(PgView(pg), a[1].tx)
<1>0. PgOK(pg) /\ PgGood(pg, Heard)
  BY DEF PgInv, PgGood
<1>1. a = PgGetTransactionByID(pg, id)
  BY <1>0 DEF GetTransactionByID, IsPg, PgOK
<1>2. PICK i \in 1 .. Len(pg.rows) : a[1] = Private(PgView(pg)[i])
  BY <1>0, <1>1, FindById
<1>3. a[1].tx = PgView(pg)[i]
  BY <1>2 DEF Private
<1>. QED
  BY <1>0, <1>2, <1>3, WaitingHeld

\* A waiting withdrawal is confirmed or cancelled.
LEMMA ManualStep ==
    ASSUME PgInv, NEW id \in Ids, confirmPendingTx(id) \/ cancelPendingTx(id)
    PROVE  PgInv' /\ Grown(PgView(pg), PgView(pg'))
<1>. DEFINE a == GetTransactionByID(pg, id)
<1>0. PgGood(pg, Heard) /\ PgGetLastSeenBlockHash(pg) \in Int
  BY DEF PgInv
<1>1. sending = Idle /\ UNCHANGED <<node, height>>
  BY DEF confirmPendingTx, cancelPendingTx, Ready, AtLoop
<1>2. a # << >> /\ a[1].tx.status > FullyConfirmedTransaction
  BY DEF confirmPendingTx, cancelPendingTx, PendingTransaction,
         PendingColdStorageTransaction, PendingManualConfirmationTransaction,
         FullyConfirmedTransaction
<1>3. a[1] = Private(a[1].tx) /\ TxOK(a[1].tx) /\ Held(PgView(pg), a[1].tx)
  BY <1>2, FoundHeld
<1>4. CASE confirmPendingTx(id)
  <2>1. \E m : sendWithdrawal(a[1], m)
    BY <1>4 DEF confirmPendingTx
  <2>. HIDE DEF a
  <2>. QED BY <1>1, <1>3, <2>1, SendStep
<1>5. CASE cancelPendingTx(id)
  <2>1. pg' = updatePendingTxStatus(pg, a[1], CancelledTransaction) /\ UNCHANGED sending
    BY <1>5 DEF cancelPendingTx
  <2>. HIDE DEF a
  <2>2. CancelledTransaction \in 0 .. 6 /\ a[1].tx.hash \in Heard
    BY <1>3, HeldHash DEF CancelledTransaction
  <2>3. Keeps(pg, pg', Heard) /\ Beside(pg, pg')
    BY <1>0, <1>3, <2>1, <2>2, PendingKeeps
  <2>4. PgGetLastSeenBlockHash(pg') \in Int
    BY <1>0, <2>3 DEF Beside, PgGetLastSeenBlockHash, GetMeta
  <2>5. sending' = Idle
    BY <1>1, <2>1
  <2>. QED BY <1>1, <2>3, <2>4, <2>5, IdleHeld, HandlerStep
<1>. QED
  BY <1>4, <1>5

\* Pending withdrawals are sent or marked.
LEMMA PendingStep ==
    ASSUME PgInv, SendPending \/ MarkPending
    PROVE  PgInv' /\ Grown(PgView(pg), PgView(pg'))
<1>0. PgGood(pg, Heard) /\ PgGetLastSeenBlockHash(pg) \in Int /\ PgOK(pg)
  BY DEF PgInv, PgGood
<1>1. sending = Idle /\ UNCHANGED <<node, height>>
  BY DEF SendPending, MarkPending, Ready, AtLoop
<1>2. CASE SendPending
  <2>. DEFINE q == GetPendingTransactions(pg)
  <2>1. PICK i \in DOMAIN q : \E m : sendWithdrawal(q[i], m)
    BY <1>2 DEF SendPending
  <2>2. /\ Copies(pg, q)
        /\ \A j \in 1 .. Len(q) : q[j].tx.status \in {PendingTransaction,
                                                      PendingColdStorageTransaction}
    BY <1>0, PendingAnswer
  <2>. HIDE DEF q
  <2>3. i \in 1 .. Len(q)
    BY <2>2 DEF Copies, IsSeq
  <2>4. PICK j \in 1 .. Len(pg.rows) : q[i] = Private(PgView(pg)[j])
    BY <2>2, <2>3 DEF Copies
  <2>5. q[i].tx = PgView(pg)[j]
    BY <2>4 DEF Private
  <2>6. PgView(pg)[j].status > FullyConfirmedTransaction
    <3>1. PgView(pg)[j].status \in {PendingTransaction, PendingColdStorageTransaction}
      BY <2>2, <2>3, <2>5
    <3>. QED BY <3>1 DEF PendingTransaction, PendingColdStorageTransaction,
                         FullyConfirmedTransaction
  <2>7. q[i] = Private(q[i].tx) /\ TxOK(q[i].tx) /\ Held(PgView(pg), q[i].tx)
    BY <1>0, <2>4, <2>5, <2>6, WaitingHeld
  <2>. QED BY <1>1, <2>1, <2>7, SendStep
<1>3. CASE MarkPending
  <2>1. (\E covered : pg' = MarkAll(pg, covered)) /\ sending' = sending
    BY <1>3 DEF MarkPending
  <2>2. PICK covered : pg' = MarkAll(pg, covered)
    BY <2>1
  <2>3. Unsent(Heard)
    BY DEF Unsent, Heard
  <2>4. Keeps(pg, pg', Heard) /\ SameSeen(pg, pg')
    BY <1>0, <2>2, <2>3, MarkAllKeeps
  <2>5. PgGetLastSeenBlockHash(pg') \in Int /\ sending' = Idle
    BY <1>0, <1>1, <2>1, <2>4 DEF SameSeen
  <2>. QED BY <1>1, <2>4, <2>5, IdleHeld, HandlerStep
<1>. QED
  BY <1>2, <1>3


\* The node says it has broadcast the withdrawal.
LEMMA SucceedsStep ==
    ASSUME PgInv, SendSucceeds
    PROVE  PgInv' /\ Grown(PgView(pg), PgView(pg'))
<1>. DEFINE h == sending[1].pg
            id == h.tx.id
<1>1. /\ pg' = handleWithdrawalSuccess(pg, h) /\ node' = [node EXCEPT ![id] = 0]
      /\ sending # Idle /\ sending' = Idle /\ height' = height
  BY DEF SendSucceeds
<1>2. /\ PgGood(pg, Heard) /\ PgOK(pg) /\ NodeOK /\ PgGetLastSeenBlockHash(pg) \in Int
      /\ h = Private(h.tx) /\ TxOK(h.tx) /\ Held(PgView(pg), h.tx)
  BY <1>1 DEF PgInv, PgGood, SendingHeld
<1>. HIDE DEF h
<1>3. id \in Ids /\ id \in Hashes /\ id # ""
  BY <1>2, IdHash DEF Held
<1>4. ~(node[id] >= 0)
  <2>1. SUFFICES ASSUME node[id] >= 0 PROVE FALSE
    OBVIOUS
  <2>2. PICK i \in 1 .. Len(pg.rows) : PgView(pg)[i].id = id /\ PgView(pg)[i].hash = id
    BY <1>3, <2>1 DEF PgInv, BroadcastKept
  <2>3. Len(PgView(pg)) = Len(pg.rows)
    BY <1>2, ViewOf
  <2>. QED BY <1>2, <1>3, <2>2, <2>3 DEF Held, HasHash
<1>5. Unheard(PgView(pg), id)
  <2>1. id \notin Heard
    BY <1>3, <1>4 DEF Heard
  <2>2. Len(PgView(pg)) = Len(pg.rows)
    BY <1>2, ViewOf
  <2>. QED BY <1>2, <2>1, <2>2 DEF Unheard, PgGood
<1>6. /\ Keeps(pg, pg', Heard \cup {id}) /\ SameSeen(pg, pg')
      /\ \E i \in 1 .. Len(pg'.rows) : PgView(pg')[i].id = id /\ PgView(pg')[i].hash = id
  <2>1. pg' = handleWithdrawalSuccess(pg, h)
    BY <1>1
  <2>2. PgGood(pg, Heard) /\ h = Private(h.tx) /\ TxOK(h.tx) /\ Held(PgView(pg), h.tx)
    BY <1>2
  <2>. QED BY <1>5, <2>1, <2>2, SuccessKeeps
<1>7. NodeOK' /\ Heard' = Heard \cup {id}
  <2>. HIDE DEF id
  <2>1. node \in [Hashes -> Int] /\ node' = [node EXCEPT ![id] = 0] /\ height' \in Int
    BY <1>1, <1>2 DEF NodeOK
  <2>0. id \in Hashes
    BY <1>3
  <2>2. node' \in [Hashes -> Int] /\ \A x \in Hashes : node'[x] = IF x = id THEN 0 ELSE node[x]
    BY <2>0, <2>1
  <2>3. {x \in Hashes : node'[x] >= 0} = {x \in Hashes : node[x] >= 0} \cup {id}
    BY <2>0, <2>2
  <2>4. Hashes' = Hashes
    BY DEF Hashes
  <2>. QED BY <2>1, <2>2, <2>3, <2>4 DEF NodeOK, Heard
<1>8. /\ PgGood(pg', Heard') /\ PgOK(pg') /\ Grown(PgView(pg), PgView(pg'))
      /\ PgGetLastSeenBlockHash(pg') \in Int /\ EventsKept(pg')
  BY <1>2, <1>6, <1>7 DEF Keeps, PgGood, SameSeen, Tells, PgInv
<1>9. BroadcastKept'
  <2>. SUFFICES ASSUME NEW i \in Ids, node'[i] >= 0
                PROVE  \E k \in 1 .. Len(pg'.rows) :
                         PgView(pg')[k].id = i /\ PgView(pg')[k].hash = i
    BY DEF BroadcastKept
  <2>1. CASE i = id
    BY <1>6, <2>1
  <2>2. CASE i # id
    <3>1. node[i] >= 0
      BY <1>1, <1>2, <2>2, IdHash DEF NodeOK
    <3>. QED BY <1>8, <3>1, BroadcastGrown
  <2>. QED BY <2>1, <2>2
<1>10. SendingHeld'
  BY <1>1, IdleHeld
<1>. QED
  BY <1>7, <1>8, <1>9, <1>10 DEF PgInv

\* The node says it has not.
LEMMA FailsStep ==
    ASSUME PgInv, SendFails
    PROVE  PgInv' /\ Grown(PgView(pg), PgView(pg'))
<1>. DEFINE h == sending[1].pg
<1>1. /\ \E insufficient \in BOOLEAN : pg' = handleWithdrawalError(pg, h, insufficient)
      /\ sending # Idle /\ sending' = Idle /\ UNCHANGED <<node, height>>
  BY DEF SendFails
<1>2. /\ PgGood(pg, Heard) /\ PgGetLastSeenBlockHash(pg) \in Int
      /\ h = Private(h.tx) /\ TxOK(h.tx) /\ Held(PgView(pg), h.tx)
  BY <1>1 DEF PgInv, SendingHeld
<1>. HIDE DEF h
<1>3. h.tx.hash \in Heard
  BY <1>2, HeldHash
<1>4. Keeps(pg, pg', Heard) /\ SameSeen(pg, pg')
  BY <1>1, <1>2, <1>3, ErrorKeeps
<1>5. PgGetLastSeenBlockHash(pg') \in Int
  BY <1>2, <1>4 DEF SameSeen
<1>. QED
  BY <1>1, <1>4, <1>5, IdleHeld, HandlerStep

\* A deposit arrives, or a block is found.
LEMMA NodeStep ==
    ASSUME PgInv, (\E d \in Deposits : DepositArrives(d)) \/ BlockFound
    PROVE  PgInv' /\ Grown(PgView(pg), PgView(pg'))
<1>1. UNCHANGED <<pg, sending>>
  BY DEF DepositArrives, BlockFound
<1>2. NodeOK /\ PgGood(pg, Heard) /\ PgOK(pg)
  BY DEF PgInv, PgGood
<1>3. NodeOK' /\ \A x \in Hashes : /\ node[x] >= 0 => node'[x] >= 0
                                   /\ x \in Ids /\ node'[x] >= 0 => node[x] >= 0
  <2>1. CASE BlockFound
    <3>1. /\ node' = [h \in Hashes |-> IF node[h] >= 0 THEN node[h] + 1 ELSE node[h]]
          /\ height' = height + 1
      BY <2>1 DEF BlockFound
    <3>2. Hashes' = Hashes
      BY DEF Hashes
    <3>. QED BY <1>2, <3>1, <3>2 DEF NodeOK
  <2>2. CASE \E d \in Deposits : DepositArrives(d)
    <3>1. PICK d \in Deposits : node' = [node EXCEPT ![d] = 0] /\ height' = height
      BY <2>2 DEF DepositArrives
    <3>2. Hashes' = Hashes /\ d \in Hashes
      BY DEF Hashes
    <3>3. d \notin Ids
      BY StoragesAssumption
    <3>4. node \in [Hashes -> Int] /\ height \in Int
      BY <1>2 DEF NodeOK
    <3>5. \A x \in Hashes : node'[x] = IF x = d THEN 0 ELSE node[x]
      BY <3>1, <3>2, <3>4
    <3>. QED BY <3>1, <3>2, <3>3, <3>4, <3>5 DEF NodeOK
  <2>. QED BY <2>1, <2>2
<1>4. PgGood(pg', Heard')
  <2>1. Hashes' = Hashes
    BY DEF Hashes
  <2>2. Heard \subseteq Heard'
    BY <1>3, <2>1 DEF Heard
  <2>3. PgGood(pg, Heard')
    BY <1>2, <2>2, GoodMore
  <2>. QED BY <1>1, <2>3
<1>5. Grown(PgView(pg), PgView(pg'))
  BY <1>1, <1>2, KeepsSame DEF Keeps
<1>6. BroadcastKept'
  BY <1>1, <1>3, IdHash DEF PgInv, BroadcastKept
<1>7. SendingHeld' /\ PgGetLastSeenBlockHash(pg') \in Int /\ EventsKept(pg')
  BY <1>1 DEF PgInv, SendingHeld
<1>. QED
  BY <1>3, <1>4, <1>5, <1>6, <1>7 DEF PgInv

\* What the node lists, or says of the known transactions, is stored.
LEMMA CheckStep ==
    ASSUME PgInv, checkForNewTransactions \/ checkForExistingTransactionUpdates
    PROVE  PgInv' /\ Grown(PgView(pg), PgView(pg'))
<1>1. sending' = Idle /\ UNCHANGED <<node, height>>
  BY DEF checkForNewTransactions, checkForExistingTransactionUpdates, AtLoop
<1>2. NodeOK /\ PgGood(pg, Heard) /\ PgGetLastSeenBlockHash(pg) \in Int
  BY DEF PgInv
<1>3. Keeps(pg, pg', Heard) /\ PgGetLastSeenBlockHash(pg') \in Int
  <2>1. CASE checkForNewTransactions
    <3>1. pg' = TakeAllListed(pg)
      BY <2>1 DEF checkForNewTransactions
    <3>. QED BY <1>2, <3>1, ListedKeeps
  <2>2. CASE checkForExistingTransactionUpdates
    <3>1. pg' = TakeAllKnown(pg)
      BY <2>2 DEF checkForExistingTransactionUpdates
    <3>2. Keeps(pg, pg', Heard) /\ Beside(pg, pg')
      BY <1>2, <3>1, KnownKeeps
    <3>. QED BY <1>2, <3>2 DEF Beside, PgGetLastSeenBlockHash, GetMeta
  <2>. QED BY <2>1, <2>2
<1>. QED
  BY <1>1, <1>3, IdleHeld, HandlerStep

\* Every step of the system.
LEMMA PgInvStep ==
    ASSUME PgInv, [Next]_vars
    PROVE  PgInv' /\ Grown(PgView(pg), PgView(pg'))
<1>1. CASE UNCHANGED vars
  BY <1>1, SameStep DEF vars
<1>2. CASE Next
  BY <1>2, AddressStep, WithdrawStep, ManualStep, PendingStep, SucceedsStep, FailsStep,
     NodeStep, CheckStep, Zenon DEF Next
<1>. QED
  BY <1>1, <1>2

\* The rows of the PostgreSQL storage, whatever its handlers have done: each is
\* read as what was written to it, ids and outputs are told apart, what is
\* pending was never broadcast, a broadcast withdrawal has its row, and the
\* withdrawal that the node is sending is not stored as anything else meanwhile.
THEOREM PgInvHolds == Spec => []PgInv
<1>1. Init => PgInv
  BY PgInvInit
<1>2. PgInv /\ [Next]_vars => PgInv'
  BY PgInvStep
<1>. QED
  BY <1>1, <1>2, PTL DEF Spec


-----------------------------------------------------------------------------
(* The table of a wallet storage.                                          *)

\* What the rows are read as, as the refinement mapping has it.
PgRead(s) == {transactionFromDatabaseRow(r) : r \in {q \in ToSet(s.rows) : RowIsRead(q)}}

\* Every row is read.
LEMMA ReadRows ==
    ASSUME NEW s, PgOK(s)
    PROVE  /\ PgRead(s) = {PgView(s)[i] : i \in 1 .. Len(s.rows)}
           /\ \A i \in 1 .. Len(s.rows) : RowIsRead(s.rows[i])
<1>1. /\ DOMAIN s.rows = 1 .. Len(s.rows)
      /\ \A i \in 1 .. Len(s.rows) : /\ PgView(s)[i] = Tx(s.rows[i]) /\ TxOK(PgView(s)[i])
                                     /\ s.rows[i] = Row(PgView(s)[i])
  BY ViewOf
<1>2. \A i \in 1 .. Len(s.rows) : RowIsRead(s.rows[i])
  BY <1>1, RowTx
<1>3. {q \in ToSet(s.rows) : RowIsRead(q)} = {s.rows[i] : i \in 1 .. Len(s.rows)}
  BY <1>1, <1>2, Zenon DEF ToSet
<1>. QED
  BY <1>1, <1>2, <1>3 DEF PgRead, Tx

\* Such a table is well kept.
LEMMA ReadWellKept ==
    ASSUME NEW H, NEW s, PgGood(s, H), NEW rows, rows = PgRead(s)
    PROVE  PgTable!WellKept(rows)
<1>. DEFINE n == Len(s.rows)
            v == PgView(s)
<1>1. PgOK(s) /\ rows = {v[i] : i \in 1 .. n} /\ Kept(v) /\ Len(v) = n
  BY ReadRows, ViewOf DEF PgGood
<1>. HIDE DEF n, v
<1>2. \A t, u \in rows : t.id = u.id => t = u
  BY <1>1 DEF Kept
<1>. DEFINE sent == {t \in rows : HasHash(t)}
<1>3. \A t, u \in sent : PgTable!Output(t) = PgTable!Output(u) => t = u
  <2>. SUFFICES ASSUME NEW t \in sent, NEW u \in sent, PgTable!Output(t) = PgTable!Output(u)
                PROVE  t = u
    OBVIOUS
  <2>1. SameOutput(t, u)
    BY DEF SameOutput, PgTable!Output
  <2>2. PICK i \in 1 .. n, j \in 1 .. n : t = v[i] /\ u = v[j]
    BY <1>1
  <2>. HIDE DEF sent
  <2>. QED BY <1>1, <2>1, <2>2 DEF Kept
<1>. QED
  BY <1>2, <1>3, Zenon DEF PgTable!WellKept, PgTable!Distinct, HasHash

\* A storage that has grown goes on with its table.
LEMMA ReadGrown ==
    ASSUME NEW s, PgOK(s), NEW r, PgOK(r), Grown(PgView(s), PgView(r)), NEW t \in PgRead(s)
    PROVE  \E u \in PgRead(r) : PgTable!Continues(t, u)
<1>. DEFINE v == PgView(s)
            w == PgView(r)
<1>1. /\ PgRead(s) = {v[i] : i \in 1 .. Len(v)} /\ PgRead(r) = {w[i] : i \in 1 .. Len(w)}
      /\ Len(v) \in Nat /\ Len(w) \in Nat
  BY ReadRows, ViewOf
<1>. HIDE DEF v, w
<1>2. PICK i \in 1 .. Len(v) : t = v[i]
  BY <1>1
<1>3. i \in 1 .. Len(w) /\ Goes(t, w[i])
  BY <1>1, <1>2 DEF Grown, v, w
<1>. DEFINE u == w[i]
<1>4. u \in PgRead(r) /\ Goes(t, u)
  BY <1>1, <1>3
<1>. HIDE DEF u
<1>5. PgTable!Continues(t, u)
  BY <1>4 DEF Goes, PgTable!Continues, HasHash
<1>. QED
  BY <1>4, <1>5

\* The rows of the PostgreSQL storage, as they are read, are the table that a
\* wallet storage promises: no handler loses a transaction, changes what it is
\* about or its bitcoin transaction, reports less of it than before, or makes two
\* of one output of a bitcoin transaction.
THEOREM PgTableKept == Spec => PgKeepsTable
<1>1. Init => PgTable!Init
  <2>1. Init => PgOK(pg) /\ Len(pg.rows) = 0
    BY PgInvInit DEF PgInv, PgGood
  <2>2. PgOK(pg) /\ Len(pg.rows) = 0 => PgRead(pg) = {}
    BY ReadRows
  <2>. QED BY <2>1, <2>2 DEF PgTable!Init, PgRead
<1>2. PgInv /\ [Next]_vars => [PgTable!Next]_(PgRead(pg))
  <2>. SUFFICES ASSUME PgInv, [Next]_vars PROVE PgTable!Next
    BY DEF PgRead
  <2>1. PgInv' /\ Grown(PgView(pg), PgView(pg'))
    BY PgInvStep
  <2>2. PgGood(pg, Heard) /\ PgGood(pg', Heard') /\ PgOK(pg) /\ PgOK(pg')
    BY <2>1 DEF PgInv, PgGood
  <2>3. PgTable!WellKept(PgRead(pg'))
    BY <2>2, ReadWellKept
  <2>4. \A t \in PgRead(pg) : \E u \in PgRead(pg') : PgTable!Continues(t, u)
    BY <2>1, <2>2, ReadGrown
  <2>. QED BY <2>3, <2>4 DEF PgTable!Next, PgRead
<1>3. Spec => []PgInv
  BY PgInvHolds
<1>. QED
  BY <1>1, <1>2, <1>3, PTL DEF Spec, PgKeepsTable, PgTable!Spec, PgRead

-----------------------------------------------------------------------------
(* What a reader of the events gets.                                       *)

\* The query for the events from a number on is a loop.
LEMMA FromLoop ==
    ASSUME NEW s, IsSeq(s.events), NEW n
    PROVE  \E steps : Course(<<"from", n>>, << >>, s.events, steps, PgGetEventsFromSeq(s, n))
<1>. DEFINE rows == s.events
            D == DOMAIN rows
            l == <<"from", n>>
            P(loop) == loop = [x \in SUBSET D |->
                IF x = {} THEN << >>
                ELSE IF rows[Max(x)].seq >= n
                       THEN Append(loop[x \ {Max(x)}], rows[Max(x)])
                       ELSE loop[x \ {Max(x)}]]
<1>1. PgGetEventsFromSeq(s, n) = (CHOOSE loop : P(loop))[D]
  BY DEF PgGetEventsFromSeq, Selected, FoldLeft, MapThenFoldSet
<1>. HIDE DEF rows
<1>2. \A loop : P(loop) <=> Loops(l, << >>, rows, loop, SUBSET D)
  BY DEF Loops, TurnOf, Turn, Test
<1>3. \E loop : Loops(l, << >>, rows, loop, SUBSET D)
  BY LoopsExist DEF IsSeq, rows
<1>4. Loops(l, << >>, rows, CHOOSE loop : P(loop), SUBSET D)
  <2>. HIDE DEF P
  <2>. QED BY <1>2, <1>3
<1>5. Len(rows) \in Nat /\ DOMAIN rows = 1 .. Len(rows)
  BY DEF IsSeq, rows
<1>. DEFINE solution == CHOOSE loop : P(loop)
<1>. HIDE DEF P, l, solution
<1>6. \E steps : Course(l, << >>, rows, steps, solution[DOMAIN rows])
  BY <1>4, <1>5, CourseOf DEF solution
<1>. QED
  BY <1>1, <1>6 DEF l, solution, rows

\* The row of an event.
LEMMA EventRowParts ==
    ASSUME NEW n, NEW type, NEW data
    PROVE  /\ EventRow(n, type, data).seq = n
           /\ EventRow(n, type, data).type = EventTypeString(type)
           /\ EventRow(n, type, data).data = data
BY DEF EventRow

\* The query starts with the event that has the number.
LEMMA FromSeq ==
    ASSUME NEW s, EventsKept(s), NEW n \in 1 .. Len(s.events)
    PROVE  PgGetEventsFromSeq(s, n)[1] = s.events[n]
<1>. DEFINE l == <<"from", n>>
            c == Len(s.events)
            q == PgGetEventsFromSeq(s, n)
<1>1. IsSeq(s.events) /\ c \in Nat
  BY DEF EventsKept, IsSeq
<1>2. PICK steps : Course(l, << >>, s.events, steps, q)
  BY <1>1, FromLoop
<1>3. l[1] \in QueryKinds
  BY DEF QueryKinds
<1>4. \A i \in 1 .. c : s.events[i].seq = i
  <2>. SUFFICES ASSUME NEW i \in 1 .. c PROVE s.events[i].seq = i
    OBVIOUS
  <2>1. EventOK(s.events[i], i, s)
    BY DEF EventsKept
  <2>2. \E type, data : s.events[i] = EventRow(i, type, data)
    BY <2>1 DEF EventOK
  <2>. QED BY <2>2, EventRowParts
<1>5. \A i \in 1 .. c : Test(l, s.events[i]) <=> i >= n
  BY <1>4 DEF Test
<1>. HIDE DEF q, l, c
<1>6. Chosen(l, s.events, s.events, c, q, q)
  BY <1>1, <1>2, <1>3, SelectedTogether DEF c
<1>7. PICK at \in [1 .. Len(q) -> 1 .. c] :
         /\ \A j \in 1 .. Len(q) : q[j] = s.events[at[j]] /\ Test(l, s.events[at[j]])
         /\ \A i, j \in 1 .. Len(q) : i < j => at[i] < at[j]
         /\ \A i \in 1 .. c : Test(l, s.events[i]) => \E j \in 1 .. Len(q) : at[j] = i
  BY <1>6 DEF Chosen
<1>8. Len(q) \in Nat /\ n \in 1 .. c
  BY <1>6 DEF Chosen, IsSeq, c
<1>9. PICK j \in 1 .. Len(q) : at[j] = n
  <2>1. n >= n
    BY <1>8
  <2>. QED BY <1>5, <1>7, <1>8, <2>1
<1>10. 1 \in 1 .. Len(q) /\ (1 = j \/ 1 < j)
  BY <1>8
<1>11. at[1] \in 1 .. c /\ at[1] >= n
  BY <1>5, <1>7, <1>10
<1>12. at[1] <= n
  BY <1>1, <1>7, <1>8, <1>9, <1>10
<1>13. at[1] = n
  BY <1>1, <1>8, <1>11, <1>12
<1>. QED
  BY <1>7, <1>10, <1>13 DEF q

\* The text of an event's type is read back.
LEMMA EventTypeText ==
    ASSUME NEW d \in 0 .. 6
    PROVE  EventTypeFromString(EventTypeString(d)) = [value |-> d, ok |-> TRUE]
<1>1. d = 0 \/ d = 1 \/ d = 2 \/ d = 3 \/ d = 4 \/ d = 5 \/ d = 6
  OBVIOUS
<1>. DEFINE names == eventTypeToStringMap
<1>2. /\ DOMAIN names = 0 .. 6
      /\ names[0] = "new-address" /\ names[1] = "new-incoming-tx"
      /\ names[2] = "incoming-tx-confirmed" /\ names[3] = "new-outgoing-tx"
      /\ names[4] = "outgoing-tx-confirmed" /\ names[5] = "tx-pending-status-updated"
      /\ names[6] = "pending-tx-cancelled"
  BY DEF eventTypeToStringMap
<1>3. \A v \in 0 .. 6 : names[v] = names[d] => v = d
  BY <1>1, <1>2
<1>. HIDE DEF names
<1>4. (CHOOSE v \in 0 .. 6 : names[v] = names[d]) = d
  BY <1>3
<1>. QED
  BY <1>2, <1>4 DEF EventTypeFromString, EventTypeString, Parsed, Text, names

\* The text of an amount below half the range is read back.
LEMMA AmountText ==
    ASSUME NEW a \in Money
    PROVE  BTCAmountFromStringedFloat(ToStringedFloat(a)) = a
<1>. DEFINE m == 2 ^ (Width - 1)
            w == 2 ^ Width
<1>1. m \in Nat \ {0, 1} /\ w = m + m
  BY WidthAssumption, Zenon
<1>2. a \in 0 .. m - 1
  BY DEF Money
<1>. HIDE DEF m, w
<1>3. ~(a >= m) /\ a \in Nat /\ w \in Nat \ {0} /\ a < w
  BY <1>1, <1>2
<1>4. a % w = a
  BY <1>3
<1>5. ToStringedFloat(a) = [satoshi |-> a]
  BY <1>3 DEF ToStringedFloat, m
<1>. QED
  BY <1>4, <1>5 DEF BTCAmountFromStringedFloat, w

\* The unmarshaler restores everything that has a key in the JSON.
LEMMA NotificationText ==
    ASSUME NEW t, TxOK(t), NEW json, json = MarshalNotification(TxNotification(t)),
           NEW u, u = UnmarshalNotification(json)
    PROVE  /\ u.ok /\ json = MarshalNotification(u.data)
           /\ u.data.tx.id = t.id /\ u.data.tx.hash = t.hash
           /\ Subject(u.data.tx) = Subject(t)
<1>. DEFINE n == TxNotification(t)
            x == u.data.tx
<1>1. /\ t.direction \in 0 .. 2 /\ t.feeType \in 0 .. 2
      /\ t.amount \in Money /\ t.fee \in Money
  BY DEF TxOK
<1>2. /\ TransactionDirectionFromString(DirectionString(t.direction))
           = [value |-> t.direction, ok |-> TRUE]
      /\ FeeTypeFromString(FeeTypeString(t.feeType)) = [value |-> t.feeType, ok |-> TRUE]
      /\ BTCAmountFromStringedFloat(ToStringedFloat(t.amount)) = t.amount
      /\ BTCAmountFromStringedFloat(ToStringedFloat(t.fee)) = t.fee
  BY <1>1, DirectionText, FeeTypeText, AmountText
<1>3. n.tx = t
  BY DEF TxNotification
<1>4. /\ json.id = t.id /\ json.hash = t.hash /\ json.confirmations = t.confirmations
      /\ json.address = t.address /\ json.direction = DirectionString(t.direction)
      /\ json.amount = ToStringedFloat(t.amount) /\ json.fee = ToStringedFloat(t.fee)
      /\ json.feeType = FeeTypeString(t.feeType) /\ json.cold = t.cold
      /\ json.status = n.code /\ json.statusName = n.name /\ json.ipnType = n.ipnType
  BY <1>3 DEF MarshalNotification
<1>5. /\ u.ok
      /\ x.id = t.id /\ x.hash = t.hash /\ x.confirmations = t.confirmations
      /\ x.address = t.address /\ x.direction = t.direction /\ x.amount = t.amount
      /\ x.fee = t.fee /\ x.feeType = t.feeType /\ x.cold = t.cold
      /\ u.data.code = n.code /\ u.data.name = n.name /\ u.data.ipnType = n.ipnType
  <2>. DEFINE direction == TransactionDirectionFromString(json.direction)
              feeType == FeeTypeFromString(json.feeType)
              y == [id |-> json.id, hash |-> json.hash,
                    confirmations |-> json.confirmations,
                    address |-> json.address, direction |-> direction.value,
                    status |-> NewTransaction,
                    amount |-> BTCAmountFromStringedFloat(json.amount),
                    fee |-> BTCAmountFromStringedFloat(json.fee),
                    feeType |-> feeType.value, cold |-> json.cold,
                    reported |-> 0]
              z == [tx |-> y, code |-> json.status, name |-> json.statusName,
                    ipnType |-> json.ipnType]
  <2>1. u = [ok |-> direction.ok /\ feeType.ok, data |-> z]
    BY DEF UnmarshalNotification
  <2>2. /\ direction.ok /\ direction.value = t.direction
        /\ feeType.ok /\ feeType.value = t.feeType
    BY <1>2, <1>4
  <2>. HIDE DEF direction, feeType
  <2>3. /\ y.id = json.id /\ y.hash = json.hash /\ y.confirmations = json.confirmations
        /\ y.address = json.address /\ y.direction = direction.value
        /\ y.amount = BTCAmountFromStringedFloat(json.amount)
        /\ y.fee = BTCAmountFromStringedFloat(json.fee)
        /\ y.feeType = feeType.value /\ y.cold = json.cold
    OBVIOUS
  <2>. HIDE DEF y
  <2>4. /\ z.tx = y /\ z.code = json.status /\ z.name = json.statusName
        /\ z.ipnType = json.ipnType
    OBVIOUS
  <2>. HIDE DEF z
  <2>5. u.ok /\ u.data = z
    <3>. DEFINE b == direction.ok /\ feeType.ok
    <3>1. b
      BY <2>2
    <3>. HIDE DEF b
    <3>2. u = [ok |-> b, data |-> z]
      BY <2>1 DEF b
    <3>. QED BY <3>1, <3>2
  <2>. QED BY <1>2, <1>4, <2>2, <2>3, <2>4, <2>5
<1>6. json = MarshalNotification(u.data)
  BY <1>3, <1>5 DEF MarshalNotification
<1>7. Subject(x) = Subject(t)
  BY <1>5 DEF Subject
<1>. QED
  BY <1>5, <1>6, <1>7

\* The parts of a decoded event.
LEMMA DecodedEvent ==
    ASSUME NEW e, NEW type, EventTypeFromString(e.type) = [value |-> type, ok |-> TRUE]
    PROVE  /\ DecodeEvent(e).seq = e.seq /\ DecodeEvent(e).type = type
           /\ type = NewAddressEvent => DecodeEvent(e).ok /\ DecodeEvent(e).data = e.data
           /\ type # NewAddressEvent =>
                /\ UnmarshalNotification(e.data).ok => DecodeEvent(e).ok
                /\ DecodeEvent(e).data = UnmarshalNotification(e.data).data
<1>. DEFINE kind == EventTypeFromString(e.type)
            read == IF kind.value = NewAddressEvent THEN [ok |-> TRUE, data |-> e.data]
                    ELSE UnmarshalNotification(e.data)
            d == DecodeEvent(e)
<1>1. kind.value = type /\ kind.ok
  OBVIOUS
<1>2. d = [ok |-> kind.ok /\ read.ok, seq |-> e.seq, type |-> kind.value, data |-> read.data]
  BY DEF DecodeEvent
<1>3. /\ type = NewAddressEvent => read.ok /\ read.data = e.data
      /\ type # NewAddressEvent => read = UnmarshalNotification(e.data)
  BY <1>1
<1>. HIDE DEF kind, read, d
<1>4. (read.ok => d.ok) /\ d.seq = e.seq /\ d.type = type /\ d.data = read.data
  BY <1>1, <1>2
<1>. QED
  BY <1>3, <1>4 DEF d

\* Event e, of number n and this type, is read as r, about a stored transaction.
TransactionRead(e, n, type, r) ==
    /\ r.ok /\ r.seq = n /\ e.seq = n /\ r.type = type
    /\ e.type = EventTypeString(r.type)
    /\ e.data = MarshalNotification(r.data)
    /\ OnRecord(r.data.tx, PgGetTransactionByID(pg, r.data.tx.id))

\* What is read of an event about a transaction of the table.
LEMMA TransactionEventRead ==
    ASSUME NEW n, NEW type \in 1 .. 6, NEW t, TxOK(t), About(t, PgView(pg)),
           PgOK(pg), Kept(PgView(pg)),
           NEW e, e = EventRow(n, type, MarshalNotification(TxNotification(t))),
           NEW read, read = DecodeEvent(e)
    PROVE  TransactionRead(e, n, type, read)
<1>. DEFINE json == MarshalNotification(TxNotification(t))
            u == UnmarshalNotification(json)
            v == PgView(pg)
<1>1. /\ u.ok /\ json = MarshalNotification(u.data)
      /\ u.data.tx.id = t.id /\ u.data.tx.hash = t.hash /\ Subject(u.data.tx) = Subject(t)
  BY NotificationText
<1>2. e.seq = n /\ e.type = EventTypeString(type) /\ e.data = json
  BY EventRowParts
<1>. HIDE DEF json, u
<1>3. EventTypeFromString(e.type) = [value |-> type, ok |-> TRUE] /\ type # NewAddressEvent
  <2>1. type \in 0 .. 6 /\ type # 0
    OBVIOUS
  <2>. QED BY <1>2, <2>1, EventTypeText DEF NewAddressEvent
<1>4. read.ok /\ read.seq = n /\ read.type = type /\ read.data = u.data
  BY <1>1, <1>2, <1>3, DecodedEvent DEF u
<1>5. PICK i \in 1 .. Len(v) : Names(t, v[i])
  BY DEF About
<1>6. Len(v) = Len(pg.rows)
  BY ViewOf
<1>. DEFINE stored == PgGetTransactionByID(pg, t.id)
<1>7. stored # << >> /\ stored[1].tx = v[i]
  <2>1. v[i].id = t.id
    BY <1>5 DEF Names
  <2>2. stored # << >>
    BY <1>5, <1>6, <2>1, FindById
  <2>3. PICK j \in 1 .. Len(pg.rows) : v[j].id = t.id /\ stored[1] = Private(v[j])
    BY <2>2, FindById
  <2>4. j = i
    BY <1>5, <1>6, <2>1, <2>3 DEF Kept
  <2>. QED BY <2>2, <2>3, <2>4 DEF Private
<1>. HIDE DEF stored, v
<1>8. Subject(v[i]) = Subject(t) /\ t.hash \in {"", v[i].hash}
  BY <1>5 DEF Names, Subject, HasHash
<1>. QED
  BY <1>1, <1>2, <1>4, <1>7, <1>8 DEF stored, TransactionRead, OnRecord

\* What is read of an event about an account.
LEMMA AddressEventRead ==
    ASSUME NEW n, NEW a, NEW e, e = EventRow(n, NewAddressEvent, a),
           NEW read, read = DecodeEvent(e)
    PROVE  /\ read.ok /\ read.seq = n /\ e.seq = n /\ read.type = NewAddressEvent
           /\ e.type = EventTypeString(read.type) /\ e.data = a /\ read.data = a
<1>1. e.seq = n /\ e.type = EventTypeString(NewAddressEvent) /\ e.data = a
  BY EventRowParts
<1>2. EventTypeFromString(e.type) = [value |-> NewAddressEvent, ok |-> TRUE]
  <2>1. NewAddressEvent \in 0 .. 6
    BY DEF NewAddressEvent
  <2>. QED BY <1>1, <2>1, EventTypeText
<1>. QED
  BY <1>1, <1>2, DecodedEvent

\* A reader of the PostgreSQL events table gets what was sent, for every set of
\* requests and deposits: the event is found by its number, is read back from
\* its text without an error or a loss, and names an account or a transaction
\* that is on record as the event says.
THEOREM PgEventsRead == Spec => []EventsReadBack
<1>1. PgInv => EventsReadBack
  <2>. SUFFICES ASSUME PgInv, NEW n \in DOMAIN pg.events
                PROVE  ReadBack(n, PgGetEventsFromSeq(pg, n)[1], PgGetNextEventFromSeq(pg, n))
    BY DEF EventsReadBack
  <2>. DEFINE e == pg.events[n]
              read == DecodeEvent(e)
  <2>1. EventsKept(pg) /\ PgOK(pg) /\ Kept(PgView(pg))
    BY DEF PgInv, PgGood
  <2>2. n \in 1 .. Len(pg.events)
    BY <2>1 DEF EventsKept, IsSeq
  <2>3. PgGetEventsFromSeq(pg, n)[1] = e /\ PgGetNextEventFromSeq(pg, n) = read
    BY <2>1, <2>2, FromSeq DEF PgGetNextEventFromSeq
  <2>4. EventOK(e, n, pg)
    BY <2>1, <2>2 DEF EventsKept
  <2>. HIDE DEF e, read
  <2>5. CASE \E a \in pg.accounts : e = EventRow(n, NewAddressEvent, a)
    <3>1. PICK a \in pg.accounts : e = EventRow(n, NewAddressEvent, a)
      BY <2>5
    <3>2. /\ read.ok /\ read.seq = n /\ e.seq = n /\ read.type = NewAddressEvent
          /\ e.type = EventTypeString(read.type) /\ e.data = a /\ read.data = a
      BY <3>1, AddressEventRead DEF read
    <3>. QED BY <2>3, <3>1, <3>2 DEF PgGetAccountByAddress, ReadBack
  <2>6. CASE \E type \in 1 .. 6 : \E t :
               /\ TxOK(t) /\ About(t, PgView(pg))
               /\ e = EventRow(n, type, MarshalNotification(TxNotification(t)))
    <3>1. PICK type \in 1 .. 6 : \E t :
               /\ TxOK(t) /\ About(t, PgView(pg))
               /\ e = EventRow(n, type, MarshalNotification(TxNotification(t)))
      BY <2>6
    <3>2. PICK t : /\ TxOK(t) /\ About(t, PgView(pg))
                   /\ e = EventRow(n, type, MarshalNotification(TxNotification(t)))
      BY <3>1
    <3>3. TransactionRead(e, n, type, read)
      <4>1. \A x, r : /\ x = EventRow(n, type, MarshalNotification(TxNotification(t)))
                      /\ r = DecodeEvent(x)
                      => TransactionRead(x, n, type, r)
        BY <2>1, <3>2, TransactionEventRead
      <4>. QED BY <3>2, <4>1 DEF read
    <3>4. type # NewAddressEvent
      BY DEF NewAddressEvent
    <3>. QED BY <2>3, <3>3, <3>4 DEF ReadBack, TransactionRead
  <2>. QED BY <2>4, <2>5, <2>6 DEF EventOK
<1>. QED
  BY <1>1, PgInvHolds, PTL
=============================================================================
