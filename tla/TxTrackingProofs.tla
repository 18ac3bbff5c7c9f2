-------------------------- MODULE TxTrackingProofs --------------------------
(***************************************************************************)
(* Proofs about TxTracking: facts about the block tree that hold for every *)
(* tree, the inductive invariant of the two polls and their database       *)
(* transactions, and the refinement of ConfirmationFeed.                   *)
(***************************************************************************)
EXTENDS TxTracking, FoldTheorems

-----------------------------------------------------------------------------
(* The block tree.  A chain is a recursive function of the blocks; it is   *)
(* reasoned about as an operator of them, for the blocks of either state.  *)

\* Every block comes after its parent.
Tree(B) == Len(B) \in Nat /\ \A b \in 1 .. Len(B) : B[b].parent \in 0 .. b - 1

\* One round of the recursion of Chain, and the table of the chains up to n.
ChainRound(B, f, c) == IF c = 0 THEN {0} ELSE {c} \cup f[B[c].parent]
ChainTable(B, f, n) == f = [c \in 0 .. n |-> ChainRound(B, f, c)]
Chains(B) == CHOOSE f : ChainTable(B, f, Len(B))
ChainOf(B, b) == Chains(B)[b]

\* Chain is ChainOf of the current blocks, in either state.
LEMMA ChainIs ==
    /\ \A b : Chain(b) = ChainOf(blocks, b)
    /\ \A b : Chain(b)' = ChainOf(blocks', b)
    /\ Chain(tip)' = ChainOf(blocks', tip')
  BY DEF Chain, ChainOf, Chains, ChainTable, ChainRound

\* The recursion has a solution: it is built up from the blocks below.
LEMMA ChainsExist ==
    ASSUME NEW B, Tree(B)
    PROVE  ChainTable(B, Chains(B), Len(B))
<1>. DEFINE G == {n \in Nat : n <= Len(B) => \E f : ChainTable(B, f, n)}
<1>1. 0 \in G
  <2>1. ChainTable(B, [c \in 0 .. 0 |-> {0}], 0)
    BY DEF ChainTable, ChainRound
  <2>. QED BY <2>1
<1>2. ASSUME NEW n \in G PROVE n + 1 \in G
  <2>1. SUFFICES ASSUME n + 1 <= Len(B) PROVE \E f : ChainTable(B, f, n + 1)
    OBVIOUS
  <2>2. PICK g : ChainTable(B, g, n)
    BY <1>2, <2>1 DEF Tree
  <2>. DEFINE h == [c \in 0 .. n + 1 |-> ChainRound(B, g, c)]
  <2>3. ASSUME NEW c \in 0 .. n + 1 PROVE h[c] = ChainRound(B, h, c)
    <3>1. CASE c = 0
      BY <3>1 DEF ChainRound
    <3>2. CASE c # 0
      <4>1. B[c].parent \in 0 .. n
        BY <2>1, <3>2 DEF Tree
      <4>2. h[B[c].parent] = g[B[c].parent]
        BY <2>2, <4>1 DEF ChainTable
      <4>. QED BY <3>2, <4>2 DEF ChainRound
    <3>. QED BY <3>1, <3>2
  <2>4. ChainTable(B, h, n + 1)
    BY <2>3 DEF ChainTable
  <2>. QED BY <2>4
<1>3. G = Nat
  <2>. HIDE DEF G
  <2>1. G \in SUBSET Nat
    BY DEF G
  <2>. QED BY <1>1, <1>2, <2>1, NaturalsBySet
<1>4. \E f : ChainTable(B, f, Len(B))
  BY <1>3 DEF Tree
<1>. QED
  BY <1>4 DEF Chains

\* A chain is the block and the chain of its parent.
LEMMA ChainStep ==
    ASSUME NEW B, Tree(B), NEW b \in 0 .. Len(B)
    PROVE  ChainOf(B, b) = IF b = 0 THEN {0} ELSE {b} \cup ChainOf(B, B[b].parent)
  BY ChainsExist DEF ChainTable, ChainRound, ChainOf

\* Induction over the blocks: the claim is the set of blocks where it holds.
LEMMA BlocksBySet ==
    ASSUME NEW B, Tree(B), NEW G, 0 \in G,
           \A b \in 1 .. Len(B) : B[b].parent \in G => b \in G
    PROVE  \A b \in 0 .. Len(B) : b \in G
<1>. DEFINE Bad == {b \in 0 .. Len(B) : b \notin G}
<1>1. SUFFICES ASSUME Bad # {} PROVE FALSE
  OBVIOUS
<1>2. Bad \in SUBSET Nat
  BY DEF Tree
<1>3. PICK b \in Bad : \A c \in Bad : b <= c
  <2>. HIDE DEF Bad
  <2>. QED BY <1>1, <1>2, LeastNatural
<1>4. b \in 1 .. Len(B)
  BY <1>3 DEF Tree
<1>5. B[b].parent \in 0 .. b - 1
  BY <1>4 DEF Tree
<1>6. B[b].parent \in G
  BY <1>3, <1>4, <1>5 DEF Tree
<1>. QED
  BY <1>3, <1>4, <1>6

\* A chain goes from its block down to the genesis block.
LEMMA ChainBounds ==
    ASSUME NEW B, Tree(B), NEW b \in 0 .. Len(B)
    PROVE  /\ ChainOf(B, b) \subseteq 0 .. b
           /\ b \in ChainOf(B, b) /\ 0 \in ChainOf(B, b)
           /\ IsFiniteSet(ChainOf(B, b)) /\ Cardinality(ChainOf(B, b)) \in 1 .. b + 1
<1>. DEFINE G == {c \in 0 .. Len(B) : ChainOf(B, c) \subseteq 0 .. c /\ 0 \in ChainOf(B, c)}
<1>1. 0 \in G
  BY ChainStep DEF Tree
<1>2. ASSUME NEW c \in 1 .. Len(B), B[c].parent \in G PROVE c \in G
  <2>1. ChainOf(B, c) = {c} \cup ChainOf(B, B[c].parent)
    BY ChainStep
  <2>2. B[c].parent \in 0 .. c - 1
    BY DEF Tree
  <2>. QED BY <1>2, <2>1, <2>2 DEF Tree
<1>3. b \in G
  <2>. HIDE DEF G
  <2>. QED BY <1>1, <1>2, BlocksBySet
<1>4. b \in ChainOf(B, b)
  BY ChainStep
<1>5. b \in Nat /\ IsFiniteSet(0 .. b) /\ Cardinality(0 .. b) = b + 1
  BY FS_Interval DEF Tree
<1>6. IsFiniteSet(ChainOf(B, b)) /\ Cardinality(ChainOf(B, b)) <= b + 1
  BY <1>3, <1>5, FS_Subset
<1>7. Cardinality(ChainOf(B, b)) \in Nat /\ Cardinality(ChainOf(B, b)) # 0
  BY <1>4, <1>6, FS_CardinalityType, FS_EmptySet
<1>. QED
  BY <1>3, <1>4, <1>5, <1>6, <1>7

\* The chain of a block of a chain is the part of it up to that block.
LEMMA ChainPrefix ==
    ASSUME NEW B, Tree(B), NEW b \in 0 .. Len(B), NEW c \in ChainOf(B, b)
    PROVE  /\ ChainOf(B, c) \subseteq ChainOf(B, b)
           /\ \A d \in ChainOf(B, b) : d <= c => d \in ChainOf(B, c)
<1>. DEFINE Part(x, y) == /\ ChainOf(B, y) \subseteq ChainOf(B, x)
                          /\ \A d \in ChainOf(B, x) : d <= y => d \in ChainOf(B, y)
            G == {x \in 0 .. Len(B) : \A y \in ChainOf(B, x) : Part(x, y)}
<1>1. 0 \in G
  BY ChainStep DEF Tree
<1>2. ASSUME NEW x \in 1 .. Len(B), B[x].parent \in G PROVE x \in G
  <2>. DEFINE p == B[x].parent
  <2>1. ChainOf(B, x) = {x} \cup ChainOf(B, p)
    BY ChainStep
  <2>2. p \in 0 .. x - 1 /\ p \in 0 .. Len(B)
    BY DEF Tree
  <2>3. ChainOf(B, p) \subseteq 0 .. p
    BY <2>2, ChainBounds
  <2>4. \A y \in ChainOf(B, p) : Part(p, y)
    BY <1>2
  <2>. HIDE DEF p
  <2>5. ASSUME NEW y \in ChainOf(B, p) PROVE Part(x, y)
    <3>1. ~(x <= y)
      BY <2>2, <2>3
    <3>2. Part(p, y)
      BY <2>4
    <3>. QED BY <2>1, <3>1, <3>2
  <2>6. Part(x, x)
    OBVIOUS
  <2>7. \A y \in ChainOf(B, x) : Part(x, y)
    <3>. HIDE DEF Part
    <3>. QED BY <2>1, <2>5, <2>6
  <2>. QED BY <2>7
<1>3. b \in G
  <2>. HIDE DEF G
  <2>. QED BY <1>1, <1>2, BlocksBySet
<1>. QED
  BY <1>3

\* A new block changes no chain there was.
LEMMA ChainAppend ==
    ASSUME NEW S, NEW B \in Seq(S), NEW x \in S, Tree(B), x.parent \in 0 .. Len(B)
    PROVE  /\ Tree(Append(B, x))
           /\ \A b \in 0 .. Len(B) : ChainOf(Append(B, x), b) = ChainOf(B, b)
<1>. DEFINE A == Append(B, x)
            G == {b \in 0 .. Len(B) : ChainOf(A, b) = ChainOf(B, b)}
<1>1. Len(A) = Len(B) + 1 /\ \A b \in 1 .. Len(B) : A[b] = B[b]
  OBVIOUS
<1>2. A[Len(B) + 1] = x
  OBVIOUS
<1>3. Tree(A)
  <2>. HIDE DEF A
  <2>1. Len(B) \in Nat
    OBVIOUS
  <2>2. ASSUME NEW b \in 1 .. Len(B) + 1 PROVE A[b].parent \in 0 .. b - 1
    <3>1. CASE b = Len(B) + 1
      BY <1>2, <2>1, <3>1
    <3>2. CASE b # Len(B) + 1
      BY <1>1, <2>1, <3>2 DEF Tree
    <3>. QED BY <3>1, <3>2
  <2>. QED BY <1>1, <2>1, <2>2 DEF Tree
<1>. HIDE DEF A
<1>4. 0 \in G
  <2>1. 0 \in 0 .. Len(A) /\ 0 \in 0 .. Len(B)
    BY <1>1 DEF Tree
  <2>2. ChainOf(A, 0) = {0} /\ ChainOf(B, 0) = {0}
    BY <1>3, <2>1, ChainStep
  <2>. QED BY <2>1, <2>2
<1>5. ASSUME NEW b \in 1 .. Len(B), B[b].parent \in G PROVE b \in G
  <2>1. b \in 0 .. Len(A)
    BY <1>1 DEF Tree
  <2>2. ChainOf(A, b) = {b} \cup ChainOf(A, A[b].parent)
    BY <1>3, <2>1, ChainStep
  <2>3. ChainOf(B, b) = {b} \cup ChainOf(B, B[b].parent)
    BY ChainStep
  <2>4. A[b].parent = B[b].parent
    BY <1>1
  <2>5. ChainOf(A, B[b].parent) = ChainOf(B, B[b].parent)
    BY <1>5
  <2>6. b \in 0 .. Len(B)
    BY DEF Tree
  <2>. QED BY <2>2, <2>3, <2>4, <2>5, <2>6
<1>6. \A b \in 0 .. Len(B) : b \in G
  <2>. HIDE DEF G
  <2>. QED BY <1>4, <1>5, BlocksBySet
<1>. QED
  BY <1>3, <1>6 DEF A

-----------------------------------------------------------------------------
(* Heights, and what the node says of a transaction.                       *)

HeightOf(B, b) == Cardinality(ChainOf(B, b)) - 1
DepthIn(B, top, b) == HeightOf(B, top) - HeightOf(B, b) + 1

BlockIn(B, t, b) ==
    IF \E c \in ChainOf(B, b) \ {0} : t \in B[c].txs
    THEN CHOOSE c \in ChainOf(B, b) \ {0} : t \in B[c].txs
    ELSE NoBlock

RivalIn(B, t, b) ==
    IF \E c \in ChainOf(B, b) \ {0} : t \in B[c].rivals
    THEN CHOOSE c \in ChainOf(B, b) \ {0} : t \in B[c].rivals
    ELSE NoBlock

ConfirmationsIn(B, top, t) ==
    IF BlockIn(B, t, top) # NoBlock THEN DepthIn(B, top, BlockIn(B, t, top))
    ELSE IF RivalIn(B, t, top) # NoBlock THEN -DepthIn(B, top, RivalIn(B, t, top))
    ELSE 0

\* These are the operators of TxTracking, in either state.
LEMMA NodeIs ==
    /\ \A b : Height(b) = HeightOf(blocks, b)
    /\ \A t, b : BlockOf(t, b) = BlockIn(blocks, t, b)
    /\ \A b : Depth(b) = DepthIn(blocks, tip, b)
    /\ \A t : Confirmations(t) = ConfirmationsIn(blocks, tip, t)
    /\ \A t : Confirmations(t)' = ConfirmationsIn(blocks', tip', t)
<1>1. \A b : Height(b) = HeightOf(blocks, b)
  BY ChainIs DEF Height, HeightOf
<1>2. \A t, b : BlockOf(t, b) = BlockIn(blocks, t, b)
  BY DEF BlockOf, BlockIn, Chain, ChainOf, Chains, ChainTable, ChainRound
<1>3. \A t, b : RivalOf(t, b) = RivalIn(blocks, t, b)
  BY DEF RivalOf, RivalIn, Chain, ChainOf, Chains, ChainTable, ChainRound
<1>4. \A b : Depth(b) = DepthIn(blocks, tip, b)
  BY <1>1 DEF Depth, DepthIn
<1>5. \A t : Confirmations(t) = ConfirmationsIn(blocks, tip, t)
  BY <1>2, <1>3, <1>4 DEF Confirmations, ConfirmationsIn
<1>6. \A t : Confirmations(t)' = ConfirmationsIn(blocks', tip', t)
  BY DEF Confirmations, ConfirmationsIn, Depth, DepthIn, Height, HeightOf, BlockOf, BlockIn,
         RivalOf, RivalIn, Chain, ChainOf, Chains, ChainTable, ChainRound
<1>. QED
  BY <1>1, <1>2, <1>4, <1>5, <1>6

\* On a chain, blocks are ordered as their heights are.
LEMMA HeightOrder ==
    ASSUME NEW B, Tree(B), NEW b \in 0 .. Len(B),
           NEW c \in ChainOf(B, b), NEW d \in ChainOf(B, b)
    PROVE  /\ HeightOf(B, c) \in 0 .. c
           /\ c <= d => HeightOf(B, c) <= HeightOf(B, d)
           /\ HeightOf(B, c) <= HeightOf(B, d) => c <= d
<1>1. c \in 0 .. Len(B) /\ d \in 0 .. Len(B)
  <2>1. ChainOf(B, b) \subseteq 0 .. b
    BY ChainBounds
  <2>. QED BY <2>1 DEF Tree
<1>2. /\ ChainOf(B, c) \subseteq 0 .. c /\ IsFiniteSet(ChainOf(B, c))
      /\ Cardinality(ChainOf(B, c)) \in 1 .. c + 1
      /\ d \in ChainOf(B, d) /\ ChainOf(B, d) \subseteq 0 .. d /\ IsFiniteSet(ChainOf(B, d))
      /\ Cardinality(ChainOf(B, d)) \in 1 .. d + 1
      /\ c \in ChainOf(B, c)
  BY <1>1, ChainBounds
<1>3. HeightOf(B, c) \in 0 .. c
  BY <1>1, <1>2 DEF HeightOf, Tree
<1>4. ASSUME c <= d PROVE HeightOf(B, c) <= HeightOf(B, d)
  <2>1. c \in ChainOf(B, d)
    BY <1>4, ChainPrefix
  <2>2. ChainOf(B, c) \subseteq ChainOf(B, d)
    BY <1>1, <2>1, ChainPrefix
  <2>3. Cardinality(ChainOf(B, c)) <= Cardinality(ChainOf(B, d))
    BY <1>2, <2>2, FS_Subset
  <2>. QED BY <1>1, <1>2, <2>3 DEF HeightOf
<1>5. ASSUME ~(c <= d) PROVE ~(HeightOf(B, c) <= HeightOf(B, d))
  <2>1. d <= c
    BY <1>1, <1>5
  <2>2. d \in ChainOf(B, c)
    BY <2>1, ChainPrefix
  <2>3. ChainOf(B, d) \subseteq ChainOf(B, c)
    BY <1>1, <2>2, ChainPrefix
  <2>4. c \notin ChainOf(B, d)
    BY <1>1, <1>2, <1>5
  <2>5. ChainOf(B, d) # ChainOf(B, c)
    BY <1>2, <2>4
  <2>6. Cardinality(ChainOf(B, d)) < Cardinality(ChainOf(B, c))
    BY <1>2, <2>3, <2>5, FS_Subset
  <2>. QED BY <1>1, <1>2, <2>6 DEF HeightOf
<1>. QED
  BY <1>3, <1>4, <1>5

\* A block that has a transaction is on the chain and really has it.
LEMMA BlockInIs ==
    ASSUME NEW B, NEW t, NEW b
    PROVE  /\ BlockIn(B, t, b) # NoBlock =>
                BlockIn(B, t, b) \in ChainOf(B, b) \ {0} /\ t \in B[BlockIn(B, t, b)].txs
           /\ (\E c \in ChainOf(B, b) \ {0} : t \in B[c].txs) => BlockIn(B, t, b) # NoBlock
           /\ RivalIn(B, t, b) # NoBlock =>
                RivalIn(B, t, b) \in ChainOf(B, b) \ {0} /\ t \in B[RivalIn(B, t, b)].rivals
  BY DEF BlockIn, RivalIn, NoBlock

\* The depth of a block of the active chain.
LEMMA DepthBounds ==
    ASSUME NEW B, Tree(B), NEW top \in 0 .. Len(B), NEW c \in ChainOf(B, top) \ {0}
    PROVE  DepthIn(B, top, c) \in 1 .. Len(B)
<1>1. top \in ChainOf(B, top) /\ 0 \in ChainOf(B, top) /\ ChainOf(B, top) \subseteq 0 .. top
  BY ChainBounds
<1>2. HeightOf(B, top) \in 0 .. top /\ HeightOf(B, c) \in 0 .. c /\ HeightOf(B, 0) \in 0 .. 0
  BY <1>1, HeightOrder
<1>3. HeightOf(B, c) <= HeightOf(B, top)
  BY <1>1, HeightOrder DEF Tree
<1>4. ~(HeightOf(B, c) <= HeightOf(B, 0))
  <2>1. ~(c <= 0)
    BY <1>1 DEF Tree
  <2>. QED BY <1>1, <2>1, HeightOrder
<1>. QED
  BY <1>1, <1>2, <1>3, <1>4 DEF DepthIn, Tree

\* The confirmations the node may answer with: at most one per block, and
\* some only for a transaction of the active chain.
LEMMA ConfirmationsBounds ==
    ASSUME NEW B, Tree(B), NEW top \in 0 .. Len(B), NEW t
    PROVE  /\ ConfirmationsIn(B, top, t) \in Int
           /\ ConfirmationsIn(B, top, t) <= Len(B)
           /\ ConfirmationsIn(B, top, t) > 0 => BlockIn(B, t, top) # NoBlock
           /\ ConfirmationsIn(B, top, t) < 0 => RivalIn(B, t, top) # NoBlock
<1>1. CASE BlockIn(B, t, top) # NoBlock
  BY <1>1, BlockInIs, DepthBounds DEF ConfirmationsIn, Tree
<1>2. CASE BlockIn(B, t, top) = NoBlock /\ RivalIn(B, t, top) # NoBlock
  <2>1. DepthIn(B, top, RivalIn(B, t, top)) \in 1 .. Len(B)
    BY <1>2, BlockInIs, DepthBounds
  <2>2. ConfirmationsIn(B, top, t) = -DepthIn(B, top, RivalIn(B, t, top))
    BY <1>2 DEF ConfirmationsIn
  <2>. QED BY <1>2, <2>1, <2>2 DEF Tree
<1>3. CASE BlockIn(B, t, top) = NoBlock /\ RivalIn(B, t, top) = NoBlock
  BY <1>3 DEF ConfirmationsIn, Tree
<1>. QED
  BY <1>1, <1>2, <1>3

\* The last block two chains share, as listsinceblock finds it: the chain of
\* the older one has every block of the active chain that is not higher.
LEMMA ForkIs ==
    ASSUME NEW B, Tree(B), NEW top \in 0 .. Len(B), NEW since \in 0 .. Len(B),
           NEW fork,
           fork = CHOOSE b \in ChainOf(B, top) \cap ChainOf(B, since) :
                    \A c \in ChainOf(B, top) \cap ChainOf(B, since) :
                      HeightOf(B, c) <= HeightOf(B, b)
    PROVE  /\ fork \in ChainOf(B, top)
           /\ \A c \in ChainOf(B, top) :
                HeightOf(B, c) <= HeightOf(B, fork) => c \in ChainOf(B, since)
<1>. DEFINE shared == ChainOf(B, top) \cap ChainOf(B, since)
            below == {n \in Nat : \E c \in shared : n = top - c}
<1>1. ChainOf(B, top) \subseteq 0 .. top /\ 0 \in shared /\ top \in Nat
  BY ChainBounds DEF Tree
<1>2. below \in SUBSET Nat /\ top \in below
  BY <1>1
<1>3. PICK n \in below : \A m \in below : n <= m
  <2>. HIDE DEF below
  <2>. QED BY <1>2, LeastNatural
<1>4. PICK b \in shared : n = top - b
  BY <1>3
<1>5. \A c \in shared : c <= b
  <2>1. SUFFICES ASSUME NEW c \in shared PROVE c <= b
    OBVIOUS
  <2>2. c \in 0 .. top /\ b \in 0 .. top
    BY <1>1
  <2>3. top - c \in below
    BY <1>1, <2>2
  <2>4. top - b <= top - c
    BY <1>3, <1>4, <2>3
  <2>. QED BY <1>1, <2>2, <2>4
<1>6. \A c \in shared : HeightOf(B, c) <= HeightOf(B, b)
  BY <1>5, HeightOrder
<1>7. fork \in shared
  <2>1. \E x \in shared : \A c \in shared : HeightOf(B, c) <= HeightOf(B, x)
    BY <1>4, <1>6
  <2>. QED BY <2>1
<1>8. ASSUME NEW c \in ChainOf(B, top), HeightOf(B, c) <= HeightOf(B, fork)
      PROVE  c \in ChainOf(B, since)
  <2>1. c <= fork
    BY <1>7, <1>8, HeightOrder
  <2>2. c \in ChainOf(B, fork)
    BY <1>7, <2>1, ChainPrefix
  <2>. QED BY <1>7, <2>2, ChainPrefix
<1>. QED
  BY <1>7, <1>8

-----------------------------------------------------------------------------
(* The inductive invariant.                                                *)

\* What is mined or loses its inputs is in the node's wallet, and best is up to date.
NodeInv ==
    /\ \A b \in 1 .. Len(blocks) : blocks[b].txs \subseteq onNode /\ blocks[b].rivals \subseteq onNode
    /\ \A t \in onNode : Confirmations(t) <= best[t] /\ best[t] >= 0

\* An address was given out only after its account was stored, and money came
\* only to addresses that were given out.
AccountInv ==
    \A t \in Txs :
        /\ account[t] \in {"stored", "answered", "lost"} => t \in accounts
        /\ Kind[t] = "deposit" /\ t \in onNode => t \in accounts

\* A row that was never stored is empty; a stored one is of a transaction the
\* node has, and the row of a deposit knows its account.
RowOK(d, t) ==
    IF d.rows[t].stored
    THEN t \in onNode /\ (Kind[t] = "deposit" => d.rows[t].known)
    ELSE d.rows[t] = NoRow

\* The number the events of t start from: 0, or 1 if the first one is missing.
First(d, t) == d.rows[t].reported + 1 - Len(d.events[t])
Firsts(excused, t) == IF t \in excused THEN {0, 1} ELSE {0}

\* Events that count from an allowed number up to reported, which the node had
\* counted; all but that of 0 confirmations name one of the given blocks.
Counts(events, reported, most, named, firsts) ==
    /\ reported + 1 - Len(events) \in firsts
    /\ reported <= most
    /\ \A n \in 1 .. Len(events) :
         /\ events[n].conf = reported - Len(events) + n
         /\ IF events[n].conf = 0 THEN events[n].block = NoBlock ELSE events[n].block \in named

\* The events of t are those its row says were reported, and name blocks that
\* have t; that of 0 confirmations is missing only if it was rolled back.
EventsOK(d, t) ==
    Counts(d.events[t], d.rows[t].reported, best[t],
           {b \in 1 .. Len(blocks) : t \in blocks[b].txs}, Firsts(rolledBack, t))

\* The events of t in e are those in d, and maybe some that follow them.
After(d, e, t) ==
    Len(d.events[t]) <= Len(e.events[t]) /\ First(e, t) = First(d, t)

\* What the blocks up to the mark contain has a row.
SeenOK(d) ==
    \A b \in Chain(d.seen) \ {0} : \A t \in blocks[b].txs : d.rows[t].stored

DatabaseOK(d) == SeenOK(d) /\ \A t \in Txs : RowOK(d, t) /\ EventsOK(d, t)

\* The open database transaction goes beyond the committed state only inside a
\* poll, takes no event away, and asks again only about rows it has.
OpenInv ==
    /\ pc \notin {"commit1", "get", "commit2"} => open = db
    /\ \A t \in Txs : After(db, open, t)
    /\ pc = "get" => \A t \in todo : open.rows[t].stored

\* The withdrawal that is being saved, or that the process died over, is on the
\* node.  In memory it counts as announced only after an attempt to save it was
\* rolled back late or took effect.
SaveInv ==
    /\ lock # NoTx => lock \in onNode /\ Kind[lock] # "deposit"
    /\ pc = "save" =>
         LET stored == db.rows[saving.tx].stored IN
         /\ saving.tx \in onNode /\ Kind[saving.tx] # "deposit"
         /\ saving.reported = -1 => ~stored \/ ~Announced(saving.tx)
         /\ saving.reported = 0 => stored \/ saving.pending \/ saving.tx \in rolledBack

TrackInv ==
    /\ TypeOK
    /\ NodeInv
    /\ AccountInv
    /\ DatabaseOK(db)
    /\ DatabaseOK(open)
    /\ OpenInv
    /\ SaveInv

\* The types make the blocks a tree, and give what the node says its range.
LEMMA NodeFacts ==
    ASSUME TypeOK
    PROVE  /\ Tree(blocks)
           /\ \A t : /\ Confirmations(t) \in Int /\ Confirmations(t) <= MaxBlocks
                     /\ BlockOf(t, tip) \in Nat
                     /\ BlockOf(t, tip) # NoBlock =>
                          BlockOf(t, tip) \in {b \in 1 .. Len(blocks) : t \in blocks[b].txs}
                     /\ Confirmations(t) > 0 => BlockOf(t, tip) # NoBlock
<1>1. Len(blocks) \in Nat /\ \A b \in 1 .. Len(blocks) : blocks[b].parent \in Nat
  <2>1. blocks \in Seq(BlockType)
    BY DEF TypeOK
  <2>2. Len(blocks) \in Nat /\ \A b \in 1 .. Len(blocks) : blocks[b] \in BlockType
    BY <2>1
  <2>. QED BY <2>2 DEF BlockType
<1>2. Tree(blocks)
  BY <1>1 DEF TypeOK, Tree
<1>3. tip \in 0 .. Len(blocks) /\ Len(blocks) <= MaxBlocks
  BY DEF TypeOK
<1>4. ChainOf(blocks, tip) \subseteq 0 .. tip
  BY <1>2, <1>3, ChainBounds
<1>5. ASSUME NEW t
      PROVE  /\ Confirmations(t) \in Int /\ Confirmations(t) <= MaxBlocks
             /\ BlockOf(t, tip) \in Nat
             /\ BlockOf(t, tip) # NoBlock =>
                  BlockOf(t, tip) \in {b \in 1 .. Len(blocks) : t \in blocks[b].txs}
             /\ Confirmations(t) > 0 => BlockOf(t, tip) # NoBlock
  <2>1. Confirmations(t) = ConfirmationsIn(blocks, tip, t)
    BY NodeIs
  <2>2. BlockOf(t, tip) = BlockIn(blocks, t, tip)
    BY NodeIs
  <2>3. /\ ConfirmationsIn(blocks, tip, t) \in Int
        /\ ConfirmationsIn(blocks, tip, t) <= Len(blocks)
        /\ ConfirmationsIn(blocks, tip, t) > 0 => BlockIn(blocks, t, tip) # NoBlock
    BY <1>2, <1>3, ConfirmationsBounds
  <2>4. BlockIn(blocks, t, tip) # NoBlock =>
          /\ BlockIn(blocks, t, tip) \in ChainOf(blocks, tip) \ {0}
          /\ t \in blocks[BlockIn(blocks, t, tip)].txs
    BY BlockInIs
  <2>5. BlockIn(blocks, t, tip) # NoBlock => BlockIn(blocks, t, tip) \in 1 .. Len(blocks)
    BY <1>1, <1>3, <1>4, <2>4
  <2>6. BlockIn(blocks, t, tip) \in Nat
    BY <1>1, <2>5 DEF NoBlock
  <2>7. MaxBlocks \in Nat
    BY TrackingAssumption
  <2>. QED BY <1>1, <1>3, <2>1, <2>2, <2>3, <2>4, <2>5, <2>6, <2>7
<1>. QED
  BY <1>2, <1>5

-----------------------------------------------------------------------------
(* Rows and events.                                                        *)

\* Where the elements of a concatenation come from.
LEMMA ConcatIs ==
    ASSUME NEW S, NEW a \in Seq(S), NEW b \in Seq(S)
    PROVE  /\ a \o b \in Seq(S) /\ Len(a \o b) = Len(a) + Len(b)
           /\ Len(a) \in Nat /\ Len(b) \in Nat
           /\ \A n \in 1 .. Len(a) : (a \o b)[n] = a[n]
           /\ \A n \in 1 .. Len(b) : (a \o b)[Len(a) + n] = b[n]
  OBVIOUS

\* What notifyTransaction does to the row and the events of t, and that it
\* goes on counting where the events before it stopped.
LEMMA NotifyCounts ==
    ASSUME NEW d \in DatabaseType, NEW t \in Txs, NEW most \in Int, NEW named \in SUBSET Nat,
           NEW firsts \in SUBSET Int,
           Counts(d.events[t], d.rows[t].reported, most, named, firsts),
           d.rows[t].conf <= most,
           d.rows[t].conf > 0 => d.rows[t].block \in named
    PROVE  LET e == notifyTransaction(d, t) IN
           /\ e \in DatabaseType /\ e.seen = d.seen
           /\ e.rows[t].stored = d.rows[t].stored /\ e.rows[t].known = d.rows[t].known
           /\ e.rows[t].reported = d.rows[t].reported \/ e.rows[t].reported <= d.rows[t].conf
           /\ Counts(e.events[t], e.rows[t].reported, most, named, firsts)
           /\ After(d, e, t)
           /\ \A u \in Txs \ {t} : e.rows[u] = d.rows[u] /\ e.events[u] = d.events[u]
<1>. DEFINE row == d.rows[t]
            upTo == Capped(row.conf)
            more == [n \in 1 .. upTo - row.reported |-> Notification(row, row.reported + n)]
            e == notifyTransaction(d, t)
<1>1. /\ d.rows \in [Txs -> RowType] /\ d.events \in [Txs -> Seq(EventType)] /\ d.seen \in Nat
      /\ row \in RowType /\ d.events[t] \in Seq(EventType)
      /\ d = [rows |-> d.rows, events |-> d.events, seen |-> d.seen]
  BY DEF DatabaseType
<1>2. /\ row.conf \in Int /\ row.reported \in -1 .. MaxConfirmations /\ row.block \in Nat
      /\ row.known \in BOOLEAN /\ row.stored \in BOOLEAN /\ row.status \in Statuses
  BY <1>1 DEF RowType
<1>3. upTo \in Int /\ upTo <= MaxConfirmations /\ upTo <= row.conf /\ MaxConfirmations \in Nat
  BY <1>2, TrackingAssumption DEF Capped
<1>. DEFINE before == d.events[t]
<1>. DEFINE first == row.reported + 1 - Len(before)
<1>4. /\ Len(before) \in Nat /\ first \in Int /\ first \in firsts
      /\ Len(before) = row.reported + 1 - first
  BY <1>1, <1>2 DEF Counts
<1>5. CASE ~Announced(t) \/ upTo <= row.reported
  <2>1. e = d
    BY <1>5 DEF notifyTransaction
  <2>. HIDE DEF e
  <2>. QED BY <1>1, <1>4, <2>1 DEF e, After
<1>6. CASE ~(~Announced(t) \/ upTo <= row.reported)
  <2>. DEFINE newRow == [row EXCEPT !.reported = upTo]
              newEvents == before \o more
  <2>1. e = [d EXCEPT !.rows = [d.rows EXCEPT ![t] = newRow],
                      !.events = [d.events EXCEPT ![t] = newEvents]]
    BY <1>1, <1>6 DEF notifyTransaction
  <2>2. upTo \in -1 .. MaxConfirmations /\ upTo - row.reported \in Nat /\ row.reported < upTo
    BY <1>2, <1>3, <1>6
  <2>. HIDE DEF upTo
  <2>3. newRow \in RowType /\ newRow.reported = upTo /\ newRow.stored = row.stored
        /\ newRow.known = row.known
    BY <1>1, <2>2 DEF RowType
  <2>4. ASSUME NEW n \in 1 .. upTo - row.reported
        PROVE  /\ Notification(row, row.reported + n) \in EventType
               /\ Notification(row, row.reported + n).conf = row.reported + n
               /\ Notification(row, row.reported + n).block
                    = IF row.reported + n = 0 THEN NoBlock ELSE row.block
    <3>1. row.reported + n \in 0 .. MaxConfirmations
      BY <1>2, <1>3, <2>2
    <3>2. setTxStatusByConfirmations(row.reported + n) \in Statuses
      BY DEF setTxStatusByConfirmations, Statuses
    <3>. HIDE DEF row
    <3>. QED BY <1>2, <3>1, <3>2 DEF Notification, EventType, NoBlock
  <2>5. more \in Seq(EventType) /\ Len(more) = upTo - row.reported
    <3>1. \A n \in 1 .. upTo - row.reported : Notification(row, row.reported + n) \in EventType
      BY <2>4
    <3>. HIDE DEF row
    <3>. QED BY <2>2, <3>1
  <2>6. /\ newEvents \in Seq(EventType) /\ Len(newEvents) = Len(before) + Len(more)
        /\ Len(before) \in Nat
        /\ \A n \in 1 .. Len(before) : newEvents[n] = before[n]
        /\ \A n \in 1 .. Len(more) : newEvents[Len(before) + n] = more[n]
    <3>1. before \in Seq(EventType)
      BY <1>1
    <3>. HIDE DEF more, before
    <3>. QED BY <2>5, <3>1, ConcatIs
  <2>. HIDE DEF newEvents
  <2>7. Len(newEvents) = upTo + 1 - first /\ Len(before) <= Len(newEvents)
    <3>. HIDE DEF before, row, more, first
    <3>. QED BY <1>2, <1>4, <2>2, <2>5, <2>6, SMTT(60)
  <2>8. ASSUME NEW n \in 1 .. Len(newEvents)
        PROVE  /\ newEvents[n].conf = first + n - 1
               /\ IF newEvents[n].conf = 0 THEN newEvents[n].block = NoBlock
                  ELSE newEvents[n].block \in named
    <3>1. CASE n <= Len(before)
      <4>1. newEvents[n] = before[n] /\ n \in 1 .. Len(before)
        BY <2>6, <3>1
      <4>2. /\ before[n].conf = row.reported - Len(before) + n
            /\ IF before[n].conf = 0 THEN before[n].block = NoBlock ELSE before[n].block \in named
        BY <4>1 DEF Counts
      <4>3. row.reported - Len(before) + n = first + n - 1
        <5>1. n \in Int /\ row.reported \in Int
          BY <1>2
        <5>. HIDE DEF before, row, more, first
        <5>. QED BY <1>4, <5>1
      <4>. QED BY <4>1, <4>2, <4>3
    <3>2. CASE ~(n <= Len(before))
      <4>. DEFINE k == n - Len(before)
      <4>1. k \in 1 .. upTo - row.reported /\ row.reported + k = first + n - 1 /\ Len(before) + k = n
        <5>1. Len(before) \in Nat
          BY <2>6
        <5>2. row.reported \in Int /\ upTo \in Int
          BY <1>2, <1>3
        <5>. HIDE DEF before, row, more, first
        <5>3. n \in Int /\ n <= upTo + 1 - first
          BY <1>4, <2>7, <5>2
        <5>4. ~(n <= row.reported + 1 - first)
          BY <1>4, <3>2
        <5>5. k = n - (row.reported + 1 - first)
          BY <1>4
        <5>6. Len(before) \in Int /\ first \in Int /\ Len(before) + k = n
          BY <1>4, <5>3
        <5>7. row.reported + k = first + n - 1
          <6>1. PICK a \in Int, f \in Int, l \in Int :
                  a = row.reported /\ f = first /\ l = Len(before) /\ l = a + 1 - f
            BY <1>4, <5>2, <5>6
          <6>2. n \in Int
            BY <5>3
          <6>4. l = a + 1 - f
            BY <6>1
          <6>3. a + (n - l) = f + n - 1
            BY <6>2, <6>4
          <6>. QED BY <6>1, <6>3
        <5>8. k \in Int /\ 1 <= k /\ k <= upTo - row.reported
          BY <5>2, <5>3, <5>4, <5>5, <5>6
        <5>. QED BY <5>2, <5>6, <5>7, <5>8
      <4>. HIDE DEF k
      <4>2. newEvents[n] = more[k]
        <5>. HIDE DEF before, row, more
        <5>. QED BY <2>5, <2>6, <4>1
      <4>3. newEvents[n] = Notification(row, row.reported + k)
        BY <4>1, <4>2
      <4>4. newEvents[n].conf = row.reported + k
        BY <2>4, <4>1, <4>3
      <4>5. newEvents[n].block = IF row.reported + k = 0 THEN NoBlock ELSE row.block
        BY <2>4, <4>1, <4>3
      <4>6. row.reported + k \in 0 .. upTo
        <5>1. row.reported \in Int /\ -1 <= row.reported /\ upTo \in Int
          BY <1>2, <1>3
        <5>. HIDE DEF before, row, more, first
        <5>. QED BY <4>1, <5>1
      <4>7. row.reported + k # 0 => row.block \in named
        <5>1. ASSUME row.reported + k # 0 PROVE row.conf > 0
          <6>1. row.conf \in Int /\ upTo \in Int /\ upTo <= row.conf
            BY <1>2, <1>3
          <6>. HIDE DEF before, row, more, first
          <6>. QED BY <4>6, <5>1, <6>1
        <5>. QED BY <5>1
      <4>. HIDE DEF row, first
      <4>. QED BY <4>1, <4>4, <4>5, <4>7
    <3>. QED BY <3>1, <3>2
  <2>9. upTo <= most
    BY <1>2, <1>3
  <2>15. upTo + 1 - Len(newEvents) = first /\ upTo - Len(newEvents) = first - 1
    <3>. HIDE DEF before, row, more, first
    <3>. QED BY <1>3, <1>4, <2>7
  <2>. HIDE DEF newRow, row, more, first
  <2>10. /\ e.rows = [d.rows EXCEPT ![t] = newRow]
         /\ e.events = [d.events EXCEPT ![t] = newEvents] /\ e.seen = d.seen
         /\ e = [rows |-> e.rows, events |-> e.events, seen |-> e.seen]
    BY <1>1, <2>1
  <2>. HIDE DEF e
  <2>11. e.rows[t] = newRow /\ e.events[t] = newEvents
    BY <1>1, <2>10
  <2>12. e \in DatabaseType
    BY <1>1, <2>3, <2>6, <2>10, ZenonT(60) DEF DatabaseType
  <2>13. \A u \in Txs \ {t} : e.rows[u] = d.rows[u] /\ e.events[u] = d.events[u]
    BY <1>1, <2>10
  <2>14. Counts(newEvents, upTo, most, named, firsts)
    <3>1. ASSUME NEW n \in 1 .. Len(newEvents) PROVE upTo - Len(newEvents) + n = first + n - 1
      BY <1>4, <2>15
    <3>. QED BY <1>4, <2>8, <2>9, <2>15, <3>1 DEF Counts
  <2>16. After(d, e, t)
    BY <2>3, <2>7, <2>11, <2>15 DEF After, First, first, row
  <2>. QED BY <1>3, <2>3, <2>10, <2>11, <2>12, <2>13, <2>14, <2>16 DEF e, row
<1>. QED
  BY <1>5, <1>6

\* What StoreTransaction writes, and what it keeps of an existing row.
LEMMA StoreIs ==
    ASSUME TypeOK, NEW row \in RowType, NEW t
    PROVE  LET r == StoreTransaction(row, t) IN
           /\ r \in RowType /\ r.stored = TRUE
           /\ r.conf = Confirmations(t) /\ r.block = BlockOf(t, tip)
           /\ row.stored => r.reported = row.reported /\ r.known = row.known
           /\ ~row.stored => r.reported = -1 /\ (r.known <=> t \in accounts)
<1>. DEFINE conf == Confirmations(t)
            block == BlockOf(t, tip)
            status == setTxStatusByConfirmations(conf)
            known == (t \in accounts)
<1>1. conf \in Int /\ block \in Nat /\ status \in Statuses /\ known \in BOOLEAN
  BY NodeFacts DEF setTxStatusByConfirmations, Statuses
<1>2. MaxConfirmations \in Nat
  BY TrackingAssumption
<1>3. StoreTransaction(row, t) =
        [(IF row.stored THEN row ELSE [NoRow EXCEPT !.stored = TRUE, !.known = known])
           EXCEPT !.conf = conf, !.block = block, !.status = status]
  BY DEF StoreTransaction
<1>. HIDE DEF conf, block, status, known
<1>4. CASE row.stored
  <2>1. StoreTransaction(row, t) = [row EXCEPT !.conf = conf, !.block = block, !.status = status]
    BY <1>3, <1>4
  <2>2. row.stored = TRUE
    BY <1>4 DEF RowType
  <2>. QED BY <1>1, <1>4, <2>1, <2>2 DEF RowType, conf, block
<1>5. CASE ~row.stored
  <2>1. StoreTransaction(row, t) =
          [stored |-> TRUE, conf |-> conf, status |-> status, block |-> block,
           reported |-> -1, known |-> known]
    BY <1>3, <1>5 DEF NoRow
  <2>. DEFINE r == StoreTransaction(row, t)
  <2>2. /\ r.stored = TRUE /\ r.conf = conf /\ r.block = block /\ r.status = status
        /\ r.reported = -1 /\ r.known = known
    BY <2>1
  <2>3. r \in RowType
    BY <1>1, <1>2, <2>1 DEF RowType
  <2>. HIDE DEF r
  <2>4. r.known <=> t \in accounts
    BY <2>2, Zenon DEF known
  <2>. QED BY <1>5, <2>2, <2>3, <2>4 DEF r, conf, block
<1>. QED
  BY <1>4, <1>5

\* One answer of the node, stored and announced: the row and the events of t
\* are in order again, and the other rows are left alone.
LEMMA UpdateKeeps ==
    ASSUME TypeOK, NodeInv, AccountInv,
           NEW d \in DatabaseType, NEW t \in onNode, RowOK(d, t), EventsOK(d, t)
    PROVE  LET e == updateTxInfo(d, t) IN
           /\ e \in DatabaseType /\ e.seen = d.seen
           /\ e.rows[t].stored /\ RowOK(e, t) /\ EventsOK(e, t)
           /\ After(d, e, t)
           /\ \A u \in Txs \ {t} : e.rows[u] = d.rows[u] /\ e.events[u] = d.events[u]
<1>. DEFINE row == d.rows[t]
            r == StoreTransaction(row, t)
            d1 == [d EXCEPT !.rows = [d.rows EXCEPT ![t] = r]]
            e == updateTxInfo(d, t)
            named == {b \in 1 .. Len(blocks) : t \in blocks[b].txs}
            firsts == Firsts(rolledBack, t)
<1>1. /\ d.rows \in [Txs -> RowType] /\ d.events \in [Txs -> Seq(EventType)] /\ d.seen \in Nat
      /\ d = [rows |-> d.rows, events |-> d.events, seen |-> d.seen]
      /\ t \in Txs /\ best[t] \in Int
  BY DEF DatabaseType, TypeOK
<1>2. row \in RowType
  BY <1>1
<1>3. /\ r \in RowType /\ r.stored = TRUE
      /\ r.conf = Confirmations(t) /\ r.block = BlockOf(t, tip)
      /\ row.stored => r.reported = row.reported /\ r.known = row.known
      /\ ~row.stored => r.reported = -1 /\ (r.known <=> t \in accounts)
  <2>. HIDE DEF row
  <2>. QED BY <1>2, StoreIs
<1>4. e = notifyTransaction(d1, t)
  BY DEF updateTxInfo
<1>. HIDE DEF r
<1>5. /\ d1.rows = [d.rows EXCEPT ![t] = r] /\ d1.events = d.events /\ d1.seen = d.seen
      /\ d1 = [rows |-> d1.rows, events |-> d1.events, seen |-> d1.seen]
  <2>1. d = [rows |-> d.rows, events |-> d.events, seen |-> d.seen]
    BY <1>1
  <2>. HIDE DEF row, e, named
  <2>. QED BY <2>1
<1>. HIDE DEF d1
<1>6. d1 \in DatabaseType /\ d1.rows[t] = r
      /\ \A u \in Txs \ {t} : d1.rows[u] = d.rows[u]
  BY <1>1, <1>3, <1>5 DEF DatabaseType
<1>7. r.reported = row.reported
  <2>1. ~row.stored => row.reported = -1
    BY DEF RowOK, NoRow
  <2>. QED BY <1>3, <2>1
<1>8. Counts(d1.events[t], d1.rows[t].reported, best[t], named, firsts)
  BY <1>5, <1>6, <1>7 DEF EventsOK
<1>9. d1.rows[t].conf <= best[t]
  BY <1>3, <1>6 DEF NodeInv
<1>10. d1.rows[t].conf > 0 => d1.rows[t].block \in named
  BY <1>3, <1>6, NodeFacts
<1>11. named \in SUBSET Nat /\ firsts \in SUBSET Int
  BY DEF Firsts
<1>. HIDE DEF e, named, firsts
<1>12. /\ e \in DatabaseType /\ e.seen = d1.seen
       /\ e.rows[t].stored = d1.rows[t].stored /\ e.rows[t].known = d1.rows[t].known
       /\ Counts(e.events[t], e.rows[t].reported, best[t], named, firsts)
       /\ After(d1, e, t)
       /\ \A u \in Txs \ {t} : e.rows[u] = d1.rows[u] /\ e.events[u] = d1.events[u]
  BY <1>1, <1>4, <1>6, <1>8, <1>9, <1>10, <1>11, NotifyCounts
<1>13. Kind[t] = "deposit" => r.known
  <2>1. ASSUME Kind[t] = "deposit", row.stored PROVE row.known
    BY <2>1 DEF RowOK
  <2>2. ASSUME Kind[t] = "deposit" PROVE t \in accounts
    BY <1>1, <2>2 DEF AccountInv
  <2>. QED BY <1>3, <2>1, <2>2
<1>14. RowOK(e, t)
  <2>1. e.rows[t].stored = TRUE /\ e.rows[t].known = r.known
    BY <1>3, <1>6, <1>12
  <2>. QED BY <1>13, <2>1 DEF RowOK
<1>15. EventsOK(e, t)
  BY <1>12 DEF EventsOK, named, firsts
<1>16. After(d, e, t)
  BY <1>5, <1>6, <1>7, <1>12 DEF After, First
<1>. QED
  BY <1>3, <1>5, <1>6, <1>12, <1>14, <1>15, <1>16 DEF e

\* What listsinceblock leaves out lies on the chain of the mark, so it has a
\* row; the rest is stored by the same database transaction that moves the mark.
LEMMA ListKeeps ==
    ASSUME TypeOK, NodeInv, AccountInv, DatabaseOK(db)
    PROVE  LET e == [StoreListed(db, ListTransactionsSinceBlock(db.seen)) EXCEPT !.seen = tip] IN
           /\ e \in DatabaseType /\ e.seen = tip /\ DatabaseOK(e)
           /\ \A t \in Txs : After(db, e, t)
<1>. DEFINE listed == ListTransactionsSinceBlock(db.seen)
            stored == StoreListed(db, listed)
            e == [stored EXCEPT !.seen = tip]
            new(t) == updateTxInfo(db, t)
<1>1. /\ db \in DatabaseType /\ db.rows \in [Txs -> RowType] /\ db.seen \in 0 .. Len(blocks)
      /\ db.events \in [Txs -> Seq(EventType)]
      /\ db = [rows |-> db.rows, events |-> db.events, seen |-> db.seen]
  BY DEF TypeOK, DatabaseType
<1>2. tip \in 0 .. Len(blocks) /\ onNode \subseteq Txs /\ Tree(blocks)
  BY NodeFacts DEF TypeOK
<1>3. listed \subseteq onNode
  BY DEF ListTransactionsSinceBlock
<1>4. ASSUME NEW t \in listed
      PROVE  /\ new(t) \in DatabaseType /\ new(t).rows[t].stored
             /\ RowOK(new(t), t) /\ EventsOK(new(t), t)
             /\ After(db, new(t), t)
  <2>1. t \in onNode /\ RowOK(db, t) /\ EventsOK(db, t)
    BY <1>2, <1>3 DEF DatabaseOK
  <2>. HIDE DEF listed
  <2>. QED BY <1>1, <2>1, UpdateKeeps
<1>. HIDE DEF listed
<1>5. stored = [db EXCEPT !.rows = [t \in Txs |-> IF t \in listed THEN new(t).rows[t] ELSE db.rows[t]],
                          !.events = [t \in Txs |-> IF t \in listed THEN new(t).events[t] ELSE db.events[t]]]
  BY DEF StoreListed
<1>. HIDE DEF new, stored
<1>6. /\ e.rows = [t \in Txs |-> IF t \in listed THEN new(t).rows[t] ELSE db.rows[t]]
      /\ e.events = [t \in Txs |-> IF t \in listed THEN new(t).events[t] ELSE db.events[t]]
      /\ e.seen = tip
      /\ e = [rows |-> e.rows, events |-> e.events, seen |-> e.seen]
  <2>1. db = [rows |-> db.rows, events |-> db.events, seen |-> db.seen]
    BY <1>1
  <2>. DEFINE R == [t \in Txs |-> IF t \in listed THEN new(t).rows[t] ELSE db.rows[t]]
              E == [t \in Txs |-> IF t \in listed THEN new(t).events[t] ELSE db.events[t]]
  <2>2. stored = [db EXCEPT !.rows = R, !.events = E]
    BY <1>5
  <2>. HIDE DEF R, E
  <2>3. stored = [rows |-> R, events |-> E, seen |-> db.seen]
    BY <2>1, <2>2
  <2>4. e = [rows |-> R, events |-> E, seen |-> tip]
    BY <2>3
  <2>. HIDE DEF e
  <2>5. e.rows = R /\ e.events = E /\ e.seen = tip
    BY <2>4
  <2>. QED BY <2>4, <2>5 DEF R, E
<1>. HIDE DEF e
<1>7. ASSUME NEW t \in Txs
      PROVE  /\ e.rows[t] \in RowType /\ e.events[t] \in Seq(EventType)
             /\ RowOK(e, t) /\ EventsOK(e, t)
             /\ After(db, e, t)
             /\ db.rows[t].stored => e.rows[t].stored
  <2>1. CASE t \in listed
    <3>1. e.rows[t] = new(t).rows[t] /\ e.events[t] = new(t).events[t]
      BY <1>6, <2>1
    <3>2. new(t).rows[t] \in RowType /\ new(t).events[t] \in Seq(EventType)
      BY <1>4, <2>1 DEF DatabaseType
    <3>. QED BY <1>4, <2>1, <3>1, <3>2 DEF RowOK, EventsOK, After, First
  <2>2. CASE t \notin listed
    <3>1. e.rows[t] = db.rows[t] /\ e.events[t] = db.events[t]
      BY <1>6, <2>2
    <3>2. Len(db.events[t]) \in Nat
      BY <1>1
    <3>3. RowOK(db, t) /\ EventsOK(db, t)
      BY DEF DatabaseOK
    <3>. QED BY <1>1, <3>1, <3>2, <3>3 DEF RowOK, EventsOK, After, First
  <2>. QED BY <2>1, <2>2
<1>8. e \in DatabaseType
  <2>1. /\ e.rows = [t \in Txs |-> e.rows[t]] /\ e.events = [t \in Txs |-> e.events[t]]
    BY <1>6
  <2>2. e.rows \in [Txs -> RowType] /\ e.events \in [Txs -> Seq(EventType)]
    BY <1>7, <2>1
  <2>3. e.seen \in Nat
    BY <1>2, <1>6
  <2>. QED BY <1>6, <2>2, <2>3 DEF DatabaseType
<1>9. SeenOK(e)
  <2>1. SUFFICES ASSUME NEW b \in ChainOf(blocks, tip) \ {0}, NEW t \in blocks[b].txs
                 PROVE  e.rows[t].stored
    BY <1>6, ChainIs DEF SeenOK
  <2>2. b \in 1 .. Len(blocks)
    BY <1>2, ChainBounds DEF Tree
  <2>3. t \in onNode /\ t \in Txs
    BY <1>2, <2>2 DEF NodeInv
  <2>4. CASE t \in listed
    BY <1>4, <1>6, <2>3, <2>4
  <2>5. CASE t \notin listed
    <3>. DEFINE shared == ChainOf(blocks, tip) \cap ChainOf(blocks, db.seen)
                fork == CHOOSE x \in shared : \A c \in shared :
                          HeightOf(blocks, c) <= HeightOf(blocks, x)
                c == BlockIn(blocks, t, tip)
    <3>1. ~(Confirmations(t) < Depth(fork))
      <4>1. listed = {u \in onNode : Confirmations(u) < Depth(fork)}
        BY ChainIs, NodeIs DEF listed, ListTransactionsSinceBlock
      <4>. QED BY <2>3, <2>5, <4>1
    <3>2. /\ fork \in ChainOf(blocks, tip)
          /\ \A x \in ChainOf(blocks, tip) :
               HeightOf(blocks, x) <= HeightOf(blocks, fork) => x \in ChainOf(blocks, db.seen)
      BY <1>1, <1>2, ForkIs
    <3>. HIDE DEF fork
    <3>3. c # NoBlock /\ c \in ChainOf(blocks, tip) \ {0} /\ t \in blocks[c].txs
      BY BlockInIs
    <3>. HIDE DEF c
    <3>4. Confirmations(t) = DepthIn(blocks, tip, c)
      BY <3>3, NodeIs DEF ConfirmationsIn, c
    <3>5. Depth(fork) = DepthIn(blocks, tip, fork)
      BY NodeIs
    <3>6. HeightOf(blocks, c) \in Int /\ HeightOf(blocks, fork) \in Int /\ HeightOf(blocks, tip) \in Int
      <4>1. tip \in ChainOf(blocks, tip)
        BY <1>2, ChainBounds
      <4>. QED BY <1>2, <3>2, <3>3, <4>1, HeightOrder
    <3>7. HeightOf(blocks, c) <= HeightOf(blocks, fork)
      BY <3>1, <3>4, <3>5, <3>6 DEF DepthIn
    <3>8. c \in ChainOf(blocks, db.seen) \ {0}
      BY <3>2, <3>3, <3>7
    <3>9. db.rows[t].stored
      BY <3>3, <3>8, ChainIs DEF DatabaseOK, SeenOK
    <3>. QED BY <1>7, <2>3, <3>9
  <2>. QED BY <2>4, <2>5
<1>. QED
  BY <1>6, <1>7, <1>8, <1>9 DEF e, stored, listed, DatabaseOK

-----------------------------------------------------------------------------
(* The invariant is inductive.                                             *)

\* Nothing is mined, stored or announced yet.
LEMMA InitTracks == Init => TrackInv
<1>. SUFFICES ASSUME Init PROVE TrackInv
  OBVIOUS
<1>. DEFINE d == EmptyDatabase
<1>1. MaxConfirmations \in Nat /\ MaxBlocks \in Nat /\ MaxFaults \in Nat
  BY TrackingAssumption
<1>2. NoRow \in RowType
  BY <1>1 DEF NoRow, RowType, Statuses, NoBlock
<1>3. /\ d \in DatabaseType /\ d.seen = 0
      /\ \A t \in Txs : d.rows[t] = NoRow /\ d.events[t] = << >>
  <2>1. << >> \in Seq(EventType)
    OBVIOUS
  <2>. QED BY <1>2, <2>1 DEF EmptyDatabase, DatabaseType, NoBlock
<1>4. blocks = << >> /\ tip = 0 /\ onNode = {} /\ Len(blocks) = 0
  BY DEF Init
<1>5. TypeOK
  <2>. HIDE DEF d
  <2>1. db = d /\ open = d
    BY DEF Init, d
  <2>2. best \in [Txs -> -1 .. MaxBlocks]
    BY <1>1 DEF Init
  <2>3. blocks \in Seq(BlockType) /\ Len(blocks) <= MaxBlocks
    BY <1>1, <1>4
  <2>4. \A b \in 1 .. Len(blocks) : blocks[b].parent < b
    BY <1>4
  <2>5. tip \in 0 .. Len(blocks) /\ onNode \subseteq Txs
    BY <1>4
  <2>6. account \in [Txs -> Accounts] /\ accounts \subseteq Txs /\ pc \in Points /\ todo \subseteq Txs
        /\ faults \in 0 .. MaxFaults
    BY <1>1 DEF Init, Accounts, Points
  <2>7. changed \in BOOLEAN /\ booting \in BOOLEAN /\ owed \in BOOLEAN /\ lost \in BOOLEAN
        /\ lock \in Txs \cup {NoTx} /\ saving \in SavingType /\ rolledBack \subseteq Txs
    BY DEF Init, SavingType, NoSaving
  <2>8. /\ db \in DatabaseType /\ db.seen <= Len(blocks)
        /\ open \in DatabaseType /\ open.seen <= Len(blocks)
    BY <1>3, <1>4, <2>1
  <2>. QED BY <2>2, <2>3, <2>4, <2>5, <2>6, <2>7, <2>8 DEF TypeOK
<1>6. NodeInv
  BY <1>4 DEF NodeInv
<1>7. AccountInv
  BY <1>4 DEF Init, AccountInv
<1>8. DatabaseOK(d)
  <2>1. Tree(blocks) /\ ChainOf(blocks, 0) \subseteq 0 .. 0
    <3>1. Tree(blocks)
      BY <1>5, NodeFacts
    <3>. QED BY <1>4, <3>1, ChainBounds
  <2>2. SeenOK(d)
    BY <1>3, <2>1, ChainIs DEF SeenOK
  <2>3. ASSUME NEW t \in Txs PROVE RowOK(d, t) /\ EventsOK(d, t)
    <3>1. d.rows[t].stored = FALSE /\ d.rows[t] = NoRow /\ d.rows[t].reported = -1
      <4>1. NoRow.stored = FALSE /\ NoRow.reported = -1
        BY DEF NoRow
      <4>. QED BY <1>3, <4>1
    <3>2. best[t] = -1 /\ Len(d.events[t]) = 0
      BY <1>3 DEF Init
    <3>. HIDE DEF d
    <3>. QED BY <3>1, <3>2 DEF RowOK, EventsOK, Counts, Firsts
  <2>. HIDE DEF d
  <2>. QED BY <2>2, <2>3 DEF DatabaseOK
<1>9. OpenInv /\ SaveInv
  <2>1. \A t \in Txs : Len(d.events[t]) \in Nat
    BY <1>3
  <2>2. db = d /\ open = d /\ pc = "down" /\ lock = NoTx
    BY DEF Init
  <2>. HIDE DEF d
  <2>. QED BY <2>1, <2>2 DEF OpenInv, SaveInv, After
<1>. QED
  BY <1>5, <1>6, <1>7, <1>8, <1>9 DEF TrackInv, Init

\* SeenOK of the new blocks.
SeenIn(B, d) == \A b \in ChainOf(B, d.seen) \ {0} : \A t \in B[b].txs : d.rows[t].stored

\* What is in order stays so while the node learns of transactions and blocks.
LEMMA DatabaseStays ==
    ASSUME TypeOK, NEW d \in DatabaseType, d.seen <= Len(blocks), DatabaseOK(d),
           onNode \subseteq onNode', rolledBack \subseteq rolledBack',
           best' \in [Txs -> Int], \A t \in Txs : best[t] <= best'[t],
           \/ blocks' = blocks
           \/ \E x \in BlockType : x.parent \in 0 .. Len(blocks) /\ blocks' = Append(blocks, x)
    PROVE  /\ db' = d => DatabaseOK(db)'
           /\ open' = d => DatabaseOK(open)'
           /\ SeenIn(blocks', d)
           /\ \A t \in Txs :
                /\ d.rows[t].stored => t \in onNode'
                /\ Counts(d.events[t], d.rows[t].reported, best'[t],
                          {b \in 1 .. Len(blocks') : t \in blocks'[b].txs}, Firsts(rolledBack', t))
<1>1. /\ Tree(blocks) /\ blocks \in Seq(BlockType) /\ Len(blocks) \in Nat /\ d.seen \in 0 .. Len(blocks)
      /\ best \in [Txs -> Int]
  <2>1. blocks \in Seq(BlockType) /\ best \in [Txs -> Int] /\ d.seen \in Nat
    BY DEF TypeOK, DatabaseType
  <2>. QED BY <2>1, NodeFacts
<1>2. /\ \A b \in 0 .. Len(blocks) : ChainOf(blocks', b) = ChainOf(blocks, b)
      /\ Len(blocks') \in Nat /\ Len(blocks) <= Len(blocks')
      /\ \A b \in 1 .. Len(blocks) : blocks'[b] = blocks[b]
  <2>1. CASE blocks' = blocks
    BY <1>1, <2>1
  <2>2. ASSUME NEW x \in BlockType, x.parent \in 0 .. Len(blocks), blocks' = Append(blocks, x)
        PROVE  <1>2!:
    <3>1. \A b \in 0 .. Len(blocks) : ChainOf(Append(blocks, x), b) = ChainOf(blocks, b)
      BY <1>1, <2>2, ChainAppend
    <3>2. /\ Len(Append(blocks, x)) = Len(blocks) + 1
          /\ \A b \in 1 .. Len(blocks) : Append(blocks, x)[b] = blocks[b]
      BY <1>1
    <3>. QED BY <1>1, <2>2, <3>1, <3>2
  <2>. QED BY <2>1, <2>2
<1>3. ChainOf(blocks, d.seen) \subseteq 0 .. d.seen
  BY <1>1, ChainBounds
<1>4. SeenIn(blocks', d)
  <2>1. SUFFICES ASSUME NEW b \in ChainOf(blocks', d.seen) \ {0}, NEW t \in blocks'[b].txs
                 PROVE  d.rows[t].stored
    BY DEF SeenIn
  <2>2. b \in ChainOf(blocks, d.seen) \ {0}
    BY <1>1, <1>2
  <2>3. b \in 1 .. Len(blocks)
    BY <1>1, <1>3, <2>2
  <2>4. t \in blocks[b].txs
    BY <1>2, <2>3
  <2>. QED BY <2>2, <2>4, ChainIs DEF DatabaseOK, SeenOK
<1>5. ASSUME NEW t \in Txs
      PROVE  /\ RowOK(d, t) /\ (d.rows[t].stored => t \in onNode')
             /\ Counts(d.events[t], d.rows[t].reported, best'[t],
                       {b \in 1 .. Len(blocks') : t \in blocks'[b].txs}, Firsts(rolledBack', t))
  <2>6. Firsts(rolledBack, t) \subseteq Firsts(rolledBack', t)
    BY DEF Firsts
  <2>1. RowOK(d, t) /\ EventsOK(d, t)
    BY DEF DatabaseOK
  <2>2. d.rows[t].stored => t \in onNode'
    BY <2>1 DEF RowOK
  <2>3. {b \in 1 .. Len(blocks) : t \in blocks[b].txs}
          \subseteq {b \in 1 .. Len(blocks') : t \in blocks'[b].txs}
    BY <1>1, <1>2
  <2>4. d.rows[t].reported \in Int /\ best[t] \in Int /\ best'[t] \in Int /\ best[t] <= best'[t]
    <3>1. d.rows[t] \in RowType /\ MaxConfirmations \in Nat
      BY TrackingAssumption DEF DatabaseType
    <3>. QED BY <1>1, <3>1 DEF RowType
  <2>5. d.rows[t].reported <= best'[t]
    BY <2>1, <2>4 DEF EventsOK, Counts
  <2>. QED BY <2>1, <2>2, <2>3, <2>5, <2>6 DEF EventsOK, Counts
<1>6. ASSUME db' = d PROVE DatabaseOK(db)'
  <2>1. SeenOK(db)'
    BY <1>4, <1>6 DEF SeenOK, SeenIn, Chain, ChainOf, Chains, ChainTable, ChainRound
  <2>2. ASSUME NEW t \in Txs PROVE RowOK(db, t)' /\ EventsOK(db, t)'
    BY <1>5, <1>6 DEF RowOK, EventsOK
  <2>. QED BY <2>1, <2>2 DEF DatabaseOK
<1>7. ASSUME open' = d PROVE DatabaseOK(open)'
  <2>1. SeenOK(open)'
    BY <1>4, <1>7 DEF SeenOK, SeenIn, Chain, ChainOf, Chains, ChainTable, ChainRound
  <2>2. ASSUME NEW t \in Txs PROVE RowOK(open, t)' /\ EventsOK(open, t)'
    BY <1>5, <1>7 DEF RowOK, EventsOK
  <2>. QED BY <2>1, <2>2 DEF DatabaseOK
<1>. QED
  BY <1>4, <1>5, <1>6, <1>7

\* A step that leaves the node alone keeps the invariant if what it commits
\* and what it has open are in order.
LEMMA UpdaterKeeps ==
    ASSUME TrackInv, UNCHANGED node,
           NEW d \in DatabaseType, db' = d, d.seen <= Len(blocks), DatabaseOK(d),
           NEW e \in DatabaseType, open' = e, e.seen <= Len(blocks), DatabaseOK(e),
           \A t \in Txs : After(d, e, t),
           lock' \in Txs \cup {NoTx}, saving' \in SavingType, SaveInv',
           rolledBack \subseteq rolledBack', rolledBack' \subseteq Txs,
           account' \in [Txs -> Accounts], accounts' \subseteq Txs, AccountInv',
           pc' \in Points, todo' \subseteq Txs, changed' \in BOOLEAN, booting' \in BOOLEAN,
           owed' \in BOOLEAN, lost' \in BOOLEAN, faults' \in 0 .. MaxFaults,
           pc' \notin {"commit1", "get", "commit2"} => e = d,
           pc' = "get" => \A t \in todo' : e.rows[t].stored
    PROVE  TrackInv'
<1>1. TypeOK /\ NodeInv
  BY DEF TrackInv
<1>2. blocks' = blocks /\ tip' = tip /\ onNode' = onNode /\ best' = best
  BY DEF node
<1>3. /\ blocks \in Seq(BlockType) /\ Len(blocks) <= MaxBlocks
      /\ \A b \in 1 .. Len(blocks) : blocks[b].parent < b
      /\ tip \in 0 .. Len(blocks) /\ onNode \subseteq Txs /\ best \in [Txs -> -1 .. MaxBlocks]
  BY <1>1 DEF TypeOK
<1>4. TypeOK'
  BY <1>2, <1>3 DEF TypeOK
<1>5. NodeInv'
  <2>1. \A t : Confirmations(t)' = Confirmations(t)
    BY <1>2, NodeIs
  <2>2. \A b \in 1 .. Len(blocks) : blocks[b].txs \subseteq onNode /\ blocks[b].rivals \subseteq onNode
    BY <1>1 DEF NodeInv
  <2>3. \A t \in onNode : Confirmations(t) <= best[t] /\ best[t] >= 0
    BY <1>1 DEF NodeInv
  <2>. QED BY <1>2, <2>1, <2>2, <2>3 DEF NodeInv
<1>6. DatabaseOK(db)' /\ DatabaseOK(open)'
  <2>1. best' \in [Txs -> Int] /\ \A t \in Txs : best[t] <= best'[t]
    BY <1>2, <1>3
  <2>2. onNode \subseteq onNode'
    BY <1>2
  <2>. QED BY <1>1, <1>2, <2>1, <2>2, DatabaseStays
<1>7. OpenInv'
  BY DEF OpenInv, After, First
<1>. QED
  BY <1>4, <1>5, <1>6, <1>7 DEF TrackInv

\* The facts about the two databases that the steps below start from.
LEMMA Databases ==
    ASSUME TrackInv
    PROVE  /\ db \in DatabaseType /\ db.seen <= Len(blocks) /\ DatabaseOK(db)
           /\ open \in DatabaseType /\ open.seen <= Len(blocks) /\ DatabaseOK(open)
           /\ \A t \in Txs : After(db, db, t)
           /\ \A t \in Txs : After(db, open, t)
           /\ pc \notin {"commit1", "get", "commit2"} => open = db
           /\ pc = "get" => \A t \in todo : open.rows[t].stored
           /\ account \in [Txs -> Accounts] /\ accounts \subseteq Txs /\ AccountInv
           /\ pc \in Points /\ todo \subseteq Txs /\ changed \in BOOLEAN /\ booting \in BOOLEAN
           /\ owed \in BOOLEAN /\ lost \in BOOLEAN /\ faults \in 0 .. MaxFaults
           /\ lock \in Txs \cup {NoTx} /\ saving \in SavingType /\ rolledBack \subseteq Txs
<1>1. TypeOK /\ OpenInv /\ AccountInv /\ DatabaseOK(db) /\ DatabaseOK(open)
  BY DEF TrackInv
<1>2. db \in DatabaseType /\ db.seen <= Len(blocks) /\ open \in DatabaseType /\ open.seen <= Len(blocks)
  BY <1>1 DEF TypeOK
<1>3. \A t \in Txs : After(db, db, t)
  <2>1. \A t \in Txs : Len(db.events[t]) \in Nat
    BY <1>2 DEF DatabaseType
  <2>. QED BY <2>1 DEF After
<1>4. /\ account \in [Txs -> Accounts] /\ accounts \subseteq Txs
      /\ pc \in Points /\ todo \subseteq Txs /\ changed \in BOOLEAN /\ booting \in BOOLEAN
      /\ owed \in BOOLEAN /\ lost \in BOOLEAN /\ faults \in 0 .. MaxFaults
      /\ lock \in Txs \cup {NoTx} /\ saving \in SavingType /\ rolledBack \subseteq Txs
  BY <1>1 DEF TypeOK
<1>5. /\ \A t \in Txs : After(db, open, t)
      /\ pc \notin {"commit1", "get", "commit2"} => open = db
      /\ pc = "get" => \A t \in todo : open.rows[t].stored
  BY <1>1 DEF OpenInv
<1>. QED
  BY <1>1, <1>2, <1>3, <1>4, <1>5

\* What is known of a withdrawal that is being saved stays true.
LEMMA SavingStays ==
    ASSUME TrackInv, UNCHANGED withdrawing, onNode \subseteq onNode',
           pc' # "save" \/ (pc' = pc /\ db' = db)
    PROVE  /\ lock' \in Txs \cup {NoTx} /\ saving' \in SavingType /\ SaveInv'
           /\ rolledBack \subseteq rolledBack' /\ rolledBack' \subseteq Txs
<1>1. SaveInv /\ UNCHANGED <<lock, saving, rolledBack>>
  BY DEF TrackInv, withdrawing
<1>2. SaveInv'
  <2>1. CASE pc' # "save"
    BY <1>1, <2>1 DEF SaveInv
  <2>2. CASE pc' = pc /\ db' = db
    BY <1>1, <2>2 DEF SaveInv, Announced
  <2>. QED BY <2>1, <2>2
<1>. QED
  BY <1>1, <1>2, Databases

\* A failure is counted within its bound.
LEMMA FaultCounts ==
    ASSUME faults \in 0 .. MaxFaults, NEW kind, Fault(kind)
    PROVE  faults' \in 0 .. MaxFaults
  BY TrackingAssumption DEF Fault

\* Steps of the updater between its polls.
LEMMA LoopKeeps ==
    ASSUME TrackInv, Start \/ Tick \/ ListFails \/ UpdatePendingTxns \/ CheckExisting
    PROVE  TrackInv'
<1>. USE Databases
<1>1. UNCHANGED node /\ UNCHANGED <<account, accounts, db, withdrawing, open, changed, lost>>
  BY DEF Start, Tick, ListFails, UpdatePendingTxns, CheckExisting
<1>2. AccountInv'
  <2>1. onNode' = onNode /\ account' = account /\ accounts' = accounts
    BY <1>1 DEF node
  <2>. QED BY <2>1 DEF AccountInv
<1>3. faults' \in 0 .. MaxFaults
  BY FaultCounts DEF Start, Tick, ListFails, UpdatePendingTxns, CheckExisting
<1>4. pc' \in Points /\ booting' \in BOOLEAN /\ owed' \in BOOLEAN /\ todo' \subseteq Txs
  BY DEF Start, Tick, ListFails, UpdatePendingTxns, CheckExisting, Points,
         GetBroadcastedTransactionsWithLessConfirmations
<1>5. open = db
  BY DEF Start, Tick, ListFails, UpdatePendingTxns, CheckExisting
<1>6. pc' = "get" => \A t \in todo' : open.rows[t].stored
  BY <1>5 DEF Start, Tick, ListFails, UpdatePendingTxns, CheckExisting,
              GetBroadcastedTransactionsWithLessConfirmations
<1>7. pc' # "save" /\ onNode' = onNode
  BY <1>1 DEF Start, Tick, ListFails, UpdatePendingTxns, CheckExisting, node
<1>. QED
  BY <1>1, <1>2, <1>3, <1>4, <1>5, <1>6, <1>7, SavingStays, UpdaterKeeps

\* checkForNewTransactions up to its commit.
LEMMA ListStepKeeps == ASSUME TrackInv, List PROVE TrackInv'
<1>. DEFINE e == [StoreListed(db, ListTransactionsSinceBlock(db.seen)) EXCEPT !.seen = tip]
<1>1. TypeOK /\ NodeInv /\ AccountInv /\ DatabaseOK(db)
  BY DEF TrackInv
<1>2. /\ e \in DatabaseType /\ e.seen = tip /\ DatabaseOK(e)
      /\ \A t \in Txs : After(db, e, t)
  BY <1>1, ListKeeps
<1>3. open' = e /\ pc' = "commit1" /\ changed' \in BOOLEAN
  BY DEF List
<1>4. UNCHANGED <<node, account, accounts, db, withdrawing, todo, booting, owed, lost, faults>>
  BY DEF List
<1>. HIDE DEF e
<1>5. e.seen <= Len(blocks)
  BY <1>1, <1>2 DEF TypeOK
<1>6. AccountInv'
  BY <1>1, <1>4 DEF AccountInv, node
<1>. QED
  BY <1>2, <1>3, <1>4, <1>5, <1>6, Databases, SavingStays, UpdaterKeeps DEF Points, node

\* checkForExistingTransactionUpdates asks about one row.
LEMMA GetStepKeeps == ASSUME TrackInv, NEW t \in Txs, GetTransaction(t) PROVE TrackInv'
<1>. DEFINE e == updateTxInfo(open, t)
<1>1. TypeOK /\ NodeInv /\ AccountInv /\ DatabaseOK(open)
  BY DEF TrackInv
<1>2. pc = "get" /\ t \in todo /\ open' = e /\ todo' = todo \ {t} /\ pc' \in {"commit2", "get"}
      /\ changed' = (changed \/ open'.rows[t].status # open.rows[t].status)
      /\ UNCHANGED <<node, account, accounts, db, withdrawing, booting, owed, lost, faults>>
  BY DEF GetTransaction
<1>3. open.rows[t].stored /\ RowOK(open, t) /\ EventsOK(open, t) /\ SeenOK(open)
  BY <1>1, <1>2, Databases DEF DatabaseOK
<1>4. t \in onNode
  BY <1>3 DEF RowOK
<1>5. /\ e \in DatabaseType /\ e.seen = open.seen
      /\ e.rows[t].stored /\ RowOK(e, t) /\ EventsOK(e, t)
      /\ After(open, e, t)
      /\ \A u \in Txs \ {t} : e.rows[u] = open.rows[u] /\ e.events[u] = open.events[u]
  BY <1>1, <1>3, <1>4, Databases, UpdateKeeps
<1>. HIDE DEF e
<1>6. ASSUME NEW u \in Txs
      PROVE  /\ RowOK(e, u) /\ EventsOK(e, u) /\ (open.rows[u].stored => e.rows[u].stored)
             /\ After(db, e, u)
  <2>1. Len(db.events[u]) \in Nat /\ Len(open.events[u]) \in Nat /\ Len(e.events[u]) \in Nat
    BY <1>5, Databases DEF DatabaseType
  <2>2. After(db, open, u)
    BY Databases
  <2>3. CASE u = t
    BY <1>5, <2>1, <2>2, <2>3 DEF After
  <2>4. CASE u # t
    <3>1. e.rows[u] = open.rows[u] /\ e.events[u] = open.events[u]
      BY <1>5, <2>4
    <3>2. RowOK(open, u) /\ EventsOK(open, u)
      BY <1>1 DEF DatabaseOK
    <3>. QED BY <2>2, <3>1, <3>2 DEF RowOK, EventsOK, After, First
  <2>. QED BY <2>3, <2>4
<1>7. SeenOK(e)
  <2>1. SUFFICES ASSUME NEW b \in Chain(open.seen) \ {0}, NEW u \in blocks[b].txs
                 PROVE  e.rows[u].stored
    BY <1>5 DEF SeenOK
  <2>2. open.rows[u].stored
    BY <1>3 DEF SeenOK
  <2>3. u \in Txs
    <3>1. Tree(blocks) /\ open.seen \in 0 .. Len(blocks)
      BY <1>1, NodeFacts DEF TypeOK, DatabaseType
    <3>2. b \in 1 .. Len(blocks)
      BY <3>1, ChainIs, ChainBounds DEF Tree
    <3>. QED BY <1>1, <3>2 DEF NodeInv, TypeOK
  <2>. QED BY <1>6, <2>2, <2>3
<1>8. DatabaseOK(e)
  BY <1>6, <1>7 DEF DatabaseOK
<1>9. AccountInv'
  BY <1>1, <1>2 DEF AccountInv, node
<1>10. \A u \in todo' : e.rows[u].stored
  BY <1>2, <1>6, Databases
<1>11. changed' \in BOOLEAN
  BY <1>2, Databases
<1>12. e.seen <= Len(blocks)
  BY <1>5, Databases
<1>13. pc' \in Points /\ todo' \subseteq Txs
  BY <1>2, Databases DEF Points
<1>14. \A u \in Txs : After(db, e, u)
  BY <1>6
<1>15. /\ lock' \in Txs \cup {NoTx} /\ saving' \in SavingType /\ SaveInv'
       /\ rolledBack \subseteq rolledBack' /\ rolledBack' \subseteq Txs
  BY <1>2, SavingStays DEF node
<1>. QED
  BY <1>2, <1>5, <1>8, <1>9, <1>10, <1>11, <1>12, <1>13, <1>14, <1>15, Databases, UpdaterKeeps

\* A database transaction is committed or rolled back: afterwards the open one
\* is a copy of the committed state again.
LEMMA EndPollKeeps ==
    ASSUME TrackInv, UNCHANGED node,
           NEW d \in DatabaseType, db' = d, d.seen <= Len(blocks), DatabaseOK(d),
           NEW next \in Points \ {"get"}, EndPoll(next),
           account' \in [Txs -> Accounts], UNCHANGED accounts, AccountInv',
           lock' \in Txs \cup {NoTx}, saving' \in SavingType, SaveInv',
           rolledBack \subseteq rolledBack', rolledBack' \subseteq Txs,
           booting' \in BOOLEAN, owed' \in BOOLEAN, lost' \in BOOLEAN, faults' \in 0 .. MaxFaults
    PROVE  TrackInv'
<1>1. \A t \in Txs : After(d, d, t)
  <2>1. \A t \in Txs : Len(d.events[t]) \in Nat
    BY DEF DatabaseType
  <2>. QED BY <2>1 DEF After
<1>2. open' = d /\ todo' = {} /\ changed' = FALSE /\ pc' = next
  BY DEF EndPoll
<1>. QED
  BY <1>1, <1>2, Databases, UpdaterKeeps

\* A crash forgets the calls of CreateAccount that were under way.
LEMMA DownKeepsAccounts ==
    ASSUME TrackInv, Down, UNCHANGED accounts, onNode' = onNode
    PROVE  AccountInv' /\ account' \in [Txs -> Accounts]
<1>1. account' = [t \in Txs |-> CASE account[t] = "generated" -> "none"
                                  [] account[t] = "stored" -> "lost"
                                  [] OTHER -> account[t]]
  BY DEF Down
<1>2. ASSUME NEW t \in Txs
      PROVE  /\ account'[t] \in Accounts
             /\ account'[t] \in {"stored", "answered", "lost"} => t \in accounts
  BY <1>1, Databases DEF Accounts, AccountInv
<1>3. account' \in [Txs -> Accounts]
  BY <1>1, <1>2
<1>. QED
  BY <1>1, <1>2, <1>3, Databases DEF AccountInv

\* The commits, the rollbacks and the crash.
LEMMA CommitsKeep ==
    ASSUME TrackInv,
           CommitNew \/ CommitNewFails \/ CommitNewLost \/ GetTransactionFails
             \/ CommitExisting \/ CommitExistingFails \/ CommitExistingLost \/ Crash
    PROVE  TrackInv'
<1>. USE Databases
<1>1. UNCHANGED node /\ UNCHANGED accounts /\ db' \in {db, open} /\ onNode' = onNode
  BY DEF CommitNew, CommitNewFails, CommitNewLost, GetTransactionFails, CommitExisting,
         CommitExistingFails, CommitExistingLost, Crash, Commits, node
<1>2. booting' \in BOOLEAN /\ owed' \in BOOLEAN /\ lost' \in BOOLEAN
  BY DEF CommitNew, CommitNewFails, CommitNewLost, GetTransactionFails, CommitExisting,
         CommitExistingFails, CommitExistingLost, Crash, Commits, Down
<1>3. faults' \in 0 .. MaxFaults
  BY FaultCounts DEF CommitNew, CommitNewFails, CommitNewLost, GetTransactionFails, CommitExisting,
         CommitExistingFails, CommitExistingLost, Crash, Commits
<1>4. AccountInv' /\ account' \in [Txs -> Accounts]
  <2>1. CASE account' = account
    BY <1>1, <2>1 DEF AccountInv
  <2>2. CASE Crash
    BY <1>1, <2>2, DownKeepsAccounts DEF Crash
  <2>. QED BY <2>1, <2>2 DEF CommitNew, CommitNewFails, CommitNewLost, GetTransactionFails,
                             CommitExisting, CommitExistingFails, CommitExistingLost, Commits
<1>5. PICK next \in Points \ {"get", "save"} : EndPoll(next)
  BY DEF CommitNew, CommitNewFails, CommitNewLost, GetTransactionFails, CommitExisting,
         CommitExistingFails, CommitExistingLost, Crash, Down, AfterPolls, Points
<1>6. /\ lock' \in Txs \cup {NoTx} /\ saving' \in SavingType /\ SaveInv'
      /\ rolledBack \subseteq rolledBack' /\ rolledBack' \subseteq Txs
  <2>1. pc' # "save"
    BY <1>5 DEF EndPoll
  <2>2. CASE UNCHANGED withdrawing
    BY <1>1, <2>1, <2>2, SavingStays
  <2>3. CASE Crash
    <3>1. UNCHANGED <<lock, rolledBack>> /\ saving' = NoSaving
      BY <2>3 DEF Crash, Down
    <3>2. NoSaving \in SavingType
      BY DEF NoSaving, SavingType
    <3>. QED BY <1>1, <2>1, <3>1, <3>2 DEF SaveInv, TrackInv
  <2>. QED BY <2>2, <2>3 DEF CommitNew, CommitNewFails, CommitNewLost, GetTransactionFails,
                             CommitExisting, CommitExistingFails, CommitExistingLost, Commits
<1>7. db' \in DatabaseType /\ db'.seen <= Len(blocks)
  BY <1>1
<1>8. \E d \in DatabaseType : db' = d /\ d.seen <= Len(blocks) /\ DatabaseOK(d)
  BY <1>1
<1>. QED
  BY <1>1, <1>2, <1>3, <1>4, <1>5, <1>6, <1>8, EndPollKeeps

\* CreateAccount: the address is answered only after its account is stored.
LEMMA AccountsKeep ==
    ASSUME TrackInv, NEW t \in Txs, GenerateNewAddress(t) \/ StoreAccount(t) \/ AnswerAccount(t)
    PROVE  TrackInv'
<1>. USE Databases
<1>1. UNCHANGED node /\ UNCHANGED <<db, open, pc, todo, changed, booting, withdrawing, owed, lost>>
  BY DEF GenerateNewAddress, StoreAccount, AnswerAccount, AccountIs, memory
<1>2. PICK after \in Accounts : account' = [account EXCEPT ![t] = after]
  BY DEF GenerateNewAddress, StoreAccount, AnswerAccount, AccountIs, Accounts
<1>3. accounts \subseteq accounts' /\ accounts' \subseteq Txs
  BY DEF GenerateNewAddress, StoreAccount, AnswerAccount
<1>4. account'[t] \in {"stored", "answered", "lost"} => t \in accounts'
  BY <1>3 DEF GenerateNewAddress, StoreAccount, AnswerAccount, AccountIs, AccountInv
<1>5. account' \in [Txs -> Accounts]
  BY <1>2
<1>6. AccountInv'
  <2>1. onNode' = onNode
    BY <1>1 DEF node
  <2>2. ASSUME NEW u \in Txs
        PROVE  /\ account'[u] \in {"stored", "answered", "lost"} => u \in accounts'
               /\ Kind[u] = "deposit" /\ u \in onNode => u \in accounts'
    BY <1>2, <1>3, <1>4 DEF AccountInv
  <2>. QED BY <2>1, <2>2 DEF AccountInv
<1>7. faults' \in 0 .. MaxFaults
  BY FaultCounts DEF GenerateNewAddress, StoreAccount, AnswerAccount
<1>8. /\ lock' \in Txs \cup {NoTx} /\ saving' \in SavingType /\ SaveInv'
      /\ rolledBack \subseteq rolledBack' /\ rolledBack' \subseteq Txs
  BY <1>1, SavingStays DEF node
<1>. QED
  BY <1>1, <1>3, <1>5, <1>6, <1>7, <1>8, UpdaterKeeps

\* The record of the most confirmations only grows, and is up to date.
LEMMA RecordKeeps ==
    ASSUME best \in [Txs -> -1 .. MaxBlocks], Tree(blocks'), tip' \in 0 .. Len(blocks'),
           Len(blocks') <= MaxBlocks, onNode' \subseteq Txs, RecordBest
    PROVE  /\ best' \in [Txs -> -1 .. MaxBlocks]
           /\ \A t \in Txs : best[t] <= best'[t]
           /\ \A t \in onNode' : Confirmations(t)' <= best'[t]
<1>. DEFINE conf(t) == ConfirmationsIn(blocks', tip', t)
<1>1. \A t : Confirmations(t)' = conf(t)
  BY NodeIs
<1>2. MaxBlocks \in Nat /\ Len(blocks') \in Nat
  BY TrackingAssumption DEF Tree
<1>3. \A t : conf(t) \in Int /\ conf(t) <= MaxBlocks
  <2>1. \A t : conf(t) \in Int /\ conf(t) <= Len(blocks')
    BY ConfirmationsBounds
  <2>. HIDE DEF conf
  <2>. QED BY <1>2, <2>1
<1>4. best' = [t \in Txs |-> IF t \in onNode' /\ conf(t) > best[t] THEN conf(t) ELSE best[t]]
  <2>. HIDE DEF conf
  <2>. QED BY <1>1 DEF RecordBest
<1>. HIDE DEF conf
<1>5. ASSUME NEW t \in Txs
      PROVE  /\ best'[t] \in -1 .. MaxBlocks /\ best[t] <= best'[t]
             /\ t \in onNode' => conf(t) <= best'[t]
  <2>1. best'[t] = IF t \in onNode' /\ conf(t) > best[t] THEN conf(t) ELSE best[t]
    BY <1>4
  <2>2. best[t] \in -1 .. MaxBlocks /\ conf(t) \in Int /\ conf(t) <= MaxBlocks
    BY <1>3
  <2>. QED BY <1>2, <2>1, <2>2
<1>6. best' \in [Txs -> -1 .. MaxBlocks]
  BY <1>4, <1>5
<1>. QED
  BY <1>1, <1>5, <1>6

\* A block is mined on any block the node knows.
LEMMA MineKeeps ==
    ASSUME TrackInv, NEW b \in 0 .. Len(blocks), NEW txs \in SUBSET onNode,
           NEW rivals \in SUBSET (DoubleSpendable \cap onNode), Mine(b, txs, rivals)
    PROVE  TrackInv'
<1>. DEFINE x == [parent |-> b, txs |-> txs, rivals |-> rivals]
<1>1. TypeOK /\ NodeInv /\ AccountInv /\ DatabaseOK(db) /\ DatabaseOK(open) /\ OpenInv
  BY DEF TrackInv
<1>14. /\ lock' \in Txs \cup {NoTx} /\ saving' \in SavingType /\ SaveInv'
       /\ rolledBack' = rolledBack /\ rolledBack \subseteq rolledBack' /\ rolledBack' \subseteq Txs
  BY SavingStays DEF Mine, memory, withdrawing
<1>2. /\ blocks \in Seq(BlockType) /\ Len(blocks) \in Nat /\ Len(blocks) <= MaxBlocks /\ MaxBlocks \in Nat
      /\ tip \in 0 .. Len(blocks) /\ onNode \subseteq Txs /\ best \in [Txs -> -1 .. MaxBlocks]
      /\ Tree(blocks)
      /\ \A c \in 1 .. Len(blocks) : blocks[c].parent < c
  BY <1>1, NodeFacts, TrackingAssumption DEF TypeOK
<1>3. /\ Len(blocks) < MaxBlocks /\ blocks' = Append(blocks, x) /\ tip' \in {Len(blocks) + 1, tip}
      /\ UNCHANGED <<onNode, account, accounts, db, open, pc, todo, changed, booting, owed, lost, faults>>
      /\ RecordBest
  BY DEF Mine, memory
<1>4. x \in BlockType /\ x.parent = b
  BY <1>2 DEF BlockType
<1>5. /\ blocks' \in Seq(BlockType) /\ Len(blocks') = Len(blocks) + 1
      /\ blocks'[Len(blocks) + 1] = x
      /\ \A c \in 1 .. Len(blocks) : blocks'[c] = blocks[c]
  <2>. HIDE DEF x
  <2>. QED BY <1>2, <1>3, <1>4
<1>6. Tree(blocks')
  <2>. HIDE DEF x
  <2>. QED BY <1>2, <1>3, <1>4, ChainAppend
<1>7. /\ tip' \in 0 .. Len(blocks') /\ Len(blocks') <= MaxBlocks
  BY <1>2, <1>3, <1>5
<1>8. /\ best' \in [Txs -> -1 .. MaxBlocks]
      /\ \A t \in Txs : best[t] <= best'[t]
      /\ \A t \in onNode' : Confirmations(t)' <= best'[t]
  <2>1. onNode' \subseteq Txs
    BY <1>2, <1>3
  <2>. QED BY <1>2, <1>3, <1>6, <1>7, <2>1, RecordKeeps
<1>9. TypeOK'
  <2>1. \A c \in 1 .. Len(blocks') : blocks'[c].parent < c
    BY <1>6 DEF Tree
  <2>2. /\ db' \in DatabaseType /\ db'.seen <= Len(blocks')
        /\ open' \in DatabaseType /\ open'.seen <= Len(blocks')
    BY <1>2, <1>3, <1>5, <1>1 DEF TypeOK, DatabaseType
  <2>3. /\ onNode' \subseteq Txs /\ account' \in [Txs -> Accounts] /\ accounts' \subseteq Txs
        /\ pc' \in Points /\ todo' \subseteq Txs /\ changed' \in BOOLEAN /\ booting' \in BOOLEAN
        /\ owed' \in BOOLEAN /\ lost' \in BOOLEAN /\ faults' \in 0 .. MaxFaults
    BY <1>1, <1>3 DEF TypeOK
  <2>. QED BY <1>5, <1>7, <1>8, <1>14, <2>1, <2>2, <2>3 DEF TypeOK
<1>10. NodeInv'
  <2>1. ASSUME NEW c \in 1 .. Len(blocks')
        PROVE  blocks'[c].txs \subseteq onNode' /\ blocks'[c].rivals \subseteq onNode'
    <3>1. CASE c \in 1 .. Len(blocks)
      BY <1>1, <1>3, <1>5, <3>1 DEF NodeInv
    <3>2. CASE c = Len(blocks) + 1
      BY <1>3, <1>5, <3>2
    <3>. QED BY <1>2, <1>5, <3>1, <3>2
  <2>2. ASSUME NEW t \in onNode' PROVE best'[t] >= 0
    <3>1. t \in Txs /\ best[t] >= 0
      BY <1>1, <1>2, <1>3 DEF NodeInv
    <3>2. best[t] \in Int /\ best'[t] \in Int /\ best[t] <= best'[t]
      BY <1>2, <1>8, <3>1
    <3>. QED BY <3>1, <3>2
  <2>. QED BY <1>8, <2>1, <2>2 DEF NodeInv
<1>11. AccountInv'
  BY <1>1, <1>3 DEF AccountInv
<1>12. DatabaseOK(db)' /\ DatabaseOK(open)'
  <2>1. \E y \in BlockType : y.parent \in 0 .. Len(blocks) /\ blocks' = Append(blocks, y)
    BY <1>3, <1>4
  <2>2. best' \in [Txs -> Int] /\ onNode \subseteq onNode' /\ db' = db /\ open' = open
    BY <1>3, <1>8
  <2>. QED BY <1>1, <1>8, <1>14, <2>1, <2>2, Databases, DatabaseStays
<1>13. OpenInv'
  BY <1>1, <1>3 DEF OpenInv, After, First
<1>. QED
  BY <1>9, <1>10, <1>11, <1>12, <1>13, <1>14 DEF TrackInv

\* The node's wallet learns of a transaction; whether the wallet application
\* stores it at once is left open.
LEMMA AppearKeeps ==
    ASSUME TrackInv, NEW t \in Txs \ onNode, onNode' = onNode \cup {t},
           Kind[t] = "deposit" => t \in accounts,
           UNCHANGED <<blocks, tip, account, accounts>>, RecordBest
    PROVE  /\ NodeInv' /\ AccountInv'
           /\ best' \in [Txs -> -1 .. MaxBlocks]
           /\ \A u \in Txs : best[u] <= best'[u]
           /\ best'[t] >= 0
<1>1. TypeOK /\ NodeInv /\ AccountInv
  BY DEF TrackInv
<1>2. /\ best \in [Txs -> -1 .. MaxBlocks] /\ tip \in 0 .. Len(blocks) /\ Tree(blocks)
      /\ onNode \subseteq Txs /\ Len(blocks) <= MaxBlocks /\ MaxBlocks \in Nat
  BY <1>1, NodeFacts, TrackingAssumption DEF TypeOK
<1>3. blocks' = blocks /\ tip' = tip /\ onNode' \subseteq Txs
  BY <1>2
<1>4. /\ best' \in [Txs -> -1 .. MaxBlocks]
      /\ \A u \in Txs : best[u] <= best'[u]
      /\ \A u \in onNode' : Confirmations(u)' <= best'[u]
  BY <1>2, <1>3, RecordKeeps
<1>7. best'[t] >= 0
  <2>1. ConfirmationsIn(blocks, tip, t) >= 0
    <3>1. \A c \in 1 .. Len(blocks) : t \notin blocks[c].rivals
      BY <1>1 DEF NodeInv
    <3>2. ChainOf(blocks, tip) \subseteq 0 .. tip
      BY <1>2, ChainBounds
    <3>3. \A c \in ChainOf(blocks, tip) \ {0} : c \in 1 .. Len(blocks)
      BY <1>2, <3>2 DEF Tree
    <3>4. RivalIn(blocks, t, tip) = NoBlock
      BY <3>1, <3>3, BlockInIs
    <3>. QED BY <1>2, <3>4, ConfirmationsBounds
  <2>2. Confirmations(t)' = ConfirmationsIn(blocks, tip, t)
    BY <1>3, NodeIs
  <2>3. ConfirmationsIn(blocks, tip, t) <= best'[t]
    BY <1>4, <2>2
  <2>. QED BY <1>2, <1>4, <2>1, <2>3, ConfirmationsBounds
<1>5. NodeInv'
  <2>1. ASSUME NEW c \in 1 .. Len(blocks)
        PROVE  blocks[c].txs \subseteq onNode' /\ blocks[c].rivals \subseteq onNode'
    BY <1>1 DEF NodeInv
  <2>2. ASSUME NEW u \in onNode' PROVE best'[u] >= 0
    <3>1. CASE u = t
      BY <1>7, <3>1
    <3>2. CASE u # t
      <4>1. u \in Txs /\ best[u] >= 0
        BY <1>1, <1>2, <3>2 DEF NodeInv
      <4>2. best[u] \in Int /\ best'[u] \in Int /\ best[u] <= best'[u]
        BY <1>2, <1>4, <4>1
      <4>. QED BY <4>1, <4>2
    <3>. QED BY <3>1, <3>2
  <2>. QED BY <1>3, <1>4, <2>1, <2>2 DEF NodeInv
<1>6. AccountInv'
  BY <1>1 DEF AccountInv
<1>. QED
  BY <1>4, <1>5, <1>6, <1>7

\* Money comes in.
LEMMA PayKeeps == ASSUME TrackInv, NEW t \in Txs, Pay(t) PROVE TrackInv'
<1>1. TypeOK /\ AccountInv /\ DatabaseOK(db) /\ DatabaseOK(open) /\ OpenInv
  BY DEF TrackInv
<1>2. /\ t \notin onNode /\ onNode' = onNode \cup {t} /\ RecordBest
      /\ UNCHANGED <<blocks, tip, account, accounts, db, open, pc, todo, changed, booting, owed, lost, faults>>
      /\ Kind[t] = "deposit" => t \in accounts
  BY <1>1 DEF Pay, memory, AccountInv
<1>3. /\ NodeInv' /\ AccountInv'
      /\ best' \in [Txs -> -1 .. MaxBlocks]
      /\ \A u \in Txs : best[u] <= best'[u]
  BY <1>2, AppearKeeps
<1>7. /\ lock' \in Txs \cup {NoTx} /\ saving' \in SavingType /\ SaveInv'
      /\ rolledBack' = rolledBack /\ rolledBack \subseteq rolledBack' /\ rolledBack' \subseteq Txs
  BY <1>2, SavingStays DEF Pay, memory, withdrawing
<1>4. TypeOK'
  BY <1>1, <1>2, <1>3, <1>7 DEF TypeOK
<1>5. DatabaseOK(db)' /\ DatabaseOK(open)'
  <2>1. best' \in [Txs -> Int] /\ onNode \subseteq onNode' /\ blocks' = blocks
    BY <1>2, <1>3
  <2>. QED BY <1>1, <1>2, <1>3, <1>7, <2>1, Databases, DatabaseStays
<1>6. OpenInv'
  BY <1>1, <1>2 DEF OpenInv, After, First
<1>. QED
  BY <1>3, <1>4, <1>5, <1>6, <1>7 DEF TrackInv

\* A withdrawal is broadcast, and is about to be saved.
LEMMA WithdrawKeeps ==
    ASSUME TrackInv, NEW t \in Txs, NEW pending \in BOOLEAN, Withdraw(t, pending)
    PROVE  TrackInv'
<1>1. TypeOK /\ AccountInv /\ DatabaseOK(db) /\ DatabaseOK(open) /\ OpenInv
  BY DEF TrackInv
<1>2. /\ t \notin onNode /\ onNode' = onNode \cup {t} /\ RecordBest
      /\ UNCHANGED <<blocks, tip, account, accounts, db, rolledBack, open, todo, changed, booting, owed, lost, faults>>
      /\ Kind[t] # "deposit" /\ lock' = t /\ pc' = "save"
      /\ pc \in {"idle", "update1", "update2"}
  BY DEF Withdraw
<1>3. /\ NodeInv' /\ AccountInv'
      /\ best' \in [Txs -> -1 .. MaxBlocks]
      /\ \A u \in Txs : best[u] <= best'[u]
  BY <1>2, AppearKeeps
<1>4. /\ saving' \in SavingType /\ saving'.tx = t /\ saving'.reported = -1
  BY <1>2 DEF Withdraw, SavingType
<1>5. TypeOK'
  BY <1>1, <1>2, <1>3, <1>4 DEF TypeOK, Points
<1>6. DatabaseOK(db)' /\ DatabaseOK(open)'
  <2>1. best' \in [Txs -> Int] /\ onNode \subseteq onNode' /\ blocks' = blocks
        /\ rolledBack \subseteq rolledBack'
    BY <1>2, <1>3
  <2>. QED BY <1>1, <1>2, <1>3, <2>1, Databases, DatabaseStays
<1>7. OpenInv'
  BY <1>1, <1>2 DEF OpenInv, After, First
<1>8. SaveInv'
  <2>1. ~db.rows[t].stored
    BY <1>1, <1>2 DEF DatabaseOK, RowOK
  <2>. QED BY <1>2, <1>4, <2>1 DEF SaveInv
<1>. QED
  BY <1>3, <1>5, <1>6, <1>7, <1>8 DEF TrackInv

\* A database that got a row of one more transaction of the node is in order.
LEMMA RowAdded ==
    ASSUME TrackInv, NEW t \in onNode, Kind[t] # "deposit",
           NEW d \in DatabaseType, d.seen = db.seen, d.rows[t].stored, EventsOK(d, t),
           \A u \in Txs \ {t} : d.rows[u] = db.rows[u] /\ d.events[u] = db.events[u]
    PROVE  DatabaseOK(d) /\ d.seen <= Len(blocks)
<1>1. TypeOK /\ DatabaseOK(db) /\ NodeInv
  BY DEF TrackInv
<1>2. db.seen \in 0 .. Len(blocks) /\ Tree(blocks) /\ onNode \subseteq Txs
  BY <1>1, NodeFacts DEF TypeOK, DatabaseType
<1>3. SeenOK(d)
  <2>1. SUFFICES ASSUME NEW b \in Chain(db.seen) \ {0}, NEW u \in blocks[b].txs
                 PROVE  d.rows[u].stored
    BY DEF SeenOK
  <2>2. db.rows[u].stored
    BY <1>1 DEF DatabaseOK, SeenOK
  <2>3. u \in Txs
    <3>1. b \in 1 .. Len(blocks)
      BY <1>2, ChainIs, ChainBounds DEF Tree
    <3>. QED BY <1>1, <1>2, <3>1 DEF NodeInv
  <2>. QED BY <2>2, <2>3
<1>4. ASSUME NEW u \in Txs PROVE RowOK(d, u) /\ EventsOK(d, u)
  <2>1. CASE u = t
    BY <2>1 DEF RowOK
  <2>2. CASE u # t
    BY <1>1, <2>2 DEF DatabaseOK, RowOK, EventsOK
  <2>. QED BY <2>1, <2>2
<1>. QED
  BY <1>2, <1>3, <1>4 DEF DatabaseOK

\* The row that was never stored has no events.
LEMMA NoRowNoEvents ==
    ASSUME TrackInv, NEW t \in Txs, ~db.rows[t].stored
    PROVE  /\ db.rows[t] = NoRow /\ db.events[t] = << >> /\ Len(db.events[t]) = 0
           /\ NoRow \in RowType /\ NoRow.reported = -1 /\ NoRow.conf = 0
<1>1. RowOK(db, t) /\ EventsOK(db, t) /\ db.events[t] \in Seq(EventType)
  BY Databases DEF DatabaseOK, DatabaseType
<1>2. NoRow.reported = -1 /\ NoRow.conf = 0
  BY DEF NoRow
<1>3. MaxConfirmations \in Nat
  BY TrackingAssumption
<1>4. NoRow \in RowType
  BY <1>3 DEF NoRow, RowType, Statuses, NoBlock
<1>5. db.rows[t] = NoRow
  BY <1>1 DEF RowOK
<1>6. Len(db.events[t]) \in Nat
  BY <1>1
<1>7. -1 + 1 - Len(db.events[t]) \in {0, 1}
  BY <1>1, <1>2, <1>5 DEF EventsOK, Counts, Firsts
<1>8. Len(db.events[t]) = 0
  BY <1>6, <1>7
<1>. QED
  BY <1>1, <1>2, <1>4, <1>5, <1>8

\* A database in which only the row and the events of t are other ones.
LEMMA RowReplaced ==
    ASSUME NEW d \in DatabaseType, NEW t \in Txs, NEW r \in RowType
    PROVE  LET e == [d EXCEPT !.rows[t] = r] IN
           /\ e \in DatabaseType /\ e.rows[t] = r /\ e.events = d.events /\ e.seen = d.seen
           /\ \A u \in Txs \ {t} : e.rows[u] = d.rows[u]
<1>. DEFINE R == [d.rows EXCEPT ![t] = r]
            e == [d EXCEPT !.rows[t] = r]
<1>1. /\ d.rows \in [Txs -> RowType] /\ d.events \in [Txs -> Seq(EventType)] /\ d.seen \in Nat
      /\ d = [rows |-> d.rows, events |-> d.events, seen |-> d.seen]
  BY DEF DatabaseType
<1>2. R \in [Txs -> RowType] /\ R[t] = r /\ \A u \in Txs \ {t} : R[u] = d.rows[u]
  BY <1>1
<1>3. e = [d EXCEPT !.rows = R]
  OBVIOUS
<1>. HIDE DEF R, e
<1>4. e = [rows |-> R, events |-> d.events, seen |-> d.seen]
  BY <1>1, <1>3
<1>. QED
  BY <1>1, <1>2, <1>4 DEF DatabaseType, e

\* One attempt of the save leaves the database in order, and announces the
\* withdrawal at most as new.
LEMMA SaveStores ==
    ASSUME TrackInv, pc = "save"
    PROVE  LET e == SaveOf(saving) IN
           /\ e \in DatabaseType /\ e.seen <= Len(blocks) /\ DatabaseOK(e)
           /\ saving.tx \in Txs /\ e.rows[saving.tx].stored
           /\ \A u \in Txs : \/ db.events[u] = << >>
                             \/ e.events[u] = db.events[u] /\ e.rows[u] = db.rows[u]
<1>. DEFINE t == saving.tx
            fresh == [NoRow EXCEPT !.stored = TRUE,
                                   !.reported = IF saving.pending THEN -1 ELSE saving.reported]
            r == IF db.rows[t].stored THEN db.rows[t] ELSE fresh
            d == [db EXCEPT !.rows[t] = r]
            e == SaveOf(saving)
            named == {b \in 1 .. Len(blocks) : t \in blocks[b].txs}
            firsts == Firsts(rolledBack, t)
<1>1. TypeOK /\ NodeInv /\ SaveInv /\ DatabaseOK(db)
  BY DEF TrackInv
<1>2. t \in onNode /\ t \in Txs /\ Kind[t] # "deposit" /\ best[t] \in Int /\ best[t] >= 0
  BY <1>1 DEF SaveInv, TypeOK, NodeInv
<1>3. saving.reported \in {-1, 0} /\ saving.pending \in BOOLEAN
  BY <1>1 DEF TypeOK, SavingType
<1>4. e = IF saving.reported = -1 THEN notifyTransaction(d, t) ELSE d
  BY DEF SaveOf
<1>5. db \in DatabaseType /\ db.rows[t] \in RowType /\ db.rows[t].stored \in BOOLEAN
      /\ db.seen <= Len(blocks)
  BY <1>1, <1>2 DEF TypeOK, DatabaseType, RowType
<1>6. CASE db.rows[t].stored
  <2>1. d = db
    <3>1. r = db.rows[t]
      BY <1>6
    <3>2. /\ db = [rows |-> db.rows, events |-> db.events, seen |-> db.seen]
          /\ db.rows \in [Txs -> RowType]
      BY <1>5 DEF DatabaseType
    <3>3. [db.rows EXCEPT ![t] = r] = db.rows
      BY <1>2, <3>1, <3>2
    <3>4. d = [db EXCEPT !.rows = [db.rows EXCEPT ![t] = r]]
      OBVIOUS
    <3>. HIDE DEF d, r, t
    <3>. QED BY <3>2, <3>3, <3>4
  <2>2. e = db
    <3>1. saving.reported = -1 => ~Announced(t)
      BY <1>1, <1>6 DEF SaveInv
    <3>. HIDE DEF d, e, t
    <3>. QED BY <1>4, <2>1, <3>1 DEF notifyTransaction
  <2>. HIDE DEF d, e
  <2>. QED BY <1>1, <1>2, <1>5, <1>6, <2>2 DEF e
<1>7. CASE ~db.rows[t].stored
  <2>1. /\ db.rows[t] = NoRow /\ db.events[t] = << >> /\ Len(db.events[t]) = 0
        /\ NoRow \in RowType /\ NoRow.reported = -1 /\ NoRow.conf = 0
    BY <1>2, <1>7, NoRowNoEvents
  <2>. DEFINE n == IF saving.pending THEN -1 ELSE saving.reported
  <2>2. n \in {-1, 0} /\ (n = 0 => saving.reported = 0 /\ ~saving.pending)
    BY <1>3
  <2>3. /\ r \in RowType /\ r.stored = TRUE /\ r.conf = 0 /\ r.reported = n
    <3>1. r = [NoRow EXCEPT !.stored = TRUE, !.reported = n]
      BY <1>7
    <3>2. MaxConfirmations \in Nat
      BY TrackingAssumption
    <3>. HIDE DEF r, n
    <3>3. r = [stored |-> TRUE, conf |-> 0, status |-> "new", block |-> NoBlock,
               reported |-> n, known |-> FALSE]
      BY <3>1 DEF NoRow
    <3>4. n \in -1 .. MaxConfirmations
      BY <2>2, <3>2
    <3>. HIDE DEF r, n
    <3>. QED BY <3>3, <3>4 DEF RowType, Statuses, NoBlock
  <2>. HIDE DEF r, n
  <2>4. /\ d \in DatabaseType /\ d.rows[t] = r /\ d.events = db.events /\ d.seen = db.seen
        /\ \A u \in Txs \ {t} : d.rows[u] = db.rows[u]
    <3>. HIDE DEF t
    <3>. QED BY <1>2, <1>5, <2>3, RowReplaced
  <2>. HIDE DEF d
  <2>5. Counts(d.events[t], d.rows[t].reported, best[t], named, firsts)
    <3>1. n + 1 - 0 \in firsts
      <4>1. CASE n = -1
        BY <4>1 DEF Firsts
      <4>2. CASE n = 0
        BY <1>1, <1>7, <2>2, <4>2 DEF SaveInv, Firsts
      <4>. QED BY <2>2, <4>1, <4>2
    <3>2. d.rows[t].reported = n /\ Len(d.events[t]) = 0
      BY <2>1, <2>3, <2>4
    <3>3. n <= best[t]
      BY <1>2, <2>2
    <3>. HIDE DEF named, firsts, t
    <3>. QED BY <3>1, <3>2, <3>3 DEF Counts
  <2>6. /\ e \in DatabaseType /\ e.seen = d.seen /\ e.rows[t].stored
        /\ Counts(e.events[t], e.rows[t].reported, best[t], named, firsts)
        /\ \A u \in Txs \ {t} : e.rows[u] = d.rows[u] /\ e.events[u] = d.events[u]
    <3>1. CASE saving.reported = -1
      <4>1. e = notifyTransaction(d, t)
        BY <1>4, <3>1
      <4>2. named \in SUBSET Nat /\ firsts \in SUBSET Int
        BY DEF Firsts
      <4>3. d.rows[t].conf <= best[t] /\ ~(d.rows[t].conf > 0)
        BY <1>2, <2>3, <2>4
      <4>4. d.rows[t].stored
        BY <2>3, <2>4
      <4>. HIDE DEF e, named, firsts, t
      <4>. QED BY <1>2, <2>4, <2>5, <4>1, <4>2, <4>3, <4>4, NotifyCounts
    <3>2. CASE saving.reported # -1
      <4>1. e = d
        BY <1>4, <3>2
      <4>. HIDE DEF e, named, firsts, t
      <4>. QED BY <2>3, <2>4, <2>5, <4>1
    <3>. QED BY <3>1, <3>2
  <2>. HIDE DEF e
  <2>7. EventsOK(e, t)
    BY <2>6 DEF EventsOK
  <2>8. \A u \in Txs \ {t} : e.rows[u] = db.rows[u] /\ e.events[u] = db.events[u]
    BY <2>4, <2>6
  <2>9. DatabaseOK(e) /\ e.seen <= Len(blocks)
    <3>. HIDE DEF t
    <3>. QED BY <1>2, <2>4, <2>6, <2>7, <2>8, RowAdded
  <2>. QED BY <1>2, <2>1, <2>6, <2>8, <2>9 DEF e
<1>. QED
  BY <1>6, <1>7

\* The save is committed, rolled back, or taken for rolled back.
LEMMA SavesKeep ==
    ASSUME TrackInv, SaveWithdrawal \/ SaveRolledBack \/ SaveRolledBackLate \/ SaveLost
    PROVE  TrackInv'
<1>. DEFINE t == saving.tx
<1>1. /\ pc = "save" /\ UNCHANGED node /\ UNCHANGED <<accounts, owed, lost>>
      /\ db' \in {db, SaveOf(saving)} /\ lock' \in {lock, NoTx}
  BY DEF SaveWithdrawal, SaveRolledBack, SaveRolledBackLate, SaveLost, SaveFails
<1>2. onNode' = onNode
  BY <1>1 DEF node
<1>3. SaveInv /\ saving \in SavingType
  BY Databases DEF TrackInv
<1>4. t \in Txs /\ t \in onNode /\ Kind[t] # "deposit"
  BY <1>1, <1>3, SaveStores DEF SaveInv
<1>5. \E d \in DatabaseType : db' = d /\ d.seen <= Len(blocks) /\ DatabaseOK(d)
  BY <1>1, SaveStores, Databases
<1>6. faults' \in 0 .. MaxFaults
  BY Databases, FaultCounts DEF SaveWithdrawal, SaveRolledBack, SaveRolledBackLate, SaveLost
<1>7. rolledBack \subseteq rolledBack' /\ rolledBack' \subseteq Txs
  BY <1>4, Databases DEF SaveWithdrawal, SaveRolledBack, SaveRolledBackLate, SaveLost
<1>8. lock' \in Txs \cup {NoTx} /\ (lock' # NoTx => lock' \in onNode /\ Kind[lock'] # "deposit")
  BY <1>1, <1>3, Databases DEF SaveInv
<1>9. owed' \in BOOLEAN /\ lost' \in BOOLEAN
  BY <1>1, Databases
<1>10. CASE SaveWithdrawal
  <2>1. EndPoll(saving.back) /\ saving' = NoSaving /\ UNCHANGED <<account, booting>>
    BY <1>10 DEF SaveWithdrawal
  <2>2. saving.back \in Points \ {"get", "save"}
    BY <1>3 DEF SavingType, Points
  <2>3. pc' # "save" /\ saving' \in SavingType
    BY <2>1, <2>2 DEF EndPoll, SavingType, NoSaving
  <2>4. SaveInv'
    BY <1>2, <1>8, <2>3 DEF SaveInv
  <2>5. AccountInv' /\ account' \in [Txs -> Accounts] /\ booting' \in BOOLEAN
    BY <1>1, <1>2, <2>1, Databases DEF AccountInv
  <2>. QED BY <1>1, <1>5, <1>6, <1>7, <1>8, <1>9, <2>1, <2>2, <2>3, <2>4, <2>5, EndPollKeeps
<1>11. CASE Down
  <2>1. EndPoll("down") /\ saving' = NoSaving /\ booting' \in BOOLEAN
    BY <1>11 DEF Down
  <2>2. pc' # "save" /\ saving' \in SavingType /\ "down" \in Points \ {"get"}
    BY <2>1 DEF EndPoll, SavingType, NoSaving, Points
  <2>3. SaveInv'
    BY <1>2, <1>8, <2>2 DEF SaveInv
  <2>4. AccountInv' /\ account' \in [Txs -> Accounts]
    BY <1>1, <1>2, <1>11, DownKeepsAccounts
  <2>. QED BY <1>1, <1>5, <1>6, <1>7, <1>8, <1>9, <2>1, <2>2, <2>3, <2>4, EndPollKeeps
<1>12. CASE ~SaveWithdrawal /\ ~Down
  <2>1. PICK reported \in {saving.reported, ReportedAfter(saving)} :
          saving' = [saving EXCEPT !.reported = reported]
    BY <1>12 DEF SaveRolledBack, SaveRolledBackLate, SaveLost, SaveFails
  <2>2. EndPoll("save") /\ UNCHANGED <<account, booting>> /\ "save" \in Points \ {"get"}
    BY <1>12 DEF SaveRolledBack, SaveRolledBackLate, SaveLost, SaveFails, Points
  <2>3. /\ ReportedAfter(saving) = (IF Announced(t) THEN 0 ELSE saving.reported)
        /\ saving.reported \in {-1, 0}
    BY <1>3 DEF ReportedAfter, SavingType
  <2>4. /\ saving' \in SavingType /\ saving'.tx = t /\ saving'.pending = saving.pending
        /\ saving'.reported = reported /\ reported \in {-1, 0}
    BY <1>3, <2>1, <2>3 DEF SavingType
  <2>5. SaveInv'
    <3>1. CASE SaveRolledBack
      <4>1. UNCHANGED <<db, rolledBack>> /\ saving'.reported = saving.reported
        BY <1>3, <1>12, <3>1 DEF SaveRolledBack, SaveFails, SavingType
      <4>. QED BY <1>1, <1>2, <1>3, <1>8, <2>4, <4>1 DEF SaveInv, Announced
    <3>2. CASE SaveRolledBackLate
      <4>1. /\ db' = db /\ saving'.reported = ReportedAfter(saving)
            /\ rolledBack' = IF saving.reported # ReportedAfter(saving) /\ ~saving.pending
                             THEN rolledBack \cup {t} ELSE rolledBack
        BY <1>3, <1>12, <3>2 DEF SaveRolledBackLate, SaveFails, SavingType
      <4>2. saving'.reported = -1 => saving.reported = -1 /\ ~Announced(t)
        BY <2>3, <4>1
      <4>3. saving'.reported = 0 => db.rows[t].stored \/ saving.pending \/ t \in rolledBack'
        BY <1>1, <1>3, <1>7, <2>3, <4>1 DEF SaveInv
      <4>. QED BY <1>1, <1>2, <1>4, <1>8, <2>4, <4>1, <4>2, <4>3 DEF SaveInv, Announced
    <3>3. CASE SaveLost
      <4>1. /\ db' = SaveOf(saving) /\ saving'.reported = ReportedAfter(saving)
        BY <1>3, <1>12, <3>3 DEF SaveLost, SaveFails, SavingType
      <4>2. db'.rows[t].stored
        BY <1>1, <4>1, SaveStores
      <4>3. saving'.reported = -1 => ~Announced(t)
        BY <2>3, <4>1
      <4>. QED BY <1>2, <1>4, <1>8, <2>4, <4>2, <4>3 DEF SaveInv, Announced
    <3>. QED BY <1>12, <3>1, <3>2, <3>3
  <2>6. AccountInv' /\ account' \in [Txs -> Accounts] /\ booting' \in BOOLEAN
    BY <1>1, <1>2, <2>2, Databases DEF AccountInv
  <2>. QED BY <1>1, <1>5, <1>6, <1>7, <1>8, <1>9, <2>2, <2>4, <2>5, <2>6, EndPollKeeps
<1>. QED
  BY <1>10, <1>11, <1>12

\* The operator stores the withdrawal the process died over; no event changes.
LEMMA OperatorKeeps ==
    ASSUME TrackInv, OperatorResolves
    PROVE  TrackInv' /\ db'.events = db.events
<1>. DEFINE r == [db.rows[lock] EXCEPT !.stored = TRUE]
            d == [db EXCEPT !.rows[lock] = r]
<1>1. /\ pc = "down" /\ db' = d /\ open' = d /\ lock' = NoTx /\ lock # NoTx
      /\ UNCHANGED <<node, account, accounts, saving, rolledBack, pc, todo, changed, booting, owed, lost, faults>>
  BY DEF OperatorResolves
<1>2. TypeOK /\ NodeInv /\ SaveInv /\ DatabaseOK(db) /\ db \in DatabaseType
  BY Databases DEF TrackInv
<1>3. lock \in onNode /\ lock \in Txs /\ Kind[lock] # "deposit"
  BY <1>1, <1>2 DEF SaveInv, TypeOK
<1>4. db.rows[lock] \in RowType
  BY <1>2, <1>3 DEF DatabaseType
<1>5. r \in RowType /\ r.stored = TRUE /\ r.reported = db.rows[lock].reported
  BY <1>4 DEF RowType
<1>. HIDE DEF r
<1>6. /\ d \in DatabaseType /\ d.rows[lock] = r /\ d.events = db.events /\ d.seen = db.seen
      /\ \A u \in Txs \ {lock} : d.rows[u] = db.rows[u]
  BY <1>2, <1>3, <1>5, RowReplaced
<1>. HIDE DEF d
<1>7. EventsOK(d, lock)
  BY <1>2, <1>3, <1>5, <1>6 DEF DatabaseOK, EventsOK
<1>8. DatabaseOK(d) /\ d.seen <= Len(blocks)
  BY <1>3, <1>5, <1>6, <1>7, RowAdded
<1>9. \A u \in Txs : After(d, d, u)
  <2>1. \A u \in Txs : Len(d.events[u]) \in Nat
    BY <1>6 DEF DatabaseType
  <2>. QED BY <2>1 DEF After
<1>10. SaveInv'
  BY <1>1 DEF SaveInv
<1>11. AccountInv'
  BY <1>1, Databases DEF AccountInv, node
<1>12. UNCHANGED node
  BY <1>1
<1>13. TrackInv'
  BY <1>1, <1>6, <1>8, <1>9, <1>10, <1>11, <1>12, Databases, UpdaterKeeps
<1>. QED
  BY <1>1, <1>6, <1>13

\* Every step keeps the invariant.
LEMMA NextTracks == TrackInv /\ [Next]_vars => TrackInv'
<1>. SUFFICES ASSUME TrackInv, [Next]_vars PROVE TrackInv'
  OBVIOUS
<1>1. CASE UpdaterStep
  BY <1>1, LoopKeeps, ListStepKeeps, CommitsKeep, GetStepKeeps, SavesKeep DEF UpdaterStep
<1>2. CASE UpdaterFault
  BY <1>2, LoopKeeps, CommitsKeep, SavesKeep DEF UpdaterFault
<1>3. CASE Environment
  BY <1>3, MineKeeps, PayKeeps, WithdrawKeeps, AccountsKeep, OperatorKeeps DEF Environment
<1>4. CASE UNCHANGED vars
  <2>1. UNCHANGED node
        /\ UNCHANGED <<account, accounts, db, open, pc, todo, changed, booting, withdrawing, owed, lost, faults>>
    BY <1>4 DEF vars, memory
  <2>2. AccountInv'
    BY <2>1, Databases DEF AccountInv, node
  <2>3. /\ lock' \in Txs \cup {NoTx} /\ saving' \in SavingType /\ SaveInv'
        /\ rolledBack \subseteq rolledBack' /\ rolledBack' \subseteq Txs
    BY <2>1, SavingStays DEF node
  <2>. QED BY <2>1, <2>2, <2>3, Databases, UpdaterKeeps
<1>. QED
  BY <1>1, <1>2, <1>3, <1>4 DEF Next

-----------------------------------------------------------------------------
(* The theorems.                                                           *)

\* The inductive invariant holds in every reachable state.
THEOREM TrackInvHolds == Spec => []TrackInv
<1>1. Init => TrackInv
  BY InitTracks
<1>2. TrackInv /\ [Next]_vars => TrackInv'
  BY NextTracks
<1>. QED
  BY <1>1, <1>2, PTL DEF Spec

\* The state keeps its types: the mark names a block the node knows, and no row
\* reports more than MaxConfirmations confirmations.
THEOREM TypeCorrect == Spec => []TypeOK
<1>1. TrackInv => TypeOK
  BY DEF TrackInv
<1>. QED
  BY <1>1, TrackInvHolds, PTL

\* Every transaction in the blocks up to last_seen_block_hash has a row, on
\* every chain, through every reorganisation, failed commit and crash.
THEOREM NothingIsMissed == Spec => []NothingMissed
<1>1. TrackInv => NothingMissed
  <2>. SUFFICES ASSUME TrackInv, NEW t \in Txs, BlockOf(t, db.seen) # NoBlock
                PROVE  db.rows[t].stored
    BY DEF NothingMissed
  <2>1. BlockOf(t, db.seen) = BlockIn(blocks, t, db.seen)
    BY NodeIs
  <2>2. \E c \in ChainOf(blocks, db.seen) \ {0} : t \in blocks[c].txs
    BY <2>1, BlockInIs
  <2>. QED BY <2>2, ChainIs DEF TrackInv, DatabaseOK, SeenOK
<1>. QED
  BY <1>1, TrackInvHolds, PTL

\* An event of a confirmation names a block that has the transaction, whatever
\* branch the confirmations before it were counted on.
THEOREM EventsNameTheirBlocks == Spec => []EventsNameBlocks
<1>1. TrackInv => EventsNameBlocks
  <2>. SUFFICES ASSUME TrackInv, NEW t \in Txs, NEW n \in 1 .. Len(db.events[t])
                PROVE  LET e == db.events[t][n] IN
                       IF e.conf = 0 THEN e.block = NoBlock
                       ELSE e.block # NoBlock /\ t \in blocks[e.block].txs
    BY DEF EventsNameBlocks
  <2>. DEFINE e == db.events[t][n]
  <2>1. IF e.conf = 0 THEN e.block = NoBlock
        ELSE e.block \in {b \in 1 .. Len(blocks) : t \in blocks[b].txs}
    BY DEF TrackInv, DatabaseOK, EventsOK, Counts
  <2>. HIDE DEF e
  <2>. QED BY <2>1 DEF e, NoBlock
<1>. QED
  BY <1>1, TrackInvHolds, PTL

\* The row of a deposit knows the account its address was given out for.
THEOREM DepositsAreKnown == Spec => []DepositsKnown
<1>1. TrackInv => DepositsKnown
  <2>. SUFFICES ASSUME TrackInv, NEW t \in Txs, Kind[t] = "deposit", db.rows[t].stored
                PROVE  db.rows[t].known
    BY DEF DepositsKnown
  <2>. QED BY DEF TrackInv, DatabaseOK, RowOK
<1>. QED
  BY <1>1, TrackInvHolds, PTL

-----------------------------------------------------------------------------
(* TxTracking implements ConfirmationFeed.                                 *)

\* The numbers the events of t announce.
FeedOf(d, t) == [n \in 1 .. Len(d.events[t]) |-> d.events[t][n].conf]

\* They are consecutive, up to what the row says was reported.
LEMMA FeedCounts ==
    ASSUME TrackInv, NEW t \in Txs
    PROVE  /\ FeedOf(db, t) = [n \in 1 .. Len(db.events[t]) |-> First(db, t) + n - 1]
           /\ Len(db.events[t]) \in Nat /\ Len(FeedOf(db, t)) = Len(db.events[t])
           /\ First(db, t) = 0 \/ (First(db, t) = 1 /\ t \in rolledBack)
           /\ \A n \in 1 .. Len(db.events[t]) :
                /\ FeedOf(db, t)[n] = First(db, t) + n - 1
                /\ FeedOf(db, t)[n] <= MaxConfirmations /\ FeedOf(db, t)[n] <= best[t]
<1>. DEFINE len == Len(db.events[t])
            reported == db.rows[t].reported
<1>1. db.rows[t] \in RowType /\ db.events[t] \in Seq(EventType) /\ best[t] \in Int
  BY DEF TrackInv, TypeOK, DatabaseType
<1>2. EventsOK(db, t)
  BY DEF TrackInv, DatabaseOK
<1>3. /\ \A n \in 1 .. len : db.events[t][n].conf = reported - len + n
      /\ reported <= best[t] /\ First(db, t) \in Firsts(rolledBack, t)
  BY <1>2 DEF EventsOK, Counts, First
<1>4. reported \in Int /\ reported <= MaxConfirmations /\ len \in Nat /\ MaxConfirmations \in Nat
      /\ First(db, t) = reported + 1 - len
  BY <1>1, TrackingAssumption DEF RowType, First
<1>5. First(db, t) = 0 \/ (First(db, t) = 1 /\ t \in rolledBack)
  BY <1>3 DEF Firsts
<1>. HIDE DEF len, reported
<1>6. ASSUME NEW n \in 1 .. len
      PROVE  /\ db.events[t][n].conf = First(db, t) + n - 1
             /\ db.events[t][n].conf <= MaxConfirmations /\ db.events[t][n].conf <= best[t]
  BY <1>1, <1>3, <1>4
<1>7. FeedOf(db, t) = [n \in 1 .. len |-> db.events[t][n].conf]
  BY DEF FeedOf, len
<1>8. FeedOf(db, t) = [n \in 1 .. len |-> First(db, t) + n - 1]
  BY <1>6, <1>7
<1>9. Len(FeedOf(db, t)) = len
  BY <1>4, <1>7
<1>. QED
  BY <1>4, <1>5, <1>6, <1>7, <1>8, <1>9 DEF len

\* The events of e go on where those of d stopped.
Continues(d, e, t) ==
    /\ Len(d.events[t]) <= Len(e.events[t])
    /\ Len(d.events[t]) = 0 \/ First(e, t) = First(d, t)

\* A commit announces what the database transaction had added.
LEMMA CommitAnnounces ==
    ASSUME TrackInv, TrackInv', UNCHANGED <<best, rolledBack>>,
           \A t \in Txs : Continues(db, db', t)
    PROVE  Feed!Announce
<1>1. ASSUME NEW t \in Txs
      PROVE  /\ \/ FeedOf(db', t) = [n \in 1 .. Len(FeedOf(db', t)) |-> 0 + n - 1]
                \/ /\ FeedOf(db', t) = [n \in 1 .. Len(FeedOf(db', t)) |-> 1 + n - 1]
                   /\ t \in rolledBack'
             /\ Len(FeedOf(db, t)) <= Len(FeedOf(db', t))
             /\ \A n \in 1 .. Len(FeedOf(db, t)) : FeedOf(db', t)[n] = FeedOf(db, t)[n]
             /\ \A n \in 1 .. Len(FeedOf(db', t)) :
                  FeedOf(db', t)[n] <= MaxConfirmations /\ FeedOf(db', t)[n] <= best[t]
  <2>1. /\ FeedOf(db', t) = [n \in 1 .. Len(db'.events[t]) |-> First(db', t) + n - 1]
        /\ Len(db'.events[t]) \in Nat /\ Len(FeedOf(db', t)) = Len(db'.events[t])
        /\ First(db', t) = 0 \/ (First(db', t) = 1 /\ t \in rolledBack')
        /\ \A n \in 1 .. Len(db'.events[t]) :
             /\ FeedOf(db', t)[n] = First(db', t) + n - 1
             /\ FeedOf(db', t)[n] <= MaxConfirmations /\ FeedOf(db', t)[n] <= best'[t]
    <3>1. (TrackInv /\ t \in Txs =>
             /\ FeedOf(db, t) = [n \in 1 .. Len(db.events[t]) |-> First(db, t) + n - 1]
             /\ Len(db.events[t]) \in Nat /\ Len(FeedOf(db, t)) = Len(db.events[t])
             /\ First(db, t) = 0 \/ (First(db, t) = 1 /\ t \in rolledBack)
             /\ \A n \in 1 .. Len(db.events[t]) :
                  /\ FeedOf(db, t)[n] = First(db, t) + n - 1
                  /\ FeedOf(db, t)[n] <= MaxConfirmations /\ FeedOf(db, t)[n] <= best[t])'
      BY FeedCounts, PTL
    <3>. QED BY <3>1 DEF FeedOf, First
  <2>2. /\ Len(FeedOf(db, t)) = Len(db.events[t]) /\ Len(db.events[t]) \in Nat
        /\ \A n \in 1 .. Len(db.events[t]) : FeedOf(db, t)[n] = First(db, t) + n - 1
    BY FeedCounts
  <2>3. /\ Len(db.events[t]) <= Len(db'.events[t])
        /\ Len(db.events[t]) = 0 \/ First(db', t) = First(db, t)
    BY DEF Continues
  <2>4. ASSUME NEW n \in 1 .. Len(db.events[t]) PROVE FeedOf(db', t)[n] = FeedOf(db, t)[n]
    <3>1. n \in 1 .. Len(db'.events[t]) /\ Len(db.events[t]) # 0
      BY <2>1, <2>2, <2>3
    <3>. QED BY <2>1, <2>2, <2>3, <3>1
  <2>5. \/ FeedOf(db', t) = [n \in 1 .. Len(FeedOf(db', t)) |-> 0 + n - 1]
        \/ /\ FeedOf(db', t) = [n \in 1 .. Len(FeedOf(db', t)) |-> 1 + n - 1]
           /\ t \in rolledBack'
    <3>1. CASE First(db', t) = 0
      BY <2>1, <3>1
    <3>2. CASE First(db', t) = 1 /\ t \in rolledBack'
      BY <2>1, <3>2
    <3>. QED BY <2>1, <3>1, <3>2
  <2>. QED BY <2>1, <2>2, <2>3, <2>4, <2>5
<1>2. ASSUME NEW t \in Txs PROVE Feed!Counted(t)'
  BY <1>1 DEF Feed!Counted, Feed!CountedFrom, FeedOf
<1>. DEFINE F == [t \in Txs |-> [n \in 1 .. Len(db.events[t]) |-> db.events[t][n].conf]]
<1>3. \A t \in Txs : F[t] = FeedOf(db, t) /\ F'[t] = FeedOf(db', t)
  BY DEF FeedOf
<1>4. \A t \in Txs :
        /\ Len(F[t]) <= Len(F'[t])
        /\ \A n \in 1 .. Len(F[t]) : F'[t][n] = F[t][n]
        /\ \A n \in 1 .. Len(F'[t]) : F'[t][n] <= MaxConfirmations /\ F'[t][n] <= best[t]
  <2>. HIDE DEF F
  <2>. QED BY <1>1, <1>3
<1>. QED
  BY <1>2, <1>4 DEF Feed!Announce

\* The node's steps bury transactions deeper.
LEMMA NodeAdvances ==
    ASSUME TrackInv, TrackInv', UNCHANGED <<db, rolledBack>>, RecordBest
    PROVE  Feed!Advance
<1>1. \A t \in Txs : best[t] <= best'[t]
  <2>1. Tree(blocks')
    <3>1. (TypeOK => Tree(blocks))'
      BY NodeFacts, PTL
    <3>. QED BY <3>1 DEF TrackInv
  <2>2. /\ tip' \in 0 .. Len(blocks') /\ Len(blocks') <= MaxBlocks /\ onNode' \subseteq Txs
        /\ best \in [Txs -> -1 .. MaxBlocks]
    BY DEF TrackInv, TypeOK
  <2>. QED BY <2>1, <2>2, RecordKeeps
<1>. QED
  BY <1>1 DEF Feed!Advance

\* A poll commits, or leaves the feed alone.
LEMMA PollRefines ==
    ASSUME TrackInv, TrackInv', UNCHANGED <<best, rolledBack>>, db' \in {db, open}
    PROVE  Feed!Announce
<1>1. \A t \in Txs : After(db, db', t)
  BY Databases
<1>2. \A t \in Txs : Continues(db, db', t)
  BY <1>1 DEF After, Continues
<1>. QED
  BY <1>2, CommitAnnounces

\* A withdrawal's save is announced, rolled back or not noticed at all.
LEMMA SaveRefines ==
    ASSUME TrackInv, TrackInv',
           SaveWithdrawal \/ SaveRolledBack \/ SaveRolledBackLate \/ SaveLost
    PROVE  [Feed!Next]_Feed!vars
<1>. DEFINE t == saving.tx
<1>1. pc = "save" /\ best' = best /\ db' \in {db, SaveOf(saving)}
  BY DEF SaveWithdrawal, SaveRolledBack, SaveRolledBackLate, SaveLost, SaveFails, node
<1>2. CASE rolledBack' = rolledBack
  <2>1. ASSUME NEW u \in Txs PROVE Continues(db, db', u)
    <3>1. db.events[u] = << >> \/ (db'.events[u] = db.events[u] /\ db'.rows[u] = db.rows[u])
      BY <1>1, SaveStores
    <3>2. Len(db.events[u]) \in Nat /\ Len(db'.events[u]) \in Nat
      <4>1. db \in DatabaseType /\ db' \in DatabaseType
        BY DEF TrackInv, TypeOK
      <4>. QED BY <4>1 DEF DatabaseType
    <3>3. CASE db.events[u] = << >>
      BY <3>2, <3>3 DEF Continues
    <3>4. CASE db'.events[u] = db.events[u] /\ db'.rows[u] = db.rows[u]
      BY <3>2, <3>4 DEF Continues, First
    <3>. QED BY <3>1, <3>3, <3>4
  <2>. QED BY <1>1, <1>2, <2>1, CommitAnnounces DEF Feed!Next
<1>3. CASE rolledBack' # rolledBack
  <2>1. /\ SaveRolledBackLate /\ db' = db /\ rolledBack' = rolledBack \cup {t}
        /\ saving.reported # ReportedAfter(saving)
    BY <1>3 DEF SaveWithdrawal, SaveRolledBack, SaveRolledBackLate, SaveLost
  <2>2. SaveInv /\ saving \in SavingType /\ t \in Txs
    BY <1>1, SaveStores, Databases DEF TrackInv
  <2>3. saving.reported = -1 /\ Announced(t)
    BY <2>1, <2>2 DEF ReportedAfter, SavingType
  <2>4. ~db.rows[t].stored
    BY <1>1, <2>2, <2>3 DEF SaveInv
  <2>5. db.events[t] = << >>
    BY <2>2, <2>4, NoRowNoEvents
  <2>6. FeedOf(db, t) = << >>
    BY <2>5 DEF FeedOf
  <2>7. Feed!RollBack(t)
    BY <1>1, <2>1, <2>2, <2>6 DEF Feed!RollBack, FeedOf
  <2>. QED BY <2>2, <2>7 DEF Feed!Next
<1>. QED
  BY <1>2, <1>3

\* Every step is a step of the feed or leaves it alone.
LEMMA StepRefines ==
    ASSUME TrackInv, TrackInv', [Next]_vars
    PROVE  [Feed!Next]_Feed!vars
<1>1. CASE UNCHANGED <<db, best, rolledBack>>
  BY <1>1 DEF Feed!vars
<1>2. CASE Environment
  <2>1. CASE OperatorResolves
    <3>1. UNCHANGED <<best, rolledBack>> /\ db'.events = db.events
      BY <2>1, OperatorKeeps DEF OperatorResolves, node
    <3>. QED BY <3>1 DEF Feed!vars
  <2>2. CASE UNCHANGED <<db, rolledBack>> /\ RecordBest
    BY <2>2, NodeAdvances DEF Feed!Next
  <2>. QED
    BY <1>1, <1>2, <2>1, <2>2 DEF Environment, Mine, Pay, Withdraw, GenerateNewAddress, StoreAccount,
       AnswerAccount, AccountIs, node, withdrawing
<1>3. CASE SaveWithdrawal \/ SaveRolledBack \/ SaveRolledBackLate \/ SaveLost
  BY <1>3, SaveRefines
<1>4. CASE Start \/ Tick \/ List \/ ListFails \/ UpdatePendingTxns \/ CheckExisting
             \/ CommitNew \/ CommitNewFails \/ CommitNewLost \/ GetTransactionFails
             \/ CommitExisting \/ CommitExistingFails \/ CommitExistingLost \/ Crash
             \/ \E t \in Txs : GetTransaction(t)
  <2>1. UNCHANGED <<best, rolledBack>> /\ db' \in {db, open}
    BY <1>4 DEF Start, Tick, List, ListFails, UpdatePendingTxns, CheckExisting, GetTransaction,
                CommitNew, CommitNewFails, CommitNewLost, GetTransactionFails, CommitExisting,
                CommitExistingFails, CommitExistingLost, Crash, Commits, node, withdrawing
  <2>. QED BY <2>1, PollRefines DEF Feed!Next
<1>5. CASE UNCHANGED vars
  BY <1>1, <1>5 DEF vars, node, withdrawing
<1>. QED
  BY <1>2, <1>3, <1>4, <1>5 DEF Next, UpdaterStep, UpdaterFault

\* The events of every transaction are those of ConfirmationFeed: in order, each
\* number of confirmations once, none the node had not counted, and none missing
\* but the first of a new withdrawal whose save was rolled back after it.
THEOREM ImplementsFeed == Spec => FeedSpec
<1>1. Init => Feed!Init
  BY DEF Init, Feed!Init, EmptyDatabase
<1>2. TrackInv /\ TrackInv' /\ [Next]_vars => [Feed!Next]_Feed!vars
  BY StepRefines
<1>. QED
  BY <1>1, <1>2, TrackInvHolds, PTL DEF Spec, FeedSpec, Feed!Spec
=============================================================================
