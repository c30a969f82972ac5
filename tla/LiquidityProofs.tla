-------------------------- MODULE LiquidityProofs --------------------------
(***************************************************************************)
(* Proofs about LiquidityMap: what the NFT path keeps, which blocks the     *)
(* windows cover, and what the sums and replays of the direct path come to; *)
(* and about V3Sizing: that no simulated trade is better than the prices it *)
(* crosses, that a search shows no profit where there is none, that the     *)
(* profile of a pool is its liquidity, that a purchase inside the safe      *)
(* envelope meets none of what the envelope ends at, and that no way there  *)
(* and back gains.                                                          *)
(***************************************************************************)
EXTENDS LiquidityMap, V3Sizing, FiniteSetTheorems, WellFoundedInduction, TLAPS

-----------------------------------------------------------------------------
(* Induction: a family of finite sets has a minimal member.  With it, what  *)
(* a fold or a recursive function computes can be proved by looking at the  *)
(* least set, or the least number, for which it would be wrong.             *)

FamilyOfFiniteSets(F) == F # {} /\ \A s \in F : IsFiniteSet(s)

\* A family of finite sets has a member none of whose proper subsets is one.
LEMMA MinimalMember ==
  ASSUME NEW F, FamilyOfFiniteSets(F)
  PROVE  \E m \in F : \A u \in F : u \subseteq m => u = m
  <1> DEFINE S == UNION F
  <1>1. F \subseteq FiniteSubsetsOf(S) /\ F # {}
    BY DEF FiniteSubsetsOf, FamilyOfFiniteSets
  <1>2. IsWellFoundedOn(StrictSubsetOrdering(S), FiniteSubsetsOf(S))
    BY FS_StrictSubsetOrderingWellFounded
  <1>3. PICK m \in F : \A u \in F : ~ (<<u, m>> \in StrictSubsetOrdering(S))
    <2> HIDE DEF S
    <2> QED BY <1>1, <1>2, WFMin
  <1>4. \A u \in F : u \subseteq m => u = m
    BY <1>3 DEF StrictSubsetOrdering
  <1>5. QED BY <1>4

\* A set of numbers has a least element.
LEMMA LeastNumber ==
  ASSUME NEW T \in SUBSET Nat, T # {}
  PROVE  \E n \in T : \A m \in T : n <= m
  <1> DEFINE F == {0 .. n : n \in T}
  <1>1. F \in SUBSET (SUBSET Nat) /\ F # {}
    <2>1. \A n \in T : 0 .. n \in SUBSET Nat
      OBVIOUS
    <2>2. PICK n \in T : TRUE
      OBVIOUS
    <2>3. 0 .. n \in F
      OBVIOUS
    <2>4. F # {}
      BY <2>3
    <2>5. F \in SUBSET (SUBSET Nat)
      BY <2>1
    <2>6. QED BY <2>4, <2>5
  <1>2. \A s \in F : IsFiniteSet(s)
    <2> SUFFICES ASSUME NEW n \in T PROVE IsFiniteSet(0 .. n)
      OBVIOUS
    <2>1. 0 \in Int /\ n \in Int
      OBVIOUS
    <2>2. QED BY <2>1, FS_Interval
  <1>3. PICK m \in F : \A u \in F : u \subseteq m => u = m
    <2> HIDE DEF F
    <2>1. FamilyOfFiniteSets(F)
      BY <1>1, <1>2 DEF FamilyOfFiniteSets
    <2>2. QED
      BY <2>1, MinimalMember
  <1>4. PICK n \in T : m = 0 .. n
    BY <1>3
  <1>5. ASSUME NEW k \in T, k < n PROVE FALSE
    <2>1. 0 .. k \in F /\ 0 .. k \subseteq m
      BY <1>4, <1>5
    <2>2. 0 .. k = 0 .. n
      BY <1>3, <1>4, <2>1
    <2>3. n \in 0 .. n /\ n \notin 0 .. k
      BY <1>5
    <2>4. QED BY <2>2, <2>3
  <1>6. QED BY <1>4, <1>5

-----------------------------------------------------------------------------
(* Sums over finite sets, as MapThenSumSet makes them.                     *)

First(s) == CHOOSE x \in s : TRUE

\* h adds f up over the parts of S.
AddsUp(f, h, S) ==
  \A s \in SUBSET S : h[s] = IF s = {} THEN 0 ELSE f[First(s)] + h[s \ {First(s)}]

Sums(f, h, S) == h \in [SUBSET S -> Int] /\ AddsUp(f, h, S)

LEMMA FirstIn == ASSUME NEW s, s # {} PROVE First(s) \in s
  BY DEF First

LEMMA SumUnique ==
  ASSUME NEW f, NEW S, IsFiniteSet(S), NEW T, NEW h, NEW k, AddsUp(f, h, S), AddsUp(f, k, T),
         NEW s, s \subseteq S, s \subseteq T
  PROVE  h[s] = k[s]
  <1> DEFINE F == {u \in SUBSET s : h[u] # k[u]}
  <1> SUFFICES ASSUME F # {} PROVE FALSE
    OBVIOUS
  <1>1. F \in SUBSET (SUBSET S) /\ \A u \in F : IsFiniteSet(u)
    BY FS_Subset
  <1>2. PICK m \in F : \A u \in F : u \subseteq m => u = m
    <2> HIDE DEF F
    <2>1. FamilyOfFiniteSets(F)
      BY <1>1 DEF FamilyOfFiniteSets
    <2>2. QED BY <2>1, MinimalMember
  <1>3. m \in SUBSET S /\ m \in SUBSET T /\ h[m] # k[m]
    BY <1>2
  <1>4. m # {}
    BY <1>3 DEF AddsUp
  <1>5. First(m) \in m
    BY <1>4, FirstIn
  <1> DEFINE r == m \ {First(m)}
  <1>6. h[m] = f[First(m)] + h[r] /\ k[m] = f[First(m)] + k[r]
    BY <1>3, <1>4 DEF AddsUp
  <1>7. r \subseteq m /\ r # m /\ r \in SUBSET s
    BY <1>2, <1>5
  <1>8. h[r] = k[r]
    <2> HIDE DEF r
    <2> QED BY <1>2, <1>7
  <1>9. QED BY <1>3, <1>6, <1>8

LEMMA SumExists ==
  ASSUME NEW D, NEW f \in [D -> Int], NEW S \in SUBSET D, IsFiniteSet(S)
  PROVE  \E h : Sums(f, h, S)
  <1> DEFINE F == {u \in SUBSET S : ~\E h : Sums(f, h, u)}
  <1> SUFFICES ASSUME F # {} PROVE FALSE
    OBVIOUS
  <1>1. F \in SUBSET (SUBSET S) /\ \A u \in F : IsFiniteSet(u)
    BY FS_Subset
  <1>2. PICK m \in F : \A u \in F : u \subseteq m => u = m
    <2> HIDE DEF F
    <2>1. FamilyOfFiniteSets(F)
      BY <1>1 DEF FamilyOfFiniteSets
    <2>2. QED BY <2>1, MinimalMember
  <1>3. m \in SUBSET S /\ IsFiniteSet(m) /\ ~\E h : Sums(f, h, m)
    BY <1>1, <1>2
  <1>4. m # {}
    <2> SUFFICES ASSUME m = {} PROVE FALSE
      OBVIOUS
    <2> DEFINE z == [s \in SUBSET m |-> 0]
    <2>1. z \in [SUBSET m -> Int]
      OBVIOUS
    <2>2. \A s \in SUBSET m : s = {} /\ z[s] = 0
      OBVIOUS
    <2>3. Sums(f, z, m)
      BY <2>1, <2>2 DEF Sums, AddsUp
    <2>4. QED BY <2>3, <1>3
  <1>5. First(m) \in m
    BY <1>4, FirstIn
  <1> DEFINE H(u) == CHOOSE h : Sums(f, h, u)
             r == m \ {First(m)}
             g == [s \in SUBSET m |-> IF s = m THEN f[First(m)] + H(r)[r] ELSE H(s)[s]]
  <1>6. ASSUME NEW u \in SUBSET m, u # m PROVE Sums(f, H(u), u) /\ IsFiniteSet(u) /\ H(u)[u] \in Int
    <2>1. u \in SUBSET S /\ u \notin F
      BY <1>2, <1>3, <1>6
    <2>2. \E h : Sums(f, h, u)
      BY <2>1
    <2>3. Sums(f, H(u), u)
      BY <2>2
    <2>4. IsFiniteSet(u)
      BY <1>3, FS_Subset
    <2>5. QED BY <2>3, <2>4 DEF Sums, AddsUp
  <1>7. r \in SUBSET m /\ r # m
    BY <1>5
  <1>8. f[First(m)] \in Int
    BY <1>3, <1>5
  <1>9. H(r)[r] \in Int
    BY <1>6, <1>7
  <1> HIDE DEF r
  <1>10. g \in [SUBSET m -> Int]
    <2> HIDE DEF H
    <2> QED BY <1>6, <1>8, <1>9
  <1>11. ASSUME NEW s \in SUBSET m
         PROVE  g[s] = IF s = {} THEN 0 ELSE f[First(s)] + g[s \ {First(s)}]
    <2>1. CASE s = m
      <3>1. g[s] = f[First(m)] + H(r)[r]
        BY <2>1
      <3>2. g[r] = H(r)[r]
        BY <1>7
      <3>3. r = s \ {First(s)}
        BY <2>1 DEF r
      <3> HIDE DEF H, g
      <3>4. QED BY <1>4, <2>1, <3>1, <3>2, <3>3
    <2>2. CASE s # m
      <3>1. Sums(f, H(s), s) /\ g[s] = H(s)[s] /\ IsFiniteSet(s)
        BY <1>6, <2>2
      <3>2. CASE s = {}
        <4>1. H(s)[s] = 0
          BY <3>1, <3>2 DEF Sums, AddsUp
        <4>2. QED BY <3>1, <3>2, <4>1
      <3>3. CASE s # {}
        <4> DEFINE w == s \ {First(s)}
        <4>1. w \in SUBSET m /\ w # m /\ w \subseteq s
          BY <2>2, <3>3, FirstIn
        <4>2. Sums(f, H(w), w) /\ g[w] = H(w)[w]
          BY <1>6, <4>1
        <4>3. H(s)[w] = H(w)[w]
          <5> HIDE DEF w, H
          <5> QED BY <3>1, <4>1, <4>2, SumUnique DEF Sums
        <4>4. H(s)[s] = f[First(s)] + H(s)[w]
          BY <3>1, <3>3 DEF Sums, AddsUp
        <4>5. QED 
          <5> HIDE DEF w, H, g
          <5>1. g[s] = f[First(s)] + g[w]
            BY <3>1, <4>2, <4>3, <4>4
          <5>2. QED BY <5>1, <3>3 DEF w
      <3>4. QED BY <3>2, <3>3
    <2>3. QED BY <2>1, <2>2
  <1>12. Sums(f, g, m)
    <2> HIDE DEF g
    <2> QED BY <1>10, <1>11 DEF Sums, AddsUp
  <1>13. QED
    <2> HIDE DEF g
    <2> QED BY <1>3, <1>12

\* The sum of f over S.
SumOver(f, S) == (CHOOSE h : Sums(f, h, S))[S]

LEMMA SumValue ==
  ASSUME NEW D, NEW f \in [D -> Int], NEW S \in SUBSET D, IsFiniteSet(S), NEW h, Sums(f, h, S)
  PROVE  /\ SumOver(f, S) = h[S]
         /\ SumOver(f, S) \in Int
  <1> DEFINE k == CHOOSE g : Sums(f, g, S)
  <1>1. Sums(f, k, S)
    OBVIOUS
  <1>2. k[S] = h[S]
    <2> HIDE DEF k
    <2> QED BY <1>1, SumUnique DEF Sums
  <1>3. h[S] \in Int
    BY DEF Sums, AddsUp
  <1>4. QED BY <1>2, <1>3 DEF SumOver

TakesFirst(f, S) ==
  SumOver(f, S) = IF S = {} THEN 0 ELSE f[First(S)] + SumOver(f, S \ {First(S)})

LEMMA SumSteps ==
  ASSUME NEW D, NEW f \in [D -> Int], NEW S \in SUBSET D, IsFiniteSet(S)
  PROVE  SumOver(f, S) \in Int /\ TakesFirst(f, S)
  <1>1. PICK h : Sums(f, h, S)
    BY SumExists
  <1>2. SumOver(f, S) = h[S] /\ SumOver(f, S) \in Int
    BY <1>1, SumValue
  <1>3. CASE S = {}
    BY <1>1, <1>2, <1>3 DEF Sums, AddsUp, TakesFirst
  <1>4. CASE S # {}
    <2> DEFINE r == S \ {First(S)}
    <2>1. r \in SUBSET S /\ r \in SUBSET D /\ IsFiniteSet(r)
      BY FS_Subset
    <2>2. PICK k : Sums(f, k, r)
      <3> HIDE DEF r
      <3> QED BY <2>1, SumExists
    <2>3. SumOver(f, r) = k[r]
      <3> HIDE DEF r
      <3> QED BY <2>1, <2>2, SumValue
    <2>4. h[r] = k[r]
      <3> HIDE DEF r
      <3> QED BY <1>1, <2>1, <2>2, SumUnique DEF Sums
    <2>5. h[S] = f[First(S)] + h[r]
      BY <1>1, <1>4 DEF Sums, AddsUp
    <2>6. QED BY <1>2, <1>4, <2>3, <2>4, <2>5 DEF TakesFirst
  <1>5. QED BY <1>2, <1>3, <1>4

\* Whichever member is taken first.
LEMMA SumWithout ==
  ASSUME NEW D, NEW f \in [D -> Int], NEW S \in SUBSET D, IsFiniteSet(S), NEW x \in S
  PROVE  SumOver(f, S) = f[x] + SumOver(f, S \ {x})
  <1> DEFINE F == {u \in SUBSET S : \E y \in u : SumOver(f, u) # f[y] + SumOver(f, u \ {y})}
  <1> SUFFICES ASSUME F # {} PROVE FALSE
    OBVIOUS
  <1>1. F \in SUBSET (SUBSET S) /\ \A u \in F : IsFiniteSet(u)
    BY FS_Subset
  <1>2. PICK m \in F : \A u \in F : u \subseteq m => u = m
    <2> HIDE DEF F
    <2>1. FamilyOfFiniteSets(F)
      BY <1>1 DEF FamilyOfFiniteSets
    <2>2. QED BY <2>1, MinimalMember
  <1>3. PICK y \in m : SumOver(f, m) # f[y] + SumOver(f, m \ {y})
    BY <1>2
  <1>4. m \in SUBSET D /\ m \in SUBSET S /\ IsFiniteSet(m) /\ m # {} /\ First(m) \in m
    BY <1>1, <1>2, <1>3, FirstIn
  <1>5. ASSUME NEW u \in SUBSET m, u # m, NEW z \in u
        PROVE  SumOver(f, u) = f[z] + SumOver(f, u \ {z})
    <2>1. u \in SUBSET S /\ u \notin F
      BY <1>2, <1>4, <1>5
    <2>2. QED BY <2>1
  <1>6. PICK c \in m : c = First(m)
    BY <1>4
  <1>7. SumOver(f, m) = f[c] + SumOver(f, m \ {c}) /\ SumOver(f, m) \in Int
    <2> HIDE DEF F
    <2>1. SumOver(f, m) \in Int /\ TakesFirst(f, m)
      BY <1>4, SumSteps
    <2>2. QED BY <1>4, <1>6, <2>1 DEF TakesFirst
  <1>8. c # y
    BY <1>3, <1>7
  <1>9. SumOver(f, m \ {c}) = f[y] + SumOver(f, (m \ {c}) \ {y})
    <2>1. m \ {c} \in SUBSET m /\ m \ {c} # m /\ y \in m \ {c}
      BY <1>8
    <2>2. QED BY <1>5, <2>1
  <1>10. SumOver(f, m \ {y}) = f[c] + SumOver(f, (m \ {y}) \ {c})
    <2>1. m \ {y} \in SUBSET m /\ m \ {y} # m /\ c \in m \ {y}
      BY <1>8
    <2>2. QED BY <1>5, <2>1
  <1>11. PICK r : r = (m \ {c}) \ {y} /\ r = (m \ {y}) \ {c} /\ r \in SUBSET D /\ IsFiniteSet(r)
    <2>1. (m \ {c}) \ {y} = (m \ {y}) \ {c}
      OBVIOUS
    <2>2. (m \ {c}) \ {y} \in SUBSET m
      OBVIOUS
    <2>3. IsFiniteSet((m \ {c}) \ {y})
      BY <1>4, <2>2, FS_Subset
    <2>4. QED BY <1>4, <2>1, <2>2, <2>3
  <1>12. f[c] \in Int /\ f[y] \in Int
    BY <1>4
  <1>13. SumOver(f, r) \in Int
    BY <1>11, SumSteps
  <1>14. QED BY <1>3, <1>7, <1>9, <1>10, <1>11, <1>12, <1>13

-----------------------------------------------------------------------------
(* The shape of the state, without the range of the folded amounts.        *)

Shape ==
  /\ setting \in [kind : Kinds, faults : SUBSET Faults]
  /\ head \in 0 .. MaxBlock
  /\ held \in [0 .. MaxBlock -> [Position -> Liquidity]]
  /\ row = [built |-> row.built, from |-> row.from, to |-> row.to,
            tokens |-> row.tokens, keys |-> row.keys]
  /\ row.built \in BOOLEAN /\ row.from \in Int /\ row.to \in 0 .. head
  /\ row.tokens \in [Position -> Liquidity]
  /\ job \in [pc : {"idle", "meta", "fetch", "direct"}, from : Int, to : 0 .. MaxBlock,
              seen : SUBSET Position, pending : SUBSET Position, gone : SUBSET Position,
              got : [Position -> Liquidity], lost : SUBSET (Block \X Side)]
  /\ job.pc # "idle" => row.to <= job.to /\ job.to <= head
  /\ reads \in [Position -> [Block -> 0 .. 2]]

LEMMA ShapeInit == Init => Shape
  BY ScanAssumption DEF Init, Shape, Nothing, Idle, Liquidity, Block

\* The window's first block is a number.
LEMMA FromBlockType ==
  ASSUME Shape, NEW mode \in {"full", "quick"}
  PROVE  FromBlock(mode) \in Int
  BY ScanAssumption DEF Shape, FromBlock, Positive

LEMMA ShapeStep == Shape /\ [Next]_vars => Shape'
  <1> SUFFICES ASSUME Shape, [Next]_vars PROVE Shape'
    OBVIOUS
  <1> USE ScanAssumption DEF Shape
  <1>1. ASSUME NEW next \in [Position -> Liquidity], Mine(next) PROVE Shape'
    BY <1>1 DEF Mine
  <1>2. ASSUME NEW mode \in {"full", "quick"}, Start(mode) PROVE Shape'
    <2>1. FromBlock(IF row.built THEN mode ELSE "full") \in Int
      BY FromBlockType
    <2>2. job' = [pc |-> IF setting.kind = "nft" THEN "meta" ELSE "direct",
                  from |-> FromBlock(IF row.built THEN mode ELSE "full"), to |-> head,
                  seen |-> {}, pending |-> {}, gone |-> {}, got |-> Nothing, lost |-> {}]
      BY <1>2 DEF Start, Idle
    <2>3. Nothing \in [Position -> Liquidity]
      BY DEF Nothing, Liquidity
    <2>4. UNCHANGED <<setting, head, held, row, reads>>
      BY <1>2 DEF Start, chainVars
    <2>5. QED
      BY <2>1, <2>2, <2>3, <2>4
  <1>3. ASSUME NEW lost \in Losses, Collect(lost) PROVE Shape'
    <2>1. lost \in SUBSET (Block \X Side)
      <3>1. CASE lost = {}
        BY <3>1
      <3>2. CASE lost # {}
        <4>1. PICK l \in Window \X Side : lost = {l}
          BY <3>2 DEF Losses
        <4>2. QED
          BY <4>1 DEF Window
      <3>3. QED
        BY <3>1, <3>2
    <2>2. QED
      BY <1>3, <2>1 DEF Collect, Seen, chainVars
  <1>4. ASSUME NEW lost \in Losses, SaveKeys(lost) PROVE Shape'
    <2>1. /\ row'.built = TRUE /\ row'.to = job.to /\ row'.tokens = row.tokens
          /\ row'.from = IF row.built THEN row.from ELSE job.from
          /\ row' = [built |-> row'.built, from |-> row'.from, to |-> row'.to,
                     tokens |-> row'.tokens, keys |-> row'.keys]
      BY <1>4 DEF SaveKeys, Save
    <2>2. job' = Idle /\ UNCHANGED <<setting, head, held>> /\ job.pc = "direct"
      BY <1>4 DEF SaveKeys, Save, chainVars
    <2>3. reads' \in [Position -> [Block -> 0 .. 2]]
      <3>1. \A p \in Position, b \in Block :
              reads[p][b] \in 0 .. 2 /\ Again(reads[p][b]) \in 0 .. 2
        BY DEF Again
      <3>2. QED
        BY <1>4, <3>1 DEF SaveKeys
    <2>4. QED
      <3>1. Idle \in [pc : {"idle"}, from : Int, to : 0 .. MaxBlock,
                       seen : SUBSET Position, pending : SUBSET Position,
                       gone : SUBSET Position, got : [Position -> Liquidity],
                       lost : SUBSET (Block \X Side)]
        BY DEF Idle, Nothing, Liquidity
      <3>2. row'.built \in BOOLEAN /\ row'.from \in Int /\ row'.to \in 0 .. head
        <4>1. job.to \in 0 .. head /\ job.from \in Int
          BY <2>2
        <4>2. row'.from \in Int
          BY <2>1, <4>1
        <4>3. QED
          BY <2>1, <4>1, <4>2
      <3>3. Idle.pc = "idle"
        BY DEF Idle
      <3>4. QED
        BY <2>1, <2>2, <2>3, <3>1, <3>2, <3>3
  <1>5. ASSUME NEW p \in Position, Fetch(p) PROVE Shape'
    <2>1. held[head][p] \in Liquidity
      OBVIOUS
    <2>2. job' = [job EXCEPT !.pending = @ \ {p}, !.got = [@ EXCEPT ![p] = held[head][p]]]
      BY <1>5 DEF Fetch
    <2>3. UNCHANGED <<setting, head, held, row, scans, reads>>
      BY <1>5 DEF Fetch, chainVars
    <2>4. [job.got EXCEPT ![p] = held[head][p]] \in [Position -> Liquidity]
      BY <2>1
    <2>5. QED
      BY <2>2, <2>3, <2>4
  <1>6. ASSUME NEW p \in Position, FetchFails(p) PROVE Shape'
    BY <1>6 DEF FetchFails, chainVars
  <1>7. ASSUME SaveTokens PROVE Shape'
    <2>1. /\ row'.built = TRUE /\ row'.to = job.to
          /\ row'.tokens = [p \in Position |->
                              IF p \in job.seen THEN job.got[p] ELSE row.tokens[p]]
          /\ row'.from = IF row.built THEN row.from ELSE job.from
          /\ row' = [built |-> row'.built, from |-> row'.from, to |-> row'.to,
                     tokens |-> row'.tokens, keys |-> row'.keys]
      BY <1>7 DEF SaveTokens, Save
    <2>2. job' = Idle /\ UNCHANGED <<setting, head, held>> /\ job.pc = "fetch"
      BY <1>7 DEF SaveTokens, Save, chainVars
    <2>3. reads' \in [Position -> [Block -> 0 .. 2]]
      <3>1. \A p \in Position, b \in Block :
              reads[p][b] \in 0 .. 2 /\ Again(reads[p][b]) \in 0 .. 2
        BY DEF Again
      <3>2. QED
        BY <1>7, <3>1 DEF SaveTokens
    <2>4. row'.tokens \in [Position -> Liquidity]
      BY <2>1
    <2>5. QED
      <3>1. Idle \in [pc : {"idle"}, from : Int, to : 0 .. MaxBlock,
                       seen : SUBSET Position, pending : SUBSET Position,
                       gone : SUBSET Position, got : [Position -> Liquidity],
                       lost : SUBSET (Block \X Side)]
        BY DEF Idle, Nothing, Liquidity
      <3>2. row'.built \in BOOLEAN /\ row'.from \in Int /\ row'.to \in 0 .. head
        <4>1. job.to \in 0 .. head /\ job.from \in Int
          BY <2>2
        <4>2. row'.from \in Int
          BY <2>1, <4>1
        <4>3. QED
          BY <2>1, <4>1, <4>2
      <3>3. Idle.pc = "idle"
        BY DEF Idle
      <3>4. QED
        BY <2>1, <2>2, <2>3, <2>4, <3>1, <3>2, <3>3
  <1>8. ASSUME FallBack \/ Abandon PROVE Shape'
    <2>1. CASE FallBack
      BY <2>1 DEF FallBack, chainVars
    <2>2. CASE Abandon
      <3>1. Nothing \in [Position -> Liquidity]
        BY DEF Nothing, Liquidity
      <3>2. QED
        BY <2>2, <3>1 DEF Abandon, Idle, chainVars
    <2>3. QED
      BY <1>8, <2>1, <2>2
  <1>9. CASE UNCHANGED vars
    BY <1>9 DEF vars
  <1>10. QED
    BY <1>1, <1>2, <1>3, <1>4, <1>5, <1>6, <1>7, <1>8, <1>9 DEF Next

-----------------------------------------------------------------------------
(* The chain.                                                              *)

\* Blocks that exist do not change.
LEMMA OldBlocks ==
  ASSUME Shape, NEW next \in [Position -> Liquidity], Mine(next)
  PROVE  /\ \A b \in 0 .. head : held'[b] = held[b]
         /\ \A p \in Position, b \in 1 .. head : Changed(p, b)' <=> Changed(p, b)
  <1>1. \A b \in 0 .. head : held'[b] = held[b]
    BY ScanAssumption DEF Shape, Mine
  <1>2. ASSUME NEW p \in Position, NEW b \in 1 .. head
        PROVE  Changed(p, b)' <=> Changed(p, b)
    <2>1. b - 1 \in 0 .. head /\ b \in 0 .. head
      BY ScanAssumption DEF Shape
    <2>2. held'[b] = held[b] /\ held'[b - 1] = held[b - 1]
      BY <1>1, <2>1
    <2>3. QED
      BY <2>2 DEF Changed, Delta
  <1>3. QED
    BY <1>1, <1>2

\* What a position holds changes only in blocks that change it.
Constant ==
  \A p \in Position : \A a, c \in 0 .. head :
    (a <= c /\ \A b \in (a + 1) .. c : ~Changed(p, b)) => held[a][p] = held[c][p]

LEMMA ConstantInit == Init => Constant
  BY ScanAssumption DEF Init, Constant

LEMMA ConstantStep == Shape /\ Constant /\ [Next]_vars => Constant'
  <1> SUFFICES ASSUME Shape, Constant, [Next]_vars PROVE Constant'
    OBVIOUS
  <1>1. ASSUME NEW next \in [Position -> Liquidity], Mine(next) PROVE Constant'
    <2> SUFFICES ASSUME NEW p \in Position, NEW a \in 0 .. head', NEW c \in 0 .. head',
                        a <= c, \A b \in (a + 1) .. c : ~Changed(p, b)'
                 PROVE  held'[a][p] = held'[c][p]
      BY DEF Constant
    <2>1. head' = head + 1 /\ head \in Nat /\ head + 1 \in Block
      BY <1>1, ScanAssumption DEF Mine, Shape, Block
    <2>2. CASE a = c
      BY <2>2
    <2>3. CASE a # c /\ c <= head
      <3>1. a \in 0 .. head /\ c \in 0 .. head
        BY <2>1, <2>3
      <3>2. \A b \in (a + 1) .. c : ~Changed(p, b)
        BY <1>1, <2>1, <2>3, <3>1, OldBlocks
      <3>3. held[a][p] = held[c][p]
        BY <3>1, <3>2 DEF Constant
      <3>4. QED
        BY <1>1, <3>1, <3>3, OldBlocks
    <2>4. CASE a # c /\ c = head + 1
      <3>1. a \in 0 .. head /\ head \in 0 .. head
        BY <2>1, <2>4
      <3>2. \A b \in (a + 1) .. head : ~Changed(p, b)
        BY <1>1, <2>1, <2>4, <3>1, OldBlocks
      <3>3. held[a][p] = held[head][p]
        BY <3>1, <3>2 DEF Constant
      <3>4. ~Changed(p, c)'
        BY <2>1, <2>4, <3>1
      <3>5. held'[c][p] \in Int /\ held'[head][p] \in Int
        <4>1. held' \in [0 .. MaxBlock -> [Position -> Liquidity]]
          BY ShapeStep DEF Shape
        <4>2. c \in 0 .. MaxBlock /\ head \in 0 .. MaxBlock
          BY <2>1, <2>4, ScanAssumption DEF Block
        <4>3. held'[c][p] \in Liquidity /\ held'[head][p] \in Liquidity
          BY <4>1, <4>2
        <4>4. QED
          BY <4>3, ScanAssumption DEF Liquidity
      <3>6. held'[c][p] = held'[head][p]
        BY <2>1, <2>4, <3>4, <3>5 DEF Changed, Delta
      <3>7. held'[a] = held[a] /\ held'[head] = held[head]
        BY <1>1, <3>1, OldBlocks
      <3>8. QED
        BY <3>3, <3>6, <3>7
    <2>5. QED
      BY <2>1, <2>2, <2>3, <2>4
  <1>2. CASE UNCHANGED <<head, held>>
    BY <1>2 DEF Constant, Changed, Delta
  <1>3. QED
    BY <1>1, <1>2 DEF Next, Start, Collect, SaveKeys, Fetch, FetchFails, SaveTokens, FallBack,
                      Abandon, Save, vars, chainVars

-----------------------------------------------------------------------------
(* What the logs of a scan tell about a position.                          *)

LEMMA DeltaType ==
  ASSUME Shape, NEW p \in Position, NEW b \in Block
  PROVE  Delta(p, b) \in Int
  <1>1. b \in 0 .. MaxBlock /\ b - 1 \in 0 .. MaxBlock
    BY ScanAssumption DEF Block
  <1>2. held[b][p] \in Liquidity /\ held[b - 1][p] \in Liquidity
    BY <1>1 DEF Shape
  <1>3. QED
    BY <1>2, ScanAssumption DEF Delta, Liquidity

\* A token that no log shows did not change in the chunks that were read.
LEMMA UnseenUnchanged ==
  ASSUME Shape, NEW lost, NEW p \in Position \ Seen(lost), NEW b \in Read(lost)
  PROVE  ~Changed(p, b)
  <1>1. b \in Block /\ b \in Logs("in", lost) /\ b \in Logs("out", lost)
    BY DEF Read, Logs, Window
  <1>2. ~(Amount(p, b, "in") > 0) /\ ~(Amount(p, b, "out") > 0)
    BY <1>1 DEF Seen, Side
  <1>3. Delta(p, b) \in Int
    BY <1>1, DeltaType
  <1>4. QED
    BY <1>2, <1>3 DEF Amount, Positive, Changed

\* A token that a log shows changed in the window.
LEMMA SeenChanged ==
  ASSUME Shape, NEW lost, NEW p \in Seen(lost)
  PROVE  p \in Position /\ \E b \in Window : Changed(p, b)
  <1>1. PICK side \in Side : \E b \in Logs(side, lost) : Amount(p, b, side) > 0
    BY DEF Seen
  <1>2. PICK b \in Logs(side, lost) : Amount(p, b, side) > 0
    BY <1>1
  <1>3. p \in Position /\ b \in Window /\ b \in Block
    BY DEF Seen, Logs, Window
  <1>4. Delta(p, b) \in Int
    BY <1>3, DeltaType
  <1>5. QED
    BY <1>2, <1>3, <1>4 DEF Amount, Positive, Changed

-----------------------------------------------------------------------------
(* Blocks beyond scanToBlock never entered the row.                        *)

Unread ==
  \A p \in Position : \A b \in Block : b > row.to => reads[p][b] = 0

LEMMA UnreadStep == Shape /\ Unread /\ [Next]_vars => Unread'
  <1> SUFFICES ASSUME Shape, Unread, [Next]_vars PROVE Unread'
    OBVIOUS
  <1>1. ASSUME NEW lost \in Losses, SaveKeys(lost) PROVE Unread'
    <2>1. row'.to = job.to /\ row.to <= job.to /\ row.to \in Int /\ job.to \in Int
      BY <1>1, ScanAssumption DEF SaveKeys, Save, Shape
    <2>2. ASSUME NEW p \in Position, NEW b \in Block, b > job.to PROVE reads'[p][b] = 0
      <3>1. b \notin Read(lost)
        BY <2>1, <2>2, ScanAssumption DEF Read, Logs, Window, Block, Shape
      <3>2. reads[p][b] = 0
        BY <2>1, <2>2, ScanAssumption DEF Unread, Block
      <3>3. QED
        BY <1>1, <3>1, <3>2 DEF SaveKeys
    <2>3. QED
      BY <2>1, <2>2 DEF Unread
  <1>2. ASSUME SaveTokens PROVE Unread'
    <2>1. row'.to = job.to /\ row.to <= job.to /\ row.to \in Int /\ job.to \in Int
      BY <1>2, ScanAssumption DEF SaveTokens, Save, Shape
    <2>2. ASSUME NEW p \in Position, NEW b \in Block, b > job.to PROVE reads'[p][b] = 0
      <3>1. b \notin Read(job.lost)
        BY <2>1, <2>2, ScanAssumption DEF Read, Logs, Window, Block, Shape
      <3>2. reads[p][b] = 0
        BY <2>1, <2>2, ScanAssumption DEF Unread, Block
      <3>3. QED
        BY <1>2, <3>1, <3>2 DEF SaveTokens
    <2>3. QED
      BY <2>1, <2>2 DEF Unread
  <1>3. CASE UNCHANGED <<row, reads>>
    BY <1>3 DEF Unread
  <1>4. QED
    BY <1>1, <1>2, <1>3 DEF Next, Mine, Start, Collect, Fetch, FetchFails, FallBack, Abandon,
                            vars, chainVars

-----------------------------------------------------------------------------
(* With a known NFT manager and readable metadata the pool's own events    *)
(* are never used, and what a scan has fetched is at least as new as the   *)
(* end of its window.                                                      *)

Managed == setting.kind = "nft" /\ "meta" \notin setting.faults

Fetched(p) == \E b \in job.to .. head : job.got[p] = held[b][p]

ScanGoal ==
  /\ job.pc # "direct"
  /\ \A p \in Position : row.keys[p] = 0
  /\ job.pc # "fetch" => job.gone = {}
  /\ job.pc = "fetch" =>
       /\ job.pending \cup job.gone \subseteq job.seen
       /\ \A p \in Position \ job.seen : \A b \in Read(job.lost) : ~Changed(p, b)
       /\ \A p \in job.seen : \E b \in Window : Changed(p, b)
       /\ \A p \in job.seen \ (job.pending \cup job.gone) : Fetched(p)

ScanInv == Managed => ScanGoal

LEMMA ScanStep == Shape /\ ScanInv /\ [Next]_vars => ScanInv'
  <1> SUFFICES ASSUME Shape, ScanInv, [Next]_vars, Managed' PROVE ScanGoal'
    BY DEF ScanInv
  <1>0. setting' = setting /\ Managed /\ ScanGoal
    BY DEF Next, Mine, Start, Collect, SaveKeys, Fetch, FetchFails, SaveTokens, FallBack,
           Abandon, Save, vars, chainVars, Managed, ScanInv
  <1>1. ASSUME NEW next \in [Position -> Liquidity], Mine(next) PROVE ScanGoal'
    <2>1. /\ job' = job /\ row' = row /\ head' = head + 1 /\ head \in Nat
          /\ job.pc = "fetch" => job.to <= head /\ job.to \in Nat
      BY <1>1, ScanAssumption DEF Mine, Shape
    <2>2. Window' = Window /\ Read(job.lost)' = Read(job.lost)
      BY <2>1 DEF Window, Read, Logs
    <2>3. ASSUME job.pc = "fetch", NEW p \in Position, NEW b \in Window
          PROVE  Changed(p, b)' <=> Changed(p, b)
      <3>1. b \in 1 .. head
        BY <2>1, <2>3, ScanAssumption DEF Window, Block, Shape
      <3>2. QED
        BY <1>1, <3>1, OldBlocks
    <2>4. ASSUME job.pc = "fetch", NEW p \in Position, Fetched(p) PROVE Fetched(p)'
      <3>1. PICK b \in job.to .. head : job.got[p] = held[b][p]
        BY <2>4 DEF Fetched
      <3>2. b \in job'.to .. head' /\ held'[b] = held[b]
        BY <1>1, <2>1, <2>4, <3>1, OldBlocks
      <3>3. QED
        BY <2>1, <3>1, <3>2 DEF Fetched
    <2>5. Read(job.lost) \subseteq Window /\ job.seen \subseteq Position
      BY DEF Read, Logs, Shape
    <2>6. job'.pc # "direct" /\ \A p \in Position : row'.keys[p] = 0
      BY <1>0, <2>1 DEF ScanGoal
    <2>7. ASSUME job'.pc = "fetch"
          PROVE  /\ \A p \in Position \ job'.seen : \A b \in Read(job.lost)' : ~Changed(p, b)'
                 /\ \A p \in job'.seen : \E b \in Window' : Changed(p, b)'
                 /\ \A p \in job'.seen \ (job'.pending \cup job'.gone) : Fetched(p)'
      <3>1. \A p \in Position \ job'.seen : \A b \in Read(job.lost)' : ~Changed(p, b)'
        BY <1>0, <2>1, <2>2, <2>3, <2>5, <2>7 DEF ScanGoal
      <3>2. \A p \in job'.seen : \E b \in Window' : Changed(p, b)'
        BY <1>0, <2>1, <2>2, <2>3, <2>5, <2>7 DEF ScanGoal
      <3>3. \A p \in job'.seen \ (job'.pending \cup job'.gone) : Fetched(p)'
        BY <1>0, <2>1, <2>4, <2>5, <2>7 DEF ScanGoal
      <3>4. QED
        BY <3>1, <3>2, <3>3
    <2>8. QED
      BY <1>0, <2>1, <2>6, <2>7 DEF ScanGoal
  <1>2. ASSUME NEW mode \in {"full", "quick"}, Start(mode) PROVE ScanGoal'
    BY <1>0, <1>2 DEF ScanGoal, Start, Managed, Idle
  <1>3. ASSUME NEW lost \in Losses, Collect(lost) PROVE ScanGoal'
    <2>1. job' = [job EXCEPT !.pc = "fetch", !.seen = Seen(lost), !.pending = Seen(lost),
                             !.lost = lost]
      BY <1>3 DEF Collect
    <2>2. /\ job'.seen = Seen(lost) /\ job'.pending = Seen(lost) /\ job'.lost = lost
          /\ job'.from = job.from /\ job'.to = job.to /\ job'.pc = "fetch"
          /\ job'.gone = job.gone /\ job.pc = "meta"
          /\ row' = row /\ held' = held
      BY <1>3, <2>1 DEF Collect, chainVars, Shape
    <2>3. Window' = Window /\ Read(job.lost)' = Read(lost)
      BY <2>2 DEF Window, Read, Logs
    <2>4. \A p \in Position, b \in Block : Changed(p, b)' <=> Changed(p, b)
      BY <2>2 DEF Changed, Delta
    <2>5. \A p \in Position \ job'.seen : \A b \in Read(job.lost)' : ~Changed(p, b)'
      <3>1. Read(lost) \subseteq Block
        BY DEF Read, Logs, Window
      <3>2. QED
        BY <2>2, <2>3, <2>4, <3>1, UnseenUnchanged
    <2>6. \A p \in job'.seen : \E b \in Window' : Changed(p, b)'
      <3>1. Window \subseteq Block
        BY DEF Window
      <3>2. QED
        BY <2>2, <2>3, <2>4, <3>1, SeenChanged
    <2>7. \A p \in job'.seen \ (job'.pending \cup job'.gone) : Fetched(p)'
      BY <2>2
    <2>8. QED
      BY <1>0, <2>2, <2>5, <2>6, <2>7 DEF ScanGoal
  <1>4. ASSUME NEW p \in Position, Fetch(p) PROVE ScanGoal'
    <2>1. /\ job' = [job EXCEPT !.pending = @ \ {p}, !.got = [@ EXCEPT ![p] = held[head][p]]]
          /\ UNCHANGED <<head, held, row>> /\ job.pc = "fetch"
      BY <1>4 DEF Fetch, chainVars
    <2>2. /\ job'.seen = job.seen /\ job'.pending = job.pending \ {p} /\ job'.lost = job.lost
          /\ job'.from = job.from /\ job'.to = job.to /\ job'.pc = "fetch"
          /\ job'.gone = job.gone
          /\ job'.got[p] = held[head][p] /\ \A q \in Position \ {p} : job'.got[q] = job.got[q]
      BY <2>1 DEF Shape
    <2>3. Window' = Window /\ Read(job.lost)' = Read(job.lost)
      BY <2>2 DEF Window, Read, Logs
    <2>4. \A q \in Position, b \in Block : Changed(q, b)' <=> Changed(q, b)
      BY <2>1 DEF Changed, Delta
    <2>5. Window \subseteq Block /\ Read(job.lost) \subseteq Block /\ job.seen \subseteq Position
      BY DEF Window, Read, Logs, Shape
    <2>6. ASSUME NEW q \in job'.seen \ (job'.pending \cup job'.gone) PROVE Fetched(q)'
      <3>1. CASE q = p
        <4>1. head \in job.to .. head
          BY <2>1, ScanAssumption DEF Shape
        <4>2. QED
          BY <2>1, <2>2, <3>1, <4>1 DEF Fetched
      <3>2. CASE q # p
        <4>1. Fetched(q) /\ q \in Position
          BY <1>0, <2>1, <2>2, <2>5, <2>6, <3>2 DEF ScanGoal
        <4>2. QED
          BY <2>1, <2>2, <3>2, <4>1 DEF Fetched
      <3>3. QED
        BY <3>1, <3>2
    <2>7. QED
      BY <1>0, <2>1, <2>2, <2>3, <2>4, <2>5, <2>6 DEF ScanGoal
  <1>5. ASSUME NEW p \in Position, FetchFails(p) PROVE ScanGoal'
    <2>1. /\ job' = [job EXCEPT !.pending = @ \ {p}, !.gone = @ \cup {p}]
          /\ UNCHANGED <<head, held, row>> /\ job.pc = "fetch" /\ p \in job.pending
      BY <1>5 DEF FetchFails, chainVars
    <2>2. /\ job'.seen = job.seen /\ job'.pending = job.pending \ {p} /\ job'.lost = job.lost
          /\ job'.from = job.from /\ job'.to = job.to /\ job'.pc = "fetch"
          /\ job'.gone = job.gone \cup {p} /\ job'.got = job.got
      BY <2>1 DEF Shape
    <2>3. Window' = Window /\ Read(job.lost)' = Read(job.lost)
      BY <2>2 DEF Window, Read, Logs
    <2>4. \A q \in Position, b \in Block : Changed(q, b)' <=> Changed(q, b)
      BY <2>1 DEF Changed, Delta
    <2>5. Window \subseteq Block /\ Read(job.lost) \subseteq Block /\ job.seen \subseteq Position
      BY DEF Window, Read, Logs, Shape
    <2>6. ASSUME NEW q \in job'.seen \ (job'.pending \cup job'.gone) PROVE Fetched(q)'
      <3>1. q \in job.seen \ (job.pending \cup job.gone)
        BY <2>2, <2>6
      <3>2. QED
        BY <1>0, <2>1, <2>2, <3>1 DEF ScanGoal, Fetched
    <2>7. QED
      BY <1>0, <2>1, <2>2, <2>3, <2>4, <2>5, <2>6 DEF ScanGoal
  <1>6. ASSUME SaveTokens PROVE ScanGoal'
    BY <1>0, <1>6 DEF ScanGoal, SaveTokens, Save, Idle
  <1>7. ASSUME NEW lost \in Losses, SaveKeys(lost) PROVE ScanGoal'
    BY <1>0, <1>7 DEF ScanGoal, SaveKeys
  <1>8. ASSUME FallBack PROVE ScanGoal'
    BY <1>0, <1>8 DEF ScanGoal, FallBack, Managed, HasDirectKeys
  <1>9. ASSUME Abandon PROVE ScanGoal'
    BY <1>0, <1>9 DEF ScanGoal, Abandon, Idle
  <1>10. CASE UNCHANGED vars
    BY <1>0, <1>10 DEF ScanGoal, vars, Fetched, Window, Read, Logs, Changed, Delta
  <1>11. QED
    BY <1>1, <1>2, <1>3, <1>4, <1>5, <1>6, <1>7, <1>8, <1>9, <1>10 DEF Next

-----------------------------------------------------------------------------
(* The map of the NFT path.                                                *)

\* A save keeps the entry of a token that no log showed, takes a fetched one
\* over, and forgets that the changes of a failed one were read.
LEMMA NftSave ==
  ASSUME Shape, Constant, Unread, ScanInv, NftExact, Managed, SaveTokens,
         NEW p \in Position
  PROVE  Missed(p)' \/ \E b \in row'.to .. head' : row'.tokens[p] = held'[b][p]
  <1>1. /\ row'.to = job.to /\ UNCHANGED <<head, held>>
        /\ row'.tokens = [q \in Position |->
                            IF q \in job.seen THEN job.got[q] ELSE row.tokens[q]]
        /\ job.pc = "fetch" /\ job.pending = {}
        /\ \A b \in Block : reads'[p][b] =
             IF p \in job.gone THEN 0
             ELSE IF b \in Read(job.lost) THEN Again(reads[p][b]) ELSE reads[p][b]
    BY DEF SaveTokens, Save, chainVars
  <1>2. ScanGoal
    BY DEF ScanInv
  <1>3. /\ row.to \in Nat /\ job.to \in Nat /\ head \in Nat
        /\ row.to <= job.to /\ job.to <= head /\ head <= MaxBlock
    BY <1>1, ScanAssumption DEF Shape
  <1>4. \A c \in Block : Changed(p, c)' <=> Changed(p, c)
    BY <1>1 DEF Changed, Delta
  <1>5. \A c : c \in 1 .. job.to => c \in Block
    BY <1>3, ScanAssumption DEF Block
  <1>6. CASE p \in job.gone
    <2>1. p \in job.seen
      BY <1>6, <1>1, <1>2 DEF ScanGoal
    <2>2. PICK c \in Window : Changed(p, c)
      BY <1>1, <1>2, <2>1 DEF ScanGoal
    <2>3. c \in 1 .. job.to
      BY <1>3, ScanAssumption DEF Window, Block, Shape
    <2>4. \A b \in c .. job.to : reads'[p][b] = 0
      BY <1>1, <1>3, <1>5, <1>6, <2>3
    <2>5. Missed(p)'
      BY <1>1, <1>4, <1>5, <2>2, <2>3, <2>4 DEF Missed
    <2>6. QED
      BY <2>5
  <1>7. CASE p \in job.seen /\ p \notin job.gone
    BY <1>1, <1>2, <1>7 DEF ScanGoal, Fetched
  <1>8. CASE p \notin job.seen /\ p \notin job.gone
    <2>1. row'.tokens[p] = row.tokens[p]
      BY <1>1, <1>8
    <2>2. \A b \in Block : Changed(p, b) => reads'[p][b] = reads[p][b]
      BY <1>1, <1>2, <1>8 DEF ScanGoal
    <2>3. \A b \in (row.to + 1) .. job.to : reads[p][b] = 0
      BY <1>3, <1>5 DEF Unread
    <2>4. CASE Missed(p)
      <3>1. PICK c \in 1 .. row.to :
              Changed(p, c) /\ \A b \in c .. row.to : Changed(p, b) => reads[p][b] = 0
        BY <2>4 DEF Missed
      <3>2. c \in 1 .. job.to
        BY <1>3
      <3>3. \A b \in c .. job.to : Changed(p, b) => reads[p][b] = 0
        BY <1>3, <2>3, <3>1
      <3>4. \A b \in c .. job.to : b \in Block
        BY <1>5, <3>2
      <3>5. Missed(p)'
        BY <1>1, <1>4, <2>2, <3>1, <3>2, <3>3, <3>4 DEF Missed
      <3>6. QED
        BY <3>5
    <2>5. CASE \E c \in (row.to + 1) .. job.to : Changed(p, c)
      <3>1. PICK c \in (row.to + 1) .. job.to : Changed(p, c)
        BY <2>5
      <3>2. c \in 1 .. job.to /\ \A b \in c .. job.to : b \in (row.to + 1) .. job.to /\ b \in Block
        BY <1>3, <1>5
      <3>3. \A b \in c .. job.to : Changed(p, b) => reads'[p][b] = 0
        BY <2>2, <2>3, <3>2
      <3>4. Missed(p)'
        BY <1>1, <1>4, <3>1, <3>2, <3>3 DEF Missed
      <3>5. QED
        BY <3>4
    <2>6. CASE ~Missed(p) /\ ~\E c \in (row.to + 1) .. job.to : Changed(p, c)
      <3>1. PICK b \in row.to .. head : row.tokens[p] = held[b][p]
        BY <2>6 DEF NftExact, Managed
      <3>2. CASE b >= job.to
        BY <1>1, <1>3, <2>1, <3>1, <3>2
      <3>3. CASE b < job.to
        <4>1. b \in 0 .. head /\ job.to \in 0 .. head /\ b <= job.to
          BY <1>3, <3>3
        <4>2. \A c \in (b + 1) .. job.to : ~Changed(p, c)
          BY <1>3, <2>6, <3>3
        <4>3. held[b][p] = held[job.to][p]
          BY <4>1, <4>2 DEF Constant
        <4>4. job.to \in job.to .. head
          BY <1>3
        <4>5. QED
          BY <1>1, <2>1, <3>1, <4>3, <4>4
      <3>4. QED
        BY <1>3, <3>2, <3>3
    <2>7. QED
      BY <2>4, <2>5, <2>6
  <1>9. QED
    BY <1>6, <1>7, <1>8

LEMMA NftStep ==
  Shape /\ Constant /\ Unread /\ ScanInv /\ NftExact /\ [Next]_vars => NftExact'
  <1> SUFFICES ASSUME Shape, Constant, Unread, ScanInv, NftExact, [Next]_vars, Managed',
                      NEW p \in Position
               PROVE  Missed(p)' \/ \E b \in row'.to .. head' : row'.tokens[p] = held'[b][p]
    BY DEF NftExact, Managed
  <1>0. Managed /\ ScanGoal
    BY DEF Next, Mine, Start, Collect, SaveKeys, Fetch, FetchFails, SaveTokens, FallBack,
           Abandon, Save, vars, chainVars, Managed, ScanInv
  <1>1. ASSUME NEW next \in [Position -> Liquidity], Mine(next)
        PROVE  Missed(p)' \/ \E b \in row'.to .. head' : row'.tokens[p] = held'[b][p]
    <2>1. /\ row' = row /\ reads' = reads /\ head' = head + 1 /\ head \in Nat
          /\ row.to \in 0 .. head
      BY <1>1, ScanAssumption DEF Mine, Shape
    <2>2. CASE Missed(p)
      <3>1. PICK c \in 1 .. row.to :
              Changed(p, c) /\ \A b \in c .. row.to : Changed(p, b) => reads[p][b] = 0
        BY <2>2 DEF Missed
      <3>2. \A b \in c .. row.to : Changed(p, b)' <=> Changed(p, b)
        BY <1>1, <2>1, OldBlocks
      <3>3. c \in c .. row.to
        BY <2>1
      <3>4. QED
        BY <2>1, <3>1, <3>2, <3>3 DEF Missed
    <2>3. CASE ~Missed(p)
      <3>1. PICK b \in row.to .. head : row.tokens[p] = held[b][p]
        BY <1>0, <2>3 DEF NftExact, Managed
      <3>2. b \in row'.to .. head' /\ held'[b] = held[b]
        BY <1>1, <2>1, <3>1, OldBlocks
      <3>3. QED
        BY <2>1, <3>1, <3>2
    <2>4. QED
      BY <2>2, <2>3
  <1>2. CASE SaveTokens
    BY <1>0, <1>2, NftSave
  <1>3. ASSUME NEW lost \in Losses, SaveKeys(lost) PROVE FALSE
    BY <1>0, <1>3 DEF SaveKeys, ScanGoal
  <1>4. CASE UNCHANGED <<head, held, row, reads>>
    BY <1>0, <1>4 DEF NftExact, Managed, Missed, Changed, Delta
  <1>5. QED
    BY <1>1, <1>2, <1>3, <1>4 DEF Next, Start, Collect, Fetch, FetchFails, FallBack, Abandon,
                                  vars, chainVars

\* For every chain, every number of positions and scans and every overlap of
\* their windows: what the NFT path holds of a position whose last change was
\* read is what the position held at scanToBlock or later.
THEOREM NftMapIsExact == Spec => []NftExact
  <1> DEFINE IInv == Shape /\ Constant /\ Unread /\ ScanInv /\ NftExact
  <1>1. Init => IInv
    <2> SUFFICES ASSUME Init PROVE IInv
      OBVIOUS
    <2>1. Shape /\ Constant
      BY ShapeInit, ConstantInit
    <2>2. Unread /\ ScanInv
      BY DEF Init, Unread, ScanInv, ScanGoal, Idle, Nothing
    <2>3. NftExact
      <3>1. row.to = 0 /\ head = 1 /\ \A p \in Position : row.tokens[p] = 0 /\ held[0][p] = 0
        BY ScanAssumption DEF Init, Nothing
      <3>2. 0 \in row.to .. head
        BY <3>1
      <3>3. QED
        BY <3>1, <3>2 DEF NftExact
    <2>4. QED
      BY <2>1, <2>2, <2>3
  <1>2. IInv /\ [Next]_vars => IInv'
    BY ShapeStep, ConstantStep, UnreadStep, ScanStep, NftStep
  <1>3. IInv => NftExact
    OBVIOUS
  <1>4. QED
    BY <1>1, <1>2, <1>3, PTL DEF Spec

-----------------------------------------------------------------------------
(* The windows of the scans.                                               *)

\* A window begins FullRange blocks before its end or, over an existing map,
\* no later than the block after scanToBlock; and nothing of it is lost.
Plain == setting.faults \cap {"chunk", "position"} = {}

WindowGoal ==
  /\ job.lost = {} /\ job.gone = {}
  /\ job.pc # "idle" => \/ job.from <= Positive(job.to - FullRange)
                        \/ row.built /\ job.from <= row.to + 1

WindowInv == Plain => WindowGoal

LEMMA WindowStep == Shape /\ WindowInv /\ [Next]_vars => WindowInv'
  <1> SUFFICES ASSUME Shape, WindowInv, [Next]_vars, Plain' PROVE WindowGoal'
    BY DEF WindowInv
  <1>0. setting' = setting /\ Plain /\ WindowGoal
    BY DEF Next, Mine, Start, Collect, SaveKeys, Fetch, FetchFails, SaveTokens, FallBack,
           Abandon, Save, vars, chainVars, Plain, WindowInv
  <1>1. ASSUME NEW mode \in {"full", "quick"}, Start(mode) PROVE WindowGoal'
    <2> DEFINE m == IF row.built THEN mode ELSE "full"
    <2>1. /\ job'.from = FromBlock(m) /\ job'.to = head /\ job'.lost = {} /\ job'.gone = {}
          /\ row' = row
      BY <1>1 DEF Start, Idle
    <2>2. head \in Nat /\ row.to \in Nat /\ QuickRange \in Nat
      BY ScanAssumption DEF Shape
    <2>3. CASE m = "quick" /\ row.to > 0
      <3>1. row.built
        BY <2>3
      <3>2. FromBlock(m) <= row.to + 1
        BY <2>2, <2>3 DEF FromBlock
      <3>3. QED
        BY <2>1, <3>1, <3>2 DEF WindowGoal
    <2>4. CASE ~(m = "quick" /\ row.to > 0)
      <3>1. FromBlock(m) = Positive(head - FullRange)
        BY <2>4 DEF FromBlock
      <3>2. Positive(head - FullRange) \in Int
        BY <2>2, ScanAssumption DEF Positive
      <3>3. job'.from <= Positive(job'.to - FullRange)
        BY <2>1, <3>1, <3>2
      <3>4. QED
        BY <2>1, <3>3 DEF WindowGoal
    <2>5. QED
      BY <2>3, <2>4
  <1>2. ASSUME NEW lost \in Losses, Collect(lost) PROVE WindowGoal'
    <2>1. lost = {}
      BY <1>0 DEF Losses, Plain
    <2>2. /\ job'.from = job.from /\ job'.to = job.to /\ job'.lost = lost
          /\ job'.gone = job.gone /\ row' = row /\ job.pc = "meta"
      BY <1>2 DEF Collect, Shape
    <2>3. QED
      BY <1>0, <2>1, <2>2 DEF WindowGoal
  <1>3. ASSUME NEW p \in Position, Fetch(p) PROVE WindowGoal'
    <2>1. /\ job'.from = job.from /\ job'.to = job.to /\ job'.lost = job.lost
          /\ job'.gone = job.gone /\ row' = row /\ job.pc = "fetch"
      BY <1>3 DEF Fetch, Shape
    <2>2. QED
      BY <1>0, <2>1 DEF WindowGoal
  <1>4. ASSUME NEW p \in Position, FetchFails(p) PROVE FALSE
    BY <1>0, <1>4 DEF FetchFails, Plain
  <1>5. CASE FallBack
    <2>1. /\ job'.from = job.from /\ job'.to = job.to /\ job'.lost = job.lost
          /\ job'.gone = job.gone /\ row' = row /\ job.pc # "idle"
      BY <1>5 DEF FallBack, Shape
    <2>2. QED
      BY <1>0, <2>1 DEF WindowGoal
  <1>6. CASE job' = Idle
    BY <1>6 DEF WindowGoal, Idle
  <1>7. CASE UNCHANGED <<job, row>>
    BY <1>0, <1>7 DEF WindowGoal
  <1>8. QED
    BY <1>1, <1>2, <1>3, <1>4, <1>5, <1>6, <1>7
       DEF Next, Mine, SaveKeys, SaveTokens, Abandon, Save, vars

\* What a save of a whole window does to the blocks that count as read.
LEMMA JoinSave ==
  ASSUME Shape, WindowsJoin, WindowGoal, Plain, job.pc # "idle",
         row'.to = job.to, row'.from = IF row.built THEN row.from ELSE job.from,
         NEW p \in Position,
         \A b \in Block : reads'[p][b] =
           IF b \in Window THEN Again(reads[p][b]) ELSE reads[p][b],
         NEW b \in Block \cap (row'.from .. row'.to), b >= row'.to - FullRange
  PROVE  reads'[p][b] > 0
  <1>1. /\ b \in Nat \ {0} /\ job.from \in Int /\ job.to \in Nat /\ row.to \in Nat
        /\ row.from \in Int /\ FullRange \in Nat /\ row.to <= job.to
        /\ reads[p][b] \in 0 .. 2
    BY ScanAssumption DEF Shape, Block
  <1>2. b <= job.to /\ b >= job.to - FullRange /\ b >= row'.from
    BY <1>1
  <1>3. CASE b >= job.from
    <2>1. b \in Window
      BY <1>1, <1>2, <1>3 DEF Window
    <2>2. QED
      BY <1>1, <2>1 DEF Again
  <1>4. CASE b < job.from
    <2>1. ~(job.from <= Positive(job.to - FullRange))
      BY <1>1, <1>2, <1>4 DEF Positive
    <2>2. row.built /\ job.from <= row.to + 1
      BY <2>1 DEF WindowGoal
    <2>3. b <= row.to /\ b >= row.from /\ b >= row.to - FullRange
      BY <1>1, <1>2, <1>4, <2>2
    <2>4. reads[p][b] > 0
      BY <1>1, <2>3 DEF WindowsJoin, Plain
    <2>5. b \notin Window
      BY <1>1, <1>4 DEF Window
    <2>6. QED
      BY <2>4, <2>5
  <1>5. QED
    BY <1>1, <1>3, <1>4

LEMMA JoinStep == Shape /\ WindowInv /\ WindowsJoin /\ [Next]_vars => WindowsJoin'
  <1> SUFFICES ASSUME Shape, WindowInv, WindowsJoin, [Next]_vars, Plain',
                      NEW p \in Position, NEW b \in Block \cap (row'.from .. row'.to),
                      b >= row'.to - FullRange
               PROVE  reads'[p][b] > 0
    BY DEF WindowsJoin, Plain
  <1>0. Plain /\ WindowGoal
    BY DEF Next, Mine, Start, Collect, SaveKeys, Fetch, FetchFails, SaveTokens, FallBack,
           Abandon, Save, vars, chainVars, Plain, WindowInv
  <1>1. Read({}) = Window
    BY DEF Read, Logs
  <1>2. CASE SaveTokens
    <2>1. /\ row'.to = job.to /\ row'.from = IF row.built THEN row.from ELSE job.from
          /\ job.pc # "idle"
      BY <1>2 DEF SaveTokens, Save
    <2>2. \A c \in Block : reads'[p][c] =
            IF c \in Window THEN Again(reads[p][c]) ELSE reads[p][c]
      BY <1>0, <1>1, <1>2 DEF SaveTokens, WindowGoal
    <2>3. QED
      BY <1>0, <2>1, <2>2, JoinSave
  <1>3. ASSUME NEW lost \in Losses, SaveKeys(lost) PROVE reads'[p][b] > 0
    <2>1. lost = {}
      BY <1>0 DEF Losses, Plain
    <2>2. /\ row'.to = job.to /\ row'.from = IF row.built THEN row.from ELSE job.from
          /\ job.pc # "idle"
      BY <1>3 DEF SaveKeys, Save
    <2>3. \A c \in Block : reads'[p][c] =
            IF c \in Window THEN Again(reads[p][c]) ELSE reads[p][c]
      BY <1>1, <1>3, <2>1 DEF SaveKeys
    <2>4. QED
      BY <1>0, <2>2, <2>3, JoinSave
  <1>4. CASE UNCHANGED <<row, reads>>
    BY <1>0, <1>4 DEF WindowsJoin, Plain
  <1>5. QED
    BY <1>2, <1>3, <1>4 DEF Next, Mine, Start, Collect, Fetch, FetchFails, FallBack, Abandon,
                            vars, chainVars

\* For every length of the two ranges, every order of full and quick scans
\* and every pause between them, the last DEFAULT_FULL_SCAN_RANGE blocks
\* before scanToBlock have been read.
THEOREM NoRecentGap == Spec => []WindowsJoin
  <1> DEFINE IInv == Shape /\ WindowInv /\ WindowsJoin
  <1>1. Init => IInv
    <2> SUFFICES ASSUME Init PROVE IInv
      OBVIOUS
    <2>1. Shape /\ WindowInv
      BY ShapeInit DEF Init, WindowInv, WindowGoal, Idle
    <2>2. Block \cap (row.from .. row.to) = {}
      BY ScanAssumption DEF Init, Block
    <2>3. QED
      BY <2>1, <2>2 DEF WindowsJoin
  <1>2. IInv /\ [Next]_vars => IInv'
    BY ShapeStep, WindowStep, JoinStep
  <1>3. IInv => WindowsJoin
    OBVIOUS
  <1>4. QED
    BY <1>1, <1>2, <1>3, PTL DEF Spec

-----------------------------------------------------------------------------
(* What the direct path adds up.                                           *)

Flow(p, side) == [b \in Block |-> Amount(p, b, side)]

LEMMA FlowType ==
  ASSUME Shape, NEW p \in Position, NEW side \in Side
  PROVE  Flow(p, side) \in [Block -> Int]
  <1>1. ASSUME NEW b \in Block PROVE Amount(p, b, side) \in Int
    <2>1. Delta(p, b) \in Int
      BY DeltaType
    <2>2. QED
      BY <2>1 DEF Amount, Positive
  <1>2. QED
    BY <1>1 DEF Flow

LEMMA TotalIsSum ==
  ASSUME Shape, NEW p \in Position, NEW side \in Side, NEW lost
  PROVE  Total(p, side, lost) = SumOver(Flow(p, side), Logs(side, lost))
  <1> DEFINE S == Logs(side, lost)
             f == Flow(p, side)
             Adds(g) == g = [s \in SUBSET S |-> IF s = {} THEN 0
                               ELSE Amount(p, CHOOSE x \in s : TRUE, side)
                                    + g[s \ {CHOOSE x \in s : TRUE}]]
             fold == CHOOSE g : Adds(g)
  <1>1. Total(p, side, lost) = fold[S]
    BY Zenon DEF Total, MapThenSumSet, MapThenFoldSet
  <1>2. S \in SUBSET Block /\ IsFiniteSet(S)
    <2>1. S \in SUBSET Block
      BY DEF Logs, Window
    <2>2. IsFiniteSet(Block)
      BY ScanAssumption, FS_Interval DEF Block
    <2>3. QED
      BY <2>1, <2>2, FS_Subset
  <1>3. f \in [Block -> Int]
    BY FlowType
  <1>4. PICK h : Sums(f, h, S)
    <2> HIDE DEF S, f
    <2>1. QED
      BY <1>2, <1>3, SumExists
  <1>5. \A s \in SUBSET S : s # {} =>
          First(s) = (CHOOSE x \in s : TRUE) /\ f[First(s)] = Amount(p, First(s), side)
    BY <1>2, FirstIn DEF First, Flow
  <1>6. Adds(h)
    <2> HIDE DEF S, f
    <2>1. h = [s \in SUBSET S |-> h[s]]
      BY <1>4 DEF Sums
    <2>2. \A s \in SUBSET S : h[s] = IF s = {} THEN 0
            ELSE Amount(p, CHOOSE x \in s : TRUE, side) + h[s \ {CHOOSE x \in s : TRUE}]
      BY <1>4, <1>5, ZenonT(40) DEF Sums, AddsUp
    <2>3. QED
      BY <2>1, <2>2
  <1>7. Adds(fold)
    <2> HIDE DEF Adds
    <2>1. QED
      BY <1>6
  <1>8. AddsUp(f, fold, S)
    <2> HIDE DEF S, f, fold
    <2>1. \A s \in SUBSET S : fold[s] = IF s = {} THEN 0
            ELSE Amount(p, CHOOSE x \in s : TRUE, side) + fold[s \ {CHOOSE x \in s : TRUE}]
      BY <1>7
    <2>2. ASSUME NEW s \in SUBSET S
          PROVE  fold[s] = IF s = {} THEN 0 ELSE f[First(s)] + fold[s \ {First(s)}]
      <3>1. CASE s = {}
        BY <2>1, <3>1
      <3>2. CASE s # {}
        <4>1. PICK c : c = CHOOSE x \in s : TRUE
          OBVIOUS
        <4>2. fold[s] = Amount(p, c, side) + fold[s \ {c}]
          BY <2>1, <3>2, <4>1
        <4>3. First(s) = c /\ f[First(s)] = Amount(p, c, side)
          BY <1>5, <3>2, <4>1
        <4>4. QED
          BY <3>2, <4>2, <4>3
      <3>3. QED
        BY <3>1, <3>2
    <2>3. QED
      BY <2>2 DEF AddsUp
  <1>9. fold[S] = h[S]
    <2> HIDE DEF S, f, fold
    <2>1. QED
      BY <1>2, <1>4, <1>8, SumUnique DEF Sums
  <1>10. SumOver(f, S) = h[S]
    <2> HIDE DEF S, f
    <2>1. QED
      BY <1>2, <1>3, <1>4, SumValue
  <1>11. QED
    BY <1>1, <1>9, <1>10

LEMMA LastBlock ==
  ASSUME NEW f \in [Block -> Int], NEW a \in Block, NEW n \in Block, a <= n
  PROVE  SumOver(f, a .. n) = f[n] + SumOver(f, a .. (n - 1))
  <1>1. a \in Nat \ {0} /\ n \in Nat \ {0} /\ MaxBlock \in Nat /\ n <= MaxBlock
    BY ScanAssumption DEF Block
  <1>2. PICK S : S = a .. n
    OBVIOUS
  <1>3. S \in SUBSET Block /\ n \in S /\ S \ {n} = a .. (n - 1)
    BY <1>1, <1>2 DEF Block
  <1>4. IsFiniteSet(S)
    BY <1>1, <1>2, FS_Interval
  <1>5. SumOver(f, S) = f[n] + SumOver(f, S \ {n})
    BY <1>3, <1>4, SumWithout
  <1>6. QED
    BY <1>2, <1>3, <1>5

\* Mints less burns of the blocks a to c are what the position grew by.
LEMMA Telescope ==
  ASSUME Shape, NEW p \in Position, NEW a \in Block, NEW c \in (a - 1) .. MaxBlock
  PROVE  SumOver(Flow(p, "in"), a .. c) - SumOver(Flow(p, "out"), a .. c) = held[c][p] - held[a - 1][p]
  <1> DEFINE i == Flow(p, "in")
             o == Flow(p, "out")
             T == {n \in Nat : n \in (a - 1) .. MaxBlock
                               /\ SumOver(i, a .. n) - SumOver(o, a .. n) # held[n][p] - held[a - 1][p]}
  <1>0. MaxBlock \in Nat /\ a \in Nat \ {0} /\ a <= MaxBlock
    BY ScanAssumption DEF Block
  <1> SUFFICES ASSUME T # {} PROVE FALSE
    BY <1>0
  <1>1. PICK n \in T : \A m \in T : n <= m
    <2>1. T \in SUBSET Nat
      OBVIOUS
    <2> HIDE DEF T
    <2>2. QED
      BY <2>1, LeastNumber
  <1>2. /\ n \in (a - 1) .. MaxBlock
        /\ SumOver(i, a .. n) - SumOver(o, a .. n) # held[n][p] - held[a - 1][p]
    BY <1>1
  <1>3. i \in [Block -> Int] /\ o \in [Block -> Int]
    BY FlowType DEF Side
  <1>4. \A m \in (a - 1) .. MaxBlock : held[m][p] \in Int
    <2>1. \A m \in (a - 1) .. MaxBlock : m \in 0 .. MaxBlock
      BY <1>0
    <2>2. QED
      BY <2>1, ScanAssumption DEF Shape, Liquidity
  <1>5. ASSUME NEW m \in (a - 1) .. MaxBlock
        PROVE  a .. m \in SUBSET Block /\ IsFiniteSet(a .. m)
    <2>1. a .. m \in SUBSET Block
      BY <1>0 DEF Block
    <2>2. a \in Int /\ m \in Int
      BY <1>0
    <2>3. QED
      BY <2>1, <2>2, FS_Interval
  <1> HIDE DEF i, o
  <1>6. CASE n = a - 1
    <2>1. a .. n = {}
      BY <1>0, <1>6
    <2>2. {} \in SUBSET Block /\ IsFiniteSet({})
      BY FS_EmptySet
    <2>3. SumOver(i, {}) = 0 /\ SumOver(o, {}) = 0
      BY <1>3, <2>2, SumSteps DEF TakesFirst
    <2>4. held[a - 1][p] \in Int
      BY <1>2, <1>4, <1>6
    <2>5. SumOver(i, a .. n) = 0 /\ SumOver(o, a .. n) = 0
      BY <2>1, <2>3
    <2>6. SumOver(i, a .. n) - SumOver(o, a .. n) = 0 /\ held[n][p] - held[a - 1][p] = 0
      BY <1>6, <2>4, <2>5
    <2>7. QED
      BY <1>2, <2>6
  <1>7. CASE n # a - 1
    <2>1. n \in a .. n /\ n - 1 \in (a - 1) .. MaxBlock /\ n - 1 \in Nat /\ n \in Block
      BY <1>0, <1>2, <1>7 DEF Block
    <2>2. (a .. n) \ {n} = a .. (n - 1)
      BY <1>0, <2>1
    <2>3. SumOver(i, a .. n) = i[n] + SumOver(i, a .. (n - 1))
      <3>1. n \in Block /\ a <= n
        BY <1>0, <2>1
      <3>2. QED
        BY <1>3, <3>1, LastBlock
    <2>4. SumOver(o, a .. n) = o[n] + SumOver(o, a .. (n - 1))
      <3>1. n \in Block /\ a <= n
        BY <1>0, <2>1
      <3>2. QED
        BY <1>3, <3>1, LastBlock
    <2>5. SumOver(i, a .. (n - 1)) \in Int /\ SumOver(o, a .. (n - 1)) \in Int
      BY <1>3, <1>5, <2>1, SumSteps
    <2>6. SumOver(i, a .. (n - 1)) - SumOver(o, a .. (n - 1)) = held[n - 1][p] - held[a - 1][p]
      <3>1. n - 1 \notin T
        <4>1. ~(n <= n - 1)
          BY <2>1
        <4> HIDE DEF T
        <4>2. QED
          BY <1>1, <4>1
      <3>2. QED
        BY <2>1, <3>1
    <2>7. held[n][p] \in Int /\ held[n - 1][p] \in Int /\ held[a - 1][p] \in Int
      <3>1. a - 1 \in (a - 1) .. MaxBlock
        BY <1>0
      <3>2. QED
        BY <1>2, <1>4, <2>1, <3>1
    <2>8. i[n] - o[n] = held[n][p] - held[n - 1][p] /\ i[n] \in Int /\ o[n] \in Int
      <3>1. i[n] = Positive(Delta(p, n)) /\ o[n] = Positive(- Delta(p, n))
        BY <2>1 DEF i, o, Flow, Amount
      <3>2. Delta(p, n) \in Int /\ Delta(p, n) = held[n][p] - held[n - 1][p]
        BY <2>1, DeltaType DEF Delta
      <3>3. QED
        BY <2>7, <3>1, <3>2 DEF Positive
    <2>9. PICK x \in Int, y \in Int : x = SumOver(i, a .. (n - 1)) /\ y = SumOver(o, a .. (n - 1))
      BY <2>5
    <2>10. SumOver(i, a .. n) = i[n] + x /\ SumOver(o, a .. n) = o[n] + y
      BY <2>3, <2>4, <2>9
    <2>11. x - y = held[n - 1][p] - held[a - 1][p]
      BY <2>6, <2>9
    <2>12. (i[n] + x) - (o[n] + y) = held[n][p] - held[a - 1][p]
      <3>1. PICK q \in Int, r \in Int : q = i[n] /\ r = o[n]
        BY <2>8
      <3>2. PICK u \in Int, v \in Int, w \in Int :
              u = held[n][p] /\ v = held[n - 1][p] /\ w = held[a - 1][p]
        BY <2>7
      <3>3. q - r = u - v
        BY <2>8, <3>1, <3>2
      <3>4. x - y = v - w
        BY <2>11, <3>2
      <3>5. (q + x) - (r + y) = u - w
        BY <3>3, <3>4
      <3>6. QED
        BY <3>1, <3>2, <3>5
    <2>13. QED
      BY <1>2, <2>10, <2>12
  <1>8. QED
    BY <1>6, <1>7

-----------------------------------------------------------------------------
(* What the direct path makes of a window that begins where the entry ends. *)

\* The scan reads the blocks from a on and the entry is what p held before a.
Adjoining(p, a) ==
  /\ a \in Block /\ a <= job.to /\ job.to <= MaxBlock
  /\ Window = a .. job.to
  /\ row.keys[p] = held[a - 1][p]

LEMMA HeldType ==
  ASSUME Shape, NEW p \in Position, NEW b \in 0 .. MaxBlock
  PROVE  held[b][p] \in Nat
  <1>1. held[b][p] \in Liquidity
    BY DEF Shape
  <1>2. QED
    BY <1>1, ScanAssumption DEF Liquidity

LEMMA MintsAndBurnsExact ==
  ASSUME Shape, NEW p \in Position, NEW a, Adjoining(p, a)
  PROVE  AfterMintsAndBurns(p, {}) = held[job.to][p]
  <1>1. /\ a \in Block /\ job.to \in (a - 1) .. MaxBlock /\ job.to \in 0 .. MaxBlock
        /\ a - 1 \in 0 .. MaxBlock
    BY ScanAssumption DEF Adjoining, Block, Shape
  <1>2. Logs("in", {}) = a .. job.to /\ Logs("out", {}) = a .. job.to
    BY DEF Logs, Adjoining
  <1>3. /\ Total(p, "in", {}) = SumOver(Flow(p, "in"), a .. job.to)
        /\ Total(p, "out", {}) = SumOver(Flow(p, "out"), a .. job.to)
    BY <1>2, TotalIsSum DEF Side
  <1>4. Total(p, "in", {}) - Total(p, "out", {}) = held[job.to][p] - held[a - 1][p]
    BY <1>1, <1>3, Telescope
  <1>5. Total(p, "in", {}) \in Int /\ Total(p, "out", {}) \in Int
    <2>1. a .. job.to \in SUBSET Block /\ IsFiniteSet(a .. job.to)
      <3>1. a \in Int /\ job.to \in Int
        BY <1>1 DEF Block
      <3>2. a .. job.to \in SUBSET Block
        BY <1>1, ScanAssumption DEF Block
      <3>3. QED
        BY <3>1, <3>2, FS_Interval
    <2>2. PICK S : S = a .. job.to
      OBVIOUS
    <2>3. SumOver(Flow(p, "in"), S) \in Int /\ SumOver(Flow(p, "out"), S) \in Int
      <3>1. S \in SUBSET Block /\ IsFiniteSet(S)
        BY <2>1, <2>2
      <3>2. Flow(p, "in") \in [Block -> Int] /\ Flow(p, "out") \in [Block -> Int]
        BY FlowType DEF Side
      <3>3. QED
        BY <3>1, <3>2, SumSteps
    <2>4. QED
      BY <1>3, <2>2, <2>3
  <1>6. held[job.to][p] \in Nat /\ held[a - 1][p] \in Nat
    BY <1>1, HeldType
  <1>7. row.keys[p] = held[a - 1][p]
    BY DEF Adjoining
  <1>8. PICK x \in Int, y \in Int : x = Total(p, "in", {}) /\ y = Total(p, "out", {})
    BY <1>5
  <1>9. PICK k \in Nat, u \in Nat : k = row.keys[p] /\ u = held[job.to][p]
    BY <1>6, <1>7
  <1>10. k + x - y = u
    BY <1>4, <1>6, <1>7, <1>8, <1>9
  <1>11. AfterMintsAndBurns(p, {}) = Positive(k + x - y)
    BY <1>8, <1>9 DEF AfterMintsAndBurns
  <1>12. QED
    BY <1>9, <1>10, <1>11 DEF Positive

LEMMA TransfersExact ==
  ASSUME Shape, NEW p \in Position, NEW a, Adjoining(p, a)
  PROVE  AfterTransfers(p, {}) = held[job.to][p]
  <1> DEFINE Replays(g) == g = [b \in 0 .. MaxBlock |->
                 IF b = 0 THEN row.keys[p]
                 ELSE IF b \in Logs("in", {}) THEN Positive(g[b - 1] + Delta(p, b))
                 ELSE g[b - 1]]
             after == CHOOSE g : Replays(g)
             true(b) == IF b < a THEN held[a - 1][p]
                        ELSE IF b <= job.to THEN held[b][p] ELSE held[job.to][p]
             w == [b \in 0 .. MaxBlock |-> true(b)]
  <1>1. /\ a \in Nat \ {0} /\ job.to \in Nat /\ a <= job.to /\ job.to <= MaxBlock
        /\ MaxBlock \in Nat /\ Logs("in", {}) = a .. job.to
    BY ScanAssumption DEF Adjoining, Block, Shape, Logs
  <1>2. AfterTransfers(p, {}) = after[job.to]
    BY Zenon DEF AfterTransfers
  <1>3. \A b \in 0 .. MaxBlock : held[b][p] \in Nat
    BY HeldType
  <1>4. row.keys[p] = held[a - 1][p]
    BY DEF Adjoining
  <1>5. ASSUME NEW b \in 0 .. MaxBlock
        PROVE  true(b) = IF b = 0 THEN row.keys[p]
                 ELSE IF b \in Logs("in", {}) THEN Positive(true(b - 1) + Delta(p, b))
                 ELSE true(b - 1)
    <2>1. CASE b < a
      BY <1>1, <1>4, <2>1
    <2>2. CASE b \in a .. job.to
      <3>1. b - 1 \in 0 .. MaxBlock /\ b # 0
        BY <1>1, <2>2
      <3>2. true(b) = held[b][p] /\ true(b - 1) = held[b - 1][p]
        BY <1>1, <2>2
      <3>3. PICK u \in Nat, v \in Nat : u = held[b][p] /\ v = held[b - 1][p]
        BY <1>3, <3>1
      <3>4. Delta(p, b) = u - v
        BY <3>3 DEF Delta
      <3>5. Positive(v + (u - v)) = u
        BY DEF Positive
      <3> HIDE DEF true
      <3>6. QED
        BY <1>1, <2>2, <3>1, <3>2, <3>3, <3>4, <3>5
    <2>3. CASE b > job.to
      BY <1>1, <2>3
    <2>4. QED
      BY <1>1, <2>1, <2>2, <2>3
  <1>6. Replays(w)
    <2>1. \A b \in 0 .. MaxBlock : w[b] = true(b) /\ (b # 0 => w[b - 1] = true(b - 1))
      BY <1>1
    <2>2. w = [b \in 0 .. MaxBlock |-> w[b]]
      OBVIOUS
    <2> HIDE DEF w, true
    <2>3. \A b \in 0 .. MaxBlock :
            w[b] = IF b = 0 THEN row.keys[p]
                   ELSE IF b \in Logs("in", {}) THEN Positive(w[b - 1] + Delta(p, b))
                   ELSE w[b - 1]
      BY <1>5, <2>1
    <2>4. QED
      BY <2>2, <2>3
  <1>7. Replays(after)
    <2> HIDE DEF Replays, w
    <2>1. QED
      BY <1>6
  <1>8. ASSUME NEW b \in 0 .. MaxBlock PROVE after[b] = w[b]
    <2> DEFINE T == {n \in Nat : n \in 0 .. MaxBlock /\ after[n] # w[n]}
    <2> HIDE DEF after, w
    <2> SUFFICES ASSUME T # {} PROVE FALSE
      OBVIOUS
    <2>1. PICK n \in T : \A m \in T : n <= m
      <3>1. T \in SUBSET Nat
        OBVIOUS
      <3> HIDE DEF T
      <3>2. QED
        BY <3>1, LeastNumber
    <2>2. n \in 0 .. MaxBlock /\ after[n] # w[n]
      BY <2>1
    <2>3. CASE n = 0
      BY <1>6, <1>7, <2>2, <2>3
    <2>4. CASE n # 0
      <3>1. n - 1 \in 0 .. MaxBlock /\ n - 1 \in Nat /\ ~(n <= n - 1)
        BY <1>1, <2>2, <2>4
      <3>2. n - 1 \notin T
        <4> HIDE DEF T
        <4>1. QED
          BY <2>1, <3>1
      <3>3. after[n - 1] = w[n - 1]
        BY <3>1, <3>2
      <3>4. PICK m : m = n - 1
        OBVIOUS
      <3>5. after[n] = IF n \in Logs("in", {}) THEN Positive(after[m] + Delta(p, n)) ELSE after[m]
        BY <1>7, <2>2, <2>4, <3>4
      <3>6. w[n] = IF n \in Logs("in", {}) THEN Positive(w[m] + Delta(p, n)) ELSE w[m]
        BY <1>6, <2>2, <2>4, <3>4
      <3>7. QED
        BY <2>2, <3>3, <3>4, <3>5, <3>6
    <2>5. QED
      BY <2>3, <2>4
  <1>9. w[job.to] = held[job.to][p]
    BY <1>1
  <1>10. job.to \in 0 .. MaxBlock
    BY <1>1
  <1>11. QED
    BY <1>2, <1>8, <1>9, <1>10

-----------------------------------------------------------------------------
(* The map of the direct path.                                             *)

\* While no log is lost: a row ends with a block that was read, an entry that
\* was never made is empty, and the first window begins within the chain.
Unmanaged == setting.kind # "nft" /\ "chunk" \notin setting.faults

DirectGoal ==
  /\ job.pc \in {"idle", "direct"}
  /\ \A p \in Position : held[0][p] = 0
  /\ ~row.built => row.from = 0 /\ row.to = 0 /\ \A p \in Position :
       row.keys[p] = 0 /\ \A b \in Block : reads[p][b] = 0
  /\ row.built => row.from >= 0 /\ row.to \in Block /\ row.from <= row.to
       /\ \A p \in Position : reads[p][row.to] # 0
  /\ job.pc = "direct" =>
       job.to \in Block /\ job.from <= job.to /\ (~row.built => job.from >= 0)

DirectInv == Unmanaged => DirectGoal /\ head \in Block

\* Exactly the claim of DirectExact about one position.
ReadOnce(p) ==
  /\ row.from > 0 => held[row.from - 1][p] = 0
  /\ \A b \in Block \cap (row.from .. row.to) : reads[p][b] = 1

\* A saved window whose blocks have now been read once adjoins the entry.
LEMMA SavedOnce ==
  ASSUME Shape, Unread, DirectGoal, DirectExact, Unmanaged, SaveKeys({}),
         NEW p \in Position, ReadOnce(p)'
  PROVE  \E a : Adjoining(p, a)
  <1>1. /\ row'.to = job.to /\ row'.from = (IF row.built THEN row.from ELSE job.from)
        /\ held' = held /\ job.pc = "direct"
        /\ \A b \in Block : reads'[p][b] = IF b \in Window THEN Again(reads[p][b]) ELSE reads[p][b]
    BY DEF SaveKeys, Save, chainVars, Read, Logs
  <1>2. /\ job.to \in Block /\ job.from <= job.to /\ job.from \in Int /\ row.to \in Nat
        /\ row.from \in Int /\ MaxBlock \in Nat /\ row.to <= job.to
    BY <1>1, ScanAssumption DEF DirectGoal, Shape
  <1>3. \A b \in Block \cap (row'.from .. job.to) : reads'[p][b] = 1
    BY <1>1 DEF ReadOnce
  <1>4. CASE ~row.built
    <2>1. job.from >= 0 /\ row'.from = job.from /\ row.keys[p] = 0
      BY <1>1, <1>4 DEF DirectGoal
    <2>2. CASE job.from = 0
      <3>1. 1 \in Block /\ 1 <= job.to /\ job.to <= MaxBlock
        BY <1>2 DEF Block
      <3>2. Window = 1 .. job.to
        BY <1>2, <2>2 DEF Window, Block
      <3>3. held[1 - 1][p] = 0
        BY DEF DirectGoal
      <3>4. Adjoining(p, 1)
        BY <2>1, <3>1, <3>2, <3>3 DEF Adjoining
      <3>5. QED
        BY <3>4
    <2>3. CASE job.from > 0
      <3>1. job.from \in Block /\ job.to <= MaxBlock
        BY <1>2, <2>3 DEF Block
      <3>2. Window = job.from .. job.to
        BY <1>2, <2>3 DEF Window, Block
      <3>3. held[job.from - 1][p] = 0
        BY <1>1, <2>1, <2>3 DEF ReadOnce
      <3>4. Adjoining(p, job.from)
        BY <1>2, <2>1, <3>1, <3>2, <3>3 DEF Adjoining
      <3>5. QED
        BY <3>4
    <2>4. QED
      BY <1>2, <2>1, <2>2, <2>3
  <1>5. CASE row.built
    <2>1. /\ row'.from = row.from /\ row.from >= 0 /\ row.to \in Block
          /\ row.from <= row.to /\ reads[p][row.to] # 0
      BY <1>1, <1>5 DEF DirectGoal
    <2>2. row.to < job.from
      <3>1. row.to \in Block \cap (row'.from .. job.to)
        BY <1>2, <2>1 DEF Block
      <3>2. reads'[p][row.to] = 1
        BY <1>3, <3>1
      <3>3. row.to \notin Window
        BY <1>1, <2>1, <3>2 DEF Again
      <3>4. QED
        BY <1>2, <2>1, <3>3 DEF Window, Block
    <2>3. job.from = row.to + 1
      <3>1. SUFFICES ASSUME row.to + 1 < job.from PROVE FALSE
        BY <1>2, <2>2
      <3>2. row.to + 1 \in Block \cap (row'.from .. job.to)
        BY <1>2, <2>1, <3>1 DEF Block
      <3>3. row.to + 1 \notin Window
        BY <1>2, <3>1 DEF Window
      <3>4. reads[p][row.to + 1] = 0
        BY <1>2, <3>2 DEF Unread
      <3>5. QED
        BY <1>1, <1>3, <3>2, <3>3, <3>4
    <2>4. ReadOnce(p)
      <3>1. row.from > 0 => held[row.from - 1][p] = 0
        BY <1>1, <2>1 DEF ReadOnce
      <3>2. ASSUME NEW b \in Block \cap (row.from .. row.to) PROVE reads[p][b] = 1
        <4>1. b \in Block \cap (row'.from .. job.to) /\ b \notin Window
          BY <1>2, <2>1, <2>2 DEF Block, Window
        <4>2. QED
          BY <1>1, <1>3, <4>1
      <3>3. QED
        BY <3>1, <3>2 DEF ReadOnce
    <2>5. row.keys[p] = held[row.to][p]
      BY <2>4 DEF DirectExact, ReadOnce, Unmanaged
    <2>6. job.from - 1 = row.to /\ job.from \in Block /\ job.to <= MaxBlock
      BY <1>2, <2>1, <2>3 DEF Block
    <2>7. Window = job.from .. job.to
      BY <1>2, <2>6 DEF Window, Block
    <2>8. Adjoining(p, job.from)
      BY <1>2, <2>5, <2>6, <2>7 DEF Adjoining
    <2>9. QED
      BY <2>8
  <1>6. QED
    BY <1>4, <1>5 DEF Shape

LEMMA DirectExactStep ==
  Shape /\ Unread /\ DirectInv /\ DirectExact /\ [Next]_vars => DirectExact'
  <1> SUFFICES ASSUME Shape, Unread, DirectInv, DirectExact, [Next]_vars, Unmanaged',
                      NEW p \in Position, ReadOnce(p)'
               PROVE  row'.keys[p] = held'[row'.to][p]
    BY DEF DirectExact, Unmanaged, ReadOnce
  <1>0. setting' = setting /\ Unmanaged /\ DirectGoal
    BY DEF Next, Mine, Start, Collect, SaveKeys, Fetch, FetchFails, SaveTokens, FallBack,
           Abandon, Save, vars, chainVars, Unmanaged, DirectInv
  <1>1. ASSUME NEW next \in [Position -> Liquidity], Mine(next)
        PROVE  row'.keys[p] = held'[row'.to][p]
    <2>1. row' = row /\ reads' = reads /\ row.to \in 0 .. head /\ head \in Nat /\ row.from \in Int
      BY <1>1, ScanAssumption DEF Mine, Shape
    <2>2. held'[row.to] = held[row.to]
      BY <1>1, <2>1, OldBlocks
    <2>3. row.from > 0 => held'[row.from - 1] = held[row.from - 1]
      <3>1. SUFFICES ASSUME row.from > 0 PROVE row.from - 1 \in 0 .. head
        BY <1>1, OldBlocks
      <3>2. CASE row.built
        BY <1>0, <2>1, <3>1, <3>2 DEF DirectGoal
      <3>3. CASE ~row.built
        BY <1>0, <2>1, <3>1, <3>3 DEF DirectGoal
      <3>4. QED
        BY <3>2, <3>3 DEF Shape
    <2>4. ReadOnce(p)
      BY <2>1, <2>3 DEF ReadOnce
    <2>5. QED
      BY <1>0, <2>1, <2>2, <2>4 DEF DirectExact, Unmanaged, ReadOnce
  <1>2. ASSUME NEW lost \in Losses, SaveKeys(lost) PROVE row'.keys[p] = held'[row'.to][p]
    <2>1. lost = {}
      BY <1>0 DEF Losses, Unmanaged
    <2>2. SaveKeys({})
      BY <1>2, <2>1
    <2>3. PICK a : Adjoining(p, a)
      BY <1>0, <2>2, SavedOnce
    <2>4. row'.to = job.to /\ held' = held
          /\ row'.keys[p] = IF setting.kind = "v2" THEN AfterTransfers(p, {})
                                                   ELSE AfterMintsAndBurns(p, {})
      BY <2>2 DEF SaveKeys, Save, chainVars
    <2>5. QED
      BY <2>3, <2>4, MintsAndBurnsExact, TransfersExact
  <1>3. ASSUME SaveTokens PROVE FALSE
    BY <1>0, <1>3 DEF SaveTokens, DirectGoal
  <1>4. CASE UNCHANGED <<held, row, reads>>
    <2>1. ReadOnce(p)
      BY <1>4 DEF ReadOnce
    <2>2. QED
      BY <1>0, <1>4, <2>1 DEF DirectExact, Unmanaged, ReadOnce
  <1>5. QED
    BY <1>1, <1>2, <1>3, <1>4 DEF Next, Start, Collect, Fetch, FetchFails, FallBack, Abandon,
                                  vars, chainVars

LEMMA DirectInvStep == Shape /\ DirectInv /\ [Next]_vars => DirectInv'
  <1> SUFFICES ASSUME Shape, DirectInv, [Next]_vars, Unmanaged'
               PROVE  DirectGoal' /\ head' \in Block
    BY DEF DirectInv
  <1>0. setting' = setting /\ Unmanaged /\ DirectGoal /\ head \in Block
    BY DEF Next, Mine, Start, Collect, SaveKeys, Fetch, FetchFails, SaveTokens, FallBack,
           Abandon, Save, vars, chainVars, Unmanaged, DirectInv
  <1>00. MaxBlock \in Nat /\ head \in Nat /\ head >= 1
    BY <1>0, ScanAssumption DEF Block
  <1>1. ASSUME NEW next \in [Position -> Liquidity], Mine(next) PROVE DirectGoal' /\ head' \in Block
    <2>1. row' = row /\ reads' = reads /\ job' = job /\ head' = head + 1 /\ head < MaxBlock
      BY <1>1 DEF Mine
    <2>2. held'[0] = held[0]
      BY <1>1, <1>00, OldBlocks
    <2>3. head' \in Block
      BY <1>00, <2>1 DEF Block
    <2>4. QED
      BY <1>0, <2>1, <2>2, <2>3 DEF DirectGoal
  <1>2. ASSUME NEW mode \in {"full", "quick"}, Start(mode) PROVE DirectGoal' /\ head' \in Block
    <2> DEFINE m == IF row.built THEN mode ELSE "full"
    <2>1. /\ job'.pc = "direct" /\ job'.from = FromBlock(m) /\ job'.to = head
          /\ UNCHANGED <<row, reads, head, held>>
      BY <1>0, <1>2 DEF Start, Idle, chainVars, Unmanaged
    <2>2. row.to \in 0 .. head /\ {QuickRange, FullRange} \subseteq Nat
      BY ScanAssumption DEF Shape
    <2>3. FromBlock(m) <= head
      BY <1>00, <2>2 DEF FromBlock, Positive
    <2>4. ~row.built => FromBlock(m) >= 0
      BY <1>00, <2>2 DEF FromBlock, Positive
    <2> HIDE DEF m
    <2>5. QED
      BY <1>0, <2>1, <2>3, <2>4 DEF DirectGoal
  <1>3. ASSUME NEW lost \in Losses, SaveKeys(lost) PROVE DirectGoal' /\ head' \in Block
    <2>1. lost = {} /\ Read({}) = Window
      BY <1>0 DEF Losses, Unmanaged, Read, Logs
    <2>2. /\ row'.built = TRUE /\ row'.to = job.to /\ job' = Idle /\ UNCHANGED <<head, held>>
          /\ row'.from = (IF row.built THEN row.from ELSE job.from) /\ job.pc = "direct"
          /\ \A p \in Position, b \in Block :
               reads'[p][b] = IF b \in Window THEN Again(reads[p][b]) ELSE reads[p][b]
      BY <1>3, <2>1 DEF SaveKeys, Save, chainVars
    <2>3. job.to \in Block /\ job.from <= job.to /\ job.from \in Int /\ row.to <= job.to
          /\ row.to \in Nat /\ row.from \in Int /\ job.to \in Nat
      BY <1>0, <2>2, ScanAssumption DEF DirectGoal, Shape
    <2>4. job.to \in Window
      BY <2>3 DEF Window
    <2>5. \A p \in Position : reads'[p][job.to] # 0
      BY <2>2, <2>3, <2>4 DEF Again
    <2>6. row'.from >= 0 /\ row'.from <= job.to
      <3>1. CASE row.built
        BY <1>0, <2>2, <2>3, <3>1 DEF DirectGoal
      <3>2. CASE ~row.built
        BY <1>0, <2>2, <2>3, <3>2 DEF DirectGoal
      <3>3. QED
        BY <3>1, <3>2
    <2>7. job'.pc = "idle"
      BY <2>2 DEF Idle
    <2>8. QED
      BY <1>0, <2>2, <2>3, <2>5, <2>6, <2>7 DEF DirectGoal
  <1>4. CASE Abandon
    <2>1. job'.pc = "idle" /\ UNCHANGED <<row, reads, head, held>>
      BY <1>4 DEF Abandon, Idle, chainVars
    <2>2. QED
      BY <1>0, <2>1 DEF DirectGoal
  <1>5. ASSUME \/ \E lost \in Losses : Collect(lost)
               \/ \E p \in Position : Fetch(p) \/ FetchFails(p)
               \/ SaveTokens
        PROVE  FALSE
    BY <1>0, <1>5 DEF Collect, Fetch, FetchFails, SaveTokens, DirectGoal
  <1>6. ASSUME FallBack PROVE FALSE
    BY <1>0, <1>6 DEF FallBack, DirectGoal
  <1>7. CASE UNCHANGED vars
    BY <1>0, <1>7 DEF vars, DirectGoal
  <1>8. QED
    BY <1>1, <1>2, <1>3, <1>4, <1>5, <1>6, <1>7 DEF Next

\* For every chain and every overlap and gap of the windows: an entry made of
\* sums of mints and burns, or of replayed transfers, is what the position
\* held at scanToBlock, if each block since it was empty was read once.
THEOREM DirectMapIsExact == Spec => []DirectExact
  <1> DEFINE IInv == Shape /\ Unread /\ DirectInv /\ DirectExact
  <1>1. Init => IInv
    <2> SUFFICES ASSUME Init PROVE IInv
      OBVIOUS
    <2>1. Shape /\ Unread
      BY ShapeInit DEF Init, Unread
    <2>2. /\ row.to = 0 /\ row.from = 0 /\ row.built = FALSE /\ head = 1 /\ job.pc = "idle"
          /\ \A p \in Position : row.keys[p] = 0 /\ held[0][p] = 0
          /\ \A p \in Position, b \in Block : reads[p][b] = 0
      BY ScanAssumption DEF Init, Nothing, Idle
    <2>3. DirectInv
      BY <2>2, ScanAssumption DEF DirectInv, DirectGoal, Block
    <2>4. DirectExact
      BY <2>2 DEF DirectExact
    <2>5. QED
      BY <2>1, <2>3, <2>4
  <1>2. IInv /\ [Next]_vars => IInv'
    BY ShapeStep, UnreadStep, DirectInvStep, DirectExactStep
  <1>3. IInv => DirectExact
    OBVIOUS
  <1>4. QED
    BY <1>1, <1>2, <1>3, PTL DEF Spec

\* Whichever way a pool is read, its map says what the pool holds.
THEOREM MapsAreExact == Spec => []MapExact
  BY NftMapIsExact, DirectMapIsExact, PTL DEF MapExact

-----------------------------------------------------------------------------
(* Quotients.                                                              *)

LEMMA Larges == \A a, b, c \in Nat : a <= b => a * c <= b * c
  OBVIOUS

LEMMA ProductIn == \A a, b \in Nat : a * b \in Nat
  OBVIOUS

LEMMA DivDown ==
  ASSUME NEW a \in Nat, NEW b \in Nat \ {0}
  PROVE  a \div b \in Nat /\ b * (a \div b) <= a /\ a < b * (a \div b) + b
  OBVIOUS

LEMMA DivUpBounds ==
  ASSUME NEW a \in Nat, NEW b \in Nat \ {0}
  PROVE  DivUp(a, b) \in Nat /\ a <= b * DivUp(a, b)
  <1>1. a = b * (a \div b) + (a % b) /\ a % b \in 0 .. b - 1 /\ a \div b \in Nat
    OBVIOUS
  <1>2. PICK q \in Nat, r \in Nat : q = a \div b /\ r = a % b
    BY <1>1
  <1>3. a = b * q + r /\ r <= b
    BY <1>1, <1>2
  <1>4. b * (q + 1) = b * q + b
    OBVIOUS
  <1>5. DivUp(a, b) = IF r = 0 THEN q ELSE q + 1
    BY <1>2 DEF DivUp
  <1>6. QED
    BY <1>3, <1>4, <1>5

\* The least number whose product with b is not below a.
LEMMA DivUpLeast ==
  ASSUME NEW a \in Nat, NEW b \in Nat \ {0}, NEW c \in Nat, a <= b * c
  PROVE  DivUp(a, b) <= c
  <1>1. a = b * (a \div b) + (a % b) /\ a % b \in 0 .. b - 1 /\ a \div b \in Nat
    OBVIOUS
  <1>2. PICK q \in Nat, r \in Nat : q = a \div b /\ r = a % b
    BY <1>1
  <1>3. a = b * q + r /\ r < b
    BY <1>1, <1>2
  <1>5. DivUp(a, b) = IF r = 0 THEN q ELSE q + 1
    BY <1>2 DEF DivUp
  <1>6. CASE c < q
    <2>1. b * (c + 1) <= b * q
      BY <1>6
    <2>2. b * (c + 1) = b * c + b
      OBVIOUS
    <2>3. QED
      BY <1>3, <2>1, <2>2
  <1>7. CASE c = q
    BY <1>3, <1>5, <1>7
  <1>8. CASE c > q
    BY <1>5, <1>8
  <1>9. QED
    BY <1>6, <1>7, <1>8

-----------------------------------------------------------------------------
(* One step of a swap.                                                     *)

\* What a step may take and give: x is paid and y received between the prices
\* low and high, at a liquidity l.
PaysDown(l, q, high, low) ==
  LET in == DivUp(DivUp(l * q * (high - low), high), low)
      out == (l * (high - low)) \div q
  IN  /\ in \in Nat /\ out \in Nat
      /\ out * (q * q) <= in * (high * high)
      /\ \A a \in Nat : l * q * (high - low) <= a * high * low => in <= a

LEMMA PaidDown ==
  ASSUME NEW l \in Nat \ {0}, NEW q \in Nat \ {0}, NEW high \in Nat \ {0},
         NEW low \in Nat \ {0}, low <= high
  PROVE  PaysDown(l, q, high, low)
  <1> DEFINE part == l * q * (high - low)
             x == DivUp(part, high)
             in == DivUp(x, low)
             out == (l * (high - low)) \div q
  <1>1. PICK d \in Nat : d = high - low
    OBVIOUS
  <1>2. PICK m \in Nat : m = l * d
    OBVIOUS
  <1>3. part = q * m /\ part \in Nat
    BY <1>1, <1>2
  <1>4. x \in Nat /\ part <= high * x
    <2> HIDE DEF part
    <2>1. QED
      BY <1>3, DivUpBounds
  <1>5. in \in Nat /\ x <= low * in
    <2> HIDE DEF x
    <2>1. QED
      BY <1>4, DivUpBounds
  <1>6. out = m \div q
    BY <1>1, <1>2
  <1>7. out \in Nat /\ q * out <= m
    <2> HIDE DEF out
    <2>1. QED
      BY <1>6, DivDown
  <1> HIDE DEF in, x, out, part
  <1>8. out * (q * q) <= q * m
    <2>1. q * (q * out) <= q * m
      BY <1>7, ProductIn
    <2>2. q * (q * out) = out * (q * q)
      BY <1>7
    <2>3. QED
      BY <2>1, <2>2
  <1>9. q * m <= in * (high * high)
    <2>1. high * x <= high * (low * in)
      BY <1>4, <1>5, ProductIn
    <2>2. low * in <= high * in
      BY <1>5
    <2>3. high * (low * in) <= high * (high * in)
      BY <1>5, <2>2, ProductIn
    <2>4. high * (high * in) = in * (high * high)
      BY <1>5
    <2>5. PICK u \in Nat, v \in Nat, w \in Nat, z \in Nat :
            u = high * x /\ v = high * (low * in) /\ w = high * (high * in) /\ z = q * m
      BY <1>4, <1>5, ProductIn
    <2>6. QED
      BY <1>3, <1>4, <2>1, <2>3, <2>4, <2>5
  <1>10. ASSUME NEW a \in Nat, part <= a * high * low PROVE in <= a
    <2>1. PICK b \in Nat : b = a * low
      OBVIOUS
    <2>2. part <= high * b
      BY <1>10, <2>1
    <2>3. x <= b
      BY <1>3, <2>2, DivUpLeast DEF x
    <2>4. x <= low * a
      BY <2>1, <2>3
    <2>5. QED
      BY <1>4, <2>4, DivUpLeast DEF in
  <1>11. out * (q * q) <= in * (high * high)
    <2>1. out * (q * q) \in Nat /\ q * m \in Nat /\ in * (high * high) \in Nat
      BY <1>5, <1>7, ProductIn
    <2>2. QED
      BY <1>8, <1>9, <2>1
  <1>12. QED
    BY <1>5, <1>7, <1>10, <1>11 DEF PaysDown, in, out, x, part

PaysUp(l, q, high, low) ==
  LET in == DivUp(l * (high - low), q)
      out == ((l * q * (high - low)) \div high) \div low
  IN  /\ in \in Nat /\ out \in Nat
      /\ out * (low * low) <= in * (q * q)
      /\ \A a \in Nat : l * (high - low) <= a * q => in <= a

LEMMA PaidUp ==
  ASSUME NEW l \in Nat \ {0}, NEW q \in Nat \ {0}, NEW high \in Nat \ {0},
         NEW low \in Nat \ {0}, low <= high
  PROVE  PaysUp(l, q, high, low)
  <1> DEFINE part == l * q * (high - low)
             x == part \div high
             out == x \div low
             in == DivUp(l * (high - low), q)
  <1>1. PICK d \in Nat : d = high - low
    OBVIOUS
  <1>2. PICK m \in Nat : m = l * d
    OBVIOUS
  <1>3. part = q * m /\ part \in Nat /\ in = DivUp(m, q)
    BY <1>1, <1>2
  <1>4. x \in Nat /\ high * x <= part
    <2> HIDE DEF part
    <2>1. QED
      BY <1>3, DivDown
  <1>5. out \in Nat /\ low * out <= x
    <2> HIDE DEF x
    <2>1. QED
      BY <1>4, DivDown
  <1>6. in \in Nat /\ m <= q * in
    <2> HIDE DEF in
    <2>1. QED
      BY <1>3, DivUpBounds
  <1> HIDE DEF in, x, out, part
  <1>7. out * (low * low) <= q * m
    <2>1. low * (low * out) <= low * x
      BY <1>4, <1>5, ProductIn
    <2>2. low * x <= high * x
      BY <1>4
    <2>3. low * (low * out) = out * (low * low)
      BY <1>5
    <2>4. PICK u \in Nat, v \in Nat, w \in Nat, z \in Nat :
            u = low * (low * out) /\ v = low * x /\ w = high * x /\ z = q * m
      BY <1>4, <1>5, ProductIn
    <2>5. QED
      BY <1>3, <1>4, <2>1, <2>2, <2>3, <2>4
  <1>8. q * m <= in * (q * q)
    <2>1. q * m <= q * (q * in)
      BY <1>6, ProductIn
    <2>2. q * (q * in) = in * (q * q)
      BY <1>6
    <2>3. QED
      BY <2>1, <2>2
  <1>9. out * (low * low) <= in * (q * q)
    <2>1. out * (low * low) \in Nat /\ q * m \in Nat /\ in * (q * q) \in Nat
      BY <1>5, <1>6, ProductIn
    <2>2. QED
      BY <1>7, <1>8, <2>1
  <1>10. ASSUME NEW a \in Nat, l * (high - low) <= a * q PROVE in <= a
    <2>1. m <= q * a
      BY <1>1, <1>2, <1>10
    <2>2. QED
      BY <1>3, <2>1, DivUpLeast
  <1>11. QED
    BY <1>5, <1>6, <1>9, <1>10 DEF PaysUp, in, out, x, part

\* What is left of an amount when its fee is set aside, and the fee of a part.
LEMMA FeeFits ==
  ASSUME NEW r \in Nat, NEW fee \in 0 .. Pips - 1
  PROVE  LET a == (r * (Pips - fee)) \div Pips
         IN  /\ a \in Nat
             /\ \A x \in Nat : x <= a => /\ mulDivRoundingUp(x, fee, Pips - fee) \in Nat
                                         /\ x + mulDivRoundingUp(x, fee, Pips - fee) <= r
  <1>1. PICK one \in Nat \ {0} : one = Pips
    BY MathAssumption
  <1>2. PICK keep \in Nat \ {0} : keep = one - fee
    BY <1>1
  <1>3. fee \in Nat /\ one = keep + fee
    BY <1>1, <1>2
  <1>4. PICK part \in Nat : part = r * keep
    BY ProductIn
  <1>5. PICK a \in Nat : a = part \div one /\ one * a <= part
    BY DivDown
  <1>6. ASSUME NEW x \in Nat, x <= a
        PROVE  DivUp(x * fee, keep) \in Nat /\ x + DivUp(x * fee, keep) <= r
    <2>1. PICK xf \in Nat, xk \in Nat : xf = x * fee /\ xk = x * keep
      BY <1>3, ProductIn
    <2>2. one * x <= part
      BY <1>5, <1>6, Larges
    <2>3. one * x = xk + xf
      BY <1>3, <2>1
    <2>4. xk + xf <= part
      BY <2>2, <2>3
    <2>5. x <= r
      <3>1. SUFFICES ASSUME r + 1 <= x PROVE FALSE
        OBVIOUS
      <3>2. (r + 1) * keep <= x * keep
        BY <3>1, Larges
      <3>3. (r + 1) * keep = part + keep
        BY <1>4
      <3>4. QED
        BY <2>1, <2>4, <3>2, <3>3
    <2>6. PICK rest \in Nat : rest = r - x
      BY <2>5
    <2>7. keep * rest = part - xk
      <3>1. part = (x + rest) * keep
        BY <1>4, <2>6
      <3>2. (x + rest) * keep = x * keep + keep * rest
        OBVIOUS
      <3>3. QED
        BY <2>1, <3>1, <3>2
    <2>8. xf <= keep * rest
      BY <2>4, <2>7
    <2>9. DivUp(xf, keep) \in Nat /\ DivUp(xf, keep) <= rest
      BY <2>8, DivUpBounds, DivUpLeast
    <2>10. QED
      BY <2>1, <2>6, <2>9
  <1>7. QED
    BY <1>1, <1>2, <1>4, <1>5, <1>6 DEF mulDivRoundingUp

\* The price that an amount of input leads to, down and up.
LEMMA NextDown ==
  ASSUME NEW l \in Nat \ {0}, NEW q \in Nat \ {0}, NEW c \in Nat \ {0}, NEW a \in Nat
  PROVE  LET n == DivUp(l * q * c, l * q + a * c)
         IN  n \in Nat \ {0} /\ n <= c /\ l * q * (c - n) <= a * c * n
  <1>1. PICK m \in Nat \ {0} : m = l * q
    OBVIOUS
  <1>2. PICK b \in Nat : b = a * c
    BY ProductIn
  <1>3. PICK d \in Nat \ {0} : d = m + b
    BY <1>1
  <1>4. PICK part \in Nat \ {0} : part = m * c
    OBVIOUS
  <1>5. PICK n \in Nat : n = DivUp(part, d) /\ part <= d * n
    BY DivUpBounds
  <1>6. n # 0
    BY <1>4, <1>5
  <1>7. part <= d * c
    <2>1. d * c = part + b * c
      BY <1>3, <1>4
    <2>2. b * c \in Nat
      BY ProductIn
    <2>3. QED
      BY <2>1, <2>2
  <1>8. n <= c
    BY <1>5, <1>7, DivUpLeast
  <1>9. m * (c - n) <= b * n
    <2>1. PICK mn \in Nat, bn \in Nat : mn = m * n /\ bn = b * n
      BY ProductIn
    <2>2. d * n = mn + bn
      BY <1>3, <2>1
    <2>3. m * (c - n) = part - mn
      BY <1>4, <2>1
    <2>4. QED
      BY <1>5, <2>1, <2>2, <2>3
  <1>10. QED
    BY <1>1, <1>2, <1>3, <1>4, <1>5, <1>6, <1>8, <1>9

LEMMA NextUp ==
  ASSUME NEW l \in Nat \ {0}, NEW q \in Nat \ {0}, NEW c \in Nat \ {0}, NEW a \in Nat
  PROVE  LET n == c + (a * q) \div l
         IN  n \in Nat \ {0} /\ n >= c /\ l * (n - c) <= a * q
  <1>1. PICK b \in Nat : b = a * q
    BY ProductIn
  <1>2. PICK d \in Nat : d = b \div l /\ l * d <= b
    BY DivDown
  <1>3. QED
    BY <1>1, <1>2

\* A step takes no more than remains, all of it unless it reaches its target.
StepFits(step, target, remaining) ==
  /\ {step.in, step.fee, step.out} \subseteq Nat
  /\ step.in + step.fee <= remaining
  /\ step.next # target => step.in + step.fee = remaining

\* Down, it pays no more than the price it starts from.
FitsDown(step, current, target, remaining) ==
  /\ StepFits(step, target, remaining)
  /\ step.out * (Q96 * Q96) <= step.in * (current * current)

LEMMA StepDown ==
  ASSUME NEW c \in Nat \ {0}, NEW t \in Nat \ {0}, t <= c, NEW l \in Nat \ {0},
         NEW r \in Nat, NEW fee \in 0 .. Pips - 1
  PROVE  FitsDown(computeSwapStep(c, t, l, r, fee), c, t, r)
  <1> DEFINE In(p) == getAmount0Delta(p, c, l, TRUE)
             Out(p) == getAmount1Delta(p, c, l, FALSE)
             a == (r * (Pips - fee)) \div Pips
             nx == IF a >= In(t) THEN t ELSE NextFromAmount0(c, l, a)
             step == [next |-> nx, in |-> In(nx), out |-> Out(nx),
                      fee |-> IF nx # t THEN r - In(nx)
                                        ELSE mulDivRoundingUp(In(nx), fee, Pips - fee)]
  <1>1. computeSwapStep(c, t, l, r, fee) = step
    <2>1. c >= t /\ r >= 0
      OBVIOUS
    <2>2. QED
      BY <2>1 DEF computeSwapStep, getNextSqrtPriceFromInput
  <1>2. PICK q \in Nat \ {0} : q = Q96
    BY WidthAssumption
  <1>3. ASSUME NEW p \in Nat \ {0}, p <= c
        PROVE  /\ In(p) \in Nat /\ Out(p) \in Nat
               /\ Out(p) * (q * q) <= In(p) * (c * c)
               /\ \A x \in Nat : l * q * (c - p) <= x * c * p => In(p) <= x
    <2>1. Smaller(p, c) = p /\ Larger(p, c) = c
      BY <1>3 DEF Smaller, Larger
    <2>2. In(p) = DivUp(DivUp(l * q * (c - p), c), p) /\ Out(p) = (l * (c - p)) \div q
      BY <1>2, <2>1 DEF getAmount0Delta, getAmount1Delta
    <2>3. PICK x, y : /\ x = DivUp(DivUp(l * q * (c - p), c), p) /\ y = (l * (c - p)) \div q
                      /\ x \in Nat /\ y \in Nat /\ y * (q * q) <= x * (c * c)
                      /\ \A z \in Nat : l * q * (c - p) <= z * c * p => x <= z
      <3>1. PaysDown(l, q, c, p)
        BY <1>3, PaidDown
      <3>2. QED
        BY <3>1 DEF PaysDown
    <2> HIDE DEF In, Out
    <2>4. QED
      BY <2>2, <2>3
  <1>4. /\ a \in Nat
        /\ \A x \in Nat : x <= a => /\ mulDivRoundingUp(x, fee, Pips - fee) \in Nat
                                    /\ x + mulDivRoundingUp(x, fee, Pips - fee) <= r
    BY FeeFits
  <1> HIDE DEF a, In, Out
  <1>5. NextFromAmount0(c, l, a) \in Nat \ {0} /\ NextFromAmount0(c, l, a) <= c
        /\ l * q * (c - NextFromAmount0(c, l, a)) <= a * c * NextFromAmount0(c, l, a)
    <2>1. NextFromAmount0(c, l, a) = DivUp(l * q * c, l * q + a * c)
      BY <1>2 DEF NextFromAmount0, mulDivRoundingUp
    <2>2. QED
      BY <1>4, <2>1, NextDown
  <1>6. nx \in Nat \ {0} /\ nx <= c /\ In(nx) \in Nat /\ In(nx) <= a
    <2>1. CASE a >= In(t)
      BY <1>3, <2>1
    <2>2. CASE ~(a >= In(t))
      <3>1. PICK n \in Nat \ {0} : n = NextFromAmount0(c, l, a) /\ n <= c
                                   /\ l * q * (c - n) <= a * c * n
        BY <1>5
      <3>2. In(n) \in Nat /\ In(n) <= a
        BY <1>3, <1>4, <3>1
      <3>3. QED
        BY <2>2, <3>1, <3>2
    <2>3. QED
      BY <2>1, <2>2
  <1> HIDE DEF nx
  <1>7. PICK n \in Nat \ {0} : n = nx /\ n <= c
    BY <1>6
  <1>8. PICK x \in Nat, y \in Nat : x = In(n) /\ y = Out(n) /\ x <= a /\ y * (q * q) <= x * (c * c)
    BY <1>3, <1>6, <1>7
  <1>9. PICK f \in Nat : f = mulDivRoundingUp(x, fee, Pips - fee) /\ x + f <= r
    BY <1>4, <1>8
  <1>10. step = [next |-> n, in |-> x, out |-> y, fee |-> IF n # t THEN r - x ELSE f]
    BY <1>7, <1>8, <1>9
  <1> HIDE DEF step
  <1>11. StepFits(step, t, r)
    BY <1>9, <1>10 DEF StepFits
  <1>12. step.out * (Q96 * Q96) <= step.in * (c * c)
    BY <1>2, <1>8, <1>10
  <1>13. QED
    BY <1>1, <1>11, <1>12 DEF FitsDown

\* Up, it takes no less than the price it starts from.
FitsUp(step, current, target, remaining) ==
  /\ StepFits(step, target, remaining)
  /\ step.out * (current * current) <= step.in * (Q96 * Q96)

LEMMA StepUp ==
  ASSUME NEW c \in Nat \ {0}, NEW t \in Nat \ {0}, c < t, NEW l \in Nat \ {0},
         NEW r \in Nat, NEW fee \in 0 .. Pips - 1
  PROVE  FitsUp(computeSwapStep(c, t, l, r, fee), c, t, r)
  <1> DEFINE In(p) == getAmount1Delta(c, p, l, TRUE)
             Out(p) == getAmount0Delta(c, p, l, FALSE)
             a == (r * (Pips - fee)) \div Pips
             nx == IF a >= In(t) THEN t ELSE NextFromAmount1(c, l, a)
             step == [next |-> nx, in |-> In(nx), out |-> Out(nx),
                      fee |-> IF nx # t THEN r - In(nx)
                                        ELSE mulDivRoundingUp(In(nx), fee, Pips - fee)]
  <1>1. computeSwapStep(c, t, l, r, fee) = step
    <2>1. ~(c >= t) /\ r >= 0
      OBVIOUS
    <2>2. QED
      BY <2>1 DEF computeSwapStep, getNextSqrtPriceFromInput
  <1>2. PICK q \in Nat \ {0} : q = Q96
    BY WidthAssumption
  <1>3. ASSUME NEW p \in Nat \ {0}, c <= p
        PROVE  /\ In(p) \in Nat /\ Out(p) \in Nat
               /\ Out(p) * (c * c) <= In(p) * (q * q)
               /\ \A x \in Nat : l * (p - c) <= x * q => In(p) <= x
    <2>1. Smaller(c, p) = c /\ Larger(c, p) = p
      BY <1>3 DEF Smaller, Larger
    <2>2. In(p) = DivUp(l * (p - c), q) /\ Out(p) = ((l * q * (p - c)) \div p) \div c
      BY <1>2, <2>1 DEF getAmount0Delta, getAmount1Delta
    <2>3. PICK x, y : /\ x = DivUp(l * (p - c), q) /\ y = ((l * q * (p - c)) \div p) \div c
                      /\ x \in Nat /\ y \in Nat /\ y * (c * c) <= x * (q * q)
                      /\ \A z \in Nat : l * (p - c) <= z * q => x <= z
      <3>1. PaysUp(l, q, p, c)
        BY <1>3, PaidUp
      <3>2. QED
        BY <3>1 DEF PaysUp
    <2> HIDE DEF In, Out
    <2>4. QED
      BY <2>2, <2>3
  <1>4. /\ a \in Nat
        /\ \A x \in Nat : x <= a => /\ mulDivRoundingUp(x, fee, Pips - fee) \in Nat
                                    /\ x + mulDivRoundingUp(x, fee, Pips - fee) <= r
    BY FeeFits
  <1> HIDE DEF a, In, Out
  <1>5. NextFromAmount1(c, l, a) \in Nat \ {0} /\ NextFromAmount1(c, l, a) >= c
        /\ l * (NextFromAmount1(c, l, a) - c) <= a * q
    BY <1>2, <1>4, NextUp DEF NextFromAmount1
  <1>6. nx \in Nat \ {0} /\ c <= nx /\ In(nx) \in Nat /\ In(nx) <= a
    <2>1. CASE a >= In(t)
      BY <1>3, <2>1
    <2>2. CASE ~(a >= In(t))
      <3>1. PICK n \in Nat \ {0} : n = NextFromAmount1(c, l, a) /\ c <= n /\ l * (n - c) <= a * q
        BY <1>5
      <3>2. In(n) \in Nat /\ In(n) <= a
        BY <1>3, <1>4, <3>1
      <3>3. QED
        BY <2>2, <3>1, <3>2
    <2>3. QED
      BY <2>1, <2>2
  <1> HIDE DEF nx
  <1>7. PICK n \in Nat \ {0} : n = nx /\ c <= n
    BY <1>6
  <1>8. PICK x \in Nat, y \in Nat : x = In(n) /\ y = Out(n) /\ x <= a /\ y * (c * c) <= x * (q * q)
    BY <1>3, <1>6, <1>7
  <1>9. PICK f \in Nat : f = mulDivRoundingUp(x, fee, Pips - fee) /\ x + f <= r
    BY <1>4, <1>8
  <1>10. step = [next |-> n, in |-> x, out |-> y, fee |-> IF n # t THEN r - x ELSE f]
    BY <1>7, <1>8, <1>9
  <1> HIDE DEF step
  <1>11. StepFits(step, t, r)
    BY <1>9, <1>10 DEF StepFits
  <1>12. step.out * (c * c) <= step.in * (Q96 * Q96)
    BY <1>2, <1>8, <1>10
  <1>13. QED
    BY <1>1, <1>11, <1>12 DEF FitsUp

\* A step to the price it stands at moves nothing.
LEMMA StepNowhere ==
  ASSUME NEW c \in Nat \ {0}, NEW l \in Nat \ {0}, NEW r \in Nat, NEW fee \in 0 .. Pips - 1
  PROVE  computeSwapStep(c, c, l, r, fee) = [next |-> c, in |-> 0, out |-> 0, fee |-> 0]
  <1> DEFINE a == (r * (Pips - fee)) \div Pips
  <1>1. PICK q \in Nat \ {0} : q = Q96
    BY WidthAssumption
  <1>2. Smaller(c, c) = c /\ Larger(c, c) = c
    BY DEF Smaller, Larger
  <1>3. DivUp(0, c) = 0 /\ 0 \div q = 0
    BY <1>1 DEF DivUp
  <1>4. l * q * (c - c) = 0 /\ l * (c - c) = 0
    BY <1>1
  <1>5. getAmount0Delta(c, c, l, TRUE) = 0 /\ getAmount1Delta(c, c, l, FALSE) = 0
    BY <1>1, <1>2, <1>3, <1>4 DEF getAmount0Delta, getAmount1Delta
  <1>6. a \in Nat
    BY FeeFits
  <1>7. mulDivRoundingUp(0, fee, Pips - fee) = 0
    <2>1. PICK keep \in Nat \ {0} : keep = Pips - fee
      BY MathAssumption
    <2>2. QED
      BY <2>1 DEF mulDivRoundingUp, DivUp
  <1> HIDE DEF a
  <1>8. c >= c /\ r >= 0 /\ a >= 0
    BY <1>6
  <1>9. QED
    BY <1>5, <1>7, <1>8 DEF computeSwapStep, a

-----------------------------------------------------------------------------
(* Liquidity.                                                              *)

\* The sum over two sets that share nothing.
LEMMA SumSplits ==
  ASSUME NEW D, NEW f \in [D -> Int], NEW S \in SUBSET D, NEW T \in SUBSET D,
         IsFiniteSet(S), IsFiniteSet(T), S \cap T = {}
  PROVE  SumOver(f, S \cup T) = SumOver(f, S) + SumOver(f, T)
  <1> DEFINE F == {u \in SUBSET T : SumOver(f, S \cup u) # SumOver(f, S) + SumOver(f, u)}
  <1> SUFFICES ASSUME F # {} PROVE FALSE
    OBVIOUS
  <1>1. F \in SUBSET (SUBSET T) /\ \A u \in F : IsFiniteSet(u)
    BY FS_Subset
  <1>2. PICK m \in F : \A u \in F : u \subseteq m => u = m
    <2> HIDE DEF F
    <2>1. FamilyOfFiniteSets(F)
      BY <1>1 DEF FamilyOfFiniteSets
    <2>2. QED
      BY <2>1, MinimalMember
  <1>3. m \in SUBSET T /\ IsFiniteSet(m) /\ SumOver(f, S \cup m) # SumOver(f, S) + SumOver(f, m)
    BY <1>1, <1>2
  <1>4. SumOver(f, S) \in Int /\ SumOver(f, {}) = 0
    <2>1. {} \in SUBSET D /\ IsFiniteSet({})
      BY FS_EmptySet
    <2>2. QED
      BY <2>1, SumSteps DEF TakesFirst
  <1>5. PICK x : x \in m
    <2>1. CASE m = {}
      <3>1. S \cup m = S
        BY <2>1
      <3>2. QED
        BY <1>3, <1>4, <2>1, <3>1
    <2>2. QED
      BY <2>1
  <1>6. PICK r : r = m \ {x}
    OBVIOUS
  <1>7. r \in SUBSET T /\ r \subseteq m /\ r # m
    BY <1>3, <1>5, <1>6
  <1>8. SumOver(f, S \cup r) = SumOver(f, S) + SumOver(f, r)
    BY <1>2, <1>7
  <1>9. SumOver(f, m) = f[x] + SumOver(f, r)
    BY <1>3, <1>5, <1>6, SumWithout
  <1>10. SumOver(f, S \cup m) = f[x] + SumOver(f, S \cup r)
    <2>1. PICK w : w = S \cup m
      OBVIOUS
    <2>2. w \in SUBSET D /\ x \in w /\ w \ {x} = S \cup r
      BY <1>3, <1>5, <1>6, <2>1
    <2>3. IsFiniteSet(w)
      BY <1>3, <2>1, FS_Union
    <2>4. QED
      BY <2>1, <2>2, <2>3, SumWithout
  <1>11. f[x] \in Int /\ SumOver(f, r) \in Int
    <2>1. r \in SUBSET D /\ IsFiniteSet(r)
      BY <1>3, <1>7, FS_Subset
    <2>2. QED
      BY <1>3, <1>5, <2>1, SumSteps
  <1>12. QED
    BY <1>3, <1>4, <1>8, <1>9, <1>10, <1>11

\* The sum of what is not negative.
LEMMA SumIsNat ==
  ASSUME NEW D, NEW f \in [D -> Nat], NEW S \in SUBSET D, IsFiniteSet(S)
  PROVE  SumOver(f, S) \in Nat
  <1> DEFINE F == {u \in SUBSET S : SumOver(f, u) \notin Nat}
  <1> SUFFICES ASSUME F # {} PROVE FALSE
    OBVIOUS
  <1>1. F \in SUBSET (SUBSET S) /\ \A u \in F : IsFiniteSet(u)
    BY FS_Subset
  <1>2. PICK m \in F : \A u \in F : u \subseteq m => u = m
    <2> HIDE DEF F
    <2>1. FamilyOfFiniteSets(F)
      BY <1>1 DEF FamilyOfFiniteSets
    <2>2. QED
      BY <2>1, MinimalMember
  <1>3. f \in [D -> Int] /\ m \in SUBSET D /\ IsFiniteSet(m) /\ SumOver(f, m) \notin Nat
    BY <1>1, <1>2
  <1>4. m # {} /\ SumOver(f, m) = f[First(m)] + SumOver(f, m \ {First(m)})
    <2>1. SumOver(f, m) = IF m = {} THEN 0 ELSE f[First(m)] + SumOver(f, m \ {First(m)})
      BY <1>3, SumSteps DEF TakesFirst
    <2>2. QED
      BY <1>3, <2>1
  <1>5. PICK x \in m : x = First(m)
    BY <1>4, FirstIn
  <1>6. m \ {x} \in SUBSET S /\ m \ {x} \subseteq m /\ m \ {x} # m
    BY <1>2, <1>5
  <1>7. SumOver(f, m \ {x}) \in Nat
    BY <1>2, <1>6
  <1>8. f[x] \in Nat
    BY <1>3, <1>5
  <1>9. QED
    BY <1>3, <1>4, <1>5, <1>7, <1>8

Gives(D) == [pos \in D |-> pos.liquidity]

\* MapThenSumSet adds the liquidity of the positions up.
LEMMA LiquidityIsSum ==
  ASSUME NEW D, Gives(D) \in [D -> Int], NEW S \in SUBSET D, IsFiniteSet(S)
  PROVE  TotalLiquidity(S) = SumOver(Gives(D), S)
  <1> DEFINE f == Gives(D)
             Adds(g) == g = [s \in SUBSET S |-> IF s = {} THEN 0
                               ELSE (CHOOSE x \in s : TRUE).liquidity
                                    + g[s \ {CHOOSE x \in s : TRUE}]]
             fold == CHOOSE g : Adds(g)
  <1>1. TotalLiquidity(S) = fold[S]
    BY Zenon DEF TotalLiquidity, MapThenSumSet, MapThenFoldSet
  <1>2. PICK h : Sums(f, h, S)
    <2> HIDE DEF f
    <2>1. QED
      BY SumExists DEF f
  <1>3. \A s \in SUBSET S : s # {} =>
          First(s) = (CHOOSE x \in s : TRUE) /\ f[First(s)] = First(s).liquidity
    BY FirstIn DEF First, Gives
  <1>4. Adds(h)
    <2> HIDE DEF f
    <2>1. h = [s \in SUBSET S |-> h[s]]
      BY <1>2 DEF Sums
    <2>2. \A s \in SUBSET S : h[s] = IF s = {} THEN 0
            ELSE (CHOOSE x \in s : TRUE).liquidity + h[s \ {CHOOSE x \in s : TRUE}]
      <3>1. \A s \in SUBSET S :
              h[s] = IF s = {} THEN 0 ELSE f[First(s)] + h[s \ {First(s)}]
        BY <1>2 DEF Sums, AddsUp
      <3>2. SUFFICES ASSUME NEW s \in SUBSET S, s # {}
                     PROVE  h[s] = (CHOOSE x \in s : TRUE).liquidity + h[s \ {CHOOSE x \in s : TRUE}]
        BY <3>1
      <3>3. h[s] = f[First(s)] + h[s \ {First(s)}]
        BY <3>1, <3>2
      <3>4. QED
        BY <1>3, <3>2, <3>3, Zenon
    <2>3. QED
      BY <2>1, <2>2
  <1>5. Adds(fold)
    <2> HIDE DEF Adds
    <2>1. QED
      BY <1>4
  <1>6. AddsUp(f, fold, S)
    <2> HIDE DEF f, fold
    <2>1. \A s \in SUBSET S : fold[s] = IF s = {} THEN 0
            ELSE (CHOOSE x \in s : TRUE).liquidity + fold[s \ {CHOOSE x \in s : TRUE}]
      BY <1>5
    <2>2. ASSUME NEW s \in SUBSET S
          PROVE  fold[s] = IF s = {} THEN 0 ELSE f[First(s)] + fold[s \ {First(s)}]
      <3>1. CASE s = {}
        BY <2>1, <3>1
      <3>2. CASE s # {}
        <4>1. PICK c : c = CHOOSE x \in s : TRUE
          OBVIOUS
        <4>2. fold[s] = c.liquidity + fold[s \ {c}]
          BY <2>1, <3>2, <4>1
        <4>3. First(s) = c /\ f[First(s)] = c.liquidity
          BY <1>3, <3>2, <4>1
        <4>4. QED
          BY <3>2, <4>2, <4>3
      <3>3. QED
        BY <3>1, <3>2
    <2>3. QED
      BY <2>2 DEF AddsUp
  <1>7. fold[S] = h[S]
    <2> HIDE DEF f, fold
    <2>1. QED
      BY <1>2, <1>6, SumUnique DEF Sums
  <1>8. SumOver(f, S) = h[S]
    <2> HIDE DEF f
    <2>1. QED
      BY <1>2, SumValue DEF f
  <1>9. QED
    BY <1>1, <1>7, <1>8

Standing(pl, tick) == {pos \in pl.positions : Covers(pos, tick)}
From(pl, tick) == {pos \in pl.positions : pos.lower = tick}
UpTo(pl, tick) == {pos \in pl.positions : pos.upper = tick}

LEMMA LiquidityFacts ==
  ASSUME NEW pl, IsPool(pl), NEW S \in SUBSET pl.positions
  PROVE  /\ IsFiniteSet(S)
         /\ Gives(pl.positions) \in [pl.positions -> Nat]
         /\ TotalLiquidity(S) = SumOver(Gives(pl.positions), S)
         /\ TotalLiquidity(S) \in Nat
  <1>1. IsFiniteSet(S)
    BY FS_Subset DEF IsPool
  <1>2. Gives(pl.positions) \in [pl.positions -> Nat]
    BY DEF Gives, IsPool
  <1>3. TotalLiquidity(S) = SumOver(Gives(pl.positions), S)
    BY <1>1, <1>2, LiquidityIsSum
  <1>4. QED
    BY <1>1, <1>2, <1>3, SumIsNat

\* The net liquidity of a tick is the difference that crossing it makes.
LEMMA LiquidityCrossed ==
  ASSUME NEW pl, IsPool(pl), NEW t \in Int
  PROVE  /\ LiquidityAt(pl, t) \in Nat /\ LiquidityAt(pl, t - 1) \in Nat
         /\ Net(pl, t) = LiquidityAt(pl, t) - LiquidityAt(pl, t - 1)
  <1> DEFINE D == pl.positions
             f == Gives(D)
             B == Standing(pl, t) \cap Standing(pl, t - 1)
  <1>1. \A pos \in D : pos.lower \in Int /\ pos.upper \in Int /\ pos.lower < pos.upper
    BY MathAssumption DEF IsPool
  <1>2. Standing(pl, t) = B \cup From(pl, t) /\ B \cap From(pl, t) = {}
    BY <1>1 DEF Standing, From, Covers
  <1>3. Standing(pl, t - 1) = B \cup UpTo(pl, t) /\ B \cap UpTo(pl, t) = {}
    BY <1>1 DEF Standing, UpTo, Covers
  <1>4. /\ B \in SUBSET D /\ From(pl, t) \in SUBSET D /\ UpTo(pl, t) \in SUBSET D
        /\ Standing(pl, t) \in SUBSET D /\ Standing(pl, t - 1) \in SUBSET D
    BY DEF Standing, From, UpTo
  <1> HIDE DEF B
  <1>5. \A S \in SUBSET D : /\ IsFiniteSet(S) /\ f \in [D -> Int]
                            /\ TotalLiquidity(S) = SumOver(f, S) /\ SumOver(f, S) \in Nat
    BY LiquidityFacts
  <1>6. LiquidityAt(pl, t) = SumOver(f, Standing(pl, t))
        /\ LiquidityAt(pl, t - 1) = SumOver(f, Standing(pl, t - 1))
        /\ Net(pl, t) = SumOver(f, From(pl, t)) - SumOver(f, UpTo(pl, t))
    BY <1>4, <1>5 DEF LiquidityAt, Net, Standing, From, UpTo
  <1> HIDE DEF f, D
  <1>7. SumOver(f, Standing(pl, t)) = SumOver(f, B) + SumOver(f, From(pl, t))
    BY <1>2, <1>4, <1>5, SumSplits
  <1>8. SumOver(f, Standing(pl, t - 1)) = SumOver(f, B) + SumOver(f, UpTo(pl, t))
    BY <1>3, <1>4, <1>5, SumSplits
  <1>9. QED
    BY <1>4, <1>5, <1>6, <1>7, <1>8

\* Where no tick is initialized the liquidity is the same.
LEMMA LiquidityBetween ==
  ASSUME NEW pl, IsPool(pl), NEW a \in Int, NEW b \in Int, a <= b,
         \A t \in Initialized(pl) : ~(a < t /\ t <= b)
  PROVE  LiquidityAt(pl, a) = LiquidityAt(pl, b)
  <1>1. \A pos \in pl.positions : /\ pos.lower \in Int /\ pos.upper \in Int
                                  /\ pos.lower \in Initialized(pl) /\ pos.upper \in Initialized(pl)
    BY MathAssumption DEF IsPool, Initialized
  <1>2. \A pos \in pl.positions : Covers(pos, a) <=> Covers(pos, b)
    BY <1>1 DEF Covers
  <1>3. {pos \in pl.positions : Covers(pos, a)} = {pos \in pl.positions : Covers(pos, b)}
    BY <1>2
  <1>4. QED
    BY <1>3 DEF LiquidityAt

-----------------------------------------------------------------------------
(* The walk of a simulation.                                               *)

LEMMA TicksBelow ==
  ASSUME NEW pl, IsPool(pl), BelowPar(pl)
  PROVE  Initialized(pl) \subseteq TickBelow /\ TickBelow \subseteq Int
  BY MathAssumption DEF IsPool, BelowPar, Initialized, TickBelow

\* The first initialized tick at or below the present one, or above it.
Nearest(ticks, tick, zeroForOne, n) ==
  /\ n \in ticks
  /\ zeroForOne => n <= tick /\ \A t \in ticks : t <= tick => t <= n
  /\ ~zeroForOne => n > tick /\ \A t \in ticks : t > tick => n <= t

\* The first tick above, when there is one.
LEMMA FirstAbove ==
  ASSUME NEW ahead, ahead # {}, ahead \subseteq TickBelow
  PROVE  Min(ahead) \in ahead /\ \A t \in ahead : Min(ahead) <= t
  <1>1. ahead \subseteq Int /\ \A t \in ahead : MinTick <= t
    BY MathAssumption DEF TickBelow
  <1> DEFINE T == {t - MinTick : t \in ahead}
  <1>2. T \in SUBSET Nat /\ T # {}
    <2>1. \A t \in ahead : t - MinTick \in Nat
      BY <1>1, MathAssumption
    <2>2. PICK t : t \in ahead
      OBVIOUS
    <2>3. t - MinTick \in T
      BY <2>2
    <2>4. QED
      BY <2>1, <2>3
  <1>3. PICK x \in T : \A y \in T : x <= y
    <2> HIDE DEF T
    <2>1. QED
      BY <1>2, LeastNumber
  <1>4. PICK m \in ahead : x = m - MinTick
    BY <1>3
  <1>5. \A t \in ahead : x <= t - MinTick
    BY <1>3
  <1>6. \E m2 \in ahead : \A t \in ahead : m2 <= t
    BY <1>1, <1>4, <1>5, MathAssumption
  <1>7. QED
    BY <1>6 DEF Min

LEMMA NextTick ==
  ASSUME NEW ticks, ticks \subseteq TickBelow, NEW tick \in Int, NEW zeroForOne \in BOOLEAN,
         NEW n, n = getNextInitializedTick(ticks, tick, zeroForOne), n # None
  PROVE  Nearest(ticks, tick, zeroForOne, n)
  <1>1. ticks \subseteq Int /\ \A t \in ticks : MinTick <= t /\ t <= 0
    BY MathAssumption DEF TickBelow
  <1>2. CASE zeroForOne
    <2>1. PICK ahead : ahead = {t \in ticks : t <= tick}
      OBVIOUS
    <2>2. ahead # {} /\ n = Max(ahead)
      BY <1>2, <2>1 DEF getNextInitializedTick
    <2>3. \E m \in ahead : \A t \in ahead : m >= t
      <3> DEFINE T == {-t : t \in ahead}
      <3>1. T \in SUBSET Nat /\ T # {}
        <4>1. \A t \in ahead : -t \in Nat
          BY <1>1, <2>1
        <4>2. PICK t : t \in ahead
          BY <2>2
        <4>3. -t \in T
          BY <4>2
        <4>4. QED
          BY <4>1, <4>3
      <3>2. PICK x \in T : \A y \in T : x <= y
        <4> HIDE DEF T
        <4>1. QED
          BY <3>1, LeastNumber
      <3>3. PICK m \in ahead : x = -m
        BY <3>2
      <3>4. \A t \in ahead : x <= -t
        BY <3>2
      <3>5. QED
        BY <1>1, <2>1, <3>3, <3>4
    <2>4. n \in ahead /\ \A t \in ahead : n >= t
      BY <2>2, <2>3 DEF Max
    <2>5. QED
      BY <1>1, <1>2, <2>1, <2>4 DEF Nearest
  <1>3. CASE ~zeroForOne
    <2>1. PICK ahead : ahead = {t \in ticks : t > tick}
      OBVIOUS
    <2>2. ahead # {} /\ n = Min(ahead)
      BY <1>3, <2>1 DEF getNextInitializedTick
    <2>3. n \in ahead /\ \A t \in ahead : n <= t
      BY <2>1, <2>2, FirstAbove
    <2>4. QED
      BY <1>1, <1>3, <2>1, <2>3 DEF Nearest
  <1>4. QED
    BY <1>2, <1>3

\* The price of a tick at or below par.
Price(t) == tickToSqrtPriceX96(t)

LEMMA TickPrice ==
  ASSUME NEW t \in TickBelow
  PROVE  /\ t \in Int /\ Price(t) \in Nat \ {0}
         /\ MinSqrtRatio <= Price(t) /\ Price(t) <= MaxSqrtRatio - 1
         /\ Price(t) \in MinSqrtRatio .. MaxSqrtRatio
         /\ t # MinTick => MinSqrtRatio + 1 <= Price(t)
  <1>1. PICK low \in Nat \ {0}, high \in Nat \ {0} : low = MinSqrtRatio /\ high = MaxSqrtRatio
    BY WidthAssumption
  <1>2. Price(t) \in MinSqrtRatio .. MaxSqrtRatio - 1 /\ (t # MinTick => Price(t) > MinSqrtRatio)
    BY TickAssumption DEF Price
  <1>3. QED
    BY <1>1, <1>2, MathAssumption DEF TickBelow

\* Prices grow with their ticks.
LEMMA PriceGrows ==
  ASSUME NEW a \in TickBelow, NEW b \in TickBelow, a <= b
  PROVE  tickToSqrtPriceX96(a) <= tickToSqrtPriceX96(b)
  <1>1. PICK p : p = tickToSqrtPriceX96(b)
    OBVIOUS
  <1>2. p \in MinSqrtRatio .. MaxSqrtRatio /\ p \in Int
    BY <1>1, TickPrice DEF Price
  <1>3. b <= TickOf(p) /\ TickOf(p) \in Int
    BY <1>1, <1>2, TickAssumption
  <1>4. a \in Int /\ b \in Int
    BY MathAssumption DEF TickBelow
  <1>5. a <= TickOf(p)
    BY <1>3, <1>4
  <1>6. QED
    BY <1>1, <1>2, <1>5, TickAssumption

LEMMA Squares == \A a, b \in Nat : a <= b => a * a <= b * b
  <1> SUFFICES ASSUME NEW a \in Nat, NEW b \in Nat, a <= b
               PROVE  a * a <= b * b
    OBVIOUS
  <1>1. a * a <= b * a /\ a * b <= b * b /\ b * a = a * b
    BY Larges
  <1>2. a * a \in Nat /\ a * b \in Nat /\ b * b \in Nat
    BY ProductIn
  <1>3. QED
    BY <1>1, <1>2

\* What was got for what was paid is not worth more, at the price the pool had.
Fair(pl, zeroForOne, paid, got) ==
  IF zeroForOne THEN got * (Q96 * Q96) <= paid * (pl.sqrtPrice * pl.sqrtPrice)
                ELSE got * (pl.sqrtPrice * pl.sqrtPrice) <= paid * (Q96 * Q96)

LEMMA RatiosAddUp ==
  ASSUME NEW out \in Nat, NEW o \in Nat, NEW u \in Nat, NEW v \in Nat,
         NEW spent \in Nat, NEW x \in Nat, NEW all \in Nat,
         out * u <= spent * v, o * u <= x * v, spent + x <= all
  PROVE  (out + o) * u <= all * v
  <1>1. (out + o) * u = out * u + o * u
    OBVIOUS
  <1>2. (spent + x) * v = spent * v + x * v
    OBVIOUS
  <1>3. (spent + x) * v <= all * v
    BY Larges
  <1>4. PICK a \in Nat, b \in Nat, c \in Nat, d \in Nat :
          a = out * u /\ b = o * u /\ c = spent * v /\ d = x * v
    BY ProductIn
  <1>5. all * v \in Nat
    BY ProductIn
  <1>6. QED
    BY <1>1, <1>2, <1>3, <1>4, <1>5

LEMMA PoolFacts ==
  ASSUME NEW pl, IsPool(pl)
  PROVE  /\ pl.sqrtPrice \in Nat \ {0} /\ Q96 \in Nat \ {0}
         /\ pl.sqrtPrice * pl.sqrtPrice \in Nat \ {0} /\ Q96 * Q96 \in Nat \ {0}
         /\ MinSqrtRatio \in Nat \ {0} /\ MaxSqrtRatio \in Nat \ {0}
         /\ pl.sqrtPrice \in MinSqrtRatio + 1 .. MaxSqrtRatio - 1
         /\ pl.fee \in 0 .. Pips - 1
  <1>1. PICK p \in Nat \ {0} : p = pl.sqrtPrice /\ p \in MinSqrtRatio + 1 .. MaxSqrtRatio - 1
    BY WidthAssumption DEF IsPool
  <1>2. PICK q \in Nat \ {0} : q = Q96
    BY WidthAssumption
  <1>3. p * p \in Nat \ {0} /\ q * q \in Nat \ {0}
    OBVIOUS
  <1>4. QED
    BY <1>1, <1>2, <1>3, WidthAssumption DEF IsPool

LEMMA FairAddsUp ==
  ASSUME NEW pl, IsPool(pl), NEW zeroForOne \in BOOLEAN,
         NEW out \in Nat, NEW o \in Nat, NEW spent \in Nat, NEW x \in Nat, NEW all \in Nat,
         Fair(pl, zeroForOne, spent, out), Fair(pl, zeroForOne, x, o), spent + x <= all
  PROVE  Fair(pl, zeroForOne, all, out + o)
  <1>1. PICK v \in Nat, u \in Nat : v = pl.sqrtPrice * pl.sqrtPrice /\ u = Q96 * Q96
    BY PoolFacts
  <1>2. CASE zeroForOne
    BY <1>1, <1>2, RatiosAddUp DEF Fair
  <1>3. CASE ~zeroForOne
    BY <1>1, <1>3, RatiosAddUp DEF Fair
  <1>4. QED
    BY <1>2, <1>3

\* A state of the walk that goes on: its liquidity is that of its tick, and its
\* price lies between the tick's and the next one's.
OnRange(pl, zeroForOne, s) ==
  /\ s.tick \in Int
  /\ s.price \in MinSqrtRatio + 1 .. MaxSqrtRatio - 1
  /\ IF zeroForOne THEN s.price <= pl.sqrtPrice ELSE pl.sqrtPrice <= s.price
  /\ s.liquidity = LiquidityAt(pl, s.tick)
  /\ \A t \in Initialized(pl) :
       IF zeroForOne THEN t <= s.tick => tickToSqrtPriceX96(t) <= s.price
                     ELSE t > s.tick => s.price <= tickToSqrtPriceX96(t)

\* Where a step goes.
Ahead(pl, zeroForOne, s, n, limit) ==
  /\ limit \in MinSqrtRatio + 1 .. MaxSqrtRatio - 1
  /\ IF zeroForOne THEN limit <= s.price ELSE s.price <= limit
  /\ \A t \in Initialized(pl) :
       IF zeroForOne THEN t <= n => tickToSqrtPriceX96(t) <= limit
                     ELSE t >= n => limit <= tickToSqrtPriceX96(t)

LEMMA LimitAhead ==
  ASSUME NEW pl, IsPool(pl), BelowPar(pl), NEW zeroForOne \in BOOLEAN,
         NEW s, OnRange(pl, zeroForOne, s),
         NEW n, Nearest(Initialized(pl), s.tick, zeroForOne, n)
  PROVE  Ahead(pl, zeroForOne, s, n, Limit(tickToSqrtPriceX96(n), zeroForOne))
  <1>1. /\ Initialized(pl) \subseteq TickBelow /\ TickBelow \subseteq Int
        /\ \A t \in TickBelow : Price(t) \in Int /\ MinSqrtRatio <= Price(t) /\ Price(t) <= MaxSqrtRatio
    BY TicksBelow, TickPrice, WidthAssumption
  <1>2. \A a, b \in TickBelow : a <= b => Price(a) <= Price(b)
    BY PriceGrows DEF Price
  <1>3. PICK p : p = Price(n) /\ p \in Int /\ MinSqrtRatio <= p /\ p <= MaxSqrtRatio
    BY <1>1 DEF Nearest
  <1>4. MinSqrtRatio \in Int /\ MaxSqrtRatio \in Int /\ s.price \in Int /\ s.tick \in Int
        /\ MinSqrtRatio + 1 <= s.price /\ s.price <= MaxSqrtRatio - 1
    BY PoolFacts DEF OnRange
  <1>5. CASE zeroForOne
    <2>1. n \in Initialized(pl) /\ n <= s.tick /\ p <= s.price
      BY <1>3, <1>5 DEF Nearest, OnRange, Price
    <2>2. PICK limit : limit = Limit(p, zeroForOne)
      OBVIOUS
    <2>3. limit = IF p > MinSqrtRatio + 1 THEN p ELSE MinSqrtRatio + 1
      BY <1>5, <2>2 DEF Limit, Larger
    <2>4. /\ limit \in Int /\ MinSqrtRatio + 1 <= limit /\ limit <= s.price /\ p <= limit
      BY <1>3, <1>4, <2>1, <2>3
    <2>5. ASSUME NEW t \in Initialized(pl), t <= n PROVE Price(t) <= limit
      <3>1. t \in TickBelow /\ n \in TickBelow /\ Price(t) \in Int
        BY <1>1, <2>1
      <3>2. Price(t) <= p
        BY <1>2, <1>3, <2>5, <3>1
      <3>3. QED
        BY <1>3, <2>4, <3>1, <3>2
    <2>6. limit \in MinSqrtRatio + 1 .. MaxSqrtRatio - 1
      BY <1>4, <2>4
    <2>7. QED
      BY <1>3, <1>5, <2>2, <2>4, <2>5, <2>6 DEF Ahead, Price
  <1>6. CASE ~zeroForOne
    <2>1. n \in Initialized(pl) /\ n > s.tick /\ s.price <= p
      BY <1>3, <1>6 DEF Nearest, OnRange, Price
    <2>2. PICK limit : limit = Limit(p, zeroForOne)
      OBVIOUS
    <2>3. limit = IF p > MaxSqrtRatio - 1 THEN MaxSqrtRatio - 1 ELSE p
      BY <1>6, <2>2 DEF Limit, Smaller
    <2>4. /\ limit \in Int /\ limit <= MaxSqrtRatio - 1 /\ s.price <= limit /\ limit <= p
      BY <1>3, <1>4, <2>1, <2>3
    <2>5. ASSUME NEW t \in Initialized(pl), t >= n PROVE limit <= Price(t)
      <3>1. t \in TickBelow /\ n \in TickBelow /\ t \in Int /\ n \in Int /\ Price(t) \in Int
        BY <1>1, <2>1
      <3>2. p <= Price(t)
        BY <1>2, <1>3, <2>5, <3>1
      <3>3. QED
        BY <1>3, <2>4, <3>1, <3>2
    <2>6. limit \in MinSqrtRatio + 1 .. MaxSqrtRatio - 1
      BY <1>4, <2>4
    <2>7. QED
      BY <1>3, <1>6, <2>2, <2>4, <2>5, <2>6 DEF Ahead, Price
  <1>7. QED
    BY <1>5, <1>6

LEMMA StepIsFair ==
  ASSUME NEW pl, IsPool(pl), NEW zeroForOne \in BOOLEAN, NEW s, OnRange(pl, zeroForOne, s),
         NEW n, NEW limit, Ahead(pl, zeroForOne, s, n, limit),
         s.left \in Nat, s.liquidity \in Nat \ {0},
         NEW step, step = computeSwapStep(s.price, limit, s.liquidity, s.left, pl.fee)
  PROVE  StepFits(step, limit, s.left) /\ Fair(pl, zeroForOne, step.in, step.out)
  <1>1. /\ pl.sqrtPrice \in Nat \ {0} /\ Q96 \in Nat \ {0} /\ pl.fee \in 0 .. Pips - 1
        /\ MinSqrtRatio \in Nat \ {0} /\ MaxSqrtRatio \in Nat \ {0}
    BY PoolFacts
  <1>2. PICK p \in Nat \ {0} : p = pl.sqrtPrice
    BY <1>1
  <1>3. PICK q \in Nat \ {0} : q = Q96
    BY <1>1
  <1>4. PICK c \in Nat \ {0} : c = s.price
    BY <1>1 DEF OnRange
  <1>5. limit \in Nat \ {0}
    BY <1>1 DEF Ahead
  <1>6. PICK fee \in 0 .. Pips - 1 : fee = pl.fee
    BY <1>1
  <1>7. PICK l \in Nat \ {0}, r \in Nat :
          l = s.liquidity /\ r = s.left /\ step = computeSwapStep(c, limit, l, r, fee)
    BY <1>4, <1>6
  <1>8. CASE zeroForOne
    <2>1. limit <= c /\ c <= p
      BY <1>2, <1>4, <1>8 DEF Ahead, OnRange
    <2>2. StepFits(step, limit, r) /\ step.out * (q * q) <= step.in * (c * c)
      <3>1. FitsDown(step, c, limit, r)
        BY <1>5, <1>6, <1>7, <2>1, StepDown
      <3>2. QED
        BY <1>3, <3>1 DEF FitsDown
    <2>3. PICK x \in Nat, y \in Nat : x = step.in /\ y = step.out
      BY <2>2 DEF StepFits
    <2>4. x * (c * c) <= x * (p * p)
      <3>1. c * c <= p * p /\ c * c \in Nat /\ p * p \in Nat
        BY <2>1, Squares, ProductIn
      <3>2. QED
        BY <3>1, Larges
    <2>5. y * (q * q) <= x * (p * p)
      <3>1. PICK a \in Nat, b \in Nat, d \in Nat : a = y * (q * q) /\ b = x * (c * c) /\ d = x * (p * p)
        BY ProductIn
      <3>2. QED
        BY <2>2, <2>3, <2>4, <3>1
    <2>6. QED
      BY <1>2, <1>3, <1>7, <1>8, <2>2, <2>3, <2>5 DEF Fair
  <1>9. CASE ~zeroForOne
    <2>1. c <= limit /\ p <= c
      BY <1>2, <1>4, <1>9 DEF Ahead, OnRange
    <2>2. StepFits(step, limit, r) /\ step.out * (c * c) <= step.in * (q * q)
      <3>1. CASE c < limit
        <4>1. FitsUp(step, c, limit, r)
          BY <1>5, <1>6, <1>7, <3>1, StepUp
        <4>2. QED
          BY <1>3, <4>1 DEF FitsUp
      <3>2. CASE c = limit
        <4>1. step = [next |-> c, in |-> 0, out |-> 0, fee |-> 0]
          BY <1>4, <1>6, <1>7, <3>2, StepNowhere
        <4>2. 0 * (c * c) = 0 /\ 0 * (q * q) = 0
          OBVIOUS
        <4>3. QED
          BY <3>2, <4>1, <4>2 DEF StepFits
      <3>3. QED
        BY <1>5, <2>1, <3>1, <3>2
    <2>3. PICK x \in Nat, y \in Nat : x = step.in /\ y = step.out
      BY <2>2 DEF StepFits
    <2>4. y * (p * p) <= y * (c * c)
      <3>1. p * p <= c * c /\ c * c \in Nat /\ p * p \in Nat
        BY <2>1, Squares, ProductIn
      <3>2. QED
        BY <3>1, Larges
    <2>5. y * (p * p) <= x * (q * q)
      <3>1. PICK a \in Nat, b \in Nat, d \in Nat : a = y * (p * p) /\ b = y * (c * c) /\ d = x * (q * q)
        BY ProductIn
      <3>2. QED
        BY <2>2, <2>3, <2>4, <3>1
    <2>6. QED
      BY <1>2, <1>3, <1>7, <1>9, <2>2, <2>3, <2>5 DEF Fair
  <1>10. QED
    BY <1>8, <1>9

\* Of the amount, left is not spent; out was got for the rest.
WalkInv(pl, zeroForOne, amount, s) ==
  /\ {"left", "out", "abort"} \subseteq DOMAIN s
  /\ s.left \in Nat /\ s.out \in Nat /\ s.left <= amount
  /\ Fair(pl, zeroForOne, amount - s.left, s.out)
  /\ s.left > 0 /\ s.abort = "none" => OnRange(pl, zeroForOne, s)

LEMMA WalkStarts ==
  ASSUME NEW pl, IsPool(pl), BelowPar(pl), NEW zeroForOne \in BOOLEAN, NEW amount \in Nat
  PROVE  WalkInv(pl, zeroForOne, amount, StartSwap(pl, amount))
  <1> DEFINE s == StartSwap(pl, amount)
             p == pl.sqrtPrice
  <1>1. /\ s = [price |-> p, tick |-> TickOf(p), liquidity |-> LiquidityAt(pl, TickOf(p)),
                left |-> amount, out |-> 0, crossed |-> 0, cliff |-> FALSE, abort |-> "none"]
    BY DEF StartSwap
  <1>2. p \in MinSqrtRatio + 1 .. MaxSqrtRatio - 1 /\ p \in MinSqrtRatio .. MaxSqrtRatio /\ p \in Int
    BY PoolFacts
  <1>3. TickOf(p) \in Int /\ \A t \in TickBelow : t <= TickOf(p) <=> tickToSqrtPriceX96(t) <= p
    BY <1>2, TickAssumption
  <1> HIDE DEF p
  <1>4. \A t \in Initialized(pl) : /\ t \in TickBelow /\ t \in Int /\ tickToSqrtPriceX96(t) \in Int
    BY TicksBelow, TickPrice DEF Price
  <1>5. s.price = p /\ s.tick = TickOf(p) /\ s.liquidity = LiquidityAt(pl, TickOf(p))
    BY <1>1
  <1>6. s.left = amount /\ s.out = 0 /\ {"left", "out", "abort"} \subseteq DOMAIN s
    BY <1>1
  <1> HIDE DEF s
  <1>7. OnRange(pl, zeroForOne, s)
    <2>1. ASSUME NEW t \in Initialized(pl)
          PROVE  IF zeroForOne THEN t <= TickOf(p) => tickToSqrtPriceX96(t) <= p
                               ELSE t > TickOf(p) => p <= tickToSqrtPriceX96(t)
      BY <1>2, <1>3, <1>4
    <2>2. QED
      BY <1>2, <1>3, <1>5, <2>1 DEF OnRange, p
  <1>8. Fair(pl, zeroForOne, amount - s.left, s.out)
    <2>1. amount - s.left = 0 /\ 0 * (Q96 * Q96) = 0 /\ 0 * (p * p) = 0
      BY <1>2, <1>6, PoolFacts
    <2>2. QED
      BY <1>6, <2>1 DEF Fair, p
  <1>9. QED
    BY <1>6, <1>7, <1>8 DEF WalkInv, s

LEMMA WalkCrosses ==
  ASSUME NEW pl, IsPool(pl), BelowPar(pl), NEW zeroForOne \in BOOLEAN,
         NEW s, OnRange(pl, zeroForOne, s),
         NEW n, Nearest(Initialized(pl), s.tick, zeroForOne, n),
         NEW limit, Ahead(pl, zeroForOne, s, n, limit), NEW u,
         u.price = limit, u.tick = IF zeroForOne THEN n - 1 ELSE n,
         u.liquidity = Crossed(s.liquidity, Net(pl, n), zeroForOne)
  PROVE  OnRange(pl, zeroForOne, u)
  <1>1. /\ n \in Initialized(pl) /\ Initialized(pl) \subseteq Int /\ n \in Int /\ n - 1 \in Int
        /\ s.tick \in Int /\ u.tick \in Int
    BY TicksBelow DEF Nearest, OnRange
  <1>2. /\ LiquidityAt(pl, n) \in Nat /\ LiquidityAt(pl, n - 1) \in Nat
        /\ Net(pl, n) = LiquidityAt(pl, n) - LiquidityAt(pl, n - 1)
    BY <1>1, LiquidityCrossed
  <1>3. MinSqrtRatio \in Int /\ MaxSqrtRatio \in Int /\ pl.sqrtPrice \in Int
    BY PoolFacts
  <1>4. limit \in Int /\ s.price \in Int
    BY <1>3 DEF Ahead, OnRange
  <1>5. IF zeroForOne THEN limit <= pl.sqrtPrice ELSE pl.sqrtPrice <= limit
    BY <1>3, <1>4 DEF Ahead, OnRange
  <1>6. u.liquidity = LiquidityAt(pl, u.tick)
    <2>1. CASE zeroForOne
      <3>1. \A t \in Initialized(pl) : ~(n < t /\ t <= s.tick)
        BY <1>1, <2>1 DEF Nearest
      <3>2. n <= s.tick
        BY <2>1 DEF Nearest
      <3>3. LiquidityAt(pl, n) = LiquidityAt(pl, s.tick)
        BY <1>1, <3>1, <3>2, LiquidityBetween
      <3>4. u.liquidity = s.liquidity - Net(pl, n) /\ u.tick = n - 1
        BY <2>1 DEF Crossed
      <3>5. s.liquidity = LiquidityAt(pl, n)
        BY <3>3 DEF OnRange
      <3>6. QED
        BY <1>2, <3>4, <3>5
    <2>2. CASE ~zeroForOne
      <3>1. \A t \in Initialized(pl) : ~(s.tick < t /\ t <= n - 1)
        BY <1>1, <2>2 DEF Nearest
      <3>2. s.tick <= n - 1
        BY <1>1, <2>2 DEF Nearest
      <3>3. LiquidityAt(pl, s.tick) = LiquidityAt(pl, n - 1)
        BY <1>1, <3>1, <3>2, LiquidityBetween
      <3>4. u.liquidity = s.liquidity + Net(pl, n) /\ u.tick = n
        BY <2>2 DEF Crossed
      <3>5. s.liquidity = LiquidityAt(pl, n - 1)
        BY <3>3 DEF OnRange
      <3>6. QED
        BY <1>2, <3>4, <3>5
    <2>3. QED
      BY <2>1, <2>2
  <1>7. ASSUME NEW t \in Initialized(pl)
        PROVE  IF zeroForOne THEN t <= u.tick => tickToSqrtPriceX96(t) <= limit
                             ELSE t > u.tick => limit <= tickToSqrtPriceX96(t)
    <2>1. t \in Int
      BY <1>1
    <2>2. CASE zeroForOne
      <3>1. t <= u.tick => t <= n
        BY <1>1, <2>1, <2>2
      <3>2. QED
        BY <2>2, <3>1 DEF Ahead
    <2>3. CASE ~zeroForOne
      <3>1. t > u.tick => t >= n
        BY <1>1, <2>1, <2>3
      <3>2. QED
        BY <2>3, <3>1 DEF Ahead
    <2>4. QED
      BY <2>2, <2>3
  <1>8. limit \in MinSqrtRatio + 1 .. MaxSqrtRatio - 1
    BY DEF Ahead
  <1>9. QED
    BY <1>1, <1>5, <1>6, <1>7, <1>8 DEF OnRange

LEMMA WalkStep ==
  ASSUME NEW pl, IsPool(pl), BelowPar(pl), NEW zeroForOne \in BOOLEAN, NEW amount \in Nat,
         NEW s, WalkInv(pl, zeroForOne, amount, s)
  PROVE  WalkInv(pl, zeroForOne, amount, SimStep(pl, zeroForOne, s))
  <1> DEFINE next == getNextInitializedTick(Initialized(pl), s.tick, zeroForOne)
             limit == Limit(tickToSqrtPriceX96(next), zeroForOne)
             step == computeSwapStep(s.price, limit, s.liquidity, s.left, pl.fee)
             after == IF step.next = limit THEN Crossed(s.liquidity, Net(pl, next), zeroForOne)
                                           ELSE s.liquidity
             u == Stepped(s, step, zeroForOne, next, step.next = limit, after)
  <1>1. SimStep(pl, zeroForOne, s) = Round(pl, zeroForOne, s, next)
    BY DEF SimStep
  <1>2. ASSUME NEW a PROVE WalkInv(pl, zeroForOne, amount, [s EXCEPT !.abort = a]) \/ a = "none"
    <2>1. PICK v : v = [s EXCEPT !.abort = a]
      OBVIOUS
    <2>2. /\ v.left = s.left /\ v.out = s.out /\ v.abort = a
          /\ DOMAIN v = DOMAIN s
      BY <2>1 DEF WalkInv
    <2>3. QED
      BY <2>1, <2>2 DEF WalkInv
  <1>3. CASE s.left <= 0 \/ s.abort # "none"
    <2> HIDE DEF next
    <2>1. Round(pl, zeroForOne, s, next) = s
      BY <1>3 DEF Round
    <2>2. QED
      BY <1>1, <2>1
  <1>4. CASE ~(s.left <= 0 \/ s.abort # "none") /\ (next = None \/ s.liquidity = 0)
    <2> HIDE DEF next
    <2>1. CASE next = None
      <3>1. Round(pl, zeroForOne, s, next) = [s EXCEPT !.abort = "gap"]
        BY <1>4, <2>1 DEF Round
      <3>2. QED
        BY <1>1, <1>2, <3>1
    <2>2. CASE next # None
      <3>1. Round(pl, zeroForOne, s, next) = [s EXCEPT !.abort = "empty"]
        BY <1>4, <2>2 DEF Round
      <3>2. QED
        BY <1>1, <1>2, <3>1
    <2>3. QED
      BY <2>1, <2>2
  <1>5. CASE ~(s.left <= 0 \/ s.abort # "none") /\ next # None /\ s.liquidity # 0
    <2>1. SimStep(pl, zeroForOne, s) = u
      <3>1. Round(pl, zeroForOne, s, next) = StepTo(pl, zeroForOne, s, next, limit)
        <4> HIDE DEF next
        <4>1. QED
          BY <1>5 DEF Round
      <3>2. StepTo(pl, zeroForOne, s, next, limit) = u
        <4> HIDE DEF next, limit
        <4>1. QED
          BY DEF StepTo, StepWithin
      <3>3. QED
        BY <1>1, <3>1, <3>2
    <2>2. OnRange(pl, zeroForOne, s) /\ s.left \in Nat /\ s.left > 0
      BY <1>5 DEF WalkInv
    <2>3. s.tick \in Int /\ s.liquidity \in Nat \ {0}
      <3>1. s.tick \in Int /\ s.liquidity = LiquidityAt(pl, s.tick)
        BY <2>2 DEF OnRange
      <3>2. LiquidityAt(pl, s.tick) \in Nat
        BY <3>1, LiquidityCrossed
      <3>3. QED
        BY <1>5, <3>1, <3>2
    <2>4. Nearest(Initialized(pl), s.tick, zeroForOne, next)
      <3>1. Initialized(pl) \subseteq TickBelow
        BY TicksBelow
      <3>2. QED
        BY <1>5, <2>3, <3>1, NextTick
    <2> HIDE DEF next
    <2>5. Ahead(pl, zeroForOne, s, next, limit)
      BY <2>2, <2>4, LimitAhead
    <2> HIDE DEF limit
    <2>6. StepFits(step, limit, s.left) /\ Fair(pl, zeroForOne, step.in, step.out)
      BY <2>2, <2>3, <2>5, StepIsFair
    <2> HIDE DEF step
    <2>7. PICK x \in Nat, f \in Nat, o \in Nat :
            /\ x = step.in /\ f = step.fee /\ o = step.out
            /\ x + f <= s.left /\ (step.next # limit => x + f = s.left)
      BY <2>6 DEF StepFits
    <2>8. /\ u.left = s.left - (x + f) /\ u.out = s.out + o
          /\ {"left", "out", "abort"} \subseteq DOMAIN u
          /\ u.price = step.next /\ u.liquidity = after
          /\ step.next = limit => u.tick = IF zeroForOne THEN next - 1 ELSE next
      <3> HIDE DEF after
      <3>1. QED
        BY <2>7 DEF Stepped
    <2>9. u.left \in Nat /\ u.out \in Nat /\ u.left <= amount
      BY <2>2, <2>7, <2>8 DEF WalkInv
    <2>10. Fair(pl, zeroForOne, amount - u.left, u.out)
      <3>1. PICK spent \in Nat, out \in Nat : spent = amount - s.left /\ out = s.out
        BY DEF WalkInv
      <3>2. PICK all \in Nat : all = amount - u.left
        BY <2>9
      <3>3. spent + x <= all
        BY <2>2, <2>7, <2>8, <3>1, <3>2
      <3>4. Fair(pl, zeroForOne, spent, out) /\ Fair(pl, zeroForOne, x, o)
        BY <2>6, <2>7, <3>1 DEF WalkInv
      <3>5. Fair(pl, zeroForOne, all, out + o)
        BY <3>3, <3>4, FairAddsUp
      <3>6. QED
        BY <2>8, <3>1, <3>2, <3>5
    <2>11. ASSUME u.left > 0 PROVE OnRange(pl, zeroForOne, u)
      <3>1. step.next = limit
        BY <2>2, <2>7, <2>8, <2>11
      <3>2. /\ u.price = limit /\ u.tick = IF zeroForOne THEN next - 1 ELSE next
            /\ u.liquidity = Crossed(s.liquidity, Net(pl, next), zeroForOne)
        BY <2>8, <3>1
      <3> HIDE DEF u
      <3>3. QED
        BY <2>2, <2>4, <2>5, <3>2, WalkCrosses
    <2> HIDE DEF u
    <2>12. QED
      BY <2>1, <2>8, <2>9, <2>10, <2>11 DEF WalkInv
  <1>6. QED
    BY <1>3, <1>4, <1>5

Walks(pl, zeroForOne, start, f, k) ==
  \A n \in 0 .. k : f[n] = IF n = 0 THEN start ELSE SimStep(pl, zeroForOne, f[n - 1])

LEMMA WalkExists ==
  ASSUME NEW pl, NEW zeroForOne, NEW start, NEW k \in Nat
  PROVE  \E f : DOMAIN f = 0 .. k /\ f = [n \in 0 .. k |-> f[n]] /\ Walks(pl, zeroForOne, start, f, k)
  <1> DEFINE Has(m) == \E f : Walks(pl, zeroForOne, start, f, m)
             T == {m \in Nat : ~Has(m)}
  <1>1. T = {}
    <2> SUFFICES ASSUME T # {} PROVE FALSE
      OBVIOUS
    <2>1. PICK m \in T : \A j \in T : m <= j
      <3>1. T \in SUBSET Nat
        OBVIOUS
      <3> HIDE DEF T
      <3>2. QED
        BY <3>1, LeastNumber
    <2>2. m \in Nat /\ ~Has(m)
      BY <2>1
    <2>3. CASE m = 0
      <3> DEFINE f == [n \in {0} |-> start]
      <3>1. \A n \in 0 .. 0 : n = 0 /\ f[n] = start
        OBVIOUS
      <3> HIDE DEF f
      <3>2. Walks(pl, zeroForOne, start, f, 0)
        BY <3>1 DEF Walks
      <3>3. QED
        BY <2>2, <2>3, <3>2
    <2>4. CASE m # 0
      <3>1. m - 1 \in Nat /\ Has(m - 1)
        <4>1. m - 1 \in Nat /\ ~(m <= m - 1)
          BY <2>2, <2>4
        <4> HIDE DEF Has
        <4>2. QED
          BY <2>1, <4>1
      <3>2. PICK f : Walks(pl, zeroForOne, start, f, m - 1)
        BY <3>1
      <3> DEFINE g == [n \in 0 .. m |-> IF n = m THEN SimStep(pl, zeroForOne, f[m - 1]) ELSE f[n]]
      <3>3. ASSUME NEW n \in 0 .. m
            PROVE  g[n] = IF n = 0 THEN start ELSE SimStep(pl, zeroForOne, g[n - 1])
        <4>1. CASE n = m
          <5>1. m - 1 \in 0 .. m /\ m - 1 # m
            BY <2>2, <2>4
          <5>2. g[m - 1] = f[m - 1] /\ g[n] = SimStep(pl, zeroForOne, f[m - 1])
            BY <4>1, <5>1
          <5> HIDE DEF g
          <5>3. QED
            BY <2>4, <4>1, <5>2
        <4>2. CASE n # m
          <5>1. n \in 0 .. m - 1 /\ g[n] = f[n]
            BY <2>2, <4>2
          <5>2. f[n] = IF n = 0 THEN start ELSE SimStep(pl, zeroForOne, f[n - 1])
            BY <3>2, <5>1 DEF Walks
          <5>3. n # 0 => g[n - 1] = f[n - 1]
            BY <2>2, <5>1
          <5> HIDE DEF g
          <5>4. QED
            BY <5>1, <5>2, <5>3
        <4>3. QED
          BY <4>1, <4>2
      <3> HIDE DEF g
      <3>4. Walks(pl, zeroForOne, start, g, m)
        BY <3>3 DEF Walks
      <3>5. QED
        BY <2>2, <3>4
    <2>5. QED
      BY <2>3, <2>4
  <1>2. Has(k)
    <2> HIDE DEF Has
    <2>1. QED
      BY <1>1
  <1>3. PICK f : Walks(pl, zeroForOne, start, f, k)
    BY <1>2
  <1> DEFINE g == [n \in 0 .. k |-> f[n]]
  <1>4. ASSUME NEW n \in 0 .. k
        PROVE  g[n] = IF n = 0 THEN start ELSE SimStep(pl, zeroForOne, g[n - 1])
    <2>1. f[n] = IF n = 0 THEN start ELSE SimStep(pl, zeroForOne, f[n - 1])
      BY <1>3 DEF Walks
    <2>2. g[n] = f[n] /\ (n # 0 => g[n - 1] = f[n - 1])
      OBVIOUS
    <2> HIDE DEF g
    <2>3. QED
      BY <2>1, <2>2
  <1>5. DOMAIN g = 0 .. k /\ g = [n \in 0 .. k |-> g[n]]
    OBVIOUS
  <1> HIDE DEF g
  <1>6. QED
    BY <1>4, <1>5 DEF Walks

\* A run is the walk of its steps.
LEMMA RunIsWalk ==
  ASSUME NEW pl, NEW zeroForOne, NEW start
  PROVE  \E f : Walks(pl, zeroForOne, start, f, MaxSteps)
                /\ Run(pl, zeroForOne, start) = OutOfSteps(f[MaxSteps])
  <1> DEFINE Is(f) == f = [n \in 0 .. MaxSteps |->
                             IF n = 0 THEN start ELSE SimStep(pl, zeroForOne, f[n - 1])]
             walk == CHOOSE f : Is(f)
  <1>1. MaxSteps \in Nat
    BY SizingAssumption
  <1>2. Run(pl, zeroForOne, start) = OutOfSteps(walk[MaxSteps])
    BY Zenon DEF Run
  <1>3. \E f : Is(f)
    <2>1. PICK f : f = [n \in 0 .. MaxSteps |-> f[n]] /\ Walks(pl, zeroForOne, start, f, MaxSteps)
      BY <1>1, WalkExists
    <2>2. [n \in 0 .. MaxSteps |-> f[n]]
            = [n \in 0 .. MaxSteps |-> IF n = 0 THEN start ELSE SimStep(pl, zeroForOne, f[n - 1])]
      BY <2>1, Zenon DEF Walks
    <2>3. Is(f)
      BY <2>1, <2>2
    <2>4. QED
      BY <2>3
  <1>4. Is(walk)
    <2> HIDE DEF Is
    <2>1. QED
      BY <1>3
  <1> HIDE DEF walk
  <1>5. \A n \in 0 .. MaxSteps :
          walk[n] = IF n = 0 THEN start ELSE SimStep(pl, zeroForOne, walk[n - 1])
    BY <1>4
  <1>6. Walks(pl, zeroForOne, start, walk, MaxSteps)
    BY <1>5 DEF Walks
  <1>7. QED
    BY <1>2, <1>6

\* What a simulation ends with (simulateV3Trade in v3-simulator.ts): it spent no
\* more than it was given, and what it got is worth no more, at the price it started
\* from, than what it spent, however many ticks it crossed, steps it took and
\* amounts it rounded, and whether or not it was aborted.
THEOREM SimulationIsFair ==
  ASSUME NEW pl, IsPool(pl), BelowPar(pl), NEW zeroForOne \in BOOLEAN, NEW amount \in Nat
  PROVE  LET sim == simulateV3Trade(pl, zeroForOne, amount)
         IN  /\ sim.left \in Nat /\ sim.out \in Nat /\ sim.left <= amount
             /\ Fair(pl, zeroForOne, amount - sim.left, sim.out)
  <1> DEFINE start == StartSwap(pl, amount)
  <1>1. MaxSteps \in Nat
    BY SizingAssumption
  <1>2. PICK walk : /\ Walks(pl, zeroForOne, start, walk, MaxSteps)
                    /\ simulateV3Trade(pl, zeroForOne, amount) = OutOfSteps(walk[MaxSteps])
    BY RunIsWalk, Zenon DEF simulateV3Trade
  <1>3. \A n \in 0 .. MaxSteps :
          walk[n] = IF n = 0 THEN start ELSE SimStep(pl, zeroForOne, walk[n - 1])
    BY <1>2, Zenon DEF Walks
  <1> DEFINE Good(n) == WalkInv(pl, zeroForOne, amount, walk[n])
             T == {n \in Nat : n <= MaxSteps /\ ~Good(n)}
  <1>4. T = {}
    <2> SUFFICES ASSUME T # {} PROVE FALSE
      OBVIOUS
    <2>1. PICK n \in T : \A j \in T : n <= j
      <3>1. T \in SUBSET Nat
        OBVIOUS
      <3> HIDE DEF T
      <3>2. QED
        BY <3>1, LeastNumber
    <2>2. n \in 0 .. MaxSteps /\ ~Good(n)
      BY <1>1, <2>1
    <2>3. CASE n = 0
      <3>1. walk[n] = start
        BY <1>3, <2>2, <2>3
      <3>2. QED
        BY <2>2, <3>1, WalkStarts
    <2>4. CASE n # 0
      <3>1. n - 1 \in Nat /\ n - 1 <= MaxSteps /\ ~(n <= n - 1)
        BY <1>1, <2>2, <2>4
      <3>2. Good(n - 1)
        <4> HIDE DEF Good
        <4>1. QED
          BY <2>1, <3>1
      <3>3. walk[n] = SimStep(pl, zeroForOne, walk[n - 1])
        BY <1>3, <2>2, <2>4
      <3>4. QED
        BY <2>2, <3>2, <3>3, WalkStep
    <2>5. QED
      BY <2>3, <2>4
  <1>5. Good(MaxSteps)
    <2> HIDE DEF Good
    <2>1. QED
      BY <1>1, <1>4
  <1>6. PICK s : s = walk[MaxSteps] /\ WalkInv(pl, zeroForOne, amount, s)
    BY <1>5
  <1>7. OutOfSteps(s).left = s.left /\ OutOfSteps(s).out = s.out
    BY <1>6 DEF OutOfSteps, WalkInv
  <1>8. QED
    BY <1>2, <1>6, <1>7 DEF WalkInv

-----------------------------------------------------------------------------
(* The search for a size.                                                  *)

LEMMA Cancels == \A a, b \in Nat : \A c \in Nat \ {0} : a * c <= b * c => a <= b
  <1> SUFFICES ASSUME NEW a \in Nat, NEW b \in Nat, NEW c \in Nat \ {0}, a * c <= b * c, b + 1 <= a
               PROVE  FALSE
    OBVIOUS
  <1>1. (b + 1) * c <= a * c
    BY Larges
  <1>2. (b + 1) * c = b * c + c
    OBVIOUS
  <1>3. a * c \in Nat /\ b * c \in Nat
    BY ProductIn
  <1>4. QED
    BY <1>1, <1>2, <1>3

\* Nothing is gained where the second pool's price is not below the first's.
LEMMA NoProfit ==
  ASSUME NEW buy, IsPool(buy), BelowPar(buy), NEW sell, IsPool(sell), BelowPar(sell),
         sell.sqrtPrice >= buy.sqrtPrice, NEW amount \in Int
  PROVE  evaluateProfit(buy, sell, amount) <= 0
  <1> DEFINE bought == simulateV3Trade(buy, TRUE, amount)
             sold == simulateV3Trade(sell, FALSE, bought.out)
  <1>1. CASE amount <= 0
    BY <1>1 DEF evaluateProfit, MinusInfinity
  <1>2. CASE amount > 0
    <2>1. PICK a \in Nat : a = amount
      BY <1>2
    <2>2. PICK x \in Nat, left \in Nat :
            x = bought.out /\ left <= a /\ Fair(buy, TRUE, a - left, x)
      BY <2>1, SimulationIsFair
    <2>3. PICK y \in Nat, rest \in Nat :
            y = sold.out /\ rest <= x /\ Fair(sell, FALSE, x - rest, y)
      BY <2>2, SimulationIsFair
    <2>4. PICK p \in Nat \ {0}, s \in Nat \ {0}, q \in Nat \ {0} :
            p = buy.sqrtPrice /\ s = sell.sqrtPrice /\ q = Q96 /\ p <= s
      BY PoolFacts
    <2>5. PICK pp \in Nat, ss \in Nat \ {0}, qq \in Nat :
            pp = p * p /\ ss = s * s /\ qq = q * q /\ pp <= ss
      <3>1. p * p \in Nat /\ s * s \in Nat \ {0} /\ q * q \in Nat
        OBVIOUS
      <3>2. p * p <= s * s
        BY <2>4, Squares
      <3>3. QED
        BY <3>1, <3>2
    <2>6. x * qq <= a * ss
      <3>1. PICK b \in Nat : b = a - left
        BY <2>2
      <3>2. x * qq <= b * pp
        BY <2>2, <2>4, <2>5, <3>1 DEF Fair
      <3>3. b * pp <= a * pp /\ a * pp <= a * ss
        BY <2>5, <3>1, Larges
      <3>4. x * qq \in Nat /\ b * pp \in Nat /\ a * pp \in Nat /\ a * ss \in Nat
        BY ProductIn
      <3>5. QED
        BY <3>2, <3>3, <3>4
    <2>7. y * ss <= x * qq
      <3>1. PICK b \in Nat : b = x - rest
        BY <2>3
      <3>2. y * ss <= b * qq
        BY <2>3, <2>4, <2>5, <3>1 DEF Fair
      <3>3. b * qq <= x * qq
        BY <3>1, Larges
      <3>4. y * ss \in Nat /\ b * qq \in Nat /\ x * qq \in Nat
        BY ProductIn
      <3>5. QED
        BY <3>2, <3>3, <3>4
    <2>8. y <= a
      <3>1. y * ss \in Nat /\ x * qq \in Nat /\ a * ss \in Nat
        BY ProductIn
      <3>2. y * ss <= a * ss
        BY <2>6, <2>7, <3>1
      <3>3. QED
        BY <3>2, Cancels
    <2> HIDE DEF bought
    <2>9. evaluateProfit(buy, sell, amount) = MinusInfinity
          \/ evaluateProfit(buy, sell, amount) = sold.out - amount - 2 * GasCost
      <3> USE DEF bought
      <3>1. ~(amount <= 0)
        BY <1>2
      <3>2. evaluateProfit(buy, sell, amount) = ProfitOf(bought, sell, amount)
        BY <3>1, Zenon DEF evaluateProfit
      <3> HIDE DEF bought
      <3>3. QED
        BY <3>2, Zenon DEF ProfitOf
    <2> HIDE DEF sold
    <2>10. GasCost \in Nat
      BY SizingAssumption
    <2>11. y - a - 2 * GasCost <= 0
      BY <2>8, <2>10
    <2>12. QED
      BY <2>1, <2>3, <2>9, <2>11 DEF MinusInfinity
  <1>3. QED
    BY <1>1, <1>2

\* The sizes still looked at, and the best of those looked at before.
SearchInv(buy, sell, high, s) ==
  /\ {s.lo, s.hi} \subseteq Nat /\ 1 <= s.lo /\ s.lo <= s.hi /\ s.hi <= high
  /\ s.best.amount = 0 \/ /\ s.best.amount \in 1 .. high
                          /\ s.best.profit = evaluateProfit(buy, sell, s.best.amount)

LEMMA SearchStep ==
  ASSUME NEW buy, NEW sell, NEW high \in Nat, NEW s, SearchInv(buy, sell, high, s), NEW n
  PROVE  SearchInv(buy, sell, high, Third(buy, sell, s, n))
  <1>1. CASE s.lo + 1 >= s.hi
    BY <1>1 DEF Third
  <1>2. CASE ~(s.lo + 1 >= s.hi)
    <2>1. PICK lo \in Nat, hi \in Nat :
            lo = s.lo /\ hi = s.hi /\ 1 <= lo /\ lo <= hi /\ hi <= high
      BY DEF SearchInv
    <2>2. PICK d \in Nat : d = (hi - lo) \div 3 /\ d <= hi - lo
      <3>1. PICK w \in Nat : w = hi - lo
        BY <2>1
      <3>2. w \div 3 \in Nat /\ w \div 3 <= w
        OBVIOUS
      <3>3. QED
        BY <3>1, <3>2
    <2>3. PICK a \in Nat, b \in Nat : a = lo + d /\ b = hi - d
      BY <2>1, <2>2
    <2>4. a \in 1 .. high /\ b \in 1 .. high /\ lo <= a /\ a <= hi /\ lo <= b /\ b <= hi
      BY <2>1, <2>2, <2>3
    <2> DEFINE r1 == evaluateProfit(buy, sell, a)
               r2 == evaluateProfit(buy, sell, b)
               t == Narrowed(s, n, a, r1, b, r2)
    <2>5. Third(buy, sell, s, n) = t
      BY <1>2, <2>1, <2>2, <2>3 DEF Third, Probe
    <2>6. ASSUME NEW m \in 1 .. high, NEW best,
                 best = Better(s.best, m, evaluateProfit(buy, sell, m))
          PROVE  \/ best.amount = 0
                 \/ best.amount \in 1 .. high /\ best.profit = evaluateProfit(buy, sell, best.amount)
      BY <2>6 DEF Better, SearchInv
    <2>7. \/ t = [lo |-> a, hi |-> hi, n |-> n, best |-> Better(s.best, b, r2)]
          \/ t = [lo |-> lo, hi |-> b, n |-> n, best |-> Better(s.best, a, r1)]
      BY <2>1 DEF Narrowed
    <2> HIDE DEF t
    <2>8. QED
      <3>1. CASE t = [lo |-> a, hi |-> hi, n |-> n, best |-> Better(s.best, b, r2)]
        <4>1. t.lo = a /\ t.hi = hi /\ t.best = Better(s.best, b, r2)
          BY <3>1
        <4>2. QED
          BY <2>1, <2>4, <2>5, <2>6, <4>1 DEF SearchInv
      <3>2. CASE t = [lo |-> lo, hi |-> b, n |-> n, best |-> Better(s.best, a, r1)]
        <4>1. t.lo = lo /\ t.hi = b /\ t.best = Better(s.best, a, r1)
          BY <3>2
        <4>2. QED
          BY <2>1, <2>4, <2>5, <2>6, <4>1 DEF SearchInv
      <3>3. QED
        BY <2>7, <3>1, <3>2
  <1>3. QED
    BY <1>1, <1>2

Thirds(buy, sell, start, f, k) ==
  \A n \in 0 .. k : f[n] = IF n = 0 THEN start ELSE Third(buy, sell, f[n - 1], n)

LEMMA SearchExists ==
  ASSUME NEW buy, NEW sell, NEW start, NEW k \in Nat
  PROVE  \E f : DOMAIN f = 0 .. k /\ f = [n \in 0 .. k |-> f[n]] /\ Thirds(buy, sell, start, f, k)
  <1> DEFINE Has(m) == \E f : Thirds(buy, sell, start, f, m)
             T == {m \in Nat : ~Has(m)}
  <1>1. T = {}
    <2> SUFFICES ASSUME T # {} PROVE FALSE
      OBVIOUS
    <2>1. PICK m \in T : \A j \in T : m <= j
      <3>1. T \in SUBSET Nat
        OBVIOUS
      <3> HIDE DEF T
      <3>2. QED
        BY <3>1, LeastNumber
    <2>2. m \in Nat /\ ~Has(m)
      BY <2>1
    <2>3. CASE m = 0
      <3> DEFINE f == [n \in {0} |-> start]
      <3>1. \A n \in 0 .. 0 : n = 0 /\ f[n] = start
        OBVIOUS
      <3> HIDE DEF f
      <3>2. Thirds(buy, sell, start, f, 0)
        BY <3>1 DEF Thirds
      <3>3. QED
        BY <2>2, <2>3, <3>2
    <2>4. CASE m # 0
      <3>1. m - 1 \in Nat /\ Has(m - 1)
        <4>1. m - 1 \in Nat /\ ~(m <= m - 1)
          BY <2>2, <2>4
        <4> HIDE DEF Has
        <4>2. QED
          BY <2>1, <4>1
      <3>2. PICK f : Thirds(buy, sell, start, f, m - 1)
        BY <3>1
      <3> DEFINE g == [n \in 0 .. m |-> IF n = m THEN Third(buy, sell, f[m - 1], m) ELSE f[n]]
      <3>3. ASSUME NEW n \in 0 .. m
            PROVE  g[n] = IF n = 0 THEN start ELSE Third(buy, sell, g[n - 1], n)
        <4>1. CASE n = m
          <5>1. m - 1 \in 0 .. m /\ m - 1 # m
            BY <2>2, <2>4
          <5>2. g[m - 1] = f[m - 1] /\ g[n] = Third(buy, sell, f[m - 1], m)
            BY <4>1, <5>1
          <5> HIDE DEF g
          <5>3. QED
            BY <2>4, <4>1, <5>2
        <4>2. CASE n # m
          <5>1. n \in 0 .. m - 1 /\ g[n] = f[n]
            BY <2>2, <4>2
          <5>2. f[n] = IF n = 0 THEN start ELSE Third(buy, sell, f[n - 1], n)
            BY <3>2, <5>1 DEF Thirds
          <5>3. n # 0 => g[n - 1] = f[n - 1]
            BY <2>2, <5>1
          <5> HIDE DEF g
          <5>4. QED
            BY <5>1, <5>2, <5>3
        <4>3. QED
          BY <4>1, <4>2
      <3> HIDE DEF g
      <3>4. Thirds(buy, sell, start, g, m)
        BY <3>3 DEF Thirds
      <3>5. QED
        BY <2>2, <3>4
    <2>5. QED
      BY <2>3, <2>4
  <1>2. Has(k)
    <2> HIDE DEF Has
    <2>1. QED
      BY <1>1
  <1>3. PICK f : Thirds(buy, sell, start, f, k)
    BY <1>2
  <1> DEFINE g == [n \in 0 .. k |-> f[n]]
  <1>4. ASSUME NEW n \in 0 .. k
        PROVE  g[n] = IF n = 0 THEN start ELSE Third(buy, sell, g[n - 1], n)
    <2>1. f[n] = IF n = 0 THEN start ELSE Third(buy, sell, f[n - 1], n)
      BY <1>3 DEF Thirds
    <2>2. g[n] = f[n] /\ (n # 0 => g[n - 1] = f[n - 1])
      OBVIOUS
    <2> HIDE DEF g
    <2>3. QED
      BY <2>1, <2>2
  <1>5. DOMAIN g = 0 .. k /\ g = [n \in 0 .. k |-> g[n]]
    OBVIOUS
  <1> HIDE DEF g
  <1>6. QED
    BY <1>4, <1>5 DEF Thirds

\* What a search ends with.
LEMMA SearchIsHonest ==
  ASSUME NEW buy, NEW sell, NEW high \in Nat \ {0}
  PROVE  LET best == findOptimalTradeSize(buy, sell, 1, high).best
         IN  best.amount \in 1 .. high /\ best.profit = evaluateProfit(buy, sell, best.amount)
  <1> DEFINE start == [lo |-> 1, hi |-> high, n |-> 0,
                       best |-> [amount |-> 0, profit |-> MinusInfinity]]
             Is(f) == f = [n \in 0 .. MaxIter |->
                             IF n = 0 THEN start ELSE Third(buy, sell, f[n - 1], n)]
             search == CHOOSE f : Is(f)
  <1>1. MaxIter \in Nat
    BY SizingAssumption
  <1>2. findOptimalTradeSize(buy, sell, 1, high) = Found(buy, sell, search[MaxIter])
    BY Zenon DEF findOptimalTradeSize
  <1>3. Is(search)
    <2>1. \E f : Is(f)
      <3> HIDE DEF start
      <3>1. PICK f : f = [n \in 0 .. MaxIter |-> f[n]] /\ Thirds(buy, sell, start, f, MaxIter)
        BY <1>1, SearchExists
      <3>2. [n \in 0 .. MaxIter |-> f[n]]
              = [n \in 0 .. MaxIter |-> IF n = 0 THEN start ELSE Third(buy, sell, f[n - 1], n)]
        BY <3>1, Zenon DEF Thirds
      <3>3. Is(f)
        BY <3>1, <3>2
      <3>4. QED
        BY <3>3
    <2> HIDE DEF Is
    <2>2. QED
      BY <2>1
  <1>4. \A n \in 0 .. MaxIter :
          search[n] = IF n = 0 THEN start ELSE Third(buy, sell, search[n - 1], n)
    <2> HIDE DEF search, start
    <2>1. QED
      BY <1>3
  <1> HIDE DEF search
  <1> DEFINE Good(n) == SearchInv(buy, sell, high, search[n])
             T == {n \in Nat : n <= MaxIter /\ ~Good(n)}
  <1>5. T = {}
    <2> SUFFICES ASSUME T # {} PROVE FALSE
      OBVIOUS
    <2>1. PICK n \in T : \A j \in T : n <= j
      <3>1. T \in SUBSET Nat
        OBVIOUS
      <3> HIDE DEF T
      <3>2. QED
        BY <3>1, LeastNumber
    <2>2. n \in 0 .. MaxIter /\ ~Good(n)
      BY <1>1, <2>1
    <2>3. CASE n = 0
      <3>1. search[n] = start
        BY <1>4, <2>2, <2>3
      <3>2. SearchInv(buy, sell, high, start)
        BY DEF SearchInv
      <3>3. QED
        BY <2>2, <3>1, <3>2
    <2>4. CASE n # 0
      <3>1. n - 1 \in Nat /\ n - 1 <= MaxIter /\ ~(n <= n - 1)
        BY <1>1, <2>2, <2>4
      <3>2. Good(n - 1)
        <4> HIDE DEF Good
        <4>1. QED
          BY <2>1, <3>1
      <3>3. search[n] = Third(buy, sell, search[n - 1], n)
        BY <1>4, <2>2, <2>4
      <3>4. QED
        BY <2>2, <3>2, <3>3, SearchStep
    <2>5. QED
      BY <2>3, <2>4
  <1>6. PICK s : s = search[MaxIter] /\ SearchInv(buy, sell, high, s)
    <2>1. Good(MaxIter)
      <3> HIDE DEF Good
      <3>1. QED
        BY <1>1, <1>5
    <2>2. QED
      BY <2>1
  <1>7. PICK b : /\ b = findOptimalTradeSize(buy, sell, 1, high).best
                 /\ b = IF s.best.amount # 0 THEN s.best
                        ELSE [amount |-> s.lo, profit |-> evaluateProfit(buy, sell, s.lo)]
    BY <1>2, <1>6 DEF Found
  <1>8. CASE s.best.amount # 0
    BY <1>6, <1>7, <1>8 DEF SearchInv
  <1>9. CASE s.best.amount = 0
    <2>1. s.lo \in 1 .. high
      BY <1>6 DEF SearchInv
    <2>2. QED
      BY <1>7, <1>9, <2>1
  <1>10. QED
    BY <1>7, <1>8, <1>9

-----------------------------------------------------------------------------
(* The bands of a profile.                                                 *)

\* SumFunctionOnSet adds a function up over a part of its domain.
LEMMA FunctionSum ==
  ASSUME NEW D, NEW f \in [D -> Int], NEW S \in SUBSET D, IsFiniteSet(S)
  PROVE  SumFunctionOnSet(f, S) = SumOver(f, S)
  <1> DEFINE Adds(g) == g = [s \in SUBSET S |-> IF s = {} THEN 0
                               ELSE f[CHOOSE x \in s : TRUE]
                                    + g[s \ {CHOOSE x \in s : TRUE}]]
             fold == CHOOSE g : Adds(g)
  <1>1. SumFunctionOnSet(f, S) = fold[S]
    BY Zenon DEF SumFunctionOnSet, FoldFunctionOnSet, MapThenFoldSet
  <1>2. PICK h : Sums(f, h, S)
    BY SumExists
  <1>3. Adds(h)
    <2>1. h = [s \in SUBSET S |-> h[s]]
      BY <1>2 DEF Sums
    <2>2. \A s \in SUBSET S : h[s] = IF s = {} THEN 0
            ELSE f[CHOOSE x \in s : TRUE] + h[s \ {CHOOSE x \in s : TRUE}]
      BY <1>2, Zenon DEF Sums, AddsUp, First
    <2>3. QED
      BY <2>1, <2>2
  <1>4. Adds(fold)
    <2> HIDE DEF Adds
    <2>1. QED
      BY <1>3
  <1>5. AddsUp(f, fold, S)
    <2> HIDE DEF fold
    <2>1. \A s \in SUBSET S : fold[s] = IF s = {} THEN 0
            ELSE f[CHOOSE x \in s : TRUE] + fold[s \ {CHOOSE x \in s : TRUE}]
      BY <1>4
    <2>2. QED
      BY <2>1, Zenon DEF AddsUp, First
  <1>6. fold[S] = h[S]
    <2> HIDE DEF fold
    <2>1. QED
      BY <1>2, <1>5, SumUnique DEF Sums
  <1>7. QED
    BY <1>1, <1>2, <1>6, SumValue

LEMMA EmptySum ==
  ASSUME NEW D, NEW f \in [D -> Int]
  PROVE  SumOver(f, {}) = 0
  <1>1. {} \in SUBSET D /\ IsFiniteSet({})
    BY FS_EmptySet
  <1>2. QED
    BY <1>1, SumSteps DEF TakesFirst

\* The sum from low to i.
LEMMA SumFrom ==
  ASSUME NEW low \in Nat, NEW k \in Nat, NEW f \in [low .. k -> Int], NEW i \in low .. k
  PROVE  /\ SumOver(f, low .. i - 1) \in Int /\ SumOver(f, low .. low - 1) = 0
         /\ SumOver(f, low .. i) = SumOver(f, low .. i - 1) + f[i]
  <1>1. low .. i - 1 \in SUBSET (low .. k) /\ low .. i \in SUBSET (low .. k)
    OBVIOUS
  <1>2. IsFiniteSet(low .. i - 1) /\ IsFiniteSet(low .. i)
    BY FS_Interval
  <1>3. low .. i - 1 = (low .. i) \ {i} /\ i \in low .. i
    OBVIOUS
  <1>4. PICK D, S : /\ D = low .. k /\ S = low .. i /\ f \in [D -> Int] /\ S \in SUBSET D
                    /\ IsFiniteSet(S) /\ i \in S /\ S \ {i} = low .. i - 1
    BY <1>1, <1>2, <1>3
  <1>5. SumOver(f, S) = f[i] + SumOver(f, S \ {i}) /\ SumOver(f, low .. i - 1) \in Int
    <2>1. SumOver(f, S) = f[i] + SumOver(f, S \ {i})
      BY <1>4, SumWithout
    <2>2. SumOver(f, low .. i - 1) \in Int
      BY <1>1, <1>2, SumSteps
    <2>3. QED
      BY <2>1, <2>2
  <1>6. f[i] \in Int
    OBVIOUS
  <1>7. low .. low - 1 = {}
    OBVIOUS
  <1>8. SumOver(f, low .. low - 1) = 0
    BY <1>7, EmptySum
  <1>9. SumOver(f, low .. i) = f[i] + SumOver(f, low .. i - 1)
    BY <1>4, <1>5, Zenon
  <1>10. PICK a \in Int, b \in Int : a = SumOver(f, low .. i - 1) /\ b = f[i]
    BY <1>5, <1>6
  <1>11. QED
    BY <1>5, <1>8, <1>9, <1>10

LEMMA SumUpTo ==
  ASSUME NEW k \in Nat, NEW f \in [1 .. k -> Int], NEW i \in 1 .. k
  PROVE  /\ SumOver(f, 1 .. i - 1) \in Int /\ SumOver(f, 1 .. 0) = 0
         /\ SumOver(f, 1 .. i) = SumOver(f, 1 .. i - 1) + f[i]
  <1>1. 1 \in Nat /\ 1 - 1 = 0
    OBVIOUS
  <1>2. SumOver(f, 1 .. 1 - 1) = 0
    BY <1>1, SumFrom
  <1>3. QED
    BY <1>1, <1>2, SumFrom

\* How many members of S do not exceed t.
Rank(S, t) == Cardinality({u \in S : u <= t})

LEMMA RankGrows ==
  ASSUME NEW S \in SUBSET Int, IsFiniteSet(S), NEW a \in S
  PROVE  /\ Rank(S, a) \in 1 .. Cardinality(S) /\ Cardinality(S) \in Nat
         /\ \A b \in S : a < b => Rank(S, a) < Rank(S, b)
  <1> DEFINE Low(t) == {u \in S : u <= t}
  <1>1. \A t \in S : /\ Low(t) \in SUBSET S /\ t \in Low(t) /\ IsFiniteSet(Low(t))
                     /\ Cardinality(Low(t)) <= Cardinality(S) /\ Cardinality(Low(t)) \in Nat
    <2> SUFFICES ASSUME NEW t \in S
                 PROVE  /\ Low(t) \in SUBSET S /\ t \in Low(t) /\ IsFiniteSet(Low(t))
                        /\ Cardinality(Low(t)) <= Cardinality(S) /\ Cardinality(Low(t)) \in Nat
      OBVIOUS
    <2>1. Low(t) \in SUBSET S /\ t \in Low(t)
      OBVIOUS
    <2> HIDE DEF Low
    <2>2. QED
      BY <2>1, FS_Subset, FS_CardinalityType
  <1>2. Cardinality(S) \in Nat
    BY FS_CardinalityType
  <1>3. Cardinality(Low(a)) # 0
    <2> HIDE DEF Low
    <2>1. QED
      BY <1>1, FS_EmptySet
  <1>4. ASSUME NEW b \in S, a < b PROVE Cardinality(Low(a)) < Cardinality(Low(b))
    <2>1. Low(a) \in SUBSET Low(b) /\ b \notin Low(a)
      <3>1. a \in Int /\ b \in Int /\ \A u \in S : u \in Int
        OBVIOUS
      <3>2. \A u \in S : u <= a => u <= b
        BY <1>4, <3>1
      <3>3. ~(b <= a)
        BY <1>4, <3>1
      <3>4. QED
        BY <3>2, <3>3
    <2> HIDE DEF Low
    <2>2. PICK A, B : A = Low(a) /\ B = Low(b) /\ A \in SUBSET B /\ IsFiniteSet(B) /\ A # B
                      /\ Cardinality(A) \in Nat /\ Cardinality(B) \in Nat
      BY <1>1, <2>1
    <2>3. QED
      BY <2>2, FS_Subset
  <1>5. QED
    BY <1>1, <1>2, <1>3, <1>4 DEF Rank

\* The members of S in ascending order.
InOrder(ticks, S) ==
  /\ DOMAIN ticks = 1 .. Cardinality(S) /\ Cardinality(S) \in Nat
  /\ \A i \in DOMAIN ticks : ticks[i] \in S
  /\ \A i, j \in DOMAIN ticks : i < j => ticks[i] < ticks[j]
  /\ \A t \in S : \E i \in DOMAIN ticks : ticks[i] = t

LEMMA RanksAll ==
  ASSUME NEW S \in SUBSET Int, IsFiniteSet(S), NEW i \in 1 .. Cardinality(S)
  PROVE  \E t \in S : Rank(S, t) = i
  <1> DEFINE T == 1 .. Cardinality(S)
             f == [t \in S |-> Rank(S, t)]
  <1>1. \A t \in S : Rank(S, t) \in T
    BY RankGrows
  <1>2. \A a, b \in S : a # b => Rank(S, a) # Rank(S, b)
    <2> SUFFICES ASSUME NEW a \in S, NEW b \in S, a # b PROVE Rank(S, a) # Rank(S, b)
      OBVIOUS
    <2>1. Rank(S, a) \in Int /\ Rank(S, b) \in Int
      BY <1>1
    <2>2. a < b \/ b < a
      OBVIOUS
    <2>3. QED
      BY <2>1, <2>2, RankGrows
  <1>3. f \in Injection(S, T)
    BY <1>1, <1>2 DEF Injection, IsInjective
  <1>4. IsFiniteSet(T) /\ Cardinality(T) = Cardinality(S)
    <2>1. Cardinality(S) \in Nat
      BY FS_CardinalityType
    <2>2. QED
      BY <2>1, FS_Interval
  <1>5. f \in Surjection(S, T)
    <2> HIDE DEF f, T
    <2>1. QED
      BY <1>3, <1>4, FS_Injection
  <1>6. QED
    BY <1>5 DEF Surjection

LEMMA OrderedInOrder ==
  ASSUME NEW pl, IsPool(pl)
  PROVE  InOrder(Ordered(pl), Initialized(pl)) /\ Initialized(pl) \in SUBSET Int
         /\ IsFiniteSet(Initialized(pl))
  <1> DEFINE S == Initialized(pl)
             ticks == Ordered(pl)
  <1>1. S \in SUBSET (MinTick .. -MinTick) /\ MinTick \in Int
    BY MathAssumption DEF IsPool, Initialized
  <1>2. S \in SUBSET Int /\ IsFiniteSet(S)
    <2>1. IsFiniteSet(MinTick .. -MinTick)
      BY <1>1, FS_Interval
    <2>2. QED
      BY <1>1, <2>1, FS_Subset
  <1>3. ticks = [i \in 1 .. Cardinality(S) |-> CHOOSE t \in S : Rank(S, t) = i]
    BY DEF Ordered, Rank
  <1> HIDE DEF ticks, S
  <1>4. \A i \in 1 .. Cardinality(S) : ticks[i] \in S /\ Rank(S, ticks[i]) = i
    BY <1>2, <1>3, RanksAll
  <1>5. Cardinality(S) \in Nat
    BY <1>2, FS_CardinalityType
  <1>6. DOMAIN ticks = 1 .. Cardinality(S)
    BY <1>3
  <1>7. ASSUME NEW i \in DOMAIN ticks, NEW j \in DOMAIN ticks, i < j PROVE ticks[i] < ticks[j]
    <2>1. PICK a \in S, b \in S : a = ticks[i] /\ b = ticks[j] /\ Rank(S, a) = i /\ Rank(S, b) = j
      BY <1>4, <1>6
    <2>2. ~(b < a)
      <3>1. SUFFICES ASSUME b < a PROVE FALSE
        OBVIOUS
      <3>2. Rank(S, b) < Rank(S, a)
        BY <1>2, <3>1, RankGrows
      <3>3. QED
        BY <1>5, <1>6, <1>7, <2>1, <3>2
    <2>3. a # b /\ a \in Int /\ b \in Int
      BY <1>2, <1>5, <1>6, <1>7, <2>1
    <2>4. QED
      BY <2>1, <2>2, <2>3
  <1>8. ASSUME NEW t \in S PROVE \E i \in DOMAIN ticks : ticks[i] = t
    <2>1. PICK i \in 1 .. Cardinality(S) : i = Rank(S, t)
      BY <1>2, RankGrows
    <2>2. PICK a \in S : a = ticks[i] /\ Rank(S, a) = i
      BY <1>4
    <2>3. a = t
      <3>1. a \in Int /\ t \in Int /\ i \in Int
        BY <1>2
      <3>2. ~(a < t) /\ ~(t < a)
        <4>1. a < t => Rank(S, a) < Rank(S, t)
          BY <1>2, RankGrows
        <4>2. t < a => Rank(S, t) < Rank(S, a)
          BY <1>2, RankGrows
        <4>3. QED
          BY <2>1, <2>2, <3>1, <4>1, <4>2
      <3>3. QED
        BY <3>1, <3>2
    <2>4. QED
      BY <1>6, <2>2, <2>3
  <1>9. QED
    BY <1>2, <1>4, <1>5, <1>6, <1>7, <1>8 DEF InOrder, ticks, S

LEMMA OrderedLength ==
  ASSUME NEW S \in SUBSET Int, NEW ticks, InOrder(ticks, S), NEW n, n = Len(ticks),
         ticks = [i \in DOMAIN ticks |-> ticks[i]]
  PROVE  n \in Nat /\ DOMAIN ticks = 1 .. n /\ \A i \in 1 .. n : ticks[i] \in Int
  <1>1. PICK k \in Nat : k = Cardinality(S) /\ DOMAIN ticks = 1 .. k
    BY DEF InOrder
  <1>2. \A i \in 1 .. k : ticks[i] \in Int
    BY <1>1 DEF InOrder
  <1>3. ticks \in [1 .. k -> Int]
    BY <1>1, <1>2
  <1>4. ticks \in Seq(Int) /\ Len(ticks) = k
    BY <1>3
  <1>5. QED
    BY <1>1, <1>2, <1>4

\* Where no position covers a tick it has no liquidity, and only there.
LEMMA LiquidityNone ==
  ASSUME NEW pl, IsPool(pl), NEW tick
  PROVE  /\ LiquidityAt(pl, tick) \in Nat
         /\ LiquidityAt(pl, tick) = 0 <=> \A pos \in pl.positions : ~Covers(pos, tick)
  <1> DEFINE D == pl.positions
             f == Gives(D)
  <1>1. PICK S \in SUBSET D : S = {pos \in D : Covers(pos, tick)}
    OBVIOUS
  <1>2. /\ IsFiniteSet(S) /\ f \in [D -> Nat] /\ f \in [D -> Int]
        /\ LiquidityAt(pl, tick) = SumOver(f, S) /\ LiquidityAt(pl, tick) \in Nat
    BY <1>1, LiquidityFacts DEF LiquidityAt
  <1>3. \A pos \in D : f[pos] \in Nat \ {0}
    BY DEF Gives, IsPool
  <1> HIDE DEF D, f
  <1>4. CASE S = {}
    <2>1. SumOver(f, S) = 0
      BY <1>2, <1>4, EmptySum
    <2>2. QED
      BY <1>1, <1>2, <1>4, <2>1 DEF D
  <1>5. CASE S # {}
    <2>1. PICK x : x \in S
      BY <1>5
    <2>2. SumOver(f, S) = f[x] + SumOver(f, S \ {x})
      BY <1>2, <2>1, SumWithout
    <2>3. SumOver(f, S \ {x}) \in Nat
      <3>1. S \ {x} \in SUBSET D /\ IsFiniteSet(S \ {x})
        BY <1>2, FS_Subset
      <3>2. QED
        BY <1>2, <3>1, SumIsNat
    <2>4. f[x] \in Nat \ {0} /\ x \in D /\ Covers(x, tick)
      BY <1>1, <1>3, <2>1
    <2>5. LiquidityAt(pl, tick) # 0
      BY <1>2, <2>2, <2>3, <2>4
    <2>6. QED
      BY <1>2, <2>4, <2>5 DEF D
  <1>6. QED
    BY <1>4, <1>5

LEMMA LiquidityBelow ==
  ASSUME NEW pl, IsPool(pl), NEW tick \in Int, \A t \in Initialized(pl) : tick < t
  PROVE  LiquidityAt(pl, tick) = 0
  <1>1. \A pos \in pl.positions : pos.lower \in Int /\ pos.lower \in Initialized(pl)
    BY MathAssumption DEF IsPool, Initialized
  <1>2. \A pos \in pl.positions : ~Covers(pos, tick)
    BY <1>1 DEF Covers
  <1>3. QED
    BY <1>2, LiquidityNone

\* What the nets of the ticks up to one come to.
LEMMA CumulativeIsLiquidity ==
  ASSUME NEW pl, IsPool(pl), NEW n \in Nat, NEW ticks, InOrder(ticks, Initialized(pl)),
         DOMAIN ticks = 1 .. n, NEW i \in 1 .. n
  PROVE  Cumulative(pl, ticks, i) = LiquidityAt(pl, ticks[i])
  <1> DEFINE f == Nets(pl, ticks)
             T == {j \in Nat : j \in 1 .. n /\ SumOver(f, 1 .. j) # LiquidityAt(pl, ticks[j])}
  <1>1. \A j \in 1 .. n : ticks[j] \in Initialized(pl) /\ ticks[j] \in Int
    BY OrderedInOrder DEF InOrder
  <1>8. /\ \A j, m \in 1 .. n : j < m => ticks[j] < ticks[m]
        /\ \A t \in Initialized(pl) : \E m \in 1 .. n : ticks[m] = t
    BY DEF InOrder
  <1>2. \A j \in 1 .. n : /\ f[j] = LiquidityAt(pl, ticks[j]) - LiquidityAt(pl, ticks[j] - 1)
                          /\ LiquidityAt(pl, ticks[j]) \in Nat
                          /\ LiquidityAt(pl, ticks[j] - 1) \in Nat
    BY <1>1, LiquidityCrossed DEF Nets
  <1>3. f \in [1 .. n -> Int]
    <2>1. \A j \in 1 .. n : f[j] \in Int
      BY <1>2
    <2>2. f = [j \in 1 .. n |-> f[j]]
      BY DEF Nets
    <2> HIDE DEF f
    <2>3. QED
      BY <2>1, <2>2
  <1> HIDE DEF f
  <1>4. T = {}
    <2> SUFFICES ASSUME T # {} PROVE FALSE
      OBVIOUS
    <2>1. PICK j \in T : \A m \in T : j <= m
      <3>1. T \in SUBSET Nat
        OBVIOUS
      <3> HIDE DEF T
      <3>2. QED
        BY <3>1, LeastNumber
    <2>2. j \in 1 .. n /\ SumOver(f, 1 .. j) # LiquidityAt(pl, ticks[j])
      BY <2>1
    <2>3. /\ SumOver(f, 1 .. j - 1) \in Int /\ SumOver(f, 1 .. 0) = 0
          /\ SumOver(f, 1 .. j) = SumOver(f, 1 .. j - 1) + f[j]
      BY <1>3, <2>2, SumUpTo
    <2>4. CASE j = 1
      <3>1. \A t \in Initialized(pl) : ticks[1] - 1 < t
        <4>1. SUFFICES ASSUME NEW m \in 1 .. n PROVE ticks[1] - 1 < ticks[m]
          BY <1>8
        <4>2. ticks[1] \in Int /\ ticks[m] \in Int /\ 1 \in 1 .. n /\ (m = 1 \/ 1 < m)
          BY <1>1, <2>2, <2>4
        <4>3. ticks[1] <= ticks[m]
          BY <1>8, <4>2
        <4>4. QED
          BY <4>2, <4>3
      <3>2. LiquidityAt(pl, ticks[1] - 1) = 0
        BY <1>1, <2>2, <2>4, <3>1, LiquidityBelow
      <3>3. QED
        BY <1>2, <2>2, <2>3, <2>4, <3>2
    <2>5. CASE j # 1
      <3>1. j - 1 \in 1 .. n /\ j - 1 \in Nat /\ ~(j <= j - 1)
        BY <2>2, <2>5
      <3>2. SumOver(f, 1 .. j - 1) = LiquidityAt(pl, ticks[j - 1])
        BY <2>1, <3>1
      <3>3. PICK a \in Int, b \in Int : a = ticks[j - 1] /\ b = ticks[j] /\ a < b
        BY <1>1, <1>8, <2>2, <3>1
      <3>4. \A t \in Initialized(pl) : ~(a < t /\ t <= b - 1)
        <4>1. SUFFICES ASSUME NEW m \in 1 .. n, a < ticks[m], ticks[m] <= b - 1 PROVE FALSE
          BY <1>8
        <4>2. ticks[m] \in Int /\ ~(m < j - 1) /\ m # j - 1 /\ ~(j < m) /\ m # j
          BY <1>1, <1>8, <2>2, <3>1, <3>3, <4>1
        <4>3. QED
          BY <2>2, <4>2
      <3>5. LiquidityAt(pl, a) = LiquidityAt(pl, b - 1)
        BY <3>3, <3>4, LiquidityBetween
      <3>6. QED
        BY <1>2, <2>2, <2>3, <3>1, <3>2, <3>3, <3>5
    <2>6. QED
      BY <2>4, <2>5
  <1>5. SumOver(f, 1 .. i) = LiquidityAt(pl, ticks[i])
    BY <1>4
  <1>6. Cumulative(pl, ticks, i) = SumOver(f, 1 .. i)
    <2>1. 1 .. i \in SUBSET (1 .. n) /\ IsFiniteSet(1 .. i)
      BY FS_Interval
    <2>2. QED
      BY <1>3, <2>1, FunctionSum DEF Cumulative, f
  <1>7. QED
    BY <1>5, <1>6

\* The ticks of a pool in order, and the bands between them.
Sorted(pl, ticks, n) ==
  /\ n \in Nat /\ DOMAIN ticks = 1 .. n
  /\ \A i \in 1 .. n : ticks[i] \in Initialized(pl) /\ ticks[i] \in Int
  /\ \A i, j \in 1 .. n : i < j => ticks[i] < ticks[j]
  /\ \A t \in Initialized(pl) : \E i \in 1 .. n : ticks[i] = t

Banded(pl, ticks, n, bands) ==
  /\ DOMAIN bands = 1 .. n - 1
  /\ \A i \in 1 .. n - 1 :
       /\ bands[i].lower = ticks[i] /\ bands[i].upper = ticks[i + 1]
       /\ bands[i].liquidity = LiquidityAt(pl, ticks[i])
       /\ bands[i].gap <=> LiquidityAt(pl, ticks[i]) = 0
       /\ bands[i].cliff <=>
            i > 1 /\ Cliff(LiquidityAt(pl, ticks[i - 1]), LiquidityAt(pl, ticks[i]))

LEMMA TicksSorted ==
  ASSUME NEW pl, IsPool(pl)
  PROVE  Sorted(pl, Ordered(pl), Len(Ordered(pl)))
         /\ \A i \in 1 .. Len(Ordered(pl)) :
              Cumulative(pl, Ordered(pl), i) = LiquidityAt(pl, Ordered(pl)[i])
  <1>1. PICK ticks : ticks = Ordered(pl)
    OBVIOUS
  <1>2. PICK S : S = Initialized(pl)
    OBVIOUS
  <1>3. InOrder(ticks, S) /\ S \in SUBSET Int
    BY <1>1, <1>2, OrderedInOrder
  <1>4. ticks = [i \in DOMAIN ticks |-> ticks[i]]
    <2> DEFINE Nth(i) == CHOOSE t \in Initialized(pl) :
                           Cardinality({u \in Initialized(pl) : u <= t}) = i
               f == [i \in 1 .. Cardinality(Initialized(pl)) |-> Nth(i)]
    <2>1. Ordered(pl) = f
      BY DEF Ordered
    <2> HIDE DEF Nth
    <2>2. f = [i \in DOMAIN f |-> f[i]]
      OBVIOUS
    <2> HIDE DEF f
    <2>3. QED
      BY <1>1, <2>1, <2>2
  <1>5. PICK n : n = Len(ticks)
    OBVIOUS
  <1>6. n \in Nat /\ DOMAIN ticks = 1 .. n /\ \A i \in 1 .. n : ticks[i] \in Int
    BY <1>3, <1>4, <1>5, OrderedLength
  <1>7. Sorted(pl, ticks, n)
    BY <1>2, <1>3, <1>6 DEF Sorted, InOrder
  <1>8. \A i \in 1 .. n : Cumulative(pl, ticks, i) = LiquidityAt(pl, ticks[i])
    BY <1>2, <1>3, <1>6, CumulativeIsLiquidity
  <1>9. QED
    BY <1>1, <1>5, <1>7, <1>8

LEMMA ProfileBands ==
  ASSUME NEW pl, IsPool(pl), NEW profile, profile = buildLPBandProfile(pl)
  PROVE  /\ Sorted(pl, Ordered(pl), Len(Ordered(pl)))
         /\ Banded(pl, Ordered(pl), Len(Ordered(pl)), profile.bands)
         /\ profile.envelope = computeSafeEnvelope(profile.bands, TickOf(pl.sqrtPrice))
  <1> DEFINE ticks == Ordered(pl)
             n == Len(ticks)
             liq == [i \in 1 .. n - 1 |-> Cumulative(pl, ticks, i)]
             full == {i \in DOMAIN liq : liq[i] > 0}
             average == IF full = {} THEN 0
                        ELSE MapThenSumSet(LAMBDA i : liq[i], full) \div Cardinality(full)
             bands == [i \in DOMAIN liq |->
                        [ lower |-> ticks[i], upper |-> ticks[i + 1], liquidity |-> liq[i],
                          gap   |-> liq[i] <= 0,
                          thin  |-> i \in full /\ 5 * liq[i] < average,
                          cliff |-> i > 1 /\ Cliff(liq[i - 1], liq[i]) ]]
  <1>1. Sorted(pl, ticks, n) /\ \A i \in 1 .. n : Cumulative(pl, ticks, i) = LiquidityAt(pl, ticks[i])
    BY TicksSorted
  <1>2. /\ profile.bands = bands
        /\ profile.envelope = computeSafeEnvelope(profile.bands, TickOf(pl.sqrtPrice))
    BY Zenon DEF buildLPBandProfile
  <1> HIDE DEF average, ticks, n
  <1>3. n \in Nat /\ \A i \in 1 .. n - 1 : i \in 1 .. n /\ (i > 1 => i - 1 \in 1 .. n - 1)
    BY <1>1 DEF Sorted
  <1>4. \A i \in 1 .. n - 1 : liq[i] = LiquidityAt(pl, ticks[i]) /\ liq[i] \in Nat
    BY <1>1, <1>3, LiquidityNone
  <1>5. DOMAIN liq = 1 .. n - 1
    OBVIOUS
  <1> HIDE DEF liq, full
  <1>6. Banded(pl, ticks, n, bands)
    <2>1. DOMAIN bands = 1 .. n - 1
      BY <1>5
    <2>2. ASSUME NEW i \in 1 .. n - 1
          PROVE  /\ bands[i].lower = ticks[i] /\ bands[i].upper = ticks[i + 1]
                 /\ bands[i].liquidity = LiquidityAt(pl, ticks[i])
                 /\ bands[i].gap <=> LiquidityAt(pl, ticks[i]) = 0
                 /\ bands[i].cliff <=>
                      i > 1 /\ Cliff(LiquidityAt(pl, ticks[i - 1]), LiquidityAt(pl, ticks[i]))
      <3>1. /\ bands[i].lower = ticks[i] /\ bands[i].upper = ticks[i + 1]
            /\ bands[i].liquidity = liq[i] /\ bands[i].gap = (liq[i] <= 0)
            /\ bands[i].cliff = (i > 1 /\ Cliff(liq[i - 1], liq[i]))
        BY <1>5
      <3> HIDE DEF bands
      <3>2. liq[i] <= 0 <=> LiquidityAt(pl, ticks[i]) = 0
        BY <1>4
      <3>3. i > 1 => liq[i - 1] = LiquidityAt(pl, ticks[i - 1])
        BY <1>3, <1>4
      <3>4. bands[i].gap <=> LiquidityAt(pl, ticks[i]) = 0
        BY <3>1, <3>2, Zenon
      <3>5. bands[i].cliff <=>
              i > 1 /\ Cliff(LiquidityAt(pl, ticks[i - 1]), LiquidityAt(pl, ticks[i]))
        BY <1>4, <3>1, <3>3, Zenon
      <3>6. QED
        BY <1>4, <3>1, <3>4, <3>5, Zenon
    <2> HIDE DEF bands
    <2>3. QED
      BY <2>1, <2>2, Zenon DEF Banded
  <1> HIDE DEF bands
  <1>7. QED
    BY <1>1, <1>2, <1>6, Zenon DEF ticks, n

\* Between two ticks the liquidity is that of the lower one.
LEMMA LiquidityInBand ==
  ASSUME NEW pl, IsPool(pl), NEW n, NEW ticks, Sorted(pl, ticks, n), NEW i \in 1 .. n - 1,
         NEW t \in ticks[i] .. ticks[i + 1] - 1
  PROVE  LiquidityAt(pl, t) = LiquidityAt(pl, ticks[i])
  <1>1. n \in Nat /\ i \in 1 .. n /\ i + 1 \in 1 .. n
    BY DEF Sorted
  <1>2. PICK a \in Int, b \in Int : a = ticks[i] /\ b = ticks[i + 1] /\ a <= t /\ t <= b - 1 /\ t \in Int
    BY <1>1 DEF Sorted
  <1>3. \A u \in Initialized(pl) : ~(a < u /\ u <= t)
    <2>1. SUFFICES ASSUME NEW m \in 1 .. n, a < ticks[m], ticks[m] <= t PROVE FALSE
      BY DEF Sorted
    <2>2. ticks[m] \in Int /\ ~(m < i) /\ m # i /\ ~(i + 1 < m) /\ m # i + 1
      BY <1>1, <1>2, <2>1 DEF Sorted
    <2>3. QED
      BY <1>1, <2>2
  <1>4. QED
    BY <1>2, <1>3, LiquidityBetween

\* A profile's bands (BandsExact).
LEMMA ProfileIsExact ==
  ASSUME NEW pl, IsPool(pl), NEW profile, profile = buildLPBandProfile(pl),
         NEW i \in DOMAIN profile.bands,
         NEW t \in profile.bands[i].lower .. profile.bands[i].upper - 1
  PROVE  /\ profile.bands[i].liquidity = LiquidityAt(pl, t)
         /\ profile.bands[i].gap <=> \A pos \in pl.positions : ~Covers(pos, t)
  <1>1. PICK ticks, n : /\ ticks = Ordered(pl) /\ n = Len(ticks)
    OBVIOUS
  <1>2. PICK bands : /\ bands = profile.bands /\ Sorted(pl, ticks, n) /\ Banded(pl, ticks, n, bands)
    BY <1>1, ProfileBands
  <1>3. /\ i \in 1 .. n - 1 /\ t \in ticks[i] .. ticks[i + 1] - 1
        /\ bands[i].liquidity = LiquidityAt(pl, ticks[i])
        /\ bands[i].gap <=> LiquidityAt(pl, ticks[i]) = 0
    BY <1>2 DEF Banded
  <1>4. LiquidityAt(pl, t) = LiquidityAt(pl, ticks[i])
    BY <1>2, <1>3, LiquidityInBand
  <1>5. LiquidityAt(pl, t) = 0 <=> \A pos \in pl.positions : ~Covers(pos, t)
    BY LiquidityNone
  <1>6. QED
    BY <1>2, <1>3, <1>4, <1>5, Zenon

-----------------------------------------------------------------------------
(* The ticks of the positions.                                             *)

\* What buildTickMap's loop has gathered from each part of S.
Gathers(h, S) ==
  \A s \in SUBSET S : h[s] = IF s = {} THEN <<>> ELSE AddPosition(First(s), h[s \ {First(s)}])

LEMMA GatherUnique ==
  ASSUME NEW S, IsFiniteSet(S), NEW T, NEW h, NEW k, Gathers(h, S), Gathers(k, T),
         NEW s, s \subseteq S, s \subseteq T
  PROVE  h[s] = k[s]
  <1> DEFINE F == {u \in SUBSET s : h[u] # k[u]}
  <1> SUFFICES ASSUME F # {} PROVE FALSE
    OBVIOUS
  <1>1. F \in SUBSET (SUBSET S) /\ \A u \in F : IsFiniteSet(u)
    BY FS_Subset
  <1>2. PICK m \in F : \A u \in F : u \subseteq m => u = m
    <2> HIDE DEF F
    <2>1. FamilyOfFiniteSets(F)
      BY <1>1 DEF FamilyOfFiniteSets
    <2>2. QED BY <2>1, MinimalMember
  <1>3. m \in SUBSET S /\ m \in SUBSET T /\ h[m] # k[m]
    BY <1>2
  <1>4. m # {}
    BY <1>3 DEF Gathers
  <1>5. First(m) \in m
    BY <1>4, FirstIn
  <1> DEFINE r == m \ {First(m)}
  <1>6. h[m] = AddPosition(First(m), h[r]) /\ k[m] = AddPosition(First(m), k[r])
    BY <1>3, <1>4 DEF Gathers
  <1>7. r \subseteq m /\ r # m /\ r \in SUBSET s
    BY <1>2, <1>5
  <1>8. h[r] = k[r]
    <2> HIDE DEF r
    <2> QED BY <1>2, <1>7
  <1>9. QED
    BY <1>3, <1>6, <1>8

LEMMA GatherExists ==
  ASSUME NEW S, IsFiniteSet(S)
  PROVE  \E h : h = [s \in SUBSET S |-> h[s]] /\ Gathers(h, S)
  <1> DEFINE Has(u) == \E h : Gathers(h, u)
             F == {u \in SUBSET S : ~Has(u)}
  <1>1. F = {}
    <2> SUFFICES ASSUME F # {} PROVE FALSE
      OBVIOUS
    <2>1. F \in SUBSET (SUBSET S) /\ \A u \in F : IsFiniteSet(u)
      BY FS_Subset
    <2>2. PICK m \in F : \A u \in F : u \subseteq m => u = m
      <3> HIDE DEF F
      <3>1. FamilyOfFiniteSets(F)
        BY <2>1 DEF FamilyOfFiniteSets
      <3>2. QED
        BY <3>1, MinimalMember
    <2>3. m \in SUBSET S /\ IsFiniteSet(m) /\ ~Has(m)
      BY <2>1, <2>2
    <2>4. m # {}
      <3> SUFFICES ASSUME m = {} PROVE FALSE
        OBVIOUS
      <3> DEFINE z == [s \in {{}} |-> <<>>]
      <3>1. \A s \in SUBSET m : s = {} /\ z[s] = <<>>
        OBVIOUS
      <3> HIDE DEF z
      <3>2. Gathers(z, m)
        BY <3>1 DEF Gathers
      <3>3. QED
        BY <2>3, <3>2
    <2>5. PICK x : x = First(m) /\ x \in m
      BY <2>4, FirstIn
    <2>6. PICK r : r = m \ {x}
      OBVIOUS
    <2> DEFINE H(u) == CHOOSE h : Gathers(h, u)
               g == [s \in SUBSET m |-> IF s = m THEN AddPosition(x, H(r)[r]) ELSE H(s)[s]]
    <2>7. ASSUME NEW u \in SUBSET m, u # m PROVE Gathers(H(u), u) /\ IsFiniteSet(u)
      <3>1. u \in SUBSET S /\ u \notin F
        BY <2>2, <2>3, <2>7
      <3>2. \E h : Gathers(h, u)
        BY <3>1
      <3>3. Gathers(H(u), u)
        BY <3>2
      <3>4. IsFiniteSet(u)
        BY <2>3, FS_Subset
      <3>5. QED
        BY <3>3, <3>4
    <2>8. r \in SUBSET m /\ r # m
      BY <2>5, <2>6
    <2>9. /\ g[m] = AddPosition(x, H(r)[r])
          /\ \A s \in SUBSET m : s # m => g[s] = H(s)[s]
      <3> HIDE DEF H
      <3>1. QED
        OBVIOUS
    <2> HIDE DEF H, g, Has, F
    <2>10. ASSUME NEW s \in SUBSET m
           PROVE  g[s] = IF s = {} THEN <<>> ELSE AddPosition(First(s), g[s \ {First(s)}])
      <3>1. CASE s = m
        BY <2>4, <2>5, <2>6, <2>8, <2>9, <3>1
      <3>2. CASE s # m /\ s = {}
        BY <2>7, <2>9, <3>2 DEF Gathers
      <3>3. CASE s # m /\ s # {}
        <4>1. PICK w : w = s \ {First(s)}
          OBVIOUS
        <4>2. w \in SUBSET m /\ w # m /\ w \subseteq s
          BY <3>3, <4>1, FirstIn
        <4>3. Gathers(H(w), w) /\ g[w] = H(w)[w] /\ Gathers(H(s), s) /\ g[s] = H(s)[s] /\ IsFiniteSet(s)
          BY <2>7, <2>9, <3>3, <4>2
        <4>4. H(s)[w] = H(w)[w]
          BY <4>2, <4>3, GatherUnique
        <4>5. H(s)[s] = AddPosition(First(s), H(s)[w])
          BY <3>3, <4>1, <4>3 DEF Gathers
        <4>6. QED
          BY <3>3, <4>1, <4>3, <4>4, <4>5
      <3>4. QED
        BY <3>1, <3>2, <3>3
    <2>11. Gathers(g, m)
      BY <2>10, Zenon DEF Gathers
    <2>12. QED
      BY <2>3, <2>11 DEF Has
  <1>2. PICK h : Gathers(h, S)
    <2>1. S \notin F
      BY <1>1
    <2>2. QED
      BY <2>1
  <1> DEFINE g == [s \in SUBSET S |-> h[s]]
  <1>3. ASSUME NEW s \in SUBSET S
        PROVE  g[s] = IF s = {} THEN <<>> ELSE AddPosition(First(s), g[s \ {First(s)}])
    <2>1. g[s] = h[s] /\ g[s \ {First(s)}] = h[s \ {First(s)}]
      OBVIOUS
    <2> HIDE DEF g
    <2>2. QED
      BY <1>2, <2>1 DEF Gathers
  <1>4. g = [s \in SUBSET S |-> g[s]]
    OBVIOUS
  <1> HIDE DEF g
  <1>5. QED
    BY <1>3, <1>4 DEF Gathers

LEMMA GatherFold ==
  ASSUME NEW S, IsFiniteSet(S)
  PROVE  \E h : Gathers(h, S) /\ FoldSet(AddPosition, <<>>, S) = h[S]
  <1> DEFINE Is(g) == g = [s \in SUBSET S |-> IF s = {} THEN <<>>
                             ELSE AddPosition(CHOOSE x \in s : TRUE, g[s \ {CHOOSE x \in s : TRUE}])]
             fold == CHOOSE g : Is(g)
  <1>1. FoldSet(AddPosition, <<>>, S) = fold[S]
    BY Zenon DEF FoldSet, MapThenFoldSet
  <1>2. PICK h : h = [s \in SUBSET S |-> h[s]] /\ Gathers(h, S)
    BY GatherExists
  <1>3. Is(h)
    <2>1. [s \in SUBSET S |-> h[s]]
            = [s \in SUBSET S |-> IF s = {} THEN <<>> ELSE AddPosition(First(s), h[s \ {First(s)}])]
      BY <1>2, Zenon DEF Gathers
    <2>2. QED
      BY <1>2, <2>1 DEF First
  <1>4. Is(fold)
    <2> HIDE DEF Is
    <2>1. QED
      BY <1>3
  <1>5. Gathers(fold, S)
    <2> HIDE DEF fold
    <2>1. QED
      BY <1>4, Zenon DEF Gathers, First
  <1>6. QED
    BY <1>1, <1>5

\* The net liquidity that positions give a tick.
NetOf(s, t) ==
  TotalLiquidity({pos \in s : pos.lower = t}) - TotalLiquidity({pos \in s : pos.upper = t})
EndsOf(s) == {pos.lower : pos \in s} \cup {pos.upper : pos \in s}

TickMapOf(m, s) ==
  /\ DOMAIN m = EndsOf(s)
  /\ \A t \in DOMAIN m : m[t].net = NetOf(s, t) /\ m[t].net \in Int /\ m[t].gross \in Nat \ {0}

LEMMA TotalWith ==
  ASSUME NEW pl, IsPool(pl), NEW S \in SUBSET pl.positions, NEW x \in pl.positions
  PROVE  /\ TotalLiquidity(S) \in Nat /\ TotalLiquidity(S \ {x}) \in Nat
         /\ x.liquidity \in Nat \ {0}
         /\ TotalLiquidity(S) = TotalLiquidity(S \ {x}) + (IF x \in S THEN x.liquidity ELSE 0)
  <1> DEFINE D == pl.positions
             f == Gives(D)
  <1>1. S \ {x} \in SUBSET D
    OBVIOUS
  <1>2. /\ IsFiniteSet(S) /\ f \in [D -> Int]
        /\ TotalLiquidity(S) = SumOver(f, S) /\ TotalLiquidity(S) \in Nat
        /\ TotalLiquidity(S \ {x}) = SumOver(f, S \ {x}) /\ TotalLiquidity(S \ {x}) \in Nat
    BY <1>1, LiquidityFacts
  <1>3. x.liquidity \in Nat \ {0} /\ f[x] = x.liquidity
    BY DEF IsPool, Gives
  <1> HIDE DEF D, f
  <1>4. CASE x \in S
    <2>1. S \in SUBSET D
      BY DEF D
    <2>2. SumOver(f, S) = f[x] + SumOver(f, S \ {x})
      BY <1>2, <1>4, <2>1, SumWithout
    <2>3. QED
      BY <1>2, <1>3, <1>4, <2>2
  <1>5. CASE x \notin S
    <2>1. S \ {x} = S
      BY <1>5
    <2>2. QED
      BY <1>2, <1>3, <1>5, <2>1
  <1>6. QED
    BY <1>4, <1>5

\* What one more position makes of the net liquidity of a tick.
NetGrows(s, x, t) ==
  NetOf(s, t) = NetOf(s \ {x}, t) + (IF t = x.lower THEN x.liquidity ELSE 0)
                                  - (IF t = x.upper THEN x.liquidity ELSE 0)

LEMMA NetWith ==
  ASSUME NEW pl, IsPool(pl), NEW s \in SUBSET pl.positions, NEW x \in s, NEW t
  PROVE  /\ NetOf(s, t) \in Int /\ NetOf(s \ {x}, t) \in Int
         /\ x.liquidity \in Nat \ {0}
         /\ NetGrows(s, x, t)
         /\ t \notin EndsOf(s) => NetOf(s, t) = 0
  <1> DEFINE L(u) == {pos \in u : pos.lower = t}
             U(u) == {pos \in u : pos.upper = t}
  <1>1. /\ L(s) \in SUBSET pl.positions /\ L(s \ {x}) = L(s) \ {x}
        /\ U(s) \in SUBSET pl.positions /\ U(s \ {x}) = U(s) \ {x}
        /\ x \in pl.positions
        /\ x \in L(s) <=> t = x.lower
        /\ x \in U(s) <=> t = x.upper
    OBVIOUS
  <1>2. \A u : NetOf(u, t) = TotalLiquidity(L(u)) - TotalLiquidity(U(u))
    BY DEF NetOf
  <1>3. t \notin EndsOf(s) => L(s) = {} /\ U(s) = {}
    BY DEF EndsOf
  <1> HIDE DEF L, U
  <1>4. PICK a \in Nat, b \in Nat, l \in Nat \ {0} :
          /\ a = TotalLiquidity(L(s) \ {x}) /\ b = TotalLiquidity(U(s) \ {x}) /\ l = x.liquidity
          /\ TotalLiquidity(L(s)) = a + (IF t = x.lower THEN l ELSE 0)
          /\ TotalLiquidity(U(s)) = b + (IF t = x.upper THEN l ELSE 0)
    BY <1>1, TotalWith
  <1>5. NetOf(s \ {x}, t) = a - b
        /\ NetOf(s, t) = (a + (IF t = x.lower THEN l ELSE 0)) - (b + (IF t = x.upper THEN l ELSE 0))
    BY <1>1, <1>2, <1>4
  <1>6. t \notin EndsOf(s) => NetOf(s, t) = 0
    <2>1. CASE L(s) = {} /\ U(s) = {}
      <3>1. NetOf(s, t) = TotalLiquidity({}) - TotalLiquidity({}) /\ TotalLiquidity({}) \in Nat
        BY <1>2, <2>1, LiquidityFacts
      <3>2. QED
        BY <3>1
    <2>2. QED
      BY <1>3, <2>1
  <1>7. QED
    BY <1>4, <1>5, <1>6 DEF NetGrows

LEMMA PositionAdds ==
  ASSUME NEW pl, IsPool(pl), NEW s \in SUBSET pl.positions, NEW x \in s,
         NEW m, TickMapOf(m, s \ {x})
  PROVE  TickMapOf(AddPosition(x, m), s)
  <1> DEFINE r == s \ {x}
             u == AddPosition(x, m)
  <1>1. DOMAIN u = DOMAIN m \cup {x.lower, x.upper}
    BY DEF AddPosition
  <1>2. EndsOf(s) = EndsOf(r) \cup {x.lower, x.upper}
    BY DEF EndsOf
  <1>3. DOMAIN m = EndsOf(r)
        /\ \A t \in DOMAIN m : m[t].net = NetOf(r, t) /\ m[t].net \in Int /\ m[t].gross \in Nat \ {0}
    BY DEF TickMapOf
  <1>4. PICK l \in Nat \ {0} : l = x.liquidity
    BY NetWith
  <1>5. \A t : /\ NetOf(r, t) \in Int /\ (t \notin EndsOf(r) => NetOf(r, t) = 0)
               /\ NetOf(s, t) = NetOf(r, t) + (IF t = x.lower THEN l ELSE 0)
                                            - (IF t = x.upper THEN l ELSE 0)
    <2>1. ASSUME NEW t PROVE t \notin EndsOf(r) => NetOf(r, t) = 0
      <3>1. CASE r = {}
        <4>1. {pos \in r : pos.lower = t} = {} /\ {pos \in r : pos.upper = t} = {}
          BY <3>1
        <4>2. NetOf(r, t) = TotalLiquidity({}) - TotalLiquidity({}) /\ TotalLiquidity({}) \in Nat
          <5> HIDE DEF r
          <5>1. QED
            BY <4>1, LiquidityFacts DEF NetOf
        <4>3. QED
          BY <4>2
      <3>2. CASE r # {}
        <4>1. PICK y : y \in r
          BY <3>2
        <4>2. r \in SUBSET pl.positions
          OBVIOUS
        <4> HIDE DEF r
        <4>3. QED
          BY <4>1, <4>2, NetWith
      <3>3. QED
        BY <3>1, <3>2
    <2>2. ASSUME NEW t
          PROVE  /\ NetOf(r, t) \in Int
                 /\ NetOf(s, t) = NetOf(r, t) + (IF t = x.lower THEN l ELSE 0)
                                              - (IF t = x.upper THEN l ELSE 0)
      <3>1. NetOf(s \ {x}, t) \in Int /\ NetGrows(s, x, t)
        BY NetWith
      <3>2. QED
        BY <1>4, <3>1 DEF NetGrows
    <2> HIDE DEF r
    <2>3. QED
      BY <2>1, <2>2
  <1>6. ASSUME NEW t \in DOMAIN u
        PROVE  u[t].net = NetOf(s, t) /\ u[t].net \in Int /\ u[t].gross \in Nat \ {0}
    <2> DEFINE old == IF t \in DOMAIN m THEN m[t] ELSE [net |-> 0, gross |-> 0]
    <2>1. u[t] = [net |-> old.net + (IF t = x.lower THEN l ELSE 0) - (IF t = x.upper THEN l ELSE 0),
                  gross |-> old.gross + (IF t \in {x.lower, x.upper} THEN l ELSE 0)]
      BY <1>1, <1>4, <1>6 DEF AddPosition
    <2>2. old.net = NetOf(r, t) /\ old.net \in Int /\ old.gross \in Nat
      <3> HIDE DEF r
      <3>1. QED
        BY <1>3, <1>5
    <2>3. t \in {x.lower, x.upper} \/ old.gross \in Nat \ {0}
      BY <1>1, <1>3, <1>6
    <2> HIDE DEF old, r, u
    <2>4. QED
      BY <1>5, <2>1, <2>2, <2>3
  <1> HIDE DEF u, r
  <1>7. QED
    BY <1>1, <1>2, <1>3, <1>6 DEF TickMapOf, u

\* The sum of the nets of the ticks up to t.
LEMMA NetsUpTo ==
  ASSUME NEW pl, IsPool(pl), NEW f, f = [u \in Initialized(pl) |-> Net(pl, u)],
         NEW t \in Initialized(pl)
  PROVE  SumFunctionOnSet(f, {u \in Initialized(pl) : u <= t}) = LiquidityAt(pl, t)
  <1> DEFINE I == Initialized(pl)
             Low(u) == {v \in I : v <= u}
  <1>1. PICK ticks, n : Sorted(pl, ticks, n)
    BY TicksSorted
  <1>2. /\ n \in Nat
        /\ \A j \in 1 .. n : ticks[j] \in I /\ ticks[j] \in Int
        /\ \A j, m \in 1 .. n : j < m => ticks[j] < ticks[m]
        /\ \A u \in I : \E m \in 1 .. n : ticks[m] = u
    BY <1>1 DEF Sorted
  <1>3. IsFiniteSet(I) /\ I \in SUBSET Int
    BY OrderedInOrder
  <1>4. \A u \in I : /\ f[u] = LiquidityAt(pl, u) - LiquidityAt(pl, u - 1)
                     /\ LiquidityAt(pl, u) \in Nat /\ LiquidityAt(pl, u - 1) \in Nat
    BY <1>3, LiquidityCrossed
  <1>5. f \in [I -> Int]
    <2>1. \A u \in I : f[u] \in Int
      BY <1>4
    <2>2. f = [u \in I |-> f[u]]
      OBVIOUS
    <2>3. QED
      BY <2>1, <2>2
  <1>6. \A u \in I : Low(u) \in SUBSET I /\ IsFiniteSet(Low(u)) /\ u \in Low(u)
    <2> SUFFICES ASSUME NEW u \in I
                 PROVE  Low(u) \in SUBSET I /\ IsFiniteSet(Low(u)) /\ u \in Low(u)
      OBVIOUS
    <2>1. Low(u) \in SUBSET I /\ u \in Low(u)
      BY <1>3
    <2> HIDE DEF I, Low
    <2>2. QED
      BY <1>3, <2>1, FS_Subset
  <1> DEFINE T == {j \in Nat : j \in 1 .. n /\ SumOver(f, Low(ticks[j])) # LiquidityAt(pl, ticks[j])}
  <1> HIDE DEF I
  <1>7. T = {}
    <2> SUFFICES ASSUME T # {} PROVE FALSE
      OBVIOUS
    <2>1. PICK j \in T : \A m \in T : j <= m
      <3>1. T \in SUBSET Nat
        OBVIOUS
      <3> HIDE DEF T
      <3>2. QED
        BY <3>1, LeastNumber
    <2>2. j \in 1 .. n /\ SumOver(f, Low(ticks[j])) # LiquidityAt(pl, ticks[j])
      BY <2>1
    <2>3. PICK b \in I : b = ticks[j] /\ b \in Int
      BY <1>2, <2>2
    <2>4. SumOver(f, Low(b)) = f[b] + SumOver(f, Low(b) \ {b})
      <3> HIDE DEF Low
      <3>1. QED
        BY <1>5, <1>6, SumWithout
    <2>5. CASE j = 1
      <3>1. \A u \in I : b - 1 < u
        <4>1. SUFFICES ASSUME NEW m \in 1 .. n PROVE b - 1 < ticks[m]
          BY <1>2
        <4>2. ticks[1] \in Int /\ ticks[m] \in Int /\ 1 \in 1 .. n /\ (m = 1 \/ 1 < m)
          BY <1>2, <2>2, <2>5
        <4>3. ticks[1] <= ticks[m]
          BY <1>2, <4>2
        <4>4. QED
          BY <2>3, <2>5, <4>2, <4>3
      <3>2. LiquidityAt(pl, b - 1) = 0
        BY <2>3, <3>1, LiquidityBelow DEF I
      <3>3. Low(b) \ {b} = {}
        <4>1. SUFFICES ASSUME NEW u \in I, u <= b, u # b PROVE FALSE
          OBVIOUS
        <4>2. u \in Int /\ b - 1 < u
          BY <1>3, <3>1
        <4>3. QED
          BY <2>3, <4>1, <4>2
      <3>4. SumOver(f, Low(b) \ {b}) = 0
        BY <1>5, <3>3, EmptySum
      <3>5. QED
        <4> HIDE DEF Low
        <4>1. QED
          BY <1>4, <2>2, <2>3, <2>4, <3>2, <3>4
    <2>6. CASE j # 1
      <3>1. j - 1 \in 1 .. n /\ j - 1 \in Nat /\ ~(j <= j - 1)
        BY <1>2, <2>2, <2>6
      <3>2. PICK a \in I : a = ticks[j - 1] /\ a \in Int /\ a < b
        BY <1>2, <2>2, <2>3, <3>1
      <3>3. SumOver(f, Low(a)) = LiquidityAt(pl, a)
        <4> HIDE DEF Low
        <4>1. QED
          BY <2>1, <3>1, <3>2
      <3>4. \A u \in I : ~(a < u /\ u <= b - 1)
        <4>1. SUFFICES ASSUME NEW m \in 1 .. n, a < ticks[m], ticks[m] <= b - 1 PROVE FALSE
          BY <1>2
        <4>2. ticks[m] \in Int /\ ~(m < j - 1) /\ m # j - 1 /\ ~(j < m) /\ m # j
          BY <1>2, <2>2, <2>3, <3>1, <3>2, <4>1
        <4>3. QED
          BY <2>2, <4>2
      <3>5. LiquidityAt(pl, a) = LiquidityAt(pl, b - 1)
        BY <2>3, <3>2, <3>4, LiquidityBetween DEF I
      <3>6. Low(b) \ {b} = Low(a)
        <4>1. SUFFICES ASSUME NEW u \in I PROVE (u <= b /\ u # b) <=> u <= a
          OBVIOUS
        <4>2. u \in Int /\ ~(a < u /\ u <= b - 1)
          BY <1>3, <3>4
        <4>3. QED
          BY <2>3, <3>2, <4>2
      <3>7. QED
        <4> HIDE DEF Low
        <4>1. QED
          BY <1>4, <2>2, <2>3, <2>4, <3>2, <3>3, <3>5, <3>6
    <2>7. QED
      BY <2>5, <2>6
  <1>8. SumOver(f, Low(t)) = LiquidityAt(pl, t)
    <2>1. PICK j \in 1 .. n : ticks[j] = t
      BY <1>2 DEF I
    <2>2. QED
      BY <1>7, <2>1
  <1>9. SumFunctionOnSet(f, Low(t)) = SumOver(f, Low(t))
    <2>1. t \in I
      BY DEF I
    <2> HIDE DEF Low
    <2>2. QED
      BY <1>5, <1>6, <2>1, FunctionSum
  <1>10. QED
    BY <1>8, <1>9 DEF I

\* The ticks of a pool's positions (TicksTrue).
LEMMA TickMapIsTrue ==
  ASSUME NEW pl, IsPool(pl), NEW map, map = BuildTickMap(pl.positions)
  PROVE  /\ DOMAIN map = Initialized(pl)
         /\ \A t \in DOMAIN map :
              SumFunctionOnSet([u \in DOMAIN map |-> map[u].net], {u \in DOMAIN map : u <= t})
                = LiquidityAt(pl, t)
  <1> DEFINE S == pl.positions
             ticks == FoldSet(AddPosition, <<>>, S)
  <1>1. {pos \in S : pos.liquidity # 0} = S /\ IsFiniteSet(S)
    BY DEF IsPool
  <1>2. map = [t \in {u \in DOMAIN ticks : ticks[u].gross # 0} |-> ticks[t]]
    BY <1>1 DEF BuildTickMap
  <1>3. PICK h : Gathers(h, S) /\ ticks = h[S]
    BY <1>1, GatherFold
  <1> HIDE DEF ticks
  <1> DEFINE F == {u \in SUBSET S : ~TickMapOf(h[u], u)}
  <1>4. F = {}
    <2> SUFFICES ASSUME F # {} PROVE FALSE
      OBVIOUS
    <2>1. F \in SUBSET (SUBSET S) /\ \A u \in F : IsFiniteSet(u)
      BY <1>1, FS_Subset
    <2>2. PICK m \in F : \A u \in F : u \subseteq m => u = m
      <3> HIDE DEF F
      <3>1. FamilyOfFiniteSets(F)
        BY <2>1 DEF FamilyOfFiniteSets
      <3>2. QED
        BY <3>1, MinimalMember
    <2>3. m \in SUBSET S /\ ~TickMapOf(h[m], m)
      BY <2>2
    <2>4. CASE m = {}
      <3>1. h[m] = <<>>
        BY <1>3, <2>3, <2>4 DEF Gathers
      <3>2. DOMAIN h[m] = {} /\ EndsOf(m) = {}
        BY <2>4, <3>1 DEF EndsOf
      <3>3. QED
        BY <2>3, <3>2 DEF TickMapOf
    <2>5. CASE m # {}
      <3>1. PICK x \in m : x = First(m)
        BY <2>5, FirstIn
      <3>2. h[m] = AddPosition(x, h[m \ {x}])
        BY <1>3, <2>3, <2>5, <3>1 DEF Gathers
      <3>3. m \ {x} \in SUBSET S /\ m \ {x} \subseteq m /\ m \ {x} # m
        BY <2>3, <3>1
      <3>4. TickMapOf(h[m \ {x}], m \ {x})
        BY <2>2, <3>3
      <3>5. TickMapOf(h[m], m)
        BY <2>3, <3>1, <3>2, <3>4, PositionAdds
      <3>6. QED
        BY <2>3, <3>5
    <2>6. QED
      BY <2>4, <2>5
  <1>5. TickMapOf(ticks, S)
    BY <1>3, <1>4
  <1>6. map = [t \in DOMAIN ticks |-> ticks[t]] /\ DOMAIN map = DOMAIN ticks
    <2>1. {u \in DOMAIN ticks : ticks[u].gross # 0} = DOMAIN ticks
      BY <1>5 DEF TickMapOf
    <2>2. QED
      BY <1>2, <2>1
  <1>7. DOMAIN map = Initialized(pl)
    BY <1>5, <1>6 DEF TickMapOf, EndsOf, Initialized
  <1>8. \A t \in Initialized(pl) : map[t].net = Net(pl, t)
    BY <1>5, <1>6, <1>7 DEF TickMapOf, NetOf, Net
  <1> DEFINE f == [u \in DOMAIN map |-> map[u].net]
  <1>9. f = [u \in Initialized(pl) |-> Net(pl, u)]
    BY <1>7, <1>8
  <1> HIDE DEF f
  <1>10. \A t \in Initialized(pl) :
           SumFunctionOnSet(f, {u \in Initialized(pl) : u <= t}) = LiquidityAt(pl, t)
    BY <1>9, NetsUpTo
  <1>11. QED
    BY <1>7, <1>10 DEF f

-----------------------------------------------------------------------------
(* The steps of a simulation, one by one.                                  *)

Fields == {"price", "tick", "liquidity", "left", "out", "crossed", "cliff", "abort"}

\* A simulation that has not ended.
Live(s) == s.left > 0 /\ s.abort = "none"

\* A step that stops where it is.
Broken(s, u) ==
  /\ DOMAIN u = DOMAIN s /\ u.abort # "none"
  /\ u.price = s.price /\ u.left = s.left /\ u.out = s.out
  /\ u.crossed = s.crossed /\ u.cliff = s.cliff

\* A step that goes from s to u.
Goes(pl, zeroForOne, s, n, limit, step, u) ==
  /\ limit = Limit(Price(n), zeroForOne)
  /\ step = computeSwapStep(s.price, limit, s.liquidity, s.left, pl.fee)
  /\ DOMAIN u = Fields
  /\ u.price = step.next
  /\ u.left = s.left - (step.in + step.fee) /\ u.out = s.out + step.out
  /\ step.next = limit => /\ u.tick = IF zeroForOne THEN n - 1 ELSE n
                          /\ u.liquidity = Crossed(s.liquidity, Net(pl, n), zeroForOne)
                          /\ u.crossed = s.crossed + 1
                          /\ u.cliff = (s.cliff \/ Cliff(s.liquidity, u.liquidity))
  /\ step.next # limit => u.crossed = s.crossed /\ u.cliff = s.cliff /\ u.liquidity = s.liquidity
  /\ u.abort = IF u.liquidity = 0 THEN "exhausted" ELSE "none"

LEMMA StepCases ==
  ASSUME NEW pl, NEW zeroForOne \in BOOLEAN, NEW s, DOMAIN s = Fields, s.left \in Nat,
         s.cliff \in BOOLEAN,
         s.crossed \in Nat,
         NEW n, n = getNextInitializedTick(Initialized(pl), s.tick, zeroForOne),
         NEW u, u = SimStep(pl, zeroForOne, s)
  PROVE  \/ ~Live(s) /\ u = s
         \/ Live(s) /\ (n = None \/ s.liquidity = 0) /\ Broken(s, u)
         \/ /\ Live(s) /\ n # None /\ s.liquidity # 0
            /\ \E limit, step : Goes(pl, zeroForOne, s, n, limit, step, u)
  <1>1. u = Round(pl, zeroForOne, s, n)
    BY DEF SimStep
  <1>2. CASE ~Live(s)
    BY <1>1, <1>2 DEF Round, Live
  <1>3. CASE Live(s) /\ (n = None \/ s.liquidity = 0)
    <2>1. PICK a : u = [s EXCEPT !.abort = a] /\ a # "none"
      BY <1>1, <1>3 DEF Round, Live
    <2>2. Broken(s, u)
      BY <2>1 DEF Broken, Fields
    <2>3. QED
      BY <1>3, <2>2
  <1>4. CASE Live(s) /\ n # None /\ s.liquidity # 0
    <2> DEFINE limit == Limit(Price(n), zeroForOne)
               step == computeSwapStep(s.price, limit, s.liquidity, s.left, pl.fee)
               after == IF step.next = limit THEN Crossed(s.liquidity, Net(pl, n), zeroForOne)
                                             ELSE s.liquidity
    <2>1. u = StepTo(pl, zeroForOne, s, n, limit)
      BY <1>1, <1>4 DEF Round, Live, Price
    <2> HIDE DEF limit
    <2>2. u = Stepped(s, step, zeroForOne, n, step.next = limit, after)
      BY <2>1 DEF StepTo, StepWithin
    <2> HIDE DEF step, after
    <2>3. /\ DOMAIN u = Fields /\ u.price = step.next /\ u.liquidity = after
          /\ u.left = s.left - (step.in + step.fee) /\ u.out = s.out + step.out
          /\ u.abort = IF after = 0 THEN "exhausted" ELSE "none"
      BY <2>2 DEF Stepped, Fields
    <2>4. ASSUME step.next = limit
          PROVE  /\ u.tick = IF zeroForOne THEN n - 1 ELSE n
                 /\ u.crossed = s.crossed + 1
                 /\ u.cliff = (s.cliff \/ Cliff(s.liquidity, after))
      BY <2>2, <2>4 DEF Stepped
    <2>5. ASSUME step.next # limit
          PROVE  u.crossed = s.crossed /\ u.cliff = s.cliff
      BY <2>2, <2>5 DEF Stepped
    <2>6. Goes(pl, zeroForOne, s, n, limit, step, u)
      BY <2>3, <2>4, <2>5 DEF Goes, limit, step, after
    <2>7. QED
      BY <1>4, <2>6
  <1>5. QED
    BY <1>2, <1>3, <1>4

-----------------------------------------------------------------------------
(* The amounts between two prices.                                         *)

\* What stands between two prices, in either token, when it is paid and when it
\* is got.
Paid0(l, p, q) == getAmount0Delta(p, q, l, TRUE)
Got0(l, p, q) == getAmount0Delta(p, q, l, FALSE)
Paid1(l, p, q) == getAmount1Delta(p, q, l, TRUE)
Got1(l, p, q) == getAmount1Delta(p, q, l, FALSE)

\* x is the amount rounded up and o the one rounded down.
IsToken0(m, low, high, x, o) ==
  /\ x \in Nat /\ o \in Nat
  /\ o * (high * low) <= m * (high - low) /\ m * (high - low) <= x * (high * low)
  /\ \A a \in Nat : m * (high - low) <= a * (high * low) => x <= a

IsToken1(l, q, low, high, x, o) ==
  /\ x \in Nat /\ o \in Nat
  /\ o * q <= l * (high - low) /\ l * (high - low) <= x * q
  /\ \A a \in Nat : l * (high - low) <= a * q => x <= a

LEMMA Token0Is ==
  ASSUME NEW l \in Nat \ {0}, NEW low \in Nat \ {0}, NEW high \in Nat \ {0}, low <= high
  PROVE  IsToken0(l * Q96, low, high, Paid0(l, low, high), Got0(l, low, high))
  <1>1. PICK q \in Nat \ {0} : q = Q96
    BY WidthAssumption
  <1>2. PICK m \in Nat \ {0} : m = l * q
    OBVIOUS
  <1>3. PICK part \in Nat : part = m * (high - low)
    BY ProductIn
  <1>4. Smaller(low, high) = low /\ Larger(low, high) = high
    BY DEF Smaller, Larger
  <1>5. PICK x, o : x = Paid0(l, low, high) /\ o = Got0(l, low, high)
    OBVIOUS
  <1>6. x = DivUp(DivUp(part, high), low) /\ o = (part \div high) \div low
    BY <1>1, <1>2, <1>3, <1>4, <1>5 DEF Paid0, Got0, getAmount0Delta
  <1>7. PICK y \in Nat : y = DivUp(part, high) /\ part <= high * y
    BY DivUpBounds
  <1>8. x \in Nat /\ y <= low * x
    BY <1>6, <1>7, DivUpBounds
  <1>9. PICK z \in Nat : z = part \div high /\ high * z <= part
    BY DivDown
  <1>10. o \in Nat /\ low * o <= z
    BY <1>6, <1>9, DivDown
  <1>11. o * (high * low) <= part
    <2>1. (low * o) * high <= z * high
      BY <1>10, ProductIn, Larges
    <2>2. (low * o) * high = o * (high * low) /\ z * high = high * z
      BY <1>10
    <2>3. QED
      BY <1>9, <1>10, <2>1, <2>2, ProductIn
  <1>12. part <= x * (high * low)
    <2>1. y * high <= (low * x) * high
      BY <1>8, ProductIn, Larges
    <2>2. (low * x) * high = x * (high * low) /\ y * high = high * y
      BY <1>8
    <2>3. QED
      BY <1>7, <1>8, <2>1, <2>2, ProductIn
  <1>13. ASSUME NEW a \in Nat, part <= a * (high * low) PROVE x <= a
    <2>1. PICK b \in Nat : b = low * a
      BY ProductIn
    <2>2. a * (high * low) = high * b
      BY <2>1
    <2>3. y <= b
      BY <1>7, <1>13, <2>2, DivUpLeast
    <2>4. QED
      BY <1>6, <1>7, <2>1, <2>3, DivUpLeast
  <1>14. l * Q96 = m
    BY <1>1, <1>2
  <1>15. IsToken0(m, low, high, x, o)
    BY <1>3, <1>8, <1>10, <1>11, <1>12, <1>13 DEF IsToken0
  <1>16. QED
    BY <1>5, <1>14, <1>15

LEMMA Token1Is ==
  ASSUME NEW l \in Nat \ {0}, NEW low \in Nat \ {0}, NEW high \in Nat \ {0}, low <= high
  PROVE  IsToken1(l, Q96, low, high, Paid1(l, low, high), Got1(l, low, high))
  <1>1. PICK q \in Nat \ {0} : q = Q96
    BY WidthAssumption
  <1>2. PICK part \in Nat : part = l * (high - low)
    BY ProductIn
  <1>3. Smaller(low, high) = low /\ Larger(low, high) = high
    BY DEF Smaller, Larger
  <1>4. PICK x, o : x = Paid1(l, low, high) /\ o = Got1(l, low, high)
    OBVIOUS
  <1>5. x = DivUp(part, q) /\ o = part \div q
    BY <1>1, <1>2, <1>3, <1>4 DEF Paid1, Got1, getAmount1Delta
  <1>6. x \in Nat /\ part <= q * x
    BY <1>5, DivUpBounds
  <1>7. o \in Nat /\ q * o <= part
    BY <1>5, DivDown
  <1>8. ASSUME NEW a \in Nat, part <= a * q PROVE x <= a
    BY <1>5, <1>8, DivUpLeast
  <1>9. q * x = x * q /\ q * o = o * q
    BY <1>6, <1>7
  <1>10. IsToken1(l, q, low, high, x, o)
    BY <1>2, <1>6, <1>7, <1>8, <1>9 DEF IsToken1
  <1>11. QED
    BY <1>1, <1>4, <1>10

LEMMA AmountsAre ==
  ASSUME NEW l \in Nat \ {0}, NEW low \in Nat \ {0}, NEW high \in Nat \ {0}, low <= high
  PROVE  /\ Paid0(l, low, high) \in Nat /\ Got0(l, low, high) \in Nat
         /\ Paid1(l, low, high) \in Nat /\ Got1(l, low, high) \in Nat
  <1>1. IsToken0(l * Q96, low, high, Paid0(l, low, high), Got0(l, low, high))
    BY Token0Is
  <1>2. IsToken1(l, Q96, low, high, Paid1(l, low, high), Got1(l, low, high))
    BY Token1Is
  <1>3. QED
    BY <1>1, <1>2 DEF IsToken0, IsToken1

\* What comes out on the way from one price is no more than what went in over
\* that way and more.
LEMMA Token0Within ==
  ASSUME NEW l \in Nat \ {0}, NEW low \in Nat \ {0}, NEW p \in Nat \ {0}, NEW high \in Nat \ {0},
         low <= p, p <= high
  PROVE  Got0(l, low, p) <= Paid0(l, low, high)
  <1>1. PICK m \in Nat \ {0} : m = l * Q96
    BY WidthAssumption
  <1>2. PICK o \in Nat : o = Got0(l, low, p) /\ o * (p * low) <= m * (p - low)
    BY <1>1, Token0Is DEF IsToken0
  <1>3. PICK x \in Nat : x = Paid0(l, low, high) /\ m * (high - low) <= x * (high * low)
    <2>1. low <= high
      OBVIOUS
    <2>2. QED
      BY <1>1, <2>1, Token0Is DEF IsToken0
  <1>4. PICK c \in Nat \ {0} : c = (p * low) * high
    OBVIOUS
  <1>5. o * c <= m * ((p - low) * high)
    <2>1. PICK a \in Nat, b \in Nat : a = o * (p * low) /\ b = m * (p - low)
      BY ProductIn
    <2>2. a * high <= b * high
      BY <1>2, <2>1, Larges
    <2>3. a * high = o * c /\ b * high = m * ((p - low) * high)
      BY <1>4, <2>1
    <2>4. QED
      BY <2>2, <2>3
  <1>6. m * ((p - low) * high) <= m * ((high - low) * p)
    <2>1. PICK a \in Nat, b \in Nat : a = low * high /\ b = low * p
      BY ProductIn
    <2>2. b <= a
      BY <2>1, Larges
    <2>3. (p - low) * high = p * high - a /\ (high - low) * p = p * high - b
      BY <2>1
    <2>4. PICK u \in Nat, v \in Nat : u = (p - low) * high /\ v = (high - low) * p /\ u <= v
      <3>1. (p - low) * high \in Nat /\ (high - low) * p \in Nat
        BY ProductIn
      <3>2. QED
        BY <2>1, <2>2, <2>3, <3>1
    <2>5. u * m <= v * m
      BY <2>4, Larges
    <2>6. QED
      BY <2>4, <2>5
  <1>7. m * ((high - low) * p) <= x * c
    <2>1. PICK a \in Nat, b \in Nat : a = x * (high * low) /\ b = m * (high - low)
      BY ProductIn
    <2>2. b * p <= a * p
      BY <1>3, <2>1, Larges
    <2>3. a * p = x * c /\ b * p = m * ((high - low) * p)
      BY <1>4, <2>1
    <2>4. QED
      BY <2>2, <2>3
  <1>8. o * c <= x * c
    <2>1. PICK a \in Nat, b \in Nat : a = o * c /\ b = x * c
      BY ProductIn
    <2>2. PICK u \in Nat, v \in Nat : u = m * ((p - low) * high) /\ v = m * ((high - low) * p)
      BY ProductIn
    <2>3. QED
      BY <1>5, <1>6, <1>7, <2>1, <2>2
  <1>9. QED
    BY <1>2, <1>3, <1>8, Cancels

LEMMA Token1Within ==
  ASSUME NEW l \in Nat \ {0}, NEW low \in Nat \ {0}, NEW p \in Nat \ {0}, NEW high \in Nat \ {0},
         low <= p, p <= high
  PROVE  Got1(l, p, high) <= Paid1(l, low, high)
  <1>1. PICK q \in Nat \ {0} : q = Q96
    BY WidthAssumption
  <1>2. PICK o \in Nat : o = Got1(l, p, high) /\ o * q <= l * (high - p)
    BY <1>1, Token1Is DEF IsToken1
  <1>3. PICK x \in Nat : x = Paid1(l, low, high) /\ l * (high - low) <= x * q
    <2>1. low <= high
      OBVIOUS
    <2>2. QED
      BY <1>1, <2>1, Token1Is DEF IsToken1
  <1>4. PICK d \in Nat, e \in Nat : d = high - p /\ e = high - low /\ d <= e
    OBVIOUS
  <1>5. d * l <= e * l
    BY <1>4, Larges
  <1>6. o * q <= x * q
    <2>1. PICK a \in Nat, b \in Nat : a = o * q /\ b = x * q
      BY ProductIn
    <2>2. d * l \in Nat /\ e * l \in Nat /\ l * d = d * l /\ l * e = e * l
      BY ProductIn
    <2>3. a <= l * d /\ l * e <= b
      BY <1>2, <1>3, <1>4, <2>1
    <2>4. QED
      BY <1>5, <2>1, <2>2, <2>3
  <1>7. QED
    BY <1>2, <1>3, <1>6, Cancels

\* The step itself, down: what it takes and gives is what stands between the
\* prices, it does not pass its target, and what the way to a price before the
\* target is worth does not take it past that price.
IsStepDown(step, c, t, l, r) ==
  /\ StepFits(step, t, r)
  /\ step.next \in Nat \ {0} /\ t <= step.next /\ step.next <= c
  /\ step.in = Paid0(l, step.next, c) /\ step.out = Got1(l, step.next, c)
  /\ \A m \in Nat : t < m /\ m <= c /\ r <= Got0(l, m, c) => m <= step.next

IsStepUp(step, c, t, l, r) ==
  /\ StepFits(step, t, r)
  /\ step.next \in Nat \ {0} /\ c <= step.next /\ step.next <= t
  /\ step.in = Paid1(l, c, step.next) /\ step.out = Got0(l, c, step.next)
  /\ \A m \in Nat : c <= m /\ m < t /\ r <= Got1(l, c, m) => step.next <= m

\* What is left of an amount when the fee is set aside.
LessFee(r, fee) == (r * (Pips - fee)) \div Pips

LEMMA LessFeeIs ==
  ASSUME NEW r \in Nat, NEW fee \in 0 .. Pips - 1
  PROVE  LessFee(r, fee) \in Nat /\ LessFee(r, fee) <= r
  <1>1. PICK a \in Nat : /\ a = LessFee(r, fee)
                         /\ \A x \in Nat : x <= a =>
                              /\ mulDivRoundingUp(x, fee, Pips - fee) \in Nat
                              /\ x + mulDivRoundingUp(x, fee, Pips - fee) <= r
    BY FeeFits DEF LessFee
  <1>2. PICK f \in Nat : a + f <= r
    BY <1>1
  <1>3. QED
    BY <1>1, <1>2

\* The way to a price before the target is worth less than what the target costs.
LEMMA ShortOfDown ==
  ASSUME NEW l \in Nat \ {0}, NEW t \in Nat \ {0}, NEW m \in Nat, NEW c \in Nat \ {0}, t < m, m <= c
  PROVE  Got0(l, m, c) < Paid0(l, t, c)
  <1>1. PICK k \in Nat \ {0} : k = l * Q96
    BY WidthAssumption
  <1>2. m \in Nat \ {0} /\ t <= c
    OBVIOUS
  <1>3. PICK o \in Nat : o = Got0(l, m, c) /\ o * (c * m) <= k * (c - m)
    BY <1>1, <1>2, Token0Is DEF IsToken0
  <1>4. PICK x \in Nat : x = Paid0(l, t, c) /\ k * (c - t) <= x * (c * t)
    <2>1. IsToken0(k, t, c, Paid0(l, t, c), Got0(l, t, c))
      BY <1>1, <1>2, Token0Is
    <2>2. QED
      BY <2>1 DEF IsToken0
  <1>5. SUFFICES ASSUME x <= o PROVE FALSE
    BY <1>3, <1>4
  <1>6. PICK ct \in Nat, cm \in Nat : ct = c * t /\ cm = c * m /\ ct <= cm
    <2>1. t * c <= m * c /\ t * c = c * t /\ m * c = c * m
      BY Larges
    <2>2. QED
      BY <2>1, ProductIn
  <1>7. x * ct <= o * ct /\ o * ct <= o * cm
    <2>1. ct * o <= cm * o /\ ct * o = o * ct /\ cm * o = o * cm
      BY <1>6, Larges
    <2>2. QED
      BY <1>5, <2>1, Larges
  <1>8. k * (c - m) < k * (c - t)
    <2>1. PICK d \in Nat, e \in Nat : d = c - m /\ e = m - t /\ c - t = d + e /\ e >= 1
      OBVIOUS
    <2>2. k * (d + e) = k * d + k * e /\ k * e >= k
      <3>1. 1 * k <= e * k /\ e * k = k * e
        BY <2>1, Larges
      <3>2. QED
        BY <3>1
    <2>3. QED
      BY <2>1, <2>2, ProductIn
  <1>9. PICK d \in Nat, e \in Nat : d = c - m /\ e = c - t
    BY <1>2
  <1>10. PICK u \in Nat, v \in Nat, w \in Nat, y \in Nat, z \in Nat :
           u = x * ct /\ v = o * ct /\ w = o * cm /\ y = k * d /\ z = k * e
    BY ProductIn
  <1>11. w <= y /\ z <= u
    BY <1>3, <1>4, <1>6, <1>9, <1>10
  <1>12. u <= v /\ v <= w /\ y < z
    BY <1>7, <1>8, <1>9, <1>10
  <1>13. QED
    BY <1>11, <1>12

LEMMA ShortOfUp ==
  ASSUME NEW l \in Nat \ {0}, NEW t \in Nat \ {0}, NEW m \in Nat, NEW c \in Nat \ {0}, c <= m, m < t
  PROVE  Got1(l, c, m) < Paid1(l, c, t)
  <1>1. PICK q \in Nat \ {0} : q = Q96
    BY WidthAssumption
  <1>2. m \in Nat \ {0} /\ c <= t
    OBVIOUS
  <1>3. PICK o \in Nat : o = Got1(l, c, m) /\ o * q <= l * (m - c)
    BY <1>1, <1>2, Token1Is DEF IsToken1
  <1>4. PICK x \in Nat : x = Paid1(l, c, t) /\ l * (t - c) <= x * q
    <2>1. IsToken1(l, q, c, t, Paid1(l, c, t), Got1(l, c, t))
      BY <1>1, <1>2, Token1Is
    <2>2. QED
      BY <2>1 DEF IsToken1
  <1>5. SUFFICES ASSUME x <= o PROVE FALSE
    BY <1>3, <1>4
  <1>6. x * q <= o * q
    BY <1>5, Larges
  <1>7. l * (m - c) < l * (t - c)
    <2>1. PICK d \in Nat, e \in Nat : d = m - c /\ e = t - m /\ t - c = d + e /\ e >= 1
      OBVIOUS
    <2>2. l * (d + e) = l * d + l * e /\ l * e >= l
      <3>1. 1 * l <= e * l /\ e * l = l * e
        BY <2>1, Larges
      <3>2. QED
        BY <3>1
    <2>3. QED
      BY <2>1, <2>2, ProductIn
  <1>8. PICK d \in Nat, e \in Nat : d = m - c /\ e = t - c
    BY <1>2
  <1>9. PICK u \in Nat, v \in Nat, y \in Nat, z \in Nat :
          u = x * q /\ v = o * q /\ y = l * d /\ z = l * e
    BY ProductIn
  <1>10. v <= y /\ z <= u /\ u <= v /\ y < z
    BY <1>3, <1>4, <1>6, <1>7, <1>8, <1>9
  <1>11. QED
    BY <1>10

LEMMA StepDownIs ==
  ASSUME NEW c \in Nat \ {0}, NEW t \in Nat \ {0}, t <= c, NEW l \in Nat \ {0},
         NEW r \in Nat, NEW fee \in 0 .. Pips - 1,
         NEW step, step = computeSwapStep(c, t, l, r, fee)
  PROVE  IsStepDown(step, c, t, l, r)
  <1> DEFINE a == LessFee(r, fee)
             k == l * Q96
             nx == IF a >= Paid0(l, t, c) THEN t ELSE NextFromAmount0(c, l, a)
  <1>1. a \in Nat /\ a <= r
    BY LessFeeIs
  <1>2. k \in Nat \ {0}
    BY WidthAssumption
  <1>3. /\ step.next = nx
        /\ step.in = Paid0(l, nx, c) /\ step.out = Got1(l, nx, c)
    <2>1. c >= t /\ r >= 0
      OBVIOUS
    <2>2. QED
      BY <2>1 DEF computeSwapStep, getNextSqrtPriceFromInput, LessFee, Paid0, Got1
  <1>4. StepFits(step, t, r)
    BY StepDown DEF FitsDown
  <1>5. PICK x \in Nat : /\ x = Paid0(l, t, c)
                         /\ \A y \in Nat : k * (c - t) <= y * (c * t) => x <= y
    <2> HIDE DEF k
    <2>1. IsToken0(k, t, c, Paid0(l, t, c), Got0(l, t, c))
      BY Token0Is DEF k
    <2>2. QED
      BY <2>1 DEF IsToken0
  <1>6. CASE a >= x
    <2>1. nx = t
      BY <1>5, <1>6
    <2>2. ASSUME NEW m \in Nat, t < m, m <= c, r <= Got0(l, m, c) PROVE FALSE
      <3>1. PICK o \in Nat : o = Got0(l, m, c)
        <4>1. m \in Nat \ {0}
          BY <2>2
        <4>2. QED
          BY <2>2, <4>1, Token0Is DEF IsToken0
      <3>2. o < x
        BY <1>5, <2>2, <3>1, ShortOfDown
      <3> HIDE DEF a
      <3>3. QED
        BY <1>1, <1>6, <2>2, <3>1, <3>2
    <2> HIDE DEF nx, a
    <2>3. /\ step.next = t /\ t \in Nat \ {0} /\ t <= t
          /\ step.in = Paid0(l, step.next, c) /\ step.out = Got1(l, step.next, c)
      BY <1>3, <2>1
    <2>4. QED
      BY <1>4, <2>2, <2>3 DEF IsStepDown
  <1>7. CASE a < x
    <2>1. PICK b \in Nat : b = a
      BY <1>1
    <2>2. PICK ac \in Nat : ac = b * c
      BY ProductIn
    <2>3. PICK d \in Nat \ {0} : d = k + ac
      BY <1>2
    <2>4. PICK kc \in Nat : kc = k * c
      BY <1>2, ProductIn
    <2>5. PICK n \in Nat : n = DivUp(kc, d) /\ kc <= d * n
      BY DivUpBounds
    <2> HIDE DEF a
    <2>6. nx = n
      <3>1. nx = NextFromAmount0(c, l, b)
        <4>1. ~(a >= x)
          BY <1>1, <1>7
        <4>2. QED
          BY <1>5, <2>1, <4>1
      <3>2. NextFromAmount0(c, l, b) = DivUp(k * c, k + b * c)
        BY DEF NextFromAmount0, mulDivRoundingUp
      <3>3. QED
        BY <2>2, <2>3, <2>4, <2>5, <3>1, <3>2
    <2> HIDE DEF nx, k
    <2>7. ASSUME NEW m \in Nat, m <= c
          PROVE  d * m = kc - k * (c - m) + b * (c * m)
      <3>1. PICK km \in Nat, am \in Nat : km = k * m /\ am = ac * m
        BY <1>2, ProductIn
      <3>2. d * m = km + am
        BY <1>2, <2>3, <3>1
      <3>3. k * (c - m) = kc - km
        BY <1>2, <2>4, <2>7, <3>1
      <3>4. am = b * (c * m)
        BY <2>2, <3>1
      <3>5. QED
        BY <3>1, <3>2, <3>3, <3>4, <2>4
    <2>8. n \in Nat \ {0} /\ n <= c
      <3>1. kc <= d * c
        <4>1. d * c = kc + ac * c /\ ac * c \in Nat
          BY <1>2, <2>3, <2>4, ProductIn
        <4>2. QED
          BY <2>4, <4>1
      <3>2. n <= c
        BY <2>4, <2>5, <3>1, DivUpLeast
      <3>3. n # 0
        <4>1. kc >= 1
          <5>1. 1 * c <= k * c
            BY <1>2, Larges
          <5>2. QED
            BY <2>4, <5>1
        <4>2. QED
          BY <2>4, <2>5, <4>1
      <3>4. QED
        BY <3>2, <3>3
    <2>9. t < n
      <3>1. SUFFICES ASSUME n <= t PROVE FALSE
        BY <2>8
      <3>2. kc <= d * t
        <4>1. n * d <= t * d /\ n * d = d * n /\ t * d = d * t
          BY <3>1, Larges
        <4>2. d * n \in Nat /\ d * t \in Nat
          BY ProductIn
        <4>3. QED
          BY <2>4, <2>5, <4>1, <4>2
      <3>3. d * t = kc - k * (c - t) + b * (c * t)
        BY <2>7
      <3>4. PICK u \in Nat, v \in Nat : u = k * (c - t) /\ v = b * (c * t)
        <4>1. c - t \in Nat /\ c * t \in Nat
          BY ProductIn
        <4>2. QED
          BY <1>2, <4>1, ProductIn
      <3>5. k * (c - t) <= b * (c * t)
        BY <2>4, <3>2, <3>3, <3>4
      <3>6. QED
        BY <1>5, <1>7, <2>1, <3>5
    <2>10. ASSUME NEW m \in Nat, t < m, m <= c, r <= Got0(l, m, c) PROVE m <= n
      <3>1. PICK o \in Nat : o = Got0(l, m, c) /\ o * (c * m) <= k * (c - m)
        <4>1. m \in Nat \ {0}
          BY <2>10
        <4>2. IsToken0(k, m, c, Paid0(l, m, c), Got0(l, m, c))
          BY <2>10, <4>1, Token0Is DEF k
        <4>3. QED
          BY <4>2 DEF IsToken0
      <3>2. PICK cm \in Nat : cm = c * m
        BY ProductIn
      <3>3. b * cm <= o * cm
        <4>1. b <= o
          BY <1>1, <2>1, <2>10, <3>1
        <4>2. QED
          BY <4>1, Larges
      <3>4. d * m = kc - k * (c - m) + b * cm
        BY <2>7, <2>10, <3>2
      <3>5. PICK u \in Nat, v \in Nat, w \in Nat : u = k * (c - m) /\ v = b * cm /\ w = o * cm
        <4>1. c - m \in Nat
          BY <2>10
        <4>2. QED
          BY <1>2, <4>1, ProductIn
      <3>6. d * m <= kc
        BY <2>4, <3>1, <3>2, <3>3, <3>4, <3>5
      <3>7. m * d <= n * d
        <4>1. d * n \in Nat /\ d * m \in Nat /\ n * d = d * n /\ m * d = d * m
          BY ProductIn
        <4>2. QED
          BY <2>4, <2>5, <3>6, <4>1
      <3>8. QED
        BY <3>7, Cancels
    <2>11. QED
      BY <1>3, <1>4, <2>6, <2>8, <2>9, <2>10 DEF IsStepDown
  <1>8. QED
    BY <1>1, <1>5, <1>6, <1>7

LEMMA StepUpIs ==
  ASSUME NEW c \in Nat \ {0}, NEW t \in Nat \ {0}, c < t, NEW l \in Nat \ {0},
         NEW r \in Nat, NEW fee \in 0 .. Pips - 1,
         NEW step, step = computeSwapStep(c, t, l, r, fee)
  PROVE  IsStepUp(step, c, t, l, r)
  <1> DEFINE a == LessFee(r, fee)
             nx == IF a >= Paid1(l, c, t) THEN t ELSE NextFromAmount1(c, l, a)
  <1>1. a \in Nat /\ a <= r
    BY LessFeeIs
  <1>2. PICK q \in Nat \ {0} : q = Q96
    BY WidthAssumption
  <1>3. /\ step.next = nx
        /\ step.in = Paid1(l, c, nx) /\ step.out = Got0(l, c, nx)
    <2>1. ~(c >= t) /\ r >= 0
      OBVIOUS
    <2>2. QED
      BY <2>1 DEF computeSwapStep, getNextSqrtPriceFromInput, LessFee, Paid1, Got0
  <1>4. StepFits(step, t, r)
    BY StepUp DEF FitsUp
  <1>5. PICK x \in Nat : /\ x = Paid1(l, c, t)
                         /\ \A y \in Nat : l * (t - c) <= y * q => x <= y
    <2>1. IsToken1(l, q, c, t, Paid1(l, c, t), Got1(l, c, t))
      BY <1>2, Token1Is
    <2>2. QED
      BY <2>1 DEF IsToken1
  <1>6. CASE a >= x
    <2>1. nx = t
      BY <1>5, <1>6
    <2>2. ASSUME NEW m \in Nat, c <= m, m < t, r <= Got1(l, c, m) PROVE FALSE
      <3>1. PICK o \in Nat : o = Got1(l, c, m)
        <4>1. m \in Nat \ {0}
          BY <2>2
        <4>2. QED
          BY <2>2, <4>1, Token1Is DEF IsToken1
      <3>2. o < x
        BY <1>5, <2>2, <3>1, ShortOfUp
      <3> HIDE DEF a
      <3>3. QED
        BY <1>1, <1>6, <2>2, <3>1, <3>2
    <2> HIDE DEF nx, a
    <2>3. /\ step.next = t /\ t \in Nat \ {0} /\ c <= t /\ t <= t
          /\ step.in = Paid1(l, c, step.next) /\ step.out = Got0(l, c, step.next)
      BY <1>3, <2>1
    <2>4. QED
      BY <1>4, <2>2, <2>3 DEF IsStepUp
  <1>7. CASE a < x
    <2>1. PICK b \in Nat : b = a
      BY <1>1
    <2>2. PICK aq \in Nat : aq = b * q
      BY ProductIn
    <2>3. PICK d \in Nat : d = aq \div l /\ l * d <= aq
      BY DivDown
    <2> HIDE DEF a
    <2>4. nx = c + d
      <3>1. ~(a >= x)
        BY <1>1, <1>7
      <3>2. nx = NextFromAmount1(c, l, b)
        BY <1>5, <2>1, <3>1
      <3>3. QED
        BY <1>2, <2>2, <2>3, <3>2 DEF NextFromAmount1
    <2> HIDE DEF nx
    <2>5. d < t - c
      <3>1. PICK e \in Nat : e = t - c
        OBVIOUS
      <3>2. SUFFICES ASSUME e <= d PROVE FALSE
        BY <3>1
      <3>3. e * l <= d * l /\ e * l = l * e /\ d * l = l * d
        BY <3>2, Larges
      <3>4. l * e \in Nat /\ l * d \in Nat
        BY ProductIn
      <3>5. l * (t - c) <= b * q
        BY <2>2, <2>3, <3>1, <3>3, <3>4
      <3>6. QED
        BY <1>5, <1>7, <2>1, <3>5
    <2>6. ASSUME NEW m \in Nat, c <= m, m < t, r <= Got1(l, c, m) PROVE c + d <= m
      <3>1. PICK o \in Nat : o = Got1(l, c, m) /\ o * q <= l * (m - c)
        <4>1. m \in Nat \ {0}
          BY <2>6
        <4>2. IsToken1(l, q, c, m, Paid1(l, c, m), Got1(l, c, m))
          BY <1>2, <2>6, <4>1, Token1Is
        <4>3. QED
          BY <4>2 DEF IsToken1
      <3>2. PICK e \in Nat : e = m - c
        BY <2>6
      <3>3. aq <= o * q
        <4>1. b <= o
          BY <1>1, <2>1, <2>6, <3>1
        <4>2. QED
          BY <2>2, <4>1, Larges
      <3>4. d * l <= e * l
        <4>1. PICK u \in Nat, v \in Nat, w \in Nat : u = l * d /\ v = l * e /\ w = o * q
          BY ProductIn
        <4>2. u <= v
          BY <2>3, <3>1, <3>2, <3>3, <4>1
        <4>3. QED
          BY <4>1, <4>2
      <3>5. d <= e
        BY <3>4, Cancels
      <3>6. QED
        BY <3>2, <3>5
    <2>7. c + d \in Nat \ {0} /\ c <= c + d /\ c + d <= t
      BY <2>5
    <2>8. QED
      BY <1>3, <1>4, <2>4, <2>6, <2>7 DEF IsStepUp
  <1>8. QED
    BY <1>1, <1>5, <1>6, <1>7

-----------------------------------------------------------------------------
(* Where a simulation stands.                                              *)

\* The liquidity after a tick is crossed is that of the tick it goes to.
LEMMA CrossedIs ==
  ASSUME NEW pl, IsPool(pl), BelowPar(pl), NEW zeroForOne \in BOOLEAN,
         NEW s, s.tick \in Int, s.liquidity = LiquidityAt(pl, s.tick),
         NEW n, Nearest(Initialized(pl), s.tick, zeroForOne, n),
         NEW tick, tick = IF zeroForOne THEN n - 1 ELSE n
  PROVE  /\ tick \in Int /\ LiquidityAt(pl, tick) \in Nat
         /\ Crossed(s.liquidity, Net(pl, n), zeroForOne) = LiquidityAt(pl, tick)
  <1>1. n \in Initialized(pl) /\ Initialized(pl) \subseteq Int /\ n \in Int /\ n - 1 \in Int
    BY TicksBelow DEF Nearest
  <1>2. /\ LiquidityAt(pl, n) \in Nat /\ LiquidityAt(pl, n - 1) \in Nat
        /\ Net(pl, n) = LiquidityAt(pl, n) - LiquidityAt(pl, n - 1)
    BY <1>1, LiquidityCrossed
  <1>3. CASE zeroForOne
    <2>1. \A t \in Initialized(pl) : ~(n < t /\ t <= s.tick)
      BY <1>1, <1>3 DEF Nearest
    <2>2. n <= s.tick
      BY <1>3 DEF Nearest
    <2>3. LiquidityAt(pl, n) = LiquidityAt(pl, s.tick)
      BY <1>1, <2>1, <2>2, LiquidityBetween
    <2>4. Crossed(s.liquidity, Net(pl, n), zeroForOne) = s.liquidity - Net(pl, n) /\ tick = n - 1
      BY <1>3 DEF Crossed
    <2>5. QED
      BY <1>1, <1>2, <2>3, <2>4
  <1>4. CASE ~zeroForOne
    <2>1. \A t \in Initialized(pl) : ~(s.tick < t /\ t <= n - 1)
      BY <1>1, <1>4 DEF Nearest
    <2>2. s.tick <= n - 1
      BY <1>1, <1>4 DEF Nearest
    <2>3. LiquidityAt(pl, s.tick) = LiquidityAt(pl, n - 1)
      BY <1>1, <2>1, <2>2, LiquidityBetween
    <2>4. Crossed(s.liquidity, Net(pl, n), zeroForOne) = s.liquidity + Net(pl, n) /\ tick = n
      BY <1>4 DEF Crossed
    <2>5. QED
      BY <1>1, <1>2, <2>3, <2>4
  <1>5. QED
    BY <1>3, <1>4

\* The price lies between those of the ticks at or below its own and of those above,
\* and the liquidity is that of its tick.
Placed(pl, s) ==
  /\ s.tick \in Int
  /\ s.price \in MinSqrtRatio + 1 .. MaxSqrtRatio - 1
  /\ s.liquidity = LiquidityAt(pl, s.tick)
  /\ \A t \in Initialized(pl) : /\ t <= s.tick => Price(t) <= s.price
                                /\ t > s.tick => s.price <= Price(t)

\* An initialized tick has this price.
AtTick(pl, price) == \E t \in Initialized(pl) : Price(t) = price

LEMMA StartPlaced ==
  ASSUME NEW pl, IsPool(pl), BelowPar(pl), NEW amount
  PROVE  Placed(pl, StartSwap(pl, amount))
  <1> DEFINE p == pl.sqrtPrice
  <1>1. p \in MinSqrtRatio + 1 .. MaxSqrtRatio - 1 /\ p \in MinSqrtRatio .. MaxSqrtRatio /\ p \in Int
    BY PoolFacts
  <1>2. TickOf(p) \in Int /\ \A t \in TickBelow : t <= TickOf(p) <=> Price(t) <= p
    BY <1>1, TickAssumption DEF Price
  <1>3. PICK s : s = StartSwap(pl, amount)
    OBVIOUS
  <1>4. s = [price |-> p, tick |-> TickOf(p), liquidity |-> LiquidityAt(pl, TickOf(p)),
             left |-> amount, out |-> 0, crossed |-> 0, cliff |-> FALSE, abort |-> "none"]
    BY <1>3 DEF StartSwap
  <1> HIDE DEF p
  <1>5. s.price = p /\ s.tick = TickOf(p) /\ s.liquidity = LiquidityAt(pl, TickOf(p))
    BY <1>4
  <1>6. \A t \in Initialized(pl) : t \in TickBelow /\ t \in Int /\ Price(t) \in Int
    BY TicksBelow, TickPrice
  <1>7. \A t \in Initialized(pl) : /\ t <= TickOf(p) => Price(t) <= p
                                   /\ t > TickOf(p) => p <= Price(t)
    BY <1>1, <1>2, <1>6
  <1>8. QED
    BY <1>1, <1>2, <1>3, <1>5, <1>7 DEF Placed

\* The price a step goes to.
IsLimit(s, n, zeroForOne, limit) ==
  /\ limit \in MinSqrtRatio + 1 .. MaxSqrtRatio - 1
  /\ zeroForOne => Price(n) <= limit /\ limit <= s.price
  /\ ~zeroForOne => limit = Price(n) /\ s.price <= limit
  /\ limit = Price(n) \/ (n = MinTick /\ limit = MinSqrtRatio + 1)

LEMMA LimitPlaced ==
  ASSUME NEW pl, IsPool(pl), BelowPar(pl), NEW zeroForOne \in BOOLEAN, NEW s, Placed(pl, s),
         NEW n, Nearest(Initialized(pl), s.tick, zeroForOne, n)
  PROVE  IsLimit(s, n, zeroForOne, Limit(Price(n), zeroForOne))
  <1>1. n \in TickBelow /\ n \in Int /\ n \in Initialized(pl)
    BY TicksBelow DEF Nearest
  <1>2. PICK p \in Nat \ {0} : /\ p = Price(n) /\ MinSqrtRatio <= p /\ p <= MaxSqrtRatio - 1
                               /\ n # MinTick => MinSqrtRatio + 1 <= p
    BY <1>1, TickPrice
  <1>3. PICK low \in Nat, high \in Nat : low = MinSqrtRatio /\ high = MaxSqrtRatio
    BY PoolFacts
  <1>4. PICK c \in Int : c = s.price /\ low + 1 <= c /\ c <= high - 1
    BY <1>3 DEF Placed
  <1>5. PICK limit : limit = Limit(p, zeroForOne)
    OBVIOUS
  <1>6. CASE zeroForOne
    <2>1. p <= c
      BY <1>1, <1>2, <1>4, <1>6 DEF Nearest, Placed
    <2>2. limit = IF p > low + 1 THEN p ELSE low + 1
      BY <1>3, <1>5, <1>6 DEF Limit, Larger
    <2>3. limit \in low + 1 .. high - 1 /\ p <= limit /\ limit <= c
      BY <1>2, <1>3, <1>4, <2>1, <2>2
    <2>4. limit = p \/ (n = MinTick /\ limit = low + 1)
      BY <1>2, <1>3, <2>2
    <2>5. QED
      BY <1>2, <1>3, <1>4, <1>5, <1>6, <2>3, <2>4 DEF IsLimit
  <1>7. CASE ~zeroForOne
    <2>1. c <= p
      BY <1>1, <1>2, <1>4, <1>7 DEF Nearest, Placed
    <2>2. limit = IF p > high - 1 THEN high - 1 ELSE p
      BY <1>3, <1>5, <1>7 DEF Limit, Smaller
    <2>3. limit = p /\ limit \in low + 1 .. high - 1
      BY <1>2, <1>3, <1>4, <2>1, <2>2
    <2>4. QED
      BY <1>2, <1>3, <1>4, <1>5, <1>7, <2>1, <2>3 DEF IsLimit
  <1>8. QED
    BY <1>6, <1>7

\* Where a tick was crossed and liquidity is left, the price is that of the tick.
LEMMA CrossedPlaced ==
  ASSUME NEW pl, IsPool(pl), BelowPar(pl), NEW zeroForOne \in BOOLEAN, NEW s, Placed(pl, s),
         NEW n, Nearest(Initialized(pl), s.tick, zeroForOne, n),
         NEW u, u.price = Limit(Price(n), zeroForOne),
         u.tick = IF zeroForOne THEN n - 1 ELSE n,
         u.liquidity = Crossed(s.liquidity, Net(pl, n), zeroForOne), u.liquidity # 0
  PROVE  Placed(pl, u) /\ AtTick(pl, u.price)
  <1>1. /\ Initialized(pl) \subseteq TickBelow /\ TickBelow \subseteq Int
        /\ n \in Initialized(pl) /\ n \in TickBelow /\ n \in Int
    BY TicksBelow DEF Nearest
  <1>2. IsLimit(s, n, zeroForOne, u.price)
    BY LimitPlaced
  <1>3. /\ u.tick \in Int /\ u.liquidity = LiquidityAt(pl, u.tick)
    BY CrossedIs DEF Placed
  <1>4. u.price = Price(n)
    <2>1. SUFFICES ASSUME zeroForOne, n = MinTick PROVE FALSE
      BY <1>2 DEF IsLimit
    <2>2. \A t \in Initialized(pl) : u.tick < t
      BY <1>1, <2>1 DEF TickBelow
    <2>3. LiquidityAt(pl, u.tick) = 0
      BY <1>3, <2>2, LiquidityBelow
    <2>4. QED
      BY <1>3, <2>3
  <1>5. ASSUME NEW t \in Initialized(pl)
        PROVE  (t <= u.tick => Price(t) <= u.price) /\ (t > u.tick => u.price <= Price(t))
    <2>1. t \in TickBelow /\ t \in Int
      BY <1>1
    <2>2. (t <= u.tick => t <= n) /\ (t > u.tick => n <= t)
      BY <1>1, <2>1
    <2>3. (t <= n => Price(t) <= Price(n)) /\ (n <= t => Price(n) <= Price(t))
      BY <1>1, <2>1, PriceGrows DEF Price
    <2>4. QED
      BY <1>4, <2>2, <2>3
  <1>6. u.price \in MinSqrtRatio + 1 .. MaxSqrtRatio - 1
    BY <1>2 DEF IsLimit
  <1>7. QED
    BY <1>1, <1>3, <1>4, <1>5, <1>6 DEF Placed, AtTick

-----------------------------------------------------------------------------
(* There and back again.                                                   *)

\* Between a price and itself stands nothing.
LEMMA NoWay ==
  ASSUME NEW l \in Nat \ {0}, NEW c \in Nat \ {0}
  PROVE  Paid1(l, c, c) = 0 /\ Got0(l, c, c) = 0 /\ Got1(l, c, c) = 0
  <1>1. PICK q \in Nat \ {0}, k \in Nat : q = Q96 /\ k = l * Q96
    BY WidthAssumption
  <1>2. /\ IsToken0(k, c, c, Paid0(l, c, c), Got0(l, c, c))
        /\ IsToken1(l, q, c, c, Paid1(l, c, c), Got1(l, c, c))
    <2>1. c <= c
      OBVIOUS
    <2>2. QED
      BY <1>1, <2>1, Token0Is, Token1Is
  <1>3. c - c = 0 /\ k * 0 = 0 /\ l * 0 = 0 /\ 0 * q = 0 /\ c * c \in Nat \ {0}
    BY <1>1
  <1>4. PICK x \in Nat, o \in Nat, p \in Nat :
          /\ x = Paid1(l, c, c) /\ o = Got1(l, c, c) /\ p = Got0(l, c, c)
          /\ \A a \in Nat : l * (c - c) <= a * q => x <= a
          /\ o * q <= l * (c - c) /\ p * (c * c) <= k * (c - c)
    BY <1>2 DEF IsToken0, IsToken1
  <1>5. x <= 0 /\ o * q <= 0 * q /\ p * (c * c) <= 0 * (c * c)
    BY <1>3, <1>4
  <1>6. o <= 0 /\ p <= 0
    BY <1>1, <1>3, <1>5, Cancels
  <1>7. QED
    BY <1>4, <1>5, <1>6

IsStep(zeroForOne, step, c, t, l, r) ==
  IF zeroForOne THEN IsStepDown(step, c, t, l, r) ELSE IsStepUp(step, c, t, l, r)

LEMMA StepIs ==
  ASSUME NEW zeroForOne \in BOOLEAN, NEW c \in Nat \ {0}, NEW t \in Nat \ {0},
         IF zeroForOne THEN t <= c ELSE c <= t, NEW l \in Nat \ {0},
         NEW r \in Nat, NEW fee \in 0 .. Pips - 1
  PROVE  IsStep(zeroForOne, computeSwapStep(c, t, l, r, fee), c, t, l, r)
  <1>1. PICK step : step = computeSwapStep(c, t, l, r, fee)
    OBVIOUS
  <1>2. CASE zeroForOne
    BY <1>1, <1>2, StepDownIs DEF IsStep
  <1>3. CASE ~zeroForOne /\ c < t
    BY <1>1, <1>3, StepUpIs DEF IsStep
  <1>4. CASE ~zeroForOne /\ c = t
    <2>1. step = [next |-> c, in |-> 0, out |-> 0, fee |-> 0]
      BY <1>1, <1>4, StepNowhere
    <2>2. step.next = c /\ step.in = 0 /\ step.out = 0 /\ step.fee = 0
      BY <2>1
    <2>3. StepFits(step, t, r)
      BY <1>4, <2>2 DEF StepFits
    <2>4. step.in = Paid1(l, c, step.next) /\ step.out = Got0(l, c, step.next)
      BY <2>2, NoWay
    <2>5. IsStepUp(step, c, t, l, r)
      BY <1>4, <2>2, <2>3, <2>4 DEF IsStepUp
    <2>6. QED
      BY <1>1, <1>4, <2>5 DEF IsStep
  <1>5. QED
    BY <1>2, <1>3, <1>4

\* A state of a simulation.
Simulated(pl, amount, s) ==
  /\ DOMAIN s = Fields
  /\ {s.left, s.out, s.crossed} \subseteq Nat /\ s.left <= amount /\ s.cliff \in BOOLEAN
  /\ s.price \in MinSqrtRatio + 1 .. MaxSqrtRatio - 1
  /\ Live(s) => Placed(pl, s) /\ (s.out = 0 \/ AtTick(pl, s.price))

\* A step from s to u, towards the price of the tick n.
Steps(pl, zeroForOne, s, n, limit, step, u) ==
  /\ Nearest(Initialized(pl), s.tick, zeroForOne, n)
  /\ IsLimit(s, n, zeroForOne, limit)
  /\ Goes(pl, zeroForOne, s, n, limit, step, u)
  /\ s.liquidity \in Nat \ {0}
  /\ IsStep(zeroForOne, step, s.price, limit, s.liquidity, s.left)

\* There is no tick to go to, or no liquidity to go on.
Nowhere(pl, zeroForOne, s) ==
  getNextInitializedTick(Initialized(pl), s.tick, zeroForOne) = None \/ s.liquidity = 0

LEMMA LiveStep ==
  ASSUME NEW pl, IsPool(pl), BelowPar(pl), NEW zeroForOne \in BOOLEAN, NEW amount \in Nat,
         NEW s, Simulated(pl, amount, s), NEW u, u = SimStep(pl, zeroForOne, s)
  PROVE  \/ ~Live(s) /\ u = s
         \/ Live(s) /\ Broken(s, u) /\ Nowhere(pl, zeroForOne, s)
         \/ Live(s) /\ \E n, limit, step : Steps(pl, zeroForOne, s, n, limit, step, u)
  <1>1. PICK n : n = getNextInitializedTick(Initialized(pl), s.tick, zeroForOne)
    OBVIOUS
  <1>2. \/ ~Live(s) /\ u = s
        \/ Live(s) /\ Broken(s, u) /\ Nowhere(pl, zeroForOne, s)
        \/ /\ Live(s) /\ n # None /\ s.liquidity # 0
           /\ \E limit, step : Goes(pl, zeroForOne, s, n, limit, step, u)
    BY <1>1, StepCases DEF Simulated, Nowhere
  <1>3. ASSUME Live(s), n # None, s.liquidity # 0,
               NEW limit, NEW step, Goes(pl, zeroForOne, s, n, limit, step, u)
        PROVE  Steps(pl, zeroForOne, s, n, limit, step, u)
    <2>1. Placed(pl, s) /\ s.left \in Nat
      BY <1>3 DEF Simulated
    <2>2. s.tick \in Int /\ Initialized(pl) \subseteq TickBelow
      BY <2>1, TicksBelow DEF Placed
    <2>3. Nearest(Initialized(pl), s.tick, zeroForOne, n)
      BY <1>1, <1>3, <2>2, NextTick
    <2>4. IsLimit(s, n, zeroForOne, limit)
      BY <1>3, <2>1, <2>3, LimitPlaced DEF Goes
    <2>5. s.liquidity \in Nat \ {0}
      BY <1>3, <2>1, LiquidityNone DEF Placed
    <2>6. PICK c \in Nat \ {0}, t \in Nat \ {0} :
            c = s.price /\ t = limit /\ IF zeroForOne THEN t <= c ELSE c <= t
      <3>1. s.price \in Nat \ {0} /\ limit \in Nat \ {0}
        BY <2>1, <2>4, PoolFacts DEF Placed, IsLimit
      <3>2. IF zeroForOne THEN limit <= s.price ELSE s.price <= limit
        BY <2>4 DEF IsLimit
      <3>3. QED
        BY <3>1, <3>2
    <2>7. PICK fee \in 0 .. Pips - 1 : fee = pl.fee
      BY PoolFacts
    <2>8. step = computeSwapStep(c, t, s.liquidity, s.left, fee)
      BY <1>3, <2>6, <2>7 DEF Goes
    <2>9. IsStep(zeroForOne, step, c, t, s.liquidity, s.left)
      BY <2>1, <2>5, <2>6, <2>8, StepIs
    <2>10. QED
      BY <1>3, <2>3, <2>4, <2>5, <2>6, <2>9 DEF Steps
  <1>4. QED
    BY <1>2, <1>3

\* A step from s to another price takes what stands between the prices, at the
\* liquidity of s, and meets no initialized tick on the way.
MovesOver(pl, zeroForOne, s, u) ==
  /\ Placed(pl, s) /\ s.liquidity \in Nat \ {0}
  /\ s.out = 0 \/ AtTick(pl, s.price)
  /\ IF zeroForOne
       THEN /\ u.price <= s.price
            /\ u.out = s.out + Got1(s.liquidity, u.price, s.price)
            /\ u.left + Paid0(s.liquidity, u.price, s.price) <= s.left
            /\ \A t \in Initialized(pl) : t <= s.tick => Price(t) <= u.price
       ELSE /\ s.price <= u.price
            /\ u.out = s.out + Got0(s.liquidity, s.price, u.price)
            /\ u.left + Paid1(s.liquidity, s.price, u.price) <= s.left
            /\ \A t \in Initialized(pl) : t > s.tick => u.price <= Price(t)

Moved(pl, zeroForOne, s, u) ==
  /\ u.left <= s.left
  /\ u.price = s.price => u.out = s.out
  /\ u.price # s.price => MovesOver(pl, zeroForOne, s, u)

\* What a step makes of the amounts.
Spends(s, u, limit) ==
  /\ u.left \in Nat /\ u.out \in Nat /\ u.left <= s.left
  /\ u.price # limit => u.left = 0
  /\ u.price \in MinSqrtRatio + 1 .. MaxSqrtRatio - 1

LEMMA StepSpends ==
  ASSUME NEW pl, IsPool(pl), NEW zeroForOne \in BOOLEAN, NEW amount \in Nat,
         NEW s, Simulated(pl, amount, s), Live(s),
         NEW n, NEW limit, NEW step, NEW u, Steps(pl, zeroForOne, s, n, limit, step, u)
  PROVE  Spends(s, u, limit)
  <1>1. /\ u.price = step.next /\ u.left = s.left - (step.in + step.fee)
        /\ u.out = s.out + step.out /\ s.left \in Nat /\ s.out \in Nat
    BY DEF Steps, Goes, Simulated
  <1>2. StepFits(step, limit, s.left) /\ step.next \in Nat
        /\ IF zeroForOne THEN limit <= step.next /\ step.next <= s.price
                         ELSE s.price <= step.next /\ step.next <= limit
    BY DEF Steps, IsStep, IsStepDown, IsStepUp
  <1>3. PICK x \in Nat, f \in Nat, o \in Nat :
          /\ x = step.in /\ f = step.fee /\ o = step.out
          /\ x + f <= s.left /\ (step.next # limit => x + f = s.left)
    BY <1>2 DEF StepFits
  <1>4. PICK low \in Nat, high \in Nat : low = MinSqrtRatio /\ high = MaxSqrtRatio
    BY PoolFacts
  <1>5. limit \in low + 1 .. high - 1 /\ s.price \in low + 1 .. high - 1
    BY <1>4 DEF Steps, IsLimit, Simulated
  <1>6. step.next \in low + 1 .. high - 1
    BY <1>2, <1>5
  <1>7. QED
    BY <1>1, <1>3, <1>4, <1>6 DEF Spends

LEMMA StepSimulated ==
  ASSUME NEW pl, IsPool(pl), BelowPar(pl), NEW zeroForOne \in BOOLEAN, NEW amount \in Nat,
         NEW s, Simulated(pl, amount, s), NEW u, u = SimStep(pl, zeroForOne, s)
  PROVE  Simulated(pl, amount, u) /\ Moved(pl, zeroForOne, s, u)
  <1>1. CASE u = s
    BY <1>1 DEF Simulated, Moved
  <1>2. CASE Live(s) /\ Broken(s, u)
    BY <1>2 DEF Simulated, Moved, Broken, Live
  <1>3. ASSUME Live(s), NEW n, NEW limit, NEW step, Steps(pl, zeroForOne, s, n, limit, step, u)
        PROVE  Simulated(pl, amount, u) /\ Moved(pl, zeroForOne, s, u)
    <2>1. Spends(s, u, limit)
      BY <1>3, StepSpends
    <2>2. /\ Placed(pl, s) /\ s.left \in Nat /\ s.out \in Nat /\ s.crossed \in Nat
          /\ s.liquidity \in Nat \ {0} /\ s.price \in Nat \ {0} /\ s.left <= amount
          /\ s.out = 0 \/ AtTick(pl, s.price)
      BY <1>3, PoolFacts DEF Simulated, Steps
    <2>3. PICK c \in Nat \ {0}, l \in Nat \ {0} : c = s.price /\ l = s.liquidity
      BY <2>2
    <2>4. Live(u) => Placed(pl, u) /\ AtTick(pl, u.price)
      <3>1. SUFFICES ASSUME Live(u) PROVE Placed(pl, u) /\ AtTick(pl, u.price)
        OBVIOUS
      <3>2. u.price = limit /\ step.next = limit /\ u.liquidity # 0
        BY <1>3, <2>1, <3>1 DEF Live, Spends, Steps, Goes
      <3>3. /\ u.price = Limit(Price(n), zeroForOne)
            /\ u.tick = IF zeroForOne THEN n - 1 ELSE n
            /\ u.liquidity = Crossed(s.liquidity, Net(pl, n), zeroForOne)
            /\ Nearest(Initialized(pl), s.tick, zeroForOne, n)
        BY <1>3, <3>2 DEF Steps, Goes
      <3>4. QED
        BY <2>2, <3>2, <3>3, CrossedPlaced
    <2>5. DOMAIN u = Fields /\ u.crossed \in Nat /\ u.cliff \in BOOLEAN
      <3>1. DOMAIN u = Fields /\ (u.crossed = s.crossed + 1 \/ u.crossed = s.crossed)
        BY <1>3 DEF Steps, Goes
      <3>2. u.cliff = (s.cliff \/ Cliff(s.liquidity, u.liquidity)) \/ u.cliff = s.cliff
        BY <1>3, Zenon DEF Steps, Goes
      <3>3. s.cliff \in BOOLEAN /\ s.crossed \in Nat
        BY <1>3 DEF Simulated
      <3>4. u.cliff \in BOOLEAN
        BY <3>2, <3>3, Zenon DEF Cliff
      <3>5. QED
        BY <3>1, <3>3, <3>4
    <2>6. Simulated(pl, amount, u)
      BY <2>1, <2>2, <2>4, <2>5 DEF Simulated, Spends
    <2>7. u.price = step.next /\ u.out = s.out + step.out
          /\ u.left = s.left - (step.in + step.fee) /\ step.fee \in Nat /\ step.in \in Nat
      BY <1>3 DEF Steps, Goes, IsStep, IsStepDown, IsStepUp, StepFits
    <2>8. u.price = s.price => u.out = s.out
      <3>1. SUFFICES ASSUME u.price = s.price PROVE step.out = 0
        BY <2>2, <2>7
      <3>2. step.out = Got0(l, c, c) \/ step.out = Got1(l, c, c)
        BY <1>3, <2>3, <2>7, <3>1 DEF Steps, IsStep, IsStepDown, IsStepUp
      <3>3. QED
        BY <3>2, NoWay
    <2>9. MovesOver(pl, zeroForOne, s, u)
      <3>1. /\ n \in Initialized(pl) /\ Initialized(pl) \subseteq TickBelow
            /\ \A t \in TickBelow : t \in Int /\ Price(t) \in Nat
            /\ s.tick \in Int
        BY <1>3, <2>2, TicksBelow, TickPrice DEF Steps, Nearest, Placed
      <3>2. CASE zeroForOne
        <4>1. /\ limit <= u.price /\ u.price <= s.price /\ limit \in Nat /\ Price(n) <= limit
              /\ step.in = Paid0(s.liquidity, u.price, s.price)
              /\ step.out = Got1(s.liquidity, u.price, s.price)
          BY <1>3, <2>7, <3>2, PoolFacts DEF Steps, IsStep, IsStepDown, IsLimit
        <4>2. ASSUME NEW t \in Initialized(pl), t <= s.tick PROVE Price(t) <= u.price
          <5>1. t <= n
            BY <1>3, <3>2, <4>2 DEF Steps, Nearest
          <5>2. Price(t) <= Price(n)
            BY <3>1, <5>1, PriceGrows DEF Price
          <5>3. QED
            BY <2>1, <3>1, <4>1, <5>2, PoolFacts DEF Spends
        <4>3. u.left + Paid0(s.liquidity, u.price, s.price) <= s.left
          BY <2>2, <2>7, <4>1
        <4>4. QED
          BY <2>2, <2>7, <3>2, <4>1, <4>2, <4>3 DEF MovesOver
      <3>3. CASE ~zeroForOne
        <4>1. /\ s.price <= u.price /\ u.price <= limit /\ limit = Price(n)
              /\ step.in = Paid1(s.liquidity, s.price, u.price)
              /\ step.out = Got0(s.liquidity, s.price, u.price)
          BY <1>3, <2>7, <3>3 DEF Steps, IsStep, IsStepUp, IsLimit
        <4>2. ASSUME NEW t \in Initialized(pl), t > s.tick PROVE u.price <= Price(t)
          <5>1. n <= t
            BY <1>3, <3>3, <4>2 DEF Steps, Nearest
          <5>2. Price(n) <= Price(t)
            BY <3>1, <5>1, PriceGrows DEF Price
          <5>3. QED
            BY <2>1, <3>1, <4>1, <5>2, PoolFacts DEF Spends
        <4>3. u.left + Paid1(s.liquidity, s.price, u.price) <= s.left
          BY <2>2, <2>7, <4>1
        <4>4. QED
          BY <2>2, <2>7, <3>3, <4>1, <4>2, <4>3 DEF MovesOver
      <3>4. QED
        BY <3>2, <3>3
    <2>10. Moved(pl, zeroForOne, s, u)
      BY <2>1, <2>8, <2>9 DEF Moved, Spends
    <2>11. QED
      BY <2>6, <2>10
  <1>4. QED
    BY <1>1, <1>2, <1>3, LiveStep

LEMMA SameTicks ==
  ASSUME NEW pl, IsPool(pl), NEW a \in Int, NEW b \in Int,
         \A t \in Initialized(pl) : t <= a <=> t <= b
  PROVE  LiquidityAt(pl, a) = LiquidityAt(pl, b)
  <1>1. Initialized(pl) \subseteq Int
    BY OrderedInOrder
  <1>2. CASE a <= b
    <2>1. \A t \in Initialized(pl) : ~(a < t /\ t <= b)
      BY <1>1
    <2>2. QED
      BY <1>2, <2>1, LiquidityBetween
  <1>3. CASE b <= a
    <2>1. \A t \in Initialized(pl) : ~(b < t /\ t <= a)
      BY <1>1
    <2>2. QED
      BY <1>3, <2>1, LiquidityBetween
  <1>4. QED
    BY <1>2, <1>3

\* A step back over a price that a step from s to w has passed: it gets no more
\* than that step has spent, and ends where it began, with no more than s has got.
Returns(s, w, v, u) ==
  /\ u.out <= v.out + (s.left - w.left)
  /\ Live(u) => u.price = s.price /\ u.left <= s.out

LEMMA ReturnsUp ==
  ASSUME NEW pl, IsPool(pl), BelowPar(pl), NEW amount \in Nat, NEW paid \in Nat,
         NEW s, NEW w, MovesOver(pl, TRUE, s, w), w.price # s.price,
         Simulated(pl, amount, s), Simulated(pl, amount, w),
         NEW v, Simulated(pl, paid, v), Live(v), v.price = w.price, v.left <= w.out,
         NEW n, NEW limit, NEW step, NEW u, Steps(pl, FALSE, v, n, limit, step, u),
         u.price # v.price
  PROVE  Returns(s, w, v, u)
  <1>1. PICK a \in Nat \ {0}, b \in Nat \ {0}, l \in Nat \ {0} :
          a = s.price /\ b = w.price /\ l = s.liquidity /\ b < a
    BY PoolFacts DEF MovesOver, Placed, Simulated
  <1>2. /\ s.out \in Nat /\ s.left \in Nat /\ w.out \in Nat /\ w.left \in Nat
        /\ v.out \in Nat /\ v.left \in Nat
    BY DEF Simulated
  <1>3. /\ s.tick \in Int /\ s.liquidity = LiquidityAt(pl, s.tick)
        /\ \A t \in Initialized(pl) : /\ t <= s.tick => Price(t) <= b
                                      /\ t > s.tick => a <= Price(t)
        /\ s.out = 0 \/ AtTick(pl, a)
        /\ w.out = s.out + Got1(l, b, a) /\ w.left + Paid0(l, b, a) <= s.left
    BY <1>1 DEF MovesOver, Placed
  <1>4. /\ v.tick \in Int /\ v.liquidity = LiquidityAt(pl, v.tick)
        /\ \A t \in Initialized(pl) : /\ t <= v.tick => Price(t) <= b
                                      /\ t > v.tick => b <= Price(t)
    BY <1>1 DEF Simulated, Placed
  <1>5. /\ n \in Initialized(pl) /\ n > v.tick
        /\ \A t \in Initialized(pl) : t > v.tick => n <= t
        /\ limit = Price(n) /\ b <= limit
        /\ IsStepUp(step, b, limit, v.liquidity, v.left)
        /\ u.price = step.next /\ u.out = v.out + step.out
        /\ u.left = v.left - (step.in + step.fee)
    BY <1>1 DEF Steps, Nearest, IsLimit, Goes, IsStep
  <1>6. /\ Initialized(pl) \subseteq TickBelow /\ n \in Int
        /\ \A t \in Initialized(pl) : t \in Int /\ Price(t) \in Nat
        /\ \A t \in Initialized(pl) : /\ t <= n => Price(t) <= Price(n)
                                      /\ n <= t => Price(n) <= Price(t)
    BY <1>5, TicksBelow, TickPrice, PriceGrows DEF Price
  <1>7. limit \in Nat \ {0} /\ b < limit
    BY <1>1, <1>5, <1>6 DEF IsStepUp
  <1>8. a <= limit
    BY <1>1, <1>3, <1>5, <1>6, <1>7
  <1>9. v.liquidity = l
    <2>1. ASSUME NEW t \in Initialized(pl) PROVE t <= v.tick <=> t <= s.tick
      <3>1. t <= v.tick => Price(t) < a
        BY <1>1, <1>4, <1>6
      <3>2. t > v.tick => limit <= Price(t)
        BY <1>5, <1>6
      <3>3. QED
        BY <1>1, <1>3, <1>4, <1>6, <1>7, <3>1, <3>2
    <2>2. LiquidityAt(pl, v.tick) = LiquidityAt(pl, s.tick)
      BY <1>3, <1>4, <2>1, SameTicks
    <2>3. QED
      BY <1>1, <1>3, <1>4, <2>2
  <1>10. s.out = 0 \/ limit = a
    <2>1. ASSUME NEW t \in Initialized(pl), Price(t) = a PROVE limit = a
      <3>1. t > v.tick
        BY <1>1, <1>4, <1>6, <2>1
      <3>2. QED
        BY <1>1, <1>5, <1>6, <1>7, <1>8, <2>1, <3>1
    <2>2. QED
      BY <1>3, <2>1 DEF AtTick
  <1>11. PICK p \in Nat \ {0}, x \in Nat, f \in Nat :
           /\ p = step.next /\ b <= p /\ p <= limit
           /\ x = step.in /\ f = step.fee /\ x = Paid1(l, b, p) /\ step.out = Got0(l, b, p)
           /\ step.next # limit => x + f = v.left
           /\ \A m \in Nat : b <= m /\ m < limit /\ v.left <= Got1(l, b, m) => p <= m
    BY <1>5, <1>9 DEF IsStepUp, StepFits
  <1>12. p <= a
    <2>1. CASE limit = a
      BY <1>11, <2>1
    <2>2. CASE limit # a
      <3>1. a < limit /\ v.left <= Got1(l, b, a)
        <4>1. Got1(l, b, a) \in Nat
          BY <1>1, AmountsAre
        <4>2. QED
          BY <1>2, <1>3, <1>7, <1>8, <1>10, <2>2, <4>1
      <3>2. QED
        BY <1>1, <1>11, <3>1
    <2>3. QED
      BY <2>1, <2>2
  <1>13. u.out <= v.out + (s.left - w.left)
    <2>1. PICK o \in Nat : o = Got0(l, b, p)
      BY <1>11, AmountsAre
    <2>2. PICK y \in Nat : y = Paid0(l, b, a)
      BY <1>1, AmountsAre
    <2>3. o <= y
      BY <1>1, <1>11, <1>12, <2>1, <2>2, Token0Within
    <2>4. QED
      BY <1>2, <1>3, <1>5, <1>11, <2>1, <2>2, <2>3
  <1>14. ASSUME Live(u) PROVE u.price = s.price /\ u.left <= s.out
    <2>1. p = limit /\ p = a
      BY <1>2, <1>5, <1>7, <1>8, <1>11, <1>12, <1>14 DEF Live
    <2>2. PICK o \in Nat : o = Got1(l, b, a)
      <3>1. Got1(l, b, a) \in Nat
        BY <1>1, AmountsAre
      <3>2. QED
        BY <3>1
    <2>3. o <= x
      <3>1. b <= b /\ b <= a
        BY <1>1
      <3>2. Got1(l, b, a) <= Paid1(l, b, a)
        BY <3>1, Token1Within
      <3>3. QED
        BY <1>11, <2>1, <2>2, <3>2
    <2>4. QED
      BY <1>1, <1>2, <1>3, <1>5, <1>11, <2>1, <2>2, <2>3
  <1>15. QED
    BY <1>13, <1>14 DEF Returns

LEMMA ReturnsDown ==
  ASSUME NEW pl, IsPool(pl), BelowPar(pl), NEW amount \in Nat, NEW paid \in Nat,
         NEW s, NEW w, MovesOver(pl, FALSE, s, w), w.price # s.price,
         Simulated(pl, amount, s), Simulated(pl, amount, w),
         NEW v, Simulated(pl, paid, v), Live(v), v.price = w.price, v.left <= w.out,
         NEW n, NEW limit, NEW step, NEW u, Steps(pl, TRUE, v, n, limit, step, u),
         u.price # v.price
  PROVE  Returns(s, w, v, u)
  <1>1. PICK a \in Nat \ {0}, b \in Nat \ {0}, l \in Nat \ {0} :
          a = s.price /\ b = w.price /\ l = s.liquidity /\ a < b
    BY PoolFacts DEF MovesOver, Placed, Simulated
  <1>0. /\ Got0(l, a, b) \in Nat /\ Paid1(l, a, b) \in Nat
    <2>1. a <= b
      BY <1>1
    <2>2. QED
      BY <2>1, AmountsAre
  <1>2. /\ s.out \in Nat /\ s.left \in Nat /\ w.out \in Nat /\ w.left \in Nat
        /\ v.out \in Nat /\ v.left \in Nat /\ MinSqrtRatio \in Nat
        /\ MinSqrtRatio + 1 <= a
    BY <1>1, PoolFacts DEF Simulated
  <1>3. /\ s.tick \in Int /\ s.liquidity = LiquidityAt(pl, s.tick)
        /\ \A t \in Initialized(pl) : /\ t <= s.tick => Price(t) <= a
                                      /\ t > s.tick => b <= Price(t)
        /\ s.out = 0 \/ AtTick(pl, a)
        /\ w.out = s.out + Got0(l, a, b) /\ w.left + Paid1(l, a, b) <= s.left
    BY <1>1 DEF MovesOver, Placed
  <1>4. /\ v.tick \in Int /\ v.liquidity = LiquidityAt(pl, v.tick)
        /\ \A t \in Initialized(pl) : /\ t <= v.tick => Price(t) <= b
                                      /\ t > v.tick => b <= Price(t)
    BY <1>1 DEF Simulated, Placed
  <1>5. /\ n \in Initialized(pl) /\ n <= v.tick
        /\ \A t \in Initialized(pl) : t <= v.tick => t <= n
        /\ Price(n) <= limit /\ limit <= b
        /\ limit = Price(n) \/ limit = MinSqrtRatio + 1
        /\ IsStepDown(step, b, limit, v.liquidity, v.left)
        /\ u.price = step.next /\ u.out = v.out + step.out
        /\ u.left = v.left - (step.in + step.fee)
    BY <1>1 DEF Steps, Nearest, IsLimit, Goes, IsStep
  <1>6. /\ Initialized(pl) \subseteq TickBelow /\ n \in Int
        /\ \A t \in Initialized(pl) : t \in Int /\ Price(t) \in Nat \ {0}
        /\ \A t \in Initialized(pl) : /\ t <= n => Price(t) <= Price(n)
                                      /\ n <= t => Price(n) <= Price(t)
    BY <1>5, TicksBelow, TickPrice, PriceGrows DEF Price
  <1>7. limit \in Nat \ {0} /\ limit < b
    BY <1>1, <1>2, <1>5, <1>6 DEF IsStepDown
  <1>8. limit <= a /\ Price(n) <= a
    <2>1. n <= s.tick
      BY <1>1, <1>3, <1>5, <1>6, <1>7
    <2>2. QED
      BY <1>1, <1>2, <1>3, <1>5, <1>6, <2>1
  <1>9. v.liquidity = l
    <2>1. ASSUME NEW t \in Initialized(pl) PROVE t <= v.tick <=> t <= s.tick
      <3>1. t <= v.tick => Price(t) <= a
        BY <1>1, <1>5, <1>6, <1>8
      <3>2. t > v.tick => b <= Price(t)
        BY <1>4
      <3>3. QED
        BY <1>1, <1>3, <1>4, <1>6, <3>1, <3>2
    <2>2. LiquidityAt(pl, v.tick) = LiquidityAt(pl, s.tick)
      BY <1>3, <1>4, <2>1, SameTicks
    <2>3. QED
      BY <1>1, <1>3, <1>4, <2>2
  <1>10. s.out = 0 \/ limit = a
    <2>1. ASSUME NEW t \in Initialized(pl), Price(t) = a PROVE limit = a
      <3>1. t <= v.tick
        BY <1>1, <1>4, <1>6, <2>1
      <3>2. QED
        BY <1>1, <1>5, <1>6, <1>7, <1>8, <2>1, <3>1
    <2>2. QED
      BY <1>3, <2>1 DEF AtTick
  <1>11. PICK p \in Nat \ {0}, x \in Nat, f \in Nat :
           /\ p = step.next /\ limit <= p /\ p <= b
           /\ x = step.in /\ f = step.fee /\ x = Paid0(l, p, b) /\ step.out = Got1(l, p, b)
           /\ step.next # limit => x + f = v.left
           /\ \A m \in Nat : limit < m /\ m <= b /\ v.left <= Got0(l, m, b) => m <= p
    BY <1>5, <1>9 DEF IsStepDown, StepFits
  <1>12. a <= p
    <2>1. CASE limit = a
      BY <1>11, <2>1
    <2>2. CASE limit # a
      <3>1. limit < a /\ v.left <= Got0(l, a, b)
        BY <1>2, <1>3, <1>7, <1>8, <1>10, <1>0, <2>2
      <3>2. QED
        BY <1>1, <1>11, <3>1
    <2>3. QED
      BY <2>1, <2>2
  <1>13. u.out <= v.out + (s.left - w.left)
    <2>1. PICK o \in Nat : o = Got1(l, p, b)
      BY <1>11, AmountsAre
    <2>2. PICK y \in Nat : y = Paid1(l, a, b)
      BY <1>1, AmountsAre
    <2>3. o <= y
      BY <1>1, <1>11, <1>12, <2>1, <2>2, Token1Within
    <2>4. QED
      BY <1>2, <1>3, <1>5, <1>11, <2>1, <2>2, <2>3
  <1>14. ASSUME Live(u) PROVE u.price = s.price /\ u.left <= s.out
    <2>1. p = limit /\ p = a
      BY <1>2, <1>5, <1>7, <1>8, <1>11, <1>12, <1>14 DEF Live
    <2>2. PICK o \in Nat : o = Got0(l, a, b)
      BY <1>0
    <2>3. o <= x
      <3>1. a <= b /\ b <= b
        BY <1>1
      <3>2. Got0(l, a, b) <= Paid0(l, a, b)
        BY <3>1, Token0Within
      <3>3. QED
        BY <1>11, <2>1, <2>2, <3>2
    <2>4. QED
      BY <1>1, <1>2, <1>3, <1>5, <1>11, <2>1, <2>2, <2>3
  <1>15. QED
    BY <1>13, <1>14 DEF Returns

\* A state of the way back that has come to where the walk was after i steps: what
\* it still sells is no more than what the walk had got by then, and it has not
\* got more than what the walk spent from there on.
AtStep(f, i, n, v) ==
  v.price = f[i].price /\ v.left <= f[i].out /\ v.out + f[n].left <= f[i].left

Back(f, n, amount, v) ==
  /\ v.out + f[n].left <= amount
  /\ Live(v) => \E i \in 0 .. n : AtStep(f, i, n, v)

LEMMA BackStep ==
  ASSUME NEW pl, IsPool(pl), BelowPar(pl), NEW zeroForOne \in BOOLEAN,
         NEW amount \in Nat, NEW paid \in Nat, NEW start, NEW n \in Nat, NEW f,
         Walks(pl, zeroForOne, start, f, n), start.out = 0,
         \A i \in 0 .. n : Simulated(pl, amount, f[i]),
         NEW v, Simulated(pl, paid, v), Back(f, n, amount, v),
         NEW u, u = SimStep(pl, ~zeroForOne, v)
  PROVE  Back(f, n, amount, u)
  <1>1. CASE u = v
    BY <1>1
  <1>2. CASE Live(v) /\ Broken(v, u)
    BY <1>2 DEF Back, Broken, Live
  <1>3. ASSUME Live(v), NEW m, NEW limit, NEW step, Steps(pl, ~zeroForOne, v, m, limit, step, u)
        PROVE  Back(f, n, amount, u)
    <2>1. PICK i \in 0 .. n : AtStep(f, i, n, v) /\ \A j \in 0 .. n : j < i => ~AtStep(f, j, n, v)
      <3> DEFINE T == {j \in Nat : j <= n /\ AtStep(f, j, n, v)}
      <3>1. T \in SUBSET Nat /\ T # {}
        BY <1>3 DEF Back
      <3>2. PICK i \in T : \A j \in T : i <= j
        <4> HIDE DEF T
        <4>1. QED
          BY <3>1, LeastNumber
      <3>3. i \in 0 .. n /\ AtStep(f, i, n, v)
        BY <3>2
      <3>4. ASSUME NEW j \in 0 .. n, j < i PROVE ~AtStep(f, j, n, v)
        BY <3>2, <3>4
      <3>5. QED
        BY <3>3, <3>4
    <2>2. i # 0
      <3>1. f[0].out = 0
        BY DEF Walks
      <3>2. v.left \in Nat /\ v.left > 0
        BY <1>3 DEF Live, Simulated
      <3>3. QED
        BY <2>1, <3>1, <3>2 DEF AtStep
    <2>3. PICK w, s : /\ w = f[i] /\ s = f[i - 1] /\ w = SimStep(pl, zeroForOne, s)
                      /\ i - 1 \in 0 .. n /\ i - 1 < i
      BY <2>1, <2>2 DEF Walks
    <2>4. Simulated(pl, amount, s) /\ Simulated(pl, amount, w) /\ Moved(pl, zeroForOne, s, w)
      BY <2>1, <2>3, StepSimulated
    <2>5. /\ s.left \in Nat /\ s.left <= amount /\ w.left \in Nat /\ w.out \in Nat
          /\ v.left \in Nat /\ v.out \in Nat
          /\ v.price = w.price /\ v.left <= w.out /\ v.out + f[n].left <= w.left
          /\ f[n].left \in Nat
      BY <2>1, <2>3, <2>4 DEF Simulated, AtStep
    <2>6. w.price # s.price
      <3>1. SUFFICES ASSUME w.price = s.price PROVE FALSE
        OBVIOUS
      <3>2. w.left <= s.left /\ w.out = s.out
        BY <2>4, <3>1 DEF Moved
      <3>3. AtStep(f, i - 1, n, v)
        BY <2>3, <2>5, <3>1, <3>2 DEF AtStep
      <3>4. QED
        BY <2>1, <2>3, <3>3
    <2>7. MovesOver(pl, zeroForOne, s, w)
      BY <2>4, <2>6 DEF Moved
    <2>8. Simulated(pl, paid, u) /\ Moved(pl, ~zeroForOne, v, u)
      BY StepSimulated
    <2>9. CASE u.price = v.price
      <3>1. u.out = v.out /\ u.left <= v.left /\ u.left \in Nat
        BY <2>8, <2>9 DEF Moved, Simulated
      <3>2. AtStep(f, i, n, u)
        BY <2>3, <2>5, <2>9, <3>1 DEF AtStep
      <3>3. QED
        BY <2>1, <3>1, <3>2 DEF Back
    <2>10. CASE u.price # v.price
      <3>1. Returns(s, w, v, u)
        <4>1. CASE zeroForOne
          <5>1. /\ MovesOver(pl, TRUE, s, w) /\ Steps(pl, FALSE, v, m, limit, step, u)
            BY <1>3, <2>7, <4>1
          <5>2. QED
            BY <1>3, <2>4, <2>5, <2>6, <2>10, <5>1, ReturnsUp
        <4>2. CASE ~zeroForOne
          <5>1. /\ MovesOver(pl, FALSE, s, w) /\ Steps(pl, TRUE, v, m, limit, step, u)
            BY <1>3, <2>7, <4>2
          <5>2. QED
            BY <1>3, <2>4, <2>5, <2>6, <2>10, <5>1, ReturnsDown
        <4>3. QED
          BY <4>1, <4>2
      <3>2. u.out \in Nat /\ u.left \in Nat
        BY <2>8 DEF Simulated
      <3>3. u.out + f[n].left <= s.left
        BY <2>5, <3>1, <3>2 DEF Returns
      <3>4. Live(u) => AtStep(f, i - 1, n, u)
        BY <2>3, <3>1, <3>3 DEF Returns, AtStep
      <3>5. QED
        BY <2>3, <2>5, <3>2, <3>3, <3>4 DEF Back
    <2>11. QED
      BY <2>9, <2>10
  <1>4. QED
    BY <1>1, <1>2, <1>3, LiveStep

LEMMA StartSimulated ==
  ASSUME NEW pl, IsPool(pl), BelowPar(pl), NEW amount \in Nat
  PROVE  Simulated(pl, amount, StartSwap(pl, amount)) /\ StartSwap(pl, amount).out = 0
  <1>1. PICK s : s = StartSwap(pl, amount)
    OBVIOUS
  <1>2. PICK p, t, l : s = [price |-> p, tick |-> t, liquidity |-> l, left |-> amount, out |-> 0,
                            crossed |-> 0, cliff |-> FALSE, abort |-> "none"] /\ p = pl.sqrtPrice
    BY <1>1 DEF StartSwap
  <1>3. /\ DOMAIN s = Fields /\ s.left = amount /\ s.out = 0 /\ s.crossed = 0
        /\ s.cliff \in BOOLEAN /\ s.price = p
    <2>1. s.cliff \in BOOLEAN
      BY <1>2
    <2>2. QED
      BY <1>2, <2>1 DEF Fields
  <1>4. p \in MinSqrtRatio + 1 .. MaxSqrtRatio - 1
    BY <1>2, PoolFacts
  <1>5. Placed(pl, s)
    BY <1>1, StartPlaced
  <1>6. Simulated(pl, amount, s)
    BY <1>3, <1>4, <1>5 DEF Simulated
  <1>7. QED
    BY <1>1, <1>3, <1>6

LEMMA WalkSimulated ==
  ASSUME NEW pl, IsPool(pl), BelowPar(pl), NEW zeroForOne \in BOOLEAN, NEW amount \in Nat,
         NEW start, Simulated(pl, amount, start), NEW n \in Nat, NEW f,
         Walks(pl, zeroForOne, start, f, n)
  PROVE  \A i \in 0 .. n : Simulated(pl, amount, f[i])
  <1> DEFINE Good(i) == Simulated(pl, amount, f[i])
             T == {i \in Nat : i <= n /\ ~Good(i)}
  <1>1. SUFFICES ASSUME T # {} PROVE FALSE
    OBVIOUS
  <1>2. PICK i \in T : \A j \in T : i <= j
    <2>1. T \in SUBSET Nat
      OBVIOUS
    <2> HIDE DEF T
    <2>2. QED
      BY <1>1, <2>1, LeastNumber
  <1>3. i \in 0 .. n /\ ~Good(i)
    BY <1>2
  <1>4. CASE i = 0
    BY <1>3, <1>4 DEF Walks
  <1>5. CASE i # 0
    <2>1. i - 1 \in Nat /\ i - 1 <= n /\ ~(i <= i - 1)
      BY <1>3, <1>5
    <2>2. Good(i - 1)
      <3> HIDE DEF Good
      <3>1. QED
        BY <1>2, <2>1
    <2>3. f[i] = SimStep(pl, zeroForOne, f[i - 1])
      BY <1>3, <1>5 DEF Walks
    <2>4. QED
      BY <1>3, <2>2, <2>3, StepSimulated
  <1>6. QED
    BY <1>4, <1>5

\* The pool at another price.
LEMMA AtAnotherPrice ==
  ASSUME NEW pl, IsPool(pl), BelowPar(pl), NEW p \in MinSqrtRatio + 1 .. MaxSqrtRatio - 1,
         NEW other, other = [pl EXCEPT !.sqrtPrice = p]
  PROVE  /\ IsPool(other) /\ BelowPar(other) /\ other.sqrtPrice = p
         /\ \A zeroForOne, s : SimStep(other, zeroForOne, s) = SimStep(pl, zeroForOne, s)
         /\ \A amount, s : Simulated(other, amount, s) <=> Simulated(pl, amount, s)
  <1>1. /\ DOMAIN other = {"positions", "sqrtPrice", "fee"} /\ other.sqrtPrice = p
        /\ other.positions = pl.positions /\ other.fee = pl.fee
    BY DEF IsPool
  <1>2. Initialized(other) = Initialized(pl)
    BY <1>1 DEF Initialized
  <1>3. ASSUME NEW t PROVE Net(other, t) = Net(pl, t) /\ LiquidityAt(other, t) = LiquidityAt(pl, t)
    BY <1>1 DEF Net, LiquidityAt
  <1>4. IsPool(other) /\ BelowPar(other)
    BY <1>1, <1>2 DEF IsPool, BelowPar
  <1>5. ASSUME NEW zeroForOne, NEW s
        PROVE  SimStep(other, zeroForOne, s) = SimStep(pl, zeroForOne, s)
    <2>1. \A n, limit : StepTo(other, zeroForOne, s, n, limit) = StepTo(pl, zeroForOne, s, n, limit)
      BY <1>1, <1>3, Zenon DEF StepTo, StepWithin
    <2>2. \A n : Round(other, zeroForOne, s, n) = Round(pl, zeroForOne, s, n)
      BY <2>1, Zenon DEF Round
    <2>3. QED
      BY <1>2, <2>2, Zenon DEF SimStep
  <1>6. ASSUME NEW amount, NEW s PROVE Simulated(other, amount, s) <=> Simulated(pl, amount, s)
    BY <1>2, <1>3, Zenon DEF Simulated, Placed, AtTick
  <1>7. QED
    BY <1>1, <1>4, <1>5, <1>6

\* What a simulation gave, sold back at the price it left behind, brings no more than
\* was spent.
LEMMA RoundTripIsLossy ==
  ASSUME NEW pl, IsPool(pl), BelowPar(pl), NEW zeroForOne \in BOOLEAN, NEW amount \in Nat,
         NEW sim, sim = simulateV3Trade(pl, zeroForOne, amount),
         NEW back, back = simulateV3Trade([pl EXCEPT !.sqrtPrice = sim.price], ~zeroForOne, sim.out)
  PROVE  back.out <= amount - sim.left
  <1>1. PICK n \in Nat : n = MaxSteps
    BY SizingAssumption
  <1>2. PICK start : start = StartSwap(pl, amount) /\ Simulated(pl, amount, start) /\ start.out = 0
    BY StartSimulated
  <1>3. PICK f : Walks(pl, zeroForOne, start, f, n) /\ sim = OutOfSteps(f[n])
    BY <1>1, <1>2, RunIsWalk DEF simulateV3Trade
  <1>4. \A i \in 0 .. n : Simulated(pl, amount, f[i])
    BY <1>2, <1>3, WalkSimulated
  <1>5. ASSUME NEW s, NEW most, Simulated(pl, most, s)
        PROVE  OutOfSteps(s).price = s.price /\ OutOfSteps(s).left = s.left /\ OutOfSteps(s).out = s.out
    BY <1>5 DEF OutOfSteps, Simulated, Fields
  <1>6. PICK last : /\ last = f[n] /\ Simulated(pl, amount, last)
                    /\ sim.price = last.price /\ sim.left = last.left /\ sim.out = last.out
    BY <1>3, <1>4, <1>5
  <1>7. PICK paid \in Nat, left \in Nat :
          /\ paid = last.out /\ left = last.left /\ left <= amount
          /\ last.price \in MinSqrtRatio + 1 .. MaxSqrtRatio - 1
    BY <1>6 DEF Simulated
  <1>8. PICK other : other = [pl EXCEPT !.sqrtPrice = last.price]
    OBVIOUS
  <1>9. /\ IsPool(other) /\ BelowPar(other) /\ other.sqrtPrice = last.price
        /\ \A z, s : SimStep(other, z, s) = SimStep(pl, z, s)
        /\ \A most, s : Simulated(other, most, s) <=> Simulated(pl, most, s)
    BY <1>7, <1>8, AtAnotherPrice
  <1>10. PICK v : v = StartSwap(other, paid) /\ Simulated(other, paid, v) /\ v.out = 0
    BY <1>9, StartSimulated
  <1>11. v.price = last.price /\ v.left = paid
    BY <1>9, <1>10 DEF StartSwap
  <1>12. PICK g : Walks(other, ~zeroForOne, v, g, n) /\ back = OutOfSteps(g[n])
    BY <1>1, <1>6, <1>7, <1>8, <1>10, RunIsWalk DEF simulateV3Trade
  <1>13. \A i \in 0 .. n : Simulated(pl, paid, g[i])
    <2>1. (~zeroForOne) \in BOOLEAN
      OBVIOUS
    <2>2. \A i \in 0 .. n : Simulated(other, paid, g[i])
      BY <1>9, <1>10, <1>12, <2>1, WalkSimulated
    <2>3. QED
      BY <1>9, <2>2
  <1>14. \A i \in 0 .. n : g[i] = IF i = 0 THEN v ELSE SimStep(pl, ~zeroForOne, g[i - 1])
    BY <1>9, <1>12 DEF Walks
  <1> DEFINE Good(i) == Back(f, n, amount, g[i])
             T == {i \in Nat : i <= n /\ ~Good(i)}
  <1>15. T = {}
    <2> SUFFICES ASSUME T # {} PROVE FALSE
      OBVIOUS
    <2>1. PICK i \in T : \A j \in T : i <= j
      <3>1. T \in SUBSET Nat
        OBVIOUS
      <3> HIDE DEF T
      <3>2. QED
        BY <3>1, LeastNumber
    <2>2. i \in 0 .. n /\ ~Good(i)
      BY <2>1
    <2>3. CASE i = 0
      <3>1. g[i] = v
        BY <1>14, <2>2, <2>3
      <3>2. n \in 0 .. n /\ AtStep(f, n, n, v)
        BY <1>6, <1>7, <1>10, <1>11 DEF AtStep
      <3>3. v.out + f[n].left <= amount
        BY <1>6, <1>7, <1>10
      <3>4. Back(f, n, amount, v)
        BY <3>2, <3>3 DEF Back
      <3>5. QED
        BY <2>2, <3>1, <3>4
    <2>4. CASE i # 0
      <3>1. i - 1 \in Nat /\ i - 1 <= n /\ ~(i <= i - 1) /\ i - 1 \in 0 .. n
        BY <2>2, <2>4
      <3>2. Good(i - 1)
        <4> HIDE DEF Good
        <4>1. QED
          BY <2>1, <3>1
      <3>3. PICK a, b : a = g[i - 1] /\ b = g[i] /\ b = SimStep(pl, ~zeroForOne, a)
        BY <1>14, <2>2, <2>4
      <3>4. Simulated(pl, paid, a) /\ Back(f, n, amount, a)
        BY <1>13, <3>1, <3>2, <3>3
      <3>5. Back(f, n, amount, b)
        BY <1>2, <1>3, <1>4, <3>3, <3>4, BackStep
      <3>6. QED
        BY <2>2, <3>3, <3>5
    <2>5. QED
      BY <2>3, <2>4
  <1>16. PICK end : end = g[n] /\ Back(f, n, amount, end) /\ Simulated(pl, paid, end)
    <2>1. Good(n)
      <3> HIDE DEF Good
      <3>1. QED
        BY <1>15
    <2>2. QED
      BY <1>13, <2>1
  <1>17. back.out = end.out /\ end.out \in Nat /\ end.out + left <= amount
    BY <1>5, <1>6, <1>7, <1>12, <1>16 DEF Back, Simulated
  <1>18. QED
    BY <1>6, <1>7, <1>17

-----------------------------------------------------------------------------
(* A purchase inside the safe range.                                       *)

\* The bands from k to last have liquidity and no cliff at their lower ends.
SafeRange(pl, ticks, n, k, last) ==
  /\ n \in Nat /\ k \in 1 .. n - 1 /\ last \in k - 1 .. n - 1
  /\ \A i \in k .. last : /\ LiquidityAt(pl, ticks[i]) # 0
                          /\ i > 1 => ~Cliff(LiquidityAt(pl, ticks[i - 1]), LiquidityAt(pl, ticks[i]))

\* What the bands from k to last are worth in token1.
Worth(pl, ticks, k, last) ==
  [i \in k .. last |-> Got1(LiquidityAt(pl, ticks[i]), Price(ticks[i]), Price(ticks[i + 1]))]

\* The same, of bands.
BandWorth(bands, k, last) ==
  [i \in k .. last |-> Got1(bands[i].liquidity, Price(bands[i].lower), Price(bands[i].upper))]

\* The band k alone holds the tick.
OnlyBand(bands, tick, k) ==
  {i \in DOMAIN bands : bands[i].lower <= tick /\ tick < bands[i].upper} = {k}

\* The safe range ends with the band last.
EndsWith(bands, tick, k, last) ==
  /\ \A i \in k .. last : ~Ends(bands[i])
  /\ computeSafeEnvelope(bands, tick).token1 = SumFunctionOnSet(BandWorth(bands, k, last), k .. last)

LEMMA EnvelopeFrom ==
  ASSUME NEW n \in Nat, NEW bands, DOMAIN bands = 1 .. n - 1, Len(bands) = n - 1, NEW tick,
         NEW k \in 1 .. n - 1, OnlyBand(bands, tick, k)
  PROVE  \E last \in k - 1 .. n - 1 : EndsWith(bands, tick, k, last)
  <1> DEFINE here == {i \in DOMAIN bands : bands[i].lower <= tick /\ tick < bands[i].upper}
             stops == {i \in DOMAIN bands : i >= Max(here) /\ Ends(bands[i])}
             last == IF here = {} THEN 0 ELSE IF stops = {} THEN Len(bands) ELSE Min(stops) - 1
             safe == IF here = {} THEN {} ELSE Max(here) .. last
             Token1(i) == getAmount1Delta(tickToSqrtPriceX96(bands[i].lower),
                            tickToSqrtPriceX96(bands[i].upper), bands[i].liquidity, FALSE)
  <1>1. computeSafeEnvelope(bands, tick).token1 = SumFunctionOnSet([i \in safe |-> Token1(i)], safe)
    <2> HIDE DEF Token1
    <2>1. \E x, y : computeSafeEnvelope(bands, tick) =
            [token0 |-> x, token1 |-> SumFunctionOnSet([i \in safe |-> Token1(i)], safe), end |-> y]
      BY Zenon DEF computeSafeEnvelope, Token1
    <2> HIDE DEF safe
    <2>2. QED
      BY <2>1
  <1>2. here = {k} /\ k \in Int
    BY DEF OnlyBand
  <1> HIDE DEF here
  <1>3. Max(here) = k
    <2>1. Max({k}) = k
      BY <1>2 DEF Max
    <2>2. QED
      BY <1>2, <2>1
  <1>4. stops \subseteq k .. n - 1 /\ \A i \in k .. n - 1 : i \in stops <=> Ends(bands[i])
    BY <1>3
  <1>5. safe = k .. last
    BY <1>2, <1>3
  <1> HIDE DEF stops
  <1>6. last \in k - 1 .. n - 1 /\ \A i \in k .. last : i \notin stops
    <2>1. CASE stops = {}
      BY <1>2, <2>1
    <2>2. CASE stops # {}
      <3>1. stops \in SUBSET Nat
        BY <1>4
      <3>2. \E m \in stops : \A i \in stops : m <= i
        BY <2>2, <3>1, LeastNumber
      <3>3. Min(stops) \in stops /\ \A i \in stops : Min(stops) <= i
        BY <3>2 DEF Min
      <3>4. PICK m \in k .. n - 1 : m = Min(stops) /\ \A i \in stops : m <= i
        BY <1>4, <3>3
      <3>5. last = m - 1
        BY <1>2, <2>2, <3>4
      <3> HIDE DEF last
      <3>6. \A i \in k .. m - 1 : ~(m <= i)
        OBVIOUS
      <3>7. QED
        BY <3>4, <3>5, <3>6
    <2>3. QED
      BY <2>1, <2>2
  <1> HIDE DEF last
  <1>7. \A i \in k .. last : i \in k .. n - 1
    BY <1>6
  <1>8. \A i \in k .. last : ~Ends(bands[i])
    BY <1>4, <1>6, <1>7
  <1>9. [i \in safe |-> Token1(i)] = BandWorth(bands, k, last)
    BY <1>5, Zenon DEF BandWorth, Got1, Price
  <1>10. QED
    BY <1>1, <1>5, <1>6, <1>8, <1>9, Zenon DEF EndsWith

\* A price outside all bands has no envelope.
LEMMA EnvelopeNowhere ==
  ASSUME NEW bands, NEW tick,
         {i \in DOMAIN bands : bands[i].lower <= tick /\ tick < bands[i].upper} = {}
  PROVE  computeSafeEnvelope(bands, tick).token1 = 0
  <1> DEFINE here == {i \in DOMAIN bands : bands[i].lower <= tick /\ tick < bands[i].upper}
             stops == {i \in DOMAIN bands : i >= Max(here) /\ Ends(bands[i])}
             last == IF here = {} THEN 0 ELSE IF stops = {} THEN Len(bands) ELSE Min(stops) - 1
             safe == IF here = {} THEN {} ELSE Max(here) .. last
             Token1(i) == getAmount1Delta(tickToSqrtPriceX96(bands[i].lower),
                            tickToSqrtPriceX96(bands[i].upper), bands[i].liquidity, FALSE)
  <1>1. computeSafeEnvelope(bands, tick).token1 = SumFunctionOnSet([i \in safe |-> Token1(i)], safe)
    <2> HIDE DEF Token1
    <2>1. \E x, y : computeSafeEnvelope(bands, tick) =
            [token0 |-> x, token1 |-> SumFunctionOnSet([i \in safe |-> Token1(i)], safe), end |-> y]
      BY Zenon DEF computeSafeEnvelope, Token1
    <2> HIDE DEF safe
    <2>2. QED
      BY <2>1
  <1>2. safe = {}
    OBVIOUS
  <1> HIDE DEF safe
  <1>3. PICK g : g = [i \in safe |-> Token1(i)] /\ g \in [{} -> Int]
    <2> HIDE DEF Token1
    <2>1. \A i \in safe : Token1(i) \in Int
      BY <1>2
    <2>2. [i \in safe |-> Token1(i)] \in [safe -> Int]
      BY <2>1, Zenon
    <2>3. QED
      BY <1>2, <2>2, Zenon
  <1>4. SumFunctionOnSet(g, {}) = 0
    <2>1. {} \in SUBSET {} /\ IsFiniteSet({})
      BY FS_EmptySet
    <2>2. SumFunctionOnSet(g, {}) = SumOver(g, {})
      BY <1>3, <2>1, FunctionSum
    <2>3. QED
      BY <1>3, <2>2, EmptySum
  <1>5. QED
    BY <1>1, <1>2, <1>3, <1>4

\* A profile has a band between each two ticks.
LEMMA ProfileLength ==
  ASSUME NEW pl, IsPool(pl), Len(Ordered(pl)) # 0
  PROVE  Len(buildLPBandProfile(pl).bands) = Len(Ordered(pl)) - 1
  <1> DEFINE ticks == Ordered(pl)
             n == Len(ticks)
             liq == [i \in 1 .. n - 1 |-> Cumulative(pl, ticks, i)]
             full == {i \in DOMAIN liq : liq[i] > 0}
             average == IF full = {} THEN 0
                        ELSE MapThenSumSet(LAMBDA i : liq[i], full) \div Cardinality(full)
             Band(i) == [ lower |-> ticks[i], upper |-> ticks[i + 1], liquidity |-> liq[i],
                          gap   |-> liq[i] <= 0,
                          thin  |-> i \in full /\ 5 * liq[i] < average,
                          cliff |-> i > 1 /\ Cliff(liq[i - 1], liq[i]) ]
  <1>1. buildLPBandProfile(pl).bands = [i \in DOMAIN liq |-> Band(i)]
    BY Zenon DEF buildLPBandProfile
  <1>2. n \in Nat /\ n # 0
    BY TicksSorted DEF Sorted
  <1> HIDE DEF n, ticks, full, average, Band
  <1>3. DOMAIN liq = 1 .. n - 1
    OBVIOUS
  <1> HIDE DEF liq
  <1>4. PICK S : \A i \in 1 .. n - 1 : Band(i) \in S
    <2>1. \A i \in 1 .. n - 1 : Band(i) \in {Band(j) : j \in 1 .. n - 1}
      OBVIOUS
    <2>2. QED
      BY <2>1
  <1>5. PICK bands : bands = [i \in 1 .. n - 1 |-> Band(i)]
    OBVIOUS
  <1>6. bands \in [1 .. n - 1 -> S]
    BY <1>4, <1>5, Zenon
  <1>7. Len(bands) = n - 1
    <2>1. n - 1 \in Nat
      BY <1>2
    <2> HIDE DEF Band
    <2>2. bands \in Seq(S)
      BY <1>6, <2>1
    <2>3. QED
      BY <1>6, <2>1, <2>2
  <1>8. QED
    BY <1>1, <1>3, <1>5, <1>7 DEF n, ticks

\* A price that is a tick's is that of the lower end of its band.
LEMMA PriceOfBand ==
  ASSUME NEW pl, IsPool(pl), BelowPar(pl), AtTick(pl, pl.sqrtPrice),
         NEW ticks, NEW n, Sorted(pl, ticks, n), NEW k \in 1 .. n - 1,
         ticks[k] <= TickOf(pl.sqrtPrice), TickOf(pl.sqrtPrice) < ticks[k + 1]
  PROVE  /\ Price(ticks[k]) = pl.sqrtPrice
         /\ \A i \in 1 .. n - 1 :
              (ticks[i] <= TickOf(pl.sqrtPrice) /\ TickOf(pl.sqrtPrice) < ticks[i + 1]) <=> i = k
  <1>1. PICK p \in Int, tick \in Int :
          /\ p = pl.sqrtPrice /\ tick = TickOf(p) /\ p \in MinSqrtRatio .. MaxSqrtRatio
          /\ \A t \in TickBelow : t <= tick <=> Price(t) <= p
    <2>1. pl.sqrtPrice \in MinSqrtRatio .. MaxSqrtRatio /\ pl.sqrtPrice \in Int
      BY PoolFacts
    <2>2. QED
      BY <2>1, TickAssumption DEF Price
  <1>2. n \in Nat /\ k \in 1 .. n /\ k + 1 \in 1 .. n
    BY DEF Sorted
  <1>3. /\ Initialized(pl) \subseteq TickBelow /\ TickBelow \subseteq Int
        /\ \A i \in 1 .. n : ticks[i] \in Int /\ ticks[i] \in TickBelow
    BY TicksBelow DEF Sorted
  <1>4. \A i, j \in 1 .. n : i < j => ticks[i] < ticks[j]
    BY DEF Sorted
  <1>5. PICK m \in 1 .. n : Price(ticks[m]) = p
    BY <1>1 DEF AtTick, Sorted
  <1>6. ticks[k] <= tick /\ tick < ticks[k + 1]
    BY <1>1
  <1>7. ticks[m] <= tick
    <2>1. p <= p
      BY <1>1
    <2>2. QED
      BY <1>1, <1>3, <1>5, <2>1
  <1>8. m <= k
    <2>1. SUFFICES ASSUME k < m PROVE FALSE
      BY <1>2
    <2>2. m = k + 1 \/ ticks[k + 1] < ticks[m]
      BY <1>2, <1>4, <2>1
    <2>3. QED
      BY <1>2, <1>3, <1>6, <1>7, <2>2
  <1>9. ticks[m] <= ticks[k]
    <2>1. m = k \/ ticks[m] < ticks[k]
      BY <1>2, <1>4, <1>8
    <2>2. QED
      BY <1>2, <1>3, <2>1
  <1>10. Price(ticks[k]) = p
    <2>1. Price(ticks[m]) <= Price(ticks[k])
      BY <1>2, <1>3, <1>9, PriceGrows DEF Price
    <2>2. Price(ticks[k]) <= p
      BY <1>1, <1>2, <1>3, <1>6
    <2>3. Price(ticks[k]) \in Int
      BY <1>2, <1>3, TickPrice
    <2>4. QED
      BY <1>1, <1>5, <2>1, <2>2, <2>3
  <1>11. ASSUME NEW i \in 1 .. n - 1
         PROVE  (ticks[i] <= tick /\ tick < ticks[i + 1]) <=> i = k
    <2>1. i \in 1 .. n /\ i + 1 \in 1 .. n
      BY <1>2
    <2>2. ASSUME i < k PROVE ticks[i + 1] <= tick
      <3>1. i + 1 = k \/ ticks[i + 1] < ticks[k]
        BY <1>2, <1>4, <2>1, <2>2
      <3>2. QED
        BY <1>2, <1>3, <1>6, <2>1, <3>1
    <2>3. ASSUME k < i PROVE tick < ticks[i]
      <3>1. k + 1 = i \/ ticks[k + 1] < ticks[i]
        BY <1>2, <1>4, <2>1, <2>3
      <3>2. QED
        BY <1>2, <1>3, <1>6, <2>1, <3>1
    <2>4. QED
      BY <1>2, <1>3, <1>6, <2>1, <2>2, <2>3
  <1>12. QED
    BY <1>1, <1>10, <1>11

\* The envelope of a pool whose price is a tick's: from the band of the price up.
Enveloped(pl, ticks, n, k, last, token1) ==
  /\ Sorted(pl, ticks, n) /\ SafeRange(pl, ticks, n, k, last)
  /\ Price(ticks[k]) = pl.sqrtPrice
  /\ ticks[k] <= TickOf(pl.sqrtPrice) /\ TickOf(pl.sqrtPrice) < ticks[k + 1]
  /\ Worth(pl, ticks, k, last) \in [k .. last -> Nat]
  /\ token1 = SumOver(Worth(pl, ticks, k, last), k .. last)

LEMMA WorthIs ==
  ASSUME NEW pl, IsPool(pl), BelowPar(pl), NEW ticks, NEW n, Sorted(pl, ticks, n),
         NEW k, NEW last, SafeRange(pl, ticks, n, k, last)
  PROVE  Worth(pl, ticks, k, last) \in [k .. last -> Nat]
  <1>1. ASSUME NEW i \in k .. last
        PROVE  Got1(LiquidityAt(pl, ticks[i]), Price(ticks[i]), Price(ticks[i + 1])) \in Nat
    <2>1. i \in 1 .. n /\ i + 1 \in 1 .. n /\ i < i + 1
      BY DEF SafeRange
    <2>2. ticks[i] \in TickBelow /\ ticks[i + 1] \in TickBelow /\ ticks[i] < ticks[i + 1]
          /\ ticks[i] \in Int /\ ticks[i + 1] \in Int
      BY <2>1, TicksBelow DEF Sorted
    <2>3. PICK p \in Nat \ {0}, q \in Nat \ {0} : p = Price(ticks[i]) /\ q = Price(ticks[i + 1])
      BY <2>2, TickPrice
    <2>4. p <= q
      BY <2>2, <2>3, PriceGrows DEF Price
    <2>5. LiquidityAt(pl, ticks[i]) \in Nat \ {0}
      BY LiquidityNone DEF SafeRange
    <2>6. QED
      BY <2>3, <2>4, <2>5, AmountsAre
  <1>2. QED
    BY <1>1, Zenon DEF Worth

LEMMA EnvelopeIs ==
  ASSUME NEW pl, IsPool(pl), BelowPar(pl), AtTick(pl, pl.sqrtPrice),
         NEW token1, token1 = buildLPBandProfile(pl).envelope.token1, token1 # 0
  PROVE  \E ticks, n, k, last : Enveloped(pl, ticks, n, k, last, token1)
  <1>1. PICK ticks, n, bands, tick :
          ticks = Ordered(pl) /\ n = Len(ticks) /\ bands = buildLPBandProfile(pl).bands
          /\ tick = TickOf(pl.sqrtPrice)
    OBVIOUS
  <1>2. /\ Sorted(pl, ticks, n) /\ Banded(pl, ticks, n, bands)
        /\ token1 = computeSafeEnvelope(bands, tick).token1
    BY <1>1, ProfileBands
  <1>3. n \in Nat /\ n # 0
    <2>1. n \in Nat
      BY <1>2 DEF Sorted
    <2>2. 1 .. n # {}
      BY <1>2 DEF AtTick, Sorted
    <2>3. QED
      BY <2>1, <2>2
  <1>4. DOMAIN bands = 1 .. n - 1 /\ Len(bands) = n - 1
    BY <1>1, <1>2, <1>3, ProfileLength DEF Banded
  <1>5. PICK here : here = {i \in DOMAIN bands : bands[i].lower <= tick /\ tick < bands[i].upper}
    OBVIOUS
  <1>6. here # {}
    <2>1. SUFFICES ASSUME here = {} PROVE token1 = 0
      OBVIOUS
    <2>2. computeSafeEnvelope(bands, tick).token1 = 0
      BY <1>5, <2>1, EnvelopeNowhere
    <2>3. QED
      BY <1>2, <2>2
  <1>7. PICK k \in 1 .. n - 1 : ticks[k] <= tick /\ tick < ticks[k + 1]
    BY <1>2, <1>4, <1>5, <1>6 DEF Banded
  <1>8. /\ Price(ticks[k]) = pl.sqrtPrice
        /\ \A i \in 1 .. n - 1 : (ticks[i] <= tick /\ tick < ticks[i + 1]) <=> i = k
    BY <1>1, <1>2, <1>7, PriceOfBand
  <1>9. OnlyBand(bands, tick, k)
    BY <1>2, <1>4, <1>8 DEF Banded, OnlyBand
  <1>10. PICK last \in k - 1 .. n - 1 :
           /\ \A i \in k .. last : ~Ends(bands[i])
           /\ token1 = SumFunctionOnSet(BandWorth(bands, k, last), k .. last)
    <2>1. k \in 1 .. n - 1 /\ n \in Nat /\ DOMAIN bands = 1 .. n - 1 /\ Len(bands) = n - 1
      BY <1>3, <1>4
    <2>2. \E last \in k - 1 .. n - 1 : EndsWith(bands, tick, k, last)
      BY <1>9, <2>1, EnvelopeFrom
    <2>3. QED
      BY <1>2, <2>2, Zenon DEF EndsWith
  <1>11. \A i \in k .. last : i \in 1 .. n - 1
    BY <1>3, <1>10
  <1>12. SafeRange(pl, ticks, n, k, last)
    <2>1. ASSUME NEW i \in k .. last
          PROVE  /\ LiquidityAt(pl, ticks[i]) # 0
                 /\ i > 1 => ~Cliff(LiquidityAt(pl, ticks[i - 1]), LiquidityAt(pl, ticks[i]))
      <3>1. ~bands[i].gap /\ ~bands[i].cliff
        BY <1>10 DEF Ends
      <3>2. QED
        BY <1>2, <1>11, <3>1 DEF Banded
    <2>2. QED
      BY <1>3, <2>1 DEF SafeRange
  <1>13. Worth(pl, ticks, k, last) \in [k .. last -> Nat]
    BY <1>2, <1>12, WorthIs
  <1>14. BandWorth(bands, k, last) = Worth(pl, ticks, k, last)
    <2>1. \A i \in k .. last : /\ bands[i].lower = ticks[i] /\ bands[i].upper = ticks[i + 1]
                               /\ bands[i].liquidity = LiquidityAt(pl, ticks[i])
      BY <1>2, <1>11 DEF Banded
    <2>2. QED
      BY <2>1, Zenon DEF Worth, BandWorth
  <1>15. token1 = SumOver(Worth(pl, ticks, k, last), k .. last)
    <2>1. PICK g, S : /\ g = Worth(pl, ticks, k, last) /\ S = k .. last /\ IsFiniteSet(S)
                      /\ g \in [S -> Int] /\ S \in SUBSET S
      <3>1. k \in Int /\ last \in Int
        BY <1>3, <1>10
      <3>2. IsFiniteSet(k .. last)
        BY <3>1, FS_Interval
      <3>3. Worth(pl, ticks, k, last) \in [k .. last -> Int]
        BY <1>13
      <3>4. QED
        BY <3>2, <3>3
    <2>2. SumFunctionOnSet(g, S) = SumOver(g, S)
      BY <2>1, FunctionSum
    <2>3. QED
      BY <1>10, <1>14, <2>1, <2>2
  <1>16. QED
    BY <1>1, <1>2, <1>7, <1>8, <1>12, <1>13, <1>15, Zenon DEF Enveloped

\* A purchase that stands at the tick j of the safe range has spent what the bands below
\* are worth; one that has ended was filled.
Within(pl, ticks, k, last, amount, j, s) ==
  /\ ~s.cliff
  /\ ~Live(s) => s.left = 0 /\ s.abort = "none"
  /\ Live(s) => /\ j \in k .. last /\ s.crossed = j - k
                /\ s.price = Price(ticks[j]) /\ ticks[j] <= s.tick /\ s.tick < ticks[j + 1]
                /\ SumOver(Worth(pl, ticks, k, last), k .. j - 1) + s.left <= amount

\* Where a trade stands has the liquidity l, and the next tick is n.
InBand(pl, zeroForOne, s, l, n) ==
  /\ ~Nowhere(pl, zeroForOne, s) /\ s.liquidity = l /\ l \in Nat \ {0}
  /\ \A m : Nearest(Initialized(pl), s.tick, zeroForOne, m) => m = n

LEMMA BandAhead ==
  ASSUME NEW pl, IsPool(pl), BelowPar(pl), NEW ticks, NEW n, Sorted(pl, ticks, n),
         NEW j \in 1 .. n - 1, LiquidityAt(pl, ticks[j]) # 0,
         NEW zeroForOne \in BOOLEAN, ~zeroForOne,
         NEW s, Placed(pl, s), ticks[j] <= s.tick, s.tick < ticks[j + 1]
  PROVE  InBand(pl, zeroForOne, s, LiquidityAt(pl, ticks[j]), ticks[j + 1])
  <1>1. n \in Nat /\ j \in 1 .. n /\ j + 1 \in 1 .. n /\ s.tick \in Int
    BY DEF Sorted, Placed
  <1>2. PICK low \in Int, high \in Int :
          /\ low = ticks[j] /\ high = ticks[j + 1] /\ low <= s.tick /\ s.tick < high
          /\ high \in Initialized(pl)
    BY <1>1 DEF Sorted
  <1>3. s.liquidity = LiquidityAt(pl, ticks[j]) /\ s.liquidity \in Nat \ {0}
    <2>1. s.tick \in ticks[j] .. ticks[j + 1] - 1
      BY <1>1, <1>2
    <2>2. LiquidityAt(pl, s.tick) = LiquidityAt(pl, ticks[j])
      BY <2>1, LiquidityInBand
    <2>3. LiquidityAt(pl, ticks[j]) \in Nat
      BY LiquidityNone
    <2>4. QED
      BY <2>2, <2>3 DEF Placed
  <1>4. getNextInitializedTick(Initialized(pl), s.tick, zeroForOne) # None
    <2>1. PICK ahead : ahead = {t \in Initialized(pl) : t > s.tick}
      OBVIOUS
    <2>2. ahead # {} /\ ahead \subseteq TickBelow
      BY <1>1, <1>2, <2>1, TicksBelow
    <2>3. Min(ahead) \in ahead
      BY <2>2, FirstAbove
    <2>4. Min(ahead) # None
      BY <2>2, <2>3, MathAssumption DEF TickBelow, None
    <2>5. QED
      BY <2>1, <2>2, <2>4 DEF getNextInitializedTick
  <1>5. ASSUME NEW m, Nearest(Initialized(pl), s.tick, zeroForOne, m) PROVE m = high
    <2>1. m \in Initialized(pl) /\ m > s.tick /\ m <= high
      BY <1>1, <1>2, <1>5 DEF Nearest
    <2>2. PICK i \in 1 .. n : ticks[i] = m
      BY <2>1 DEF Sorted
    <2>3. m \in Int /\ ~(i < j) /\ i # j
      BY <1>1, <1>2, <2>1, <2>2 DEF Sorted
    <2>4. i = j + 1 \/ j + 1 < i
      BY <1>1, <2>3
    <2>5. high <= m
      BY <1>1, <1>2, <2>2, <2>3, <2>4 DEF Sorted
    <2>6. QED
      BY <1>2, <2>1, <2>3, <2>5
  <1>6. QED
    BY <1>2, <1>3, <1>4, <1>5 DEF Nowhere, InBand

\* One step of a purchase that is smaller than the safe range.
LEMMA RangeStep ==
  ASSUME NEW pl, IsPool(pl), BelowPar(pl), NEW ticks, NEW n, NEW k, NEW last, NEW token1,
         Enveloped(pl, ticks, n, k, last, token1), NEW amount \in Nat, amount < token1,
         NEW s, Simulated(pl, amount, s), NEW j \in Nat, Within(pl, ticks, k, last, amount, j, s),
         NEW zeroForOne \in BOOLEAN, ~zeroForOne, NEW u, u = SimStep(pl, zeroForOne, s)
  PROVE  Within(pl, ticks, k, last, amount, j + 1, u)
  <1>1. PICK l : l = LiquidityAt(pl, ticks[j])
    OBVIOUS
  <1>2. CASE ~Live(s)
    <2>1. u = s
      BY <1>2, LiveStep
    <2>2. QED
      BY <1>2, <2>1 DEF Within
  <1>3. CASE Live(s)
    <2>1. /\ j \in k .. last /\ n \in Nat /\ k \in 1 .. n - 1 /\ last \in k - 1 .. n - 1
          /\ j \in 1 .. n - 1 /\ j \in 1 .. n /\ j + 1 \in 1 .. n /\ k \in Nat /\ last \in Nat
      BY <1>3 DEF Within, Enveloped, SafeRange
    <2>2. Placed(pl, s) /\ s.left \in Nat /\ s.crossed \in Nat /\ Sorted(pl, ticks, n)
      BY <1>3 DEF Simulated, Enveloped
    <2>3. l # 0 /\ ticks[j] <= s.tick /\ s.tick < ticks[j + 1] /\ s.price = Price(ticks[j])
          /\ s.crossed = j - k /\ ~s.cliff
      BY <1>1, <1>3, <2>1 DEF Within, Enveloped, SafeRange
    <2>4. /\ ~Nowhere(pl, zeroForOne, s) /\ s.liquidity = l /\ l \in Nat \ {0}
          /\ \A m : Nearest(Initialized(pl), s.tick, zeroForOne, m) => m = ticks[j + 1]
      <3>1. InBand(pl, zeroForOne, s, l, ticks[j + 1])
        BY <1>1, <2>1, <2>2, <2>3, BandAhead
      <3>2. QED
        BY <3>1 DEF InBand
    <2>5. PICK m, limit, step : Steps(pl, zeroForOne, s, m, limit, step, u) /\ m = ticks[j + 1]
      <3>1. \E m, limit, step : Steps(pl, zeroForOne, s, m, limit, step, u)
        BY <1>3, <2>4, LiveStep
      <3>2. QED
        BY <2>4, <3>1 DEF Steps
    <2>6. Spends(s, u, limit)
      BY <1>3, <2>5, StepSpends
    <2>7. PICK a \in TickBelow, b \in TickBelow :
            a = ticks[j] /\ b = ticks[j + 1] /\ a < b /\ a \in Int /\ b \in Int
      <3>1. j < j + 1
        BY <2>1
      <3>2. QED
        BY <2>1, <2>2, <3>1, TicksBelow DEF Sorted
    <2>8. PICK p \in Nat \ {0}, q \in Nat \ {0} : p = Price(a) /\ q = Price(b) /\ p <= q
      BY <2>7, TickPrice, PriceGrows DEF Price
    <2>9. limit = q /\ s.price = p
      BY <2>3, <2>5, <2>7, <2>8 DEF Steps, IsLimit
    <2>10. CASE u.price # limit
      <3>1. u.left = 0 /\ u.liquidity = s.liquidity /\ u.cliff = s.cliff /\ u.abort = "none"
        BY <2>4, <2>5, <2>6, <2>10 DEF Spends, Steps, Goes
      <3>2. ~Live(u)
        BY <3>1 DEF Live
      <3>3. QED
        BY <2>3, <3>1, <3>2 DEF Within
    <2>11. CASE u.price = limit
      <3>1. PICK g, sum : /\ g = Worth(pl, ticks, k, last) /\ sum = SumOver(g, k .. j - 1)
                          /\ g \in [k .. last -> Nat] /\ g \in [k .. last -> Int]
                          /\ sum + s.left <= amount
        BY <1>3 DEF Within, Enveloped
      <3>2. sum \in Int /\ SumOver(g, k .. j) = sum + g[j]
        BY <2>1, <3>1, SumFrom
      <3>3. g[j] = Got1(l, p, q) /\ g[j] \in Nat
        BY <1>1, <2>1, <2>7, <2>8, <3>1 DEF Worth
      <3>4. PICK x \in Nat, f \in Nat :
              /\ x = step.in /\ f = step.fee /\ x = Paid1(l, p, q)
              /\ u.left = s.left - (x + f)
        BY <2>4, <2>5, <2>9, <2>11 DEF Steps, Goes, IsStep, IsStepUp, StepFits
      <3>5. g[j] <= x
        <4>1. p <= p /\ l \in Nat \ {0}
          BY <2>4
        <4>2. QED
          BY <2>8, <3>3, <3>4, <4>1, Token1Within
      <3>6. SumOver(g, k .. j) \in Int /\ SumOver(g, k .. j) + u.left <= amount /\ u.left \in Nat
        <4>1. PICK worth \in Nat, left \in Nat, rest \in Nat :
                worth = g[j] /\ left = s.left /\ rest = u.left
          BY <2>2, <2>6, <3>3 DEF Spends
        <4>2. sum + left <= amount /\ rest = left - (x + f) /\ worth <= x
          BY <3>1, <3>4, <3>5, <4>1
        <4>3. sum + worth + rest <= amount /\ sum + worth \in Int
          BY <3>2, <4>2
        <4>4. QED
          BY <3>2, <4>1, <4>3
      <3>7. j # last
        <4>1. SUFFICES ASSUME j = last PROVE FALSE
          OBVIOUS
        <4>2. token1 = SumOver(g, k .. j)
          BY <3>1, <4>1 DEF Enveloped
        <4>3. QED
          BY <3>6, <4>2
      <3>8. j + 1 \in k .. last /\ j + 1 > 1 /\ (j + 1) - 1 = j /\ j + 1 \in 1 .. n - 1
        BY <2>1, <3>7
      <3>9. LiquidityAt(pl, b) # 0 /\ ~Cliff(l, LiquidityAt(pl, b))
        BY <1>1, <2>7, <3>8 DEF Enveloped, SafeRange
      <3>10. /\ u.tick = b /\ u.liquidity = Crossed(s.liquidity, Net(pl, b), zeroForOne)
             /\ u.crossed = s.crossed + 1 /\ u.cliff = (s.cliff \/ Cliff(s.liquidity, u.liquidity))
             /\ u.abort = IF u.liquidity = 0 THEN "exhausted" ELSE "none"
        BY <2>5, <2>7, <2>11 DEF Steps, Goes
      <3>11. u.liquidity = LiquidityAt(pl, b)
        <4>1. Nearest(Initialized(pl), s.tick, zeroForOne, b)
          BY <2>5, <2>7 DEF Steps
        <4>2. QED
          BY <2>2, <3>10, <4>1, CrossedIs DEF Placed
      <3>12. u.abort = "none" /\ ~u.cliff
        BY <2>3, <2>4, <3>9, <3>10, <3>11
      <3>13. ~Live(u) => u.left = 0
        BY <3>6, <3>12 DEF Live
      <3>14. u.tick < ticks[(j + 1) + 1]
        <4>1. (j + 1) + 1 \in 1 .. n /\ j + 1 < (j + 1) + 1
          BY <2>1, <3>8
        <4>2. QED
          BY <2>1, <2>2, <2>7, <3>10, <4>1 DEF Sorted
      <3>15. u.crossed = (j + 1) - k
        BY <2>1, <2>3, <3>10
      <3>16. b <= u.tick
        BY <2>7, <3>10
      <3>17. QED
        BY <2>7, <2>8, <2>9, <2>11, <3>1, <3>6, <3>8, <3>12, <3>13, <3>14, <3>15, <3>16 DEF Within
    <2>12. QED
      BY <2>10, <2>11
  <1>4. QED
    BY <1>2, <1>3

\* The walk of a purchase that is smaller than the safe range.
LEMMA RangeWalk ==
  ASSUME NEW pl, IsPool(pl), BelowPar(pl), NEW ticks, NEW n, NEW k, NEW last, NEW token1,
         Enveloped(pl, ticks, n, k, last, token1), NEW amount \in Nat \ {0}, amount < token1,
         NEW zeroForOne \in BOOLEAN, ~zeroForOne, NEW start, start = StartSwap(pl, amount),
         NEW m \in Nat, NEW f, Walks(pl, zeroForOne, start, f, m)
  PROVE  \A i \in 0 .. m : Within(pl, ticks, k, last, amount, k + i, f[i])
  <1> DEFINE Good(i) == Within(pl, ticks, k, last, amount, k + i, f[i])
             T == {i \in Nat : i <= m /\ ~Good(i)}
  <1>1. Simulated(pl, amount, start) /\ \A i \in 0 .. m : Simulated(pl, amount, f[i])
    <2>1. Simulated(pl, amount, start)
      BY StartSimulated
    <2>2. QED
      BY <2>1, WalkSimulated
  <1>2. k \in Nat /\ last \in Nat /\ k - 1 <= last /\ Worth(pl, ticks, k, last) \in [k .. last -> Int]
    BY DEF Enveloped, SafeRange
  <1>3. k \in k .. last /\ SumOver(Worth(pl, ticks, k, last), k .. k - 1) = 0
    <2>1. PICK g : g = Worth(pl, ticks, k, last) /\ g \in [k .. last -> Int]
                   /\ token1 = SumOver(g, k .. last)
      BY <1>2 DEF Enveloped
    <2>2. k <= last
      <3>1. SUFFICES ASSUME last < k PROVE FALSE
        BY <1>2
      <3>2. k .. last = {}
        BY <1>2, <3>1
      <3>3. token1 = 0
        BY <2>1, <3>2, EmptySum
      <3>4. QED
        BY <3>3
    <2>3. k \in k .. last
      BY <1>2, <2>2
    <2>4. SumOver(g, k .. k - 1) = 0
      BY <1>2, <2>1, <2>3, SumFrom
    <2>5. QED
      BY <2>1, <2>3, <2>4
  <1>4. Within(pl, ticks, k, last, amount, k, start)
    <2>1. /\ start.price = pl.sqrtPrice /\ start.tick = TickOf(pl.sqrtPrice) /\ start.left = amount
          /\ start.crossed = 0 /\ start.cliff = FALSE /\ start.abort = "none"
      BY DEF StartSwap
    <2>2. Live(start) /\ ~start.cliff
      BY <2>1 DEF Live
    <2>3. /\ start.price = Price(ticks[k]) /\ ticks[k] <= start.tick /\ start.tick < ticks[k + 1]
      BY <2>1 DEF Enveloped
    <2>4. start.crossed = k - k
      BY <1>2, <2>1
    <2>5. SumOver(Worth(pl, ticks, k, last), k .. k - 1) + start.left <= amount
      BY <1>3, <2>1
    <2>6. QED
      BY <1>3, <2>2, <2>3, <2>4, <2>5 DEF Within
  <1>5. SUFFICES ASSUME T # {} PROVE FALSE
    OBVIOUS
  <1>6. PICK i \in T : \A j \in T : i <= j
    <2>1. T \in SUBSET Nat
      OBVIOUS
    <2> HIDE DEF T
    <2>2. QED
      BY <1>5, <2>1, LeastNumber
  <1>7. i \in 0 .. m /\ ~Good(i) /\ i \in Nat
    BY <1>6
  <1>8. CASE i = 0
    <2>1. f[i] = start /\ k + i = k
      BY <1>2, <1>7, <1>8 DEF Walks
    <2>2. QED
      BY <1>4, <1>7, <2>1
  <1>9. CASE i # 0
    <2>1. i - 1 \in Nat /\ i - 1 <= m /\ ~(i <= i - 1) /\ i - 1 \in 0 .. m
      BY <1>7, <1>9
    <2>2. Good(i - 1)
      <3> HIDE DEF Good
      <3>1. QED
        BY <1>6, <2>1
    <2>3. PICK s, u : s = f[i - 1] /\ u = f[i] /\ u = SimStep(pl, zeroForOne, s)
      BY <1>7, <1>9 DEF Walks
    <2>4. PICK j \in Nat : j = k + (i - 1) /\ j + 1 = k + i
      BY <1>2, <2>1
    <2>5. Simulated(pl, amount, s) /\ Within(pl, ticks, k, last, amount, j, s)
      BY <1>1, <2>1, <2>2, <2>3, <2>4
    <2>6. Within(pl, ticks, k, last, amount, j + 1, u)
      BY <2>3, <2>5, RangeStep
    <2>7. QED
      BY <1>7, <2>3, <2>4, <2>6
  <1>10. QED
    BY <1>8, <1>9

\* A purchase for less than the envelope's token1 (EnvelopeSafe).
LEMMA EnvelopeIsSafe ==
  ASSUME NEW pl, IsPool(pl), BelowPar(pl), AtTick(pl, pl.sqrtPrice),
         NEW token1, token1 = buildLPBandProfile(pl).envelope.token1,
         NEW amount \in 1 .. token1 - 1, NEW zeroForOne \in BOOLEAN, ~zeroForOne,
         NEW sim, sim = simulateV3Trade(pl, zeroForOne, amount)
  PROVE  /\ ~sim.cliff
         /\ sim.abort = "none" \/ (sim.abort = "steps" /\ sim.crossed = MaxSteps)
  <1>1. PICK m \in Nat : m = MaxSteps
    BY SizingAssumption
  <1>2. amount \in Nat \ {0}
    OBVIOUS
  <1>3. token1 # 0
    BY <1>2
  <1>4. PICK ticks, n, k, last : Enveloped(pl, ticks, n, k, last, token1)
    BY <1>3, EnvelopeIs
  <1>5. token1 \in Int /\ k \in Nat
    <2>1. PICK g, S : /\ g = Worth(pl, ticks, k, last) /\ S = k .. last
                      /\ g \in [S -> Int] /\ token1 = SumOver(g, S)
      <3>1. PICK g : g = Worth(pl, ticks, k, last) /\ g \in [k .. last -> Nat]
                     /\ token1 = SumOver(g, k .. last)
        BY <1>4 DEF Enveloped
      <3>2. g \in [k .. last -> Int]
        BY <3>1
      <3>3. QED
        BY <3>1, <3>2
    <2>2. k \in Nat /\ k \in Int /\ last \in Int
      BY <1>4 DEF Enveloped, SafeRange
    <2>3. IsFiniteSet(S) /\ S \in SUBSET S
      BY <2>1, <2>2, FS_Interval
    <2>4. QED
      BY <2>1, <2>2, <2>3, SumSteps
  <1>6. amount < token1
    BY <1>2, <1>5
  <1>7. PICK start : start = StartSwap(pl, amount)
    OBVIOUS
  <1>8. PICK f : Walks(pl, zeroForOne, start, f, m) /\ sim = OutOfSteps(f[m])
    BY <1>1, <1>7, RunIsWalk DEF simulateV3Trade
  <1>9. Simulated(pl, amount, f[m])
    <2>1. Simulated(pl, amount, start)
      BY <1>2, <1>7, StartSimulated
    <2>2. QED
      BY <1>2, <1>8, <2>1, WalkSimulated
  <1>10. Within(pl, ticks, k, last, amount, k + m, f[m])
    <2>1. \A i \in 0 .. m : Within(pl, ticks, k, last, amount, k + i, f[i])
      BY <1>2, <1>4, <1>6, <1>7, <1>8, RangeWalk
    <2>2. QED
      BY <2>1
  <1>11. PICK s : s = f[m] /\ DOMAIN s = Fields /\ s.left \in Nat
    BY <1>9 DEF Simulated
  <1>12. CASE Live(s)
    <2>1. sim = [s EXCEPT !.abort = "steps"]
      BY <1>8, <1>11, <1>12 DEF OutOfSteps, Live
    <2>2. sim.cliff = s.cliff /\ sim.crossed = s.crossed /\ sim.abort = "steps"
      BY <1>11, <2>1 DEF Fields
    <2>3. s.crossed = m /\ ~s.cliff
      BY <1>5, <1>10, <1>11, <1>12 DEF Within
    <2>4. QED
      BY <1>1, <2>2, <2>3
  <1>13. CASE ~Live(s)
    <2>1. ~s.cliff /\ s.left = 0 /\ s.abort = "none"
      BY <1>10, <1>11, <1>13 DEF Within
    <2>2. sim = s
      BY <1>8, <1>11, <2>1 DEF OutOfSteps
    <2>3. QED
      BY <2>1, <2>2
  <1>14. QED
    BY <1>12, <1>13

-----------------------------------------------------------------------------
(* A question about a pool.                                                *)

\* The pool is one of those looked at, and an answer is that to the question.
V3Inv ==
  /\ pool \in Pools
  /\ done.what = "trade" =>
       /\ done.zeroForOne \in BOOLEAN /\ done.amount \in Amounts
       /\ answer = simulateV3Trade(pool, done.zeroForOne, done.amount)
  /\ done.what = "profile" => answer = buildLPBandProfile(pool)
  /\ done.what = "size" =>
       /\ done.sell \in SellPools /\ done.hi \in Searches
       /\ answer = findOptimalTradeSize(pool, done.sell, 1, done.hi)

LEMMA V3InitInv == V3Init => V3Inv
  BY DEF V3Init, V3Inv

LEMMA V3NextInv == V3Inv /\ [V3Next]_v3Vars => V3Inv'
  <1> SUFFICES ASSUME V3Inv, [V3Next]_v3Vars PROVE V3Inv'
    OBVIOUS
  <1>1. ASSUME NEW zeroForOne \in BOOLEAN, NEW amount \in Amounts, Simulate(zeroForOne, amount)
        PROVE  V3Inv'
    <2>1. /\ done' = [what |-> "trade", zeroForOne |-> zeroForOne, amount |-> amount]
          /\ pool' = pool /\ answer' = simulateV3Trade(pool, zeroForOne, amount)
      BY <1>1 DEF Simulate
    <2>2. done'.zeroForOne = zeroForOne /\ done'.amount = amount /\ done'.what = "trade"
      BY <2>1
    <2>3. answer' = simulateV3Trade(pool', done'.zeroForOne, done'.amount)
      BY <2>1, <2>2
    <2>4. done'.zeroForOne \in BOOLEAN
      BY <2>2, Zenon
    <2>5. QED
      BY <2>1, <2>2, <2>3, <2>4 DEF V3Inv
  <1>2. CASE Profile
    <2>1. done' = [what |-> "profile"] /\ pool' = pool /\ answer' = buildLPBandProfile(pool)
      BY <1>2 DEF Profile
    <2>2. done'.what = "profile" /\ answer' = buildLPBandProfile(pool')
      BY <2>1
    <2>3. QED
      BY <2>1, <2>2 DEF V3Inv
  <1>3. ASSUME NEW sell \in SellPools, NEW hi \in Searches, Size(sell, hi)
        PROVE  V3Inv'
    <2>1. /\ done' = [what |-> "size", sell |-> sell, hi |-> hi] /\ pool' = pool
          /\ answer' = findOptimalTradeSize(pool, sell, 1, hi)
      BY <1>3 DEF Size
    <2>2. done'.sell = sell /\ done'.hi = hi /\ done'.what = "size"
      BY <2>1
    <2>3. answer' = findOptimalTradeSize(pool', done'.sell, 1, done'.hi)
      BY <2>1, <2>2
    <2>4. QED
      BY <2>1, <2>2, <2>3 DEF V3Inv
  <1>4. CASE UNCHANGED v3Vars
    BY <1>4 DEF V3Inv, v3Vars
  <1>5. QED
    BY <1>1, <1>2, <1>3, <1>4 DEF V3Next

LEMMA V3Honest == V3Inv => SizeHonest
  <1> SUFFICES ASSUME V3Inv, done.what = "size", BelowPar(pool), BelowPar(done.sell)
               PROVE  /\ answer.best.profit = evaluateProfit(pool, done.sell, answer.best.amount)
                      /\ answer.best.amount \in 1 .. done.hi
                      /\ done.sell.sqrtPrice >= pool.sqrtPrice => answer.best.profit <= 0
    BY DEF SizeHonest
  <1>1. /\ done.hi \in Nat \ {0} /\ IsPool(pool) /\ IsPool(done.sell)
        /\ answer = findOptimalTradeSize(pool, done.sell, 1, done.hi)
    BY SizingAssumption DEF V3Inv
  <1>2. /\ answer.best.profit = evaluateProfit(pool, done.sell, answer.best.amount)
        /\ answer.best.amount \in 1 .. done.hi
    BY <1>1, SearchIsHonest
  <1>3. ASSUME done.sell.sqrtPrice >= pool.sqrtPrice PROVE answer.best.profit <= 0
    <2>1. answer.best.amount \in Int
      BY <1>1, <1>2
    <2>2. evaluateProfit(pool, done.sell, answer.best.amount) <= 0
      BY <1>1, <1>3, <2>1, NoProfit
    <2>3. QED
      BY <1>2, <2>2
  <1>4. QED
    BY <1>2, <1>3

\* A search for the size of a trade (findOptimalTradeSize in optimal-sizer.ts)
\* shows the profit of the very size it shows, a size of the range it was asked
\* for, and never a profit when token1 brings no more in the second pool than it
\* costs in the first: for every pair of pools at or below par, every number of
\* steps and iterations and every cost of gas.
THEOREM SearchesAreHonest == V3Spec => []SizeHonest
  <1>1. V3Spec => []V3Inv
    BY V3InitInv, V3NextInv, PTL DEF V3Spec
  <1>2. QED
    BY <1>1, V3Honest, PTL

LEMMA V3Loses == V3Inv => RoundTripLoses
  <1> SUFFICES ASSUME V3Inv, done.what = "trade", BelowPar(pool)
               PROVE  simulateV3Trade([pool EXCEPT !.sqrtPrice = answer.price],
                                      ~done.zeroForOne, answer.out).out <= done.amount - answer.left
    BY Zenon DEF RoundTripLoses
  <1>1. /\ IsPool(pool) /\ done.amount \in Nat /\ done.zeroForOne \in BOOLEAN
        /\ answer = simulateV3Trade(pool, done.zeroForOne, done.amount)
    BY SizingAssumption DEF V3Inv
  <1>2. QED
    BY <1>1, RoundTripIsLossy

\* A simulated trade (simulateV3Trade in v3-simulator.ts) whose proceeds are sold
\* back to the pool at the price it left behind never brings more than it cost:
\* no rounding, no crossing of a tick and no fee makes a way cheaper in pieces,
\* whether the trade was filled, broken off or out of steps, for every pool at or
\* below par, every amount, both directions and every limit of steps.
THEOREM RoundTripsLose == V3Spec => []RoundTripLoses
  <1>1. V3Spec => []V3Inv
    BY V3InitInv, V3NextInv, PTL DEF V3Spec
  <1>2. QED
    BY <1>1, V3Loses, PTL

LEMMA V3BandsExact == V3Inv => BandsExact
  <1> SUFFICES ASSUME V3Inv, done.what = "profile", NEW i \in DOMAIN answer.bands,
                      NEW t \in answer.bands[i].lower .. answer.bands[i].upper - 1
               PROVE  /\ answer.bands[i].liquidity = LiquidityAt(pool, t)
                      /\ answer.bands[i].gap <=> \A pos \in pool.positions : ~Covers(pos, t)
    BY DEF BandsExact
  <1>1. IsPool(pool) /\ answer = buildLPBandProfile(pool)
    BY SizingAssumption DEF V3Inv
  <1>2. QED
    BY <1>1, ProfileIsExact

LEMMA V3EnvelopeSafe == V3Inv => EnvelopeSafe
  <1> SUFFICES ASSUME V3Inv, done.what = "profile", BelowPar(pool),
                      \E t \in Initialized(pool) : pool.sqrtPrice = tickToSqrtPriceX96(t),
                      NEW amount \in 1 .. answer.envelope.token1 - 1,
                      NEW sim, sim = simulateV3Trade(pool, FALSE, amount)
               PROVE  /\ ~sim.cliff
                      /\ sim.abort = "none" \/ (sim.abort = "steps" /\ sim.crossed = MaxSteps)
    BY Zenon DEF EnvelopeSafe
  <1>1. IsPool(pool) /\ answer = buildLPBandProfile(pool)
    BY SizingAssumption DEF V3Inv
  <1>2. AtTick(pool, pool.sqrtPrice)
    BY DEF AtTick, Price
  <1>3. PICK zeroForOne \in BOOLEAN : ~zeroForOne /\ sim = simulateV3Trade(pool, zeroForOne, amount)
    BY Zenon
  <1>4. QED
    BY <1>1, <1>2, <1>3, EnvelopeIsSafe

LEMMA V3TicksTrue == V3Inv => TicksTrue
  <1> SUFFICES ASSUME V3Inv, done.what = "profile"
               PROVE  LET map == BuildTickMap(pool.positions)
                      IN  /\ DOMAIN map = Initialized(pool)
                          /\ \A t \in DOMAIN map :
                               SumFunctionOnSet([u \in DOMAIN map |-> map[u].net],
                                                {u \in DOMAIN map : u <= t})
                                 = LiquidityAt(pool, t)
    BY DEF TicksTrue
  <1>1. IsPool(pool)
    BY SizingAssumption DEF V3Inv
  <1>2. QED
    BY <1>1, TickMapIsTrue

\* A liquidity profile (buildLPBandProfile in lp-band-builder.ts) is the pool's: its
\* bands have the liquidity of the positions that cover them and say gap where there
\* are none; a purchase of token0 for less than the envelope's token1 meets neither a
\* gap nor a cliff when the price stands at the lower end of its band; and the ticks
\* the scanner saves (buildTickMap in liquidity-scanner.ts) add up to that liquidity.
\* It holds for every set of positions, every fee and every limit of steps.
THEOREM ProfilesAreTrue == V3Spec => []ProfileTrue
  <1>1. V3Spec => []V3Inv
    BY V3InitInv, V3NextInv, PTL DEF V3Spec
  <1>2. V3Inv => ProfileTrue
    BY V3BandsExact, V3EnvelopeSafe, V3TicksTrue DEF ProfileTrue
  <1>3. QED
    BY <1>1, <1>2, PTL

=============================================================================
