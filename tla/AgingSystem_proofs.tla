------------------------- MODULE AgingSystem_proofs -------------------------
(***************************************************************************)
(* Proofs about aging_system, for any sizes, any hole percentage, any      *)
(* sequence of phases, errors and interruptions.                           *)
(***************************************************************************)
EXTENDS AgingSystem, FiniteSetTheorems, SequenceTheorems, TLAPS

-----------------------------------------------------------------------------
(* The invariant *)

\* TypeOK, and the types it leaves open.
TypeInv ==
    /\ TypeOK
    /\ total_4K_blks \in 0..Capacity /\ block_size \in Nat \ {0} /\ hole_percent \in Nat
    /\ (phase = stage \/ phase = 4)
    /\ drawn \in [{2, 4} -> Seq(0..total_4K_blks - 1)]
    /\ punchers \subseteq {2, 4} /\ punched \in {"no", "so_far", "yes"}

\* Page k of a file holds the number that the phase gives to it, or is a hole of
\* file1; a file has whole blocks at most; and a phase goes on at or before the
\* end of its file, over no holes.
Ends(n) == n * block_size
FilesInv ==
    /\ file1 # Missing =>
          /\ Len(file1) <= Ends(total_4K_blks \div block_size)
          /\ \A k \in DOMAIN file1 : file1[k] \in {Hole, total_4K_blks + k - 1}
    /\ file2 # Missing =>
          /\ Len(file2) <= Ends(fill_num)
          /\ \A k \in DOMAIN file2 : file2[k] = 3 * total_4K_blks + k - 1
    /\ pc = "run" /\ stage = 1 =>
          /\ file1 # Missing /\ Ends(i) <= Len(file1) /\ punched = "no"
          /\ \A k \in 1..Ends(i) : file1[k] # Hole
    /\ pc = "run" /\ stage = 2 => file1 # Missing /\ punched # "yes"
    /\ pc = "run" /\ stage = 3 => file2 # Missing /\ Ends(i) <= Len(file2)

\* The generator gives no place twice, and a run of phase 2 has gone over the
\* first places of its seed.
DrawnInv ==
    /\ \A seed \in {2, 4} : Len(drawn[seed]) <= Holes /\ IsInjective(drawn[seed])
    /\ pc = "run" /\ stage = 2 =>
          /\ hole_num <= Holes /\ Holes - hole_num <= Len(drawn[phase])
          /\ records = {drawn[phase][k] : k \in 1..Holes - hole_num}
          /\ hole_num < Holes => phase \in punchers

\* The first n places of a seed are holes, as far as they are in file1.
Punched(seed, n) ==
    \A k \in 1..n : drawn[seed][k] + 1 \in DOMAIN file1 =>
                       file1[drawn[seed][k] + 1] = Hole

\* Holes are at places of the seeds that punched.
HolesPlaced ==
    file1 # Missing => \A k \in DOMAIN file1 : file1[k] = Hole =>
                          \E seed \in punchers : k - 1 \in ToSet(drawn[seed])

\* All places of a seed are punched.
AllPunched ==
    /\ file1 # Missing
    /\ \E seed \in {2, 4} : /\ Len(drawn[seed]) = Holes /\ Punched(seed, Holes)
                            /\ Holes > 0 => seed \in punchers

\* A run of phase 2 without errors leaves the places that it has gone over punched.
HolesInv ==
    /\ HolesPlaced
    /\ pc = "run" /\ stage = 2 /\ punched = "so_far" =>
          Punched(phase, Holes - hole_num)
    /\ punched = "yes" => AllPunched

AgingInv == TypeInv /\ FilesInv /\ DrawnInv /\ HolesInv

-----------------------------------------------------------------------------
(* Sizes *)

\* The shares that an integer division gives are no more than the whole.
LEMMA Division ==
    ASSUME NEW x \in Nat, NEW n \in Nat \ {0}
    PROVE  x \div n \in Nat /\ (x \div n) * n <= x
  OBVIOUS

\* Products of naturals grow with their factors.
LEMMA Products ==
    ASSUME NEW m \in Nat, NEW n \in Nat, NEW x \in Nat
    PROVE  /\ m * x \in Nat /\ (m + 1) * x = m * x + x
           /\ m <= n => m * x <= n * x
           /\ m * x = x * m
  OBVIOUS

\* A percentage of whole blocks is no more than that of the pages.
LEMMA WholeBlocks ==
    ASSUME NEW total \in Nat, NEW q \in Nat, NEW b \in Nat, NEW h \in Nat, q * b <= total
    PROVE  ((q * h) \div 100) * b <= (total * h) \div 100
<1> DEFINE f == (q * h) \div 100
<1>1. q * h \in Nat /\ total * h \in Nat /\ q * b \in Nat
  BY Products
<1>2. f \in Nat /\ f * 100 <= q * h
  BY <1>1, Division
<1>3. (f * 100) * b <= (q * h) * b
  <2>1. f * 100 \in Nat
    BY <1>2
  <2> HIDE DEF f
  <2> QED BY <1>1, <1>2, <2>1, Products
<1>4. (q * h) * b = (q * b) * h
  OBVIOUS
<1>5. (q * b) * h <= total * h
  BY <1>1, Products
<1> HIDE DEF f
<1>6. f * b \in Nat /\ (f * 100) * b = (f * b) * 100
  BY <1>2
<1>7. (f * b) * 100 <= total * h
  <2>1. (q * b) * h \in Nat /\ (q * h) * b \in Nat /\ (f * b) * 100 \in Nat
    BY <1>1, <1>6, Products
  <2> QED BY <1>1, <1>3, <1>4, <1>5, <1>6, <2>1
<1>8. \A x \in Nat, y \in Nat : x * 100 <= y => x <= y \div 100
  OBVIOUS
<1> QED BY <1>1, <1>6, <1>7, <1>8 DEF f

\* The numbers of blocks and pages, and what fits into what.
LEMMA Sizes ==
    ASSUME TypeInv
    PROVE  /\ total_4K_blks \in Nat /\ block_size \in Nat \ {0}
           /\ Capacity \in Nat /\ total_4K_blks <= Capacity
           /\ total_4K_blks \div block_size \in Nat /\ fill_num \in Nat /\ Holes \in Nat
           /\ Ends(total_4K_blks \div block_size) <= total_4K_blks
           /\ Ends(fill_num) <= Holes
<1>1. /\ total_4K_blks \in 0..Capacity /\ block_size \in Nat \ {0}
      /\ hole_percent \in Nat /\ Capacity \in Nat
  BY AgingAssumption DEF TypeInv, AgingAssumption
<1> DEFINE q == total_4K_blks \div block_size
<1>2. q \in Nat /\ q * block_size <= total_4K_blks
  BY <1>1, Division
<1> HIDE DEF q
<1>3. (q * hole_percent) \div 100 \in Nat /\ Holes \in Nat
  <2>1. q * hole_percent \in Nat /\ total_4K_blks * hole_percent \in Nat
    BY <1>1, <1>2, Products
  <2> QED BY <2>1, Division DEF Holes
<1>4. ((q * hole_percent) \div 100) * block_size <= Holes
  BY <1>1, <1>2, WholeBlocks DEF Holes
<1> QED BY <1>1, <1>2, <1>3, <1>4 DEF q, fill_num, Ends

\* Where block n ends.
LEMMA EndsGrow ==
    ASSUME TypeInv, NEW m \in Nat, NEW n \in Nat
    PROVE  /\ Ends(m) \in Nat /\ Ends(m + 1) = Ends(m) + block_size
           /\ m <= n => Ends(m) <= Ends(n)
           /\ Ends(0) = 0
<1>1. block_size \in Nat
  BY Sizes
<1>2. 0 * block_size = 0
  BY <1>1
<1> QED BY <1>1, <1>2, Products DEF Ends

\* The options stay, and all sizes with them.
LEMMA SameSizes ==
    ASSUME UNCHANGED optVars
    PROVE  /\ Holes' = Holes /\ fill_num' = fill_num
           /\ total_4K_blks' = total_4K_blks /\ block_size' = block_size
           /\ hole_percent' = hole_percent
           /\ (total_4K_blks \div block_size)' = total_4K_blks \div block_size
           /\ \A n : Ends(n)' = Ends(n)
  BY DEF optVars, Holes, fill_num, Ends

\* What a file takes.
LEMMA UsedType ==
    ASSUME NEW f, f = Missing \/ f \in Seq(Nat)
    PROVE  /\ Used(f) \in Nat
           /\ f # Missing => IsFiniteSet({k \in DOMAIN f : f[k] # Hole})
           /\ f \in Seq(Nat) => f # Missing /\ Used(f) <= Len(f)
           /\ f = Missing => Used(f) = 0 /\ Used(Opened(f)) = 0
           /\ Used(Opened(f)) = Used(f)
<1> DEFINE stored == {k \in DOMAIN f : f[k] # Hole}
<1>1. CASE f = Missing
  <2>1. {k \in DOMAIN <<>> : <<>>[k] # Hole} = {}
    OBVIOUS
  <2>2. f \notin Seq(Nat)
    <3>1. f[1] = -1 /\ Len(f) = 1
      BY <1>1 DEF Missing
    <3>2. f \in Seq(Nat) => f[1] \in Nat
      <4> SUFFICES ASSUME f \in Seq(Nat) PROVE f[1] \in Nat
        OBVIOUS
      <4>1. 1 \in 1..Len(f)
        BY <3>1
      <4> QED BY <4>1, ElementOfSeq
    <3>3. -1 \notin Nat
      OBVIOUS
    <3> QED BY <3>1, <3>2, <3>3
  <2>3. <<>> # Missing
    <3>1. PICK e : e = <<>>
      OBVIOUS
    <3>2. Len(e) = 0 /\ Len(Missing) = 1
      BY <3>1 DEF Missing
    <3> QED BY <3>1, <3>2
  <2>4. Used(f) = 0 /\ Opened(f) = <<>>
    BY <1>1 DEF Used, Opened
  <2>5. Used(<<>>) = 0
    BY <2>1, <2>3, FS_EmptySet DEF Used
  <2> QED BY <1>1, <2>2, <2>4, <2>5
<1>2. CASE f # Missing
  <2>1. f \in Seq(Nat) /\ DOMAIN f = 1..Len(f) /\ Len(f) \in Nat
    BY <1>2
  <2>2. IsFiniteSet(1..Len(f)) /\ Cardinality(1..Len(f)) = Len(f)
    <3>1. PICK n \in Nat : n = Len(f)
      BY <2>1
    <3>2. IsFiniteSet(1..n) /\ Cardinality(1..n) = n
      BY FS_Interval
    <3> QED BY <3>1, <3>2
  <2>3. IsFiniteSet(stored) /\ Cardinality(stored) <= Len(f)
    BY <2>1, <2>2, FS_Subset
  <2>4. Cardinality(stored) \in Nat
    BY <2>3, FS_CardinalityType
  <2> QED BY <1>2, <2>1, <2>3, <2>4 DEF Used, Opened
<1> QED BY <1>1, <1>2

-----------------------------------------------------------------------------
(* Phases 1 and 3 *)

\* A block to fill lies within the blocks of the phase, and its numbers are none
\* that stand for a hole.
LEMMA FillStep ==
    ASSUME TypeInv, Filling
    PROVE  /\ i \in Nat /\ Ends(i) \in Nat /\ Blocks \in Nat
           /\ Ends(i + 1) = Ends(i) + block_size /\ Ends(i) + block_size <= Ends(Blocks)
           /\ total_4K_blks > 0
           /\ first_v = (IF stage = 1 THEN total_4K_blks ELSE 3 * total_4K_blks)
<1>1. i \in Nat /\ Blocks \in Nat /\ i < Blocks
  BY Sizes DEF TypeInv, TypeOK, Filling, Blocks
<1>2. /\ Ends(i) \in Nat /\ Ends(i + 1) = Ends(i) + block_size
      /\ i + 1 <= Blocks => Ends(i + 1) <= Ends(Blocks)
  <2>1. i + 1 \in Nat
    BY <1>1
  <2> QED BY <1>1, <2>1, EndsGrow
<1>3. Ends(i) + block_size <= Ends(Blocks)
  BY <1>1, <1>2
<1>4. total_4K_blks > 0
  <2>1. CASE stage = 1
    <3>1. Ends(Blocks) <= total_4K_blks /\ Ends(Blocks) \in Nat
      BY <1>1, <2>1, Sizes, EndsGrow DEF Blocks
    <3> QED BY <1>2, <1>3, <3>1, Sizes
  <2>2. CASE stage # 1
    <3>1. Ends(Blocks) <= Holes /\ Ends(Blocks) \in Nat
      BY <1>1, <2>2, Sizes, EndsGrow DEF Blocks
    <3>2. Holes > 0
      BY <1>2, <1>3, <3>1, Sizes
    <3>3. total_4K_blks = 0 => Holes = 0
      <4>1. 0 * hole_percent = 0
        <5>1. hole_percent \in Nat
          BY DEF TypeInv
        <5> QED BY <5>1
      <4> QED BY <4>1 DEF Holes
    <3> QED BY <3>2, <3>3, Sizes
  <2> QED BY <2>1, <2>2
<1>5. first_v = (IF stage = 1 THEN total_4K_blks ELSE 3 * total_4K_blks)
  BY Sizes DEF first_v
<1> QED BY <1>1, <1>2, <1>3, <1>4, <1>5

\* What Written does to a file that reaches to the block.
LEMMA Writes ==
    ASSUME TypeInv, Filling, NEW f \in Seq(Nat), Ends(i) <= Len(f),
           NEW n \in 0..block_size, NEW g, g = Written(f, n)
    PROVE  /\ g \in Seq(Nat)
           /\ Ends(i) + n <= Len(g) /\ Len(f) <= Len(g)
           /\ Len(f) <= Ends(Blocks) => Len(g) <= Ends(Blocks)
           /\ \A k \in 1..Len(g) :
                 g[k] = IF k \in Ends(i) + 1..Ends(i) + n THEN first_v + k - 1 ELSE f[k]
           /\ \A k \in 1..Len(g) : k \notin Ends(i) + 1..Ends(i) + n => k \in 1..Len(f)
<1>1. PICK at : at = Ends(i)
  OBVIOUS
<1>2. PICK len : len = IF at + n > Len(f) THEN at + n ELSE Len(f)
  OBVIOUS
<1>3. g = [k \in 1..len |-> IF k \in at + 1..at + n THEN first_v + k - 1 ELSE f[k]]
  BY <1>1, <1>2 DEF Written, Ends
<1>4. /\ at \in Nat /\ at <= Len(f) /\ Len(f) \in Nat /\ n \in Nat /\ n <= block_size
      /\ at + block_size <= Ends(Blocks) /\ first_v \in Nat /\ block_size \in Nat
      /\ Ends(Blocks) \in Nat
  <2>1. first_v \in Nat /\ block_size \in Nat
    BY FillStep, Sizes
  <2>2. Ends(Blocks) \in Nat
    BY FillStep, EndsGrow
  <2>3. Ends(i) \in Nat /\ Ends(i) + block_size <= Ends(Blocks)
    BY FillStep
  <2> QED BY <1>1, <2>1, <2>2, <2>3
<1>5. len \in Nat /\ at + n <= len /\ Len(f) <= len
      /\ (Len(f) <= Ends(Blocks) => len <= Ends(Blocks))
  BY <1>2, <1>4
<1>6. \A k \in 1..len : k \notin at + 1..at + n => k \in 1..Len(f)
  BY <1>2, <1>4
<1>7. \A k \in 1..len :
         (IF k \in at + 1..at + n THEN first_v + k - 1 ELSE f[k]) \in Nat
  <2> SUFFICES ASSUME NEW k \in 1..len
               PROVE  (IF k \in at + 1..at + n THEN first_v + k - 1 ELSE f[k]) \in Nat
    OBVIOUS
  <2>1. CASE k \in at + 1..at + n
    BY <1>4, <1>5, <2>1
  <2>2. CASE k \notin at + 1..at + n
    BY <1>6, <2>2
  <2> QED BY <2>1, <2>2
<1>8. g \in Seq(Nat) /\ Len(g) = len
  BY <1>3, <1>5, <1>7
<1>9. \A k \in 1..Len(g) :
         g[k] = IF k \in at + 1..at + n THEN first_v + k - 1 ELSE f[k]
  BY <1>3, <1>8
<1> QED BY <1>1, <1>5, <1>6, <1>8, <1>9

\* Storing n pages of a block keeps what is known of the files.
LEMMA Stores ==
    ASSUME TypeInv, FilesInv, Filling, NEW n \in 0..block_size, Store(n)
    PROVE  /\ Used(file1') + Used(file2') <= Capacity
           /\ stage = 1 =>
                 /\ file1' \in Seq(Nat) /\ file2' = file2 /\ Ends(i) + n <= Len(file1')
                 /\ Len(file1') <= Ends(total_4K_blks \div block_size)
                 /\ \A k \in 1..Len(file1') : file1'[k] \in {Hole, total_4K_blks + k - 1}
                 /\ \A k \in 1..Ends(i) + n : file1'[k] # Hole
                 /\ \A k \in 1..Len(file1') :
                       file1'[k] = Hole => k \in 1..Len(file1) /\ file1[k] = Hole
           /\ stage = 3 =>
                 /\ file2' \in Seq(Nat) /\ file1' = file1 /\ Ends(i) + n <= Len(file2')
                 /\ Len(file2') <= Ends(fill_num)
                 /\ \A k \in 1..Len(file2') : file2'[k] = 3 * total_4K_blks + k - 1
<1>1. Used(file1') + Used(file2') <= Capacity
  BY DEF Store, HasRoom, Filling
<1>2. /\ Ends(i) \in Nat /\ total_4K_blks \in Nat \ {0} /\ n \in Nat
      /\ first_v = (IF stage = 1 THEN total_4K_blks ELSE 3 * total_4K_blks)
  BY FillStep, Sizes
<1>3. /\ file1 = Missing \/ file1 \in Seq(Nat)
      /\ file2 = Missing \/ file2 \in Seq(Nat)
  BY DEF TypeInv, TypeOK
<1>4. CASE stage = 1
  <2>1. /\ file1 # Missing /\ file1 \in Seq(Nat) /\ Ends(i) <= Len(file1)
        /\ Len(file1) <= Ends(Blocks) /\ Blocks = total_4K_blks \div block_size
        /\ \A k \in 1..Len(file1) : file1[k] \in {Hole, total_4K_blks + k - 1}
        /\ \A k \in 1..Ends(i) : file1[k] # Hole
    BY <1>4, <1>3 DEF FilesInv, Filling, Blocks
  <2>2. file1' = Written(file1, n) /\ file2' = file2
    BY <1>4 DEF Store
  <2>3. PICK g : g = Written(file1, n)
    OBVIOUS
  <2>4. /\ g \in Seq(Nat) /\ Ends(i) + n <= Len(g) /\ Len(g) <= Ends(Blocks)
        /\ \A k \in 1..Len(g) : g[k] = IF k \in Ends(i) + 1..Ends(i) + n
                                       THEN first_v + k - 1 ELSE file1[k]
        /\ \A k \in 1..Len(g) : k \notin Ends(i) + 1..Ends(i) + n => k \in 1..Len(file1)
    BY <2>1, <2>3, Writes
  <2>5. ASSUME NEW k \in 1..Len(g)
        PROVE  /\ g[k] \in {Hole, total_4K_blks + k - 1}
               /\ k <= Ends(i) + n => g[k] # Hole
               /\ g[k] = Hole => k \in 1..Len(file1) /\ file1[k] = Hole
    <3>1. CASE k \in Ends(i) + 1..Ends(i) + n
      <4>1. g[k] = total_4K_blks + k - 1
        BY <1>2, <1>4, <2>4, <3>1
      <4> QED BY <1>2, <3>1, <4>1 DEF Hole
    <3>2. CASE k \notin Ends(i) + 1..Ends(i) + n
      <4>1. g[k] = file1[k] /\ k \in 1..Len(file1)
        BY <2>4, <3>2
      <4>2. k <= Ends(i) + n => k \in 1..Ends(i)
        BY <1>2, <3>2
      <4> QED BY <2>1, <4>1, <4>2
    <3> QED BY <3>1, <3>2
  <2>6. \A k \in 1..Ends(i) + n : k \in 1..Len(g)
    BY <1>2, <2>4
  <2> QED BY <1>1, <1>4, <2>1, <2>2, <2>3, <2>4, <2>5, <2>6
<1>5. CASE stage = 3
  <2>1. /\ file2 # Missing /\ file2 \in Seq(Nat) /\ Ends(i) <= Len(file2)
        /\ Len(file2) <= Ends(Blocks) /\ Blocks = fill_num
        /\ \A k \in 1..Len(file2) : file2[k] = 3 * total_4K_blks + k - 1
    BY <1>5, <1>3 DEF FilesInv, Filling, Blocks
  <2>2. file2' = Written(file2, n) /\ file1' = file1
    BY <1>5 DEF Store
  <2>3. PICK g : g = Written(file2, n)
    OBVIOUS
  <2>4. /\ g \in Seq(Nat) /\ Ends(i) + n <= Len(g) /\ Len(g) <= Ends(Blocks)
        /\ \A k \in 1..Len(g) : g[k] = IF k \in Ends(i) + 1..Ends(i) + n
                                       THEN first_v + k - 1 ELSE file2[k]
        /\ \A k \in 1..Len(g) : k \notin Ends(i) + 1..Ends(i) + n => k \in 1..Len(file2)
    BY <2>1, <2>3, Writes
  <2>5. ASSUME NEW k \in 1..Len(g) PROVE g[k] = 3 * total_4K_blks + k - 1
    BY <1>2, <1>5, <2>1, <2>4
  <2> QED BY <1>1, <1>5, <2>1, <2>2, <2>3, <2>4, <2>5
<1> QED BY <1>4, <1>5 DEF Filling

-----------------------------------------------------------------------------
(* Phase 2 *)

\* What a punch does to file1.
LEMMA Punches ==
    ASSUME TypeInv, FilesInv, NEW pos \in 0..total_4K_blks - 1, Punch(pos)
    PROVE  /\ pc = "run" /\ stage = 2 /\ phase \in {2, 4}
           /\ file1 # Missing /\ file1 \in Seq(Nat) /\ file1' \in Seq(Nat)
           /\ Len(file1') = Len(file1) /\ file2' = file2
           /\ \A k \in 1..Len(file1) :
                 file1'[k] = file1[k] \/ (file1'[k] = Hole /\ k = pos + 1)
           /\ punched' \in {punched, "no"}
           /\ punched' # "no" /\ pos + 1 \in 1..Len(file1) => file1'[pos + 1] = Hole
<1>1. pc = "run" /\ stage = 2 /\ phase \in {2, 4} /\ file2' = file2
  BY DEF Punch, TypeInv
<1>2. file1 # Missing
  BY <1>1 DEF FilesInv
<1>3. file1 \in Seq(Nat)
  BY <1>2 DEF TypeInv, TypeOK
<1>4. pos \in Nat
  BY Sizes
<1>5. PICK made \in BOOLEAN :
        /\ file1' = IF made /\ pos < Len(file1) THEN [file1 EXCEPT ![pos + 1] = Hole]
                                               ELSE file1
        /\ punched' = IF made THEN punched ELSE "no"
  BY DEF Punch
<1>6. CASE made /\ pos < Len(file1)
  <2>1. file1' = [file1 EXCEPT ![pos + 1] = Hole] /\ pos + 1 \in 1..Len(file1)
    BY <1>3, <1>4, <1>5, <1>6
  <2>2. Hole \in Nat
    BY DEF Hole
  <2>3. file1' \in Seq(Nat) /\ Len(file1') = Len(file1)
    BY <1>3, <2>1, <2>2
  <2>4. \A k \in 1..Len(file1) : file1'[k] = IF k = pos + 1 THEN Hole ELSE file1[k]
    BY <1>3, <2>1
  <2> QED BY <1>1, <1>2, <1>3, <1>5, <1>6, <2>1, <2>3, <2>4
<1>7. CASE ~(made /\ pos < Len(file1))
  <2>1. file1' = file1
    BY <1>5, <1>7
  <2>2. pos + 1 \in 1..Len(file1) => ~made
    BY <1>3, <1>4, <1>7
  <2> QED BY <1>1, <1>2, <1>3, <1>5, <2>1, <2>2
<1> QED BY <1>6, <1>7

\* A hole more leaves no fewer pages used.
LEMMA PunchUsed ==
    ASSUME TypeInv, FilesInv, NEW pos \in 0..total_4K_blks - 1, Punch(pos)
    PROVE  Used(file1') <= Used(file1) /\ Used(file1') \in Nat /\ Used(file1) \in Nat
<1> DEFINE old == {k \in DOMAIN file1 : file1[k] # Hole}
           new == {k \in DOMAIN file1' : file1'[k] # Hole}
<1>1. /\ file1 # Missing /\ file1 \in Seq(Nat) /\ file1' \in Seq(Nat)
      /\ Len(file1') = Len(file1)
      /\ \A k \in 1..Len(file1) :
            file1'[k] = file1[k] \/ (file1'[k] = Hole /\ k = pos + 1)
  BY Punches
<1>2. file1' # Missing /\ Used(file1') \in Nat /\ Used(file1) \in Nat /\ IsFiniteSet(old)
  BY <1>1, UsedType
<1>3. new \subseteq old
  BY <1>1
<1>4. Cardinality(new) <= Cardinality(old)
  BY <1>2, <1>3, FS_Subset
<1> QED BY <1>1, <1>2, <1>4 DEF Used

\* What a punch does to the places that the generator has given.
LEMMA Draws ==
    ASSUME TypeInv, DrawnInv, NEW pos \in 0..total_4K_blks - 1, Punch(pos)
    PROVE  /\ hole_num \in 1..Holes /\ hole_num' = hole_num - 1
           /\ drawn' \in [{2, 4} -> Seq(0..total_4K_blks - 1)]
           /\ \A seed \in {2, 4} :
                 /\ Len(drawn[seed]) <= Len(drawn'[seed]) /\ Len(drawn'[seed]) <= Holes
                 /\ IsInjective(drawn'[seed])
                 /\ \A j \in 1..Len(drawn[seed]) : drawn'[seed][j] = drawn[seed][j]
           /\ Holes - hole_num + 1 <= Len(drawn'[phase])
           /\ drawn'[phase][Holes - hole_num + 1] = pos
<1>1. pc = "run" /\ stage = 2 /\ phase \in {2, 4} /\ hole_num > 0
  BY DEF Punch, TypeInv, MoreHoles
<1>2. /\ Holes \in Nat /\ hole_num \in Nat
      /\ drawn \in [{2, 4} -> Seq(0..total_4K_blks - 1)]
  BY Sizes DEF TypeInv, TypeOK
<1>3. /\ \A seed \in {2, 4} : Len(drawn[seed]) <= Holes /\ IsInjective(drawn[seed])
      /\ hole_num <= Holes /\ Holes - hole_num <= Len(drawn[phase])
      /\ records = {drawn[phase][j] : j \in 1..Holes - hole_num}
  BY <1>1 DEF DrawnInv
<1>4. PICK d \in Seq(0..total_4K_blks - 1) : d = drawn[phase]
  BY <1>1, <1>2
<1>5. PICK k : k = Holes - hole_num + 1
  OBVIOUS
<1>6. /\ k <= Len(d) => pos = d[k]
      /\ drawn' = IF k > Len(d) THEN [drawn EXCEPT ![phase] = Append(@, pos)] ELSE drawn
  BY <1>4, <1>5 DEF Punch, Draw
<1>7. /\ k \in Nat \ {0} /\ k <= Holes /\ k - 1 <= Len(d) /\ Len(d) \in Nat
      /\ hole_num \in 1..Holes /\ Len(d) <= Holes
  BY <1>1, <1>2, <1>3, <1>4, <1>5
<1>8. hole_num' = hole_num - 1
  BY DEF Punch, hole_num_after
<1>9. CASE k > Len(d)
  <2>1. Len(d) = k - 1 /\ drawn' = [drawn EXCEPT ![phase] = Append(d, pos)]
    BY <1>4, <1>6, <1>7, <1>9
  <2>2. PICK e : e = Append(d, pos)
    OBVIOUS
  <2>3. /\ e \in Seq(0..total_4K_blks - 1) /\ Len(e) = k /\ e[k] = pos
        /\ \A j \in 1..Len(d) : e[j] = d[j]
    <3>1. e \in Seq(0..total_4K_blks - 1)
      BY <1>4, <2>2
    <3>2. Len(e) = k
      BY <1>4, <1>7, <2>1, <2>2
    <3>3. \A j \in 1..k : e[j] = IF j = k THEN pos ELSE d[j]
      BY <1>4, <1>7, <2>1, <2>2
    <3>4. k \in 1..k /\ \A j \in 1..Len(d) : j \in 1..k /\ j # k
      BY <1>7, <2>1
    <3> QED BY <3>1, <3>2, <3>3, <3>4
  <2>4. /\ drawn'[phase] = e /\ \A seed \in {2, 4} \ {phase} : drawn'[seed] = drawn[seed]
        /\ drawn' \in [{2, 4} -> Seq(0..total_4K_blks - 1)]
    BY <1>1, <1>2, <2>1, <2>2, <2>3
  <2>5. IsInjective(e)
    <3>1. IsInjective(d)
      BY <1>1, <1>3, <1>4
    <3>2. \A j \in 1..Len(d) : d[j] # pos
      <4>1. 1..Len(d) = 1..Holes - hole_num
        BY <1>2, <1>5, <2>1
      <4>2. pos \notin {d[j] : j \in 1..Holes - hole_num}
        BY <1>3, <1>4 DEF Punch, Fresh
      <4> QED BY <4>1, <4>2
    <3>3. DOMAIN e = 1..k /\ DOMAIN d = 1..Len(d)
      BY <1>4, <2>3
    <3>4. \A j \in 1..k : j = k \/ j \in 1..Len(d)
      BY <1>7, <2>1
    <3>5. ASSUME NEW a \in 1..k, NEW b \in 1..k, e[a] = e[b] PROVE a = b
      <4>1. CASE a = k \/ b = k
        BY <2>3, <3>2, <3>4, <3>5, <4>1
      <4>2. CASE a # k /\ b # k
        <5>1. a \in 1..Len(d) /\ b \in 1..Len(d) /\ d[a] = d[b]
          BY <2>3, <3>4, <3>5, <4>2
        <5> QED BY <3>1, <3>3, <5>1 DEF IsInjective
      <4> QED BY <4>1, <4>2
    <3> QED BY <3>3, <3>5 DEF IsInjective
  <2>6. ASSUME NEW seed \in {2, 4}
        PROVE  /\ Len(drawn[seed]) <= Len(drawn'[seed]) /\ Len(drawn'[seed]) <= Holes
               /\ IsInjective(drawn'[seed])
               /\ \A j \in 1..Len(drawn[seed]) : drawn'[seed][j] = drawn[seed][j]
    <3>1. CASE seed = phase
      <4>1. drawn[seed] = d /\ drawn'[seed] = e
        BY <1>4, <2>4, <3>1
      <4>2. Len(d) <= Len(e) /\ Len(e) <= Holes
        BY <1>7, <2>1, <2>3
      <4> QED BY <2>3, <2>5, <4>1, <4>2
    <3>2. CASE seed # phase
      <4>1. drawn'[seed] = drawn[seed] /\ Len(drawn[seed]) \in Nat
        BY <1>2, <2>4, <3>2
      <4> QED BY <1>3, <4>1
    <3> QED BY <3>1, <3>2
  <2>7. k <= Len(drawn'[phase]) /\ drawn'[phase][k] = pos
    BY <1>7, <2>3, <2>4
  <2> QED BY <1>5, <1>7, <1>8, <2>4, <2>6, <2>7
<1>10. CASE ~(k > Len(d))
  <2>1. drawn' = drawn /\ d[k] = pos /\ k <= Len(d)
    BY <1>6, <1>7, <1>10
  <2> QED BY <1>1, <1>2, <1>3, <1>4, <1>5, <1>7, <1>8, <2>1
<1> QED BY <1>9, <1>10

-----------------------------------------------------------------------------
(* The steps *)

\* Steps that touch no file and give no place.
LEMMA QuietSteps ==
    ASSUME TypeInv, Invoke \/ openFails \/ Interrupted \/ FillDone \/ PunchDone
    PROVE  /\ UNCHANGED <<optVars, file1, file2, drawn, records, hole_num, i>>
           /\ pc' \in {"exited", "open"} /\ phase' \in 1..4 /\ stage' \in 1..3
           /\ (phase' = stage' \/ phase' = 4)
           /\ punchers' \subseteq punchers /\ punched' \in {"no", "so_far", "yes"}
           /\ ~FillDone => punchers' = punchers
           /\ ~PunchDone => punched' = punched
<1>1. /\ phase \in 1..4 /\ stage \in 1..3 /\ (phase = stage \/ phase = 4)
      /\ punched \in {"no", "so_far", "yes"}
  BY DEF TypeInv, TypeOK
<1>2. CASE Invoke
  <2>1. /\ UNCHANGED <<optVars, file1, file2, drawn, records, hole_num, i>>
        /\ punchers' = punchers /\ punched' = punched /\ pc' = "open"
    BY <1>2 DEF Invoke
  <2>2. phase' \in 1..4 /\ stage' \in 1..3 /\ (phase' = stage' \/ phase' = 4)
    <3>1. phase' \in 1..4 /\ stage' = (IF phase' = 4 THEN 1 ELSE phase')
      BY <1>2 DEF Invoke
    <3>2. CASE phase' = 4
      BY <3>1, <3>2
    <3>3. CASE phase' # 4
      BY <3>1, <3>3
    <3> QED BY <3>1, <3>2, <3>3
  <2> QED BY <1>1, <2>1, <2>2
<1>3. CASE openFails \/ Interrupted
  BY <1>1, <1>3 DEF openFails, Interrupted, Exit, histVars
<1>4. CASE FillDone \/ PunchDone
  <2>1. UNCHANGED <<optVars, file1, file2, drawn, records, hole_num, i, phase>>
    BY <1>4 DEF FillDone, PunchDone, PartDone
  <2>2. pc' \in {"exited", "open"}
    BY <1>4 DEF FillDone, PunchDone, PartDone
  <2>3. stage' \in 1..3 /\ (phase' = stage' \/ phase' = 4)
    <3>1. stage' = (IF phase = 4 /\ stage < 3 THEN stage + 1 ELSE stage) /\ phase' = phase
      BY <1>4 DEF FillDone, PunchDone, PartDone
    <3>2. CASE phase = 4 /\ stage < 3
      BY <1>1, <3>1, <3>2
    <3>3. CASE ~(phase = 4 /\ stage < 3)
      BY <1>1, <3>1, <3>3
    <3> QED BY <3>2, <3>3
  <2>4. /\ punchers' \subseteq punchers /\ punched' \in {"no", "so_far", "yes"}
        /\ ~FillDone => punchers' = punchers
        /\ ~PunchDone => punched' = punched
    BY <1>1, <1>4 DEF FillDone, PunchDone
  <2> QED BY <1>1, <2>1, <2>2, <2>3, <2>4
<1> QED BY <1>2, <1>3, <1>4

\* Steps that write to file1 or file2.
LEMMA FillSteps ==
    ASSUME TypeInv, write \/ writeFails
    PROVE  /\ Filling
           /\ UNCHANGED <<optVars, phase, stage, hole_num, records, drawn, histVars>>
           /\ \E n \in 0..block_size :
                 /\ Store(n)
                 /\ \/ n = block_size /\ i' = i + 1 /\ pc' = "run"
                    \/ i' = i /\ pc' = "exited"
<1>1. block_size \in Nat
  BY Sizes
<1>2. CASE write
  <2>1. block_size \in 0..block_size /\ pc' = "run"
    BY <1>1, <1>2 DEF write, Filling
  <2> QED BY <1>2, <2>1 DEF write
<1>3. CASE writeFails
  <2>1. \A n \in 0..block_size - 1 : n \in 0..block_size
    BY <1>1
  <2> QED BY <1>3, <2>1 DEF writeFails, Exit
<1> QED BY <1>2, <1>3

\* What open does.
LEMMA OpenSteps ==
    ASSUME TypeInv, open
    PROVE  /\ UNCHANGED <<optVars, phase, stage, drawn, punchers>>
           /\ pc' = "run" /\ i' = 0 /\ records' = {}
           /\ hole_num' = (IF stage = 2 THEN Holes ELSE 0)
           /\ file1' = (IF stage = 1 THEN Opened(file1) ELSE file1)
           /\ file2' = (IF stage = 3 THEN Opened(file2) ELSE file2)
           /\ punched' = (IF stage = 1 THEN "no" ELSE IF stage = 2 THEN "so_far"
                                                      ELSE punched)
           /\ stage = 2 => file1 # Missing
<1>1. stage \in 1..3
  BY DEF TypeInv, TypeOK
<1>2. CASE stage = 1
  BY <1>2 DEF open
<1>3. CASE stage = 2
  BY <1>3 DEF open
<1>4. CASE stage = 3
  BY <1>4 DEF open
<1> QED BY <1>1, <1>2, <1>3, <1>4

\* Every step keeps the types.
LEMMA StepType ==
    ASSUME TypeInv, FilesInv, DrawnInv, [Next]_vars
    PROVE  TypeInv'
<1>1. ASSUME UNCHANGED optVars,
             phase' \in 1..4, stage' \in 1..3, pc' \in {"exited", "open", "run"},
             (phase' = stage' \/ phase' = 4), i' \in Nat, hole_num' \in Nat,
             records' \subseteq 0..total_4K_blks - 1,
             file1' = Missing \/ file1' \in Seq(Nat),
             file2' = Missing \/ file2' \in Seq(Nat),
             Used(file1') + Used(file2') <= Capacity,
             drawn' \in [{2, 4} -> Seq(0..total_4K_blks - 1)],
             punchers' \subseteq {2, 4}, punched' \in {"no", "so_far", "yes"}
      PROVE  TypeInv'
  <2>1. total_4K_blks' = total_4K_blks /\ block_size' = block_size
        /\ hole_percent' = hole_percent
    BY <1>1, SameSizes
  <2>2. \A f \in {file1', file2'} : f = Missing \/ f \in Seq(Nat)
    BY <1>1
  <2>3. (Used(file1) + Used(file2))' = Used(file1') + Used(file2')
    BY DEF Used, Missing, Hole
  <2>4. TypeOK'
    BY <1>1, <2>1, <2>2, <2>3 DEF TypeOK, Missing
  <2> QED BY <1>1, <2>1, <2>4 DEF TypeInv
<1>2. /\ phase \in 1..4 /\ stage \in 1..3 /\ pc \in {"exited", "open", "run"}
      /\ (phase = stage \/ phase = 4) /\ i \in Nat /\ hole_num \in Nat
      /\ records \subseteq 0..total_4K_blks - 1
      /\ file1 = Missing \/ file1 \in Seq(Nat)
      /\ file2 = Missing \/ file2 \in Seq(Nat)
      /\ Used(file1) + Used(file2) <= Capacity
      /\ drawn \in [{2, 4} -> Seq(0..total_4K_blks - 1)]
      /\ punchers \subseteq {2, 4} /\ punched \in {"no", "so_far", "yes"}
  BY DEF TypeInv, TypeOK
<1>3. CASE Invoke \/ openFails \/ Interrupted \/ FillDone \/ PunchDone
  <2>1. /\ UNCHANGED <<optVars, file1, file2, drawn, records, hole_num, i>>
        /\ pc' \in {"exited", "open"} /\ phase' \in 1..4 /\ stage' \in 1..3
        /\ (phase' = stage' \/ phase' = 4)
        /\ punchers' \subseteq punchers /\ punched' \in {"no", "so_far", "yes"}
    BY <1>3, QuietSteps
  <2>2. punchers' \subseteq {2, 4} /\ pc' \in {"exited", "open", "run"}
    BY <1>2, <2>1
  <2> QED BY <1>1, <1>2, <2>1, <2>2
<1>4. CASE write \/ writeFails
  <2>1. /\ Filling
        /\ UNCHANGED <<optVars, phase, stage, hole_num, records, drawn, histVars>>
    BY <1>4, FillSteps
  <2>2. PICK n \in 0..block_size :
          Store(n) /\ i' \in {i, i + 1} /\ pc' \in {"run", "exited"}
    BY <1>4, FillSteps
  <2>3. /\ Used(file1') + Used(file2') <= Capacity
        /\ stage = 1 => file1' \in Seq(Nat) /\ file2' = file2
        /\ stage = 3 => file2' \in Seq(Nat) /\ file1' = file1
    BY <2>1, <2>2, Stores
  <2>4. stage \in {1, 3}
    BY <2>1 DEF Filling
  <2>5. /\ file1' = Missing \/ file1' \in Seq(Nat)
        /\ file2' = Missing \/ file2' \in Seq(Nat)
    BY <1>2, <2>3, <2>4
  <2>6. i' \in Nat
    BY <1>2, <2>2
  <2> QED BY <1>1, <1>2, <2>1, <2>2, <2>3, <2>5, <2>6 DEF histVars
<1>5. CASE open
  <2>1. /\ UNCHANGED <<optVars, phase, stage, drawn, punchers>>
        /\ pc' = "run" /\ i' = 0 /\ records' = {} /\ (hole_num' = 0 \/ hole_num' = Holes)
        /\ punched' \in {"no", "so_far", "yes"}
    BY <1>2, <1>5, OpenSteps
  <2>2. /\ file1' = file1 \/ file1' = Opened(file1)
        /\ file2' = file2 \/ file2' = Opened(file2)
    BY <1>5, OpenSteps
  <2>3. /\ file1' = Missing \/ file1' \in Seq(Nat)
        /\ file2' = Missing \/ file2' \in Seq(Nat)
    <3>1. ASSUME NEW f, f = Missing \/ f \in Seq(Nat) PROVE Opened(f) \in Seq(Nat)
      <4>1. <<>> \in Seq(Nat)
        OBVIOUS
      <4> QED BY <3>1, <4>1 DEF Opened
    <3> QED BY <1>2, <2>2, <3>1
  <2>4. Used(file1') = Used(file1) /\ Used(file2') = Used(file2)
    BY <1>2, <2>2, UsedType
  <2>5. hole_num' \in Nat
    BY <2>1, Sizes
  <2> QED BY <1>1, <1>2, <2>1, <2>3, <2>4, <2>5
<1>6. ASSUME NEW pos \in 0..total_4K_blks - 1, Punch(pos) PROVE TypeInv'
  <2>1. /\ UNCHANGED <<optVars, phase, stage, pc, i>>
        /\ records' = records \cup {pos} /\ punchers' = punchers \cup {phase}
    BY <1>6 DEF Punch
  <2>2. /\ phase \in {2, 4} /\ file1' \in Seq(Nat) /\ file2' = file2
        /\ punched' \in {punched, "no"}
    BY <1>6, Punches
  <2>3. Used(file1') + Used(file2') <= Capacity
    <3>1. Used(file1') <= Used(file1) /\ Used(file1') \in Nat /\ Used(file1) \in Nat
      BY <1>6, PunchUsed
    <3>2. Used(file2') = Used(file2) /\ Used(file2) \in Nat
      BY <1>2, <2>2, UsedType
    <3> QED BY <1>2, <3>1, <3>2, Sizes
  <2>4. hole_num' \in Nat /\ drawn' \in [{2, 4} -> Seq(0..total_4K_blks - 1)]
    <3>1. hole_num \in 1..Holes /\ hole_num' = hole_num - 1
      BY <1>6, Draws
    <3>2. drawn' \in [{2, 4} -> Seq(0..total_4K_blks - 1)]
      BY <1>6, Draws
    <3> QED BY <1>2, <3>1, <3>2
  <2>5. records' \subseteq 0..total_4K_blks - 1
    BY <1>2, <1>6, <2>1
  <2> QED BY <1>1, <1>2, <2>1, <2>2, <2>3, <2>4, <2>5
<1>7. CASE UNCHANGED vars
  <2>1. UNCHANGED <<optVars, phase, stage, pc, i, hole_num, records, file1, file2, drawn,
                    punchers, punched>>
    BY <1>7 DEF vars, procVars, histVars
  <2> QED BY <1>1, <1>2, <2>1
<1> QED BY <1>3, <1>4, <1>5, <1>6, <1>7 DEF Next, Progress, DrawAgain, Ended

\* Every step keeps what is known of the files.
LEMMA StepFiles ==
    ASSUME TypeInv, FilesInv, DrawnInv, [Next]_vars
    PROVE  FilesInv'
<1> DEFINE F1(f) == f # Missing =>
              /\ Len(f) <= Ends(total_4K_blks \div block_size)
              /\ \A k \in DOMAIN f : f[k] \in {Hole, total_4K_blks + k - 1}
           F2(f) == f # Missing =>
              /\ Len(f) <= Ends(fill_num)
              /\ \A k \in DOMAIN f : f[k] = 3 * total_4K_blks + k - 1
<1>1. F1(file1) /\ F2(file2)
  BY DEF FilesInv
<1>2. ASSUME UNCHANGED optVars, F1(file1'), F2(file2'),
             pc' = "run" /\ stage' = 1 =>
                /\ file1' # Missing /\ Ends(i') <= Len(file1') /\ punched' = "no"
                /\ \A k \in 1..Ends(i') : file1'[k] # Hole,
             pc' = "run" /\ stage' = 2 => file1' # Missing /\ punched' # "yes",
             pc' = "run" /\ stage' = 3 => file2' # Missing /\ Ends(i') <= Len(file2')
      PROVE  FilesInv'
  <2>1. /\ (total_4K_blks \div block_size)' = total_4K_blks \div block_size
        /\ total_4K_blks' = total_4K_blks /\ block_size' = block_size
        /\ fill_num' = fill_num /\ \A n : Ends(n)' = Ends(n)
    BY <1>2, SameSizes
  <2>2. Ends(i)' = Ends(i')
    BY <2>1 DEF Ends
  <2> QED BY <1>2, <2>1, <2>2 DEF FilesInv, Missing, Hole
<1> HIDE DEF F1, F2
<1>3. CASE Invoke \/ openFails \/ Interrupted \/ FillDone \/ PunchDone
  <2>1. UNCHANGED <<optVars, file1, file2>> /\ pc' # "run"
    BY <1>3, QuietSteps
  <2> QED BY <1>1, <1>2, <2>1
<1>4. CASE write \/ writeFails
  <2>1. /\ Filling /\ pc = "run" /\ stage \in {1, 3}
        /\ UNCHANGED <<optVars, stage, punched>>
    BY <1>4, FillSteps DEF histVars, Filling
  <2>2. PICK n \in 0..block_size :
          /\ Store(n)
          /\ pc' = "run" => n = block_size /\ i' = i + 1
    BY <1>4, FillSteps
  <2>3. Ends(i + 1) = Ends(i) + block_size
    BY <2>1, FillStep
  <2>4. CASE stage = 1
    <3>1. /\ file1' \in Seq(Nat) /\ file2' = file2 /\ Ends(i) + n <= Len(file1')
          /\ Len(file1') <= Ends(total_4K_blks \div block_size)
          /\ \A k \in 1..Len(file1') : file1'[k] \in {Hole, total_4K_blks + k - 1}
          /\ \A k \in 1..Ends(i) + n : file1'[k] # Hole
      BY <2>1, <2>2, <2>4, Stores
    <3>2. F1(file1') /\ file1' # Missing
      <4>1. DOMAIN file1' = 1..Len(file1')
        BY <3>1
      <4>2. file1' # Missing
        BY <3>1, UsedType
      <4> QED BY <3>1, <4>1, <4>2 DEF F1
    <3>3. punched = "no"
      BY <2>1, <2>4 DEF FilesInv
    <3>4. pc' = "run" => Ends(i') = Ends(i) + n
      BY <2>2, <2>3
    <3> QED BY <1>1, <1>2, <2>1, <2>4, <3>1, <3>2, <3>3, <3>4
  <2>5. CASE stage = 3
    <3>1. /\ file2' \in Seq(Nat) /\ file1' = file1 /\ Ends(i) + n <= Len(file2')
          /\ Len(file2') <= Ends(fill_num)
          /\ \A k \in 1..Len(file2') : file2'[k] = 3 * total_4K_blks + k - 1
      BY <2>1, <2>2, <2>5, Stores
    <3>2. F2(file2') /\ file2' # Missing
      <4>1. DOMAIN file2' = 1..Len(file2')
        BY <3>1
      <4>2. file2' # Missing
        BY <3>1, UsedType
      <4> QED BY <3>1, <4>1, <4>2 DEF F2
    <3>3. pc' = "run" => Ends(i') = Ends(i) + n
      BY <2>2, <2>3
    <3> QED BY <1>1, <1>2, <2>1, <2>5, <3>1, <3>2, <3>3
  <2> QED BY <2>1, <2>4, <2>5
<1>5. CASE open
  <2>1. /\ UNCHANGED <<optVars, stage>> /\ pc' = "run" /\ i' = 0
        /\ file1' = (IF stage = 1 THEN Opened(file1) ELSE file1)
        /\ file2' = (IF stage = 3 THEN Opened(file2) ELSE file2)
        /\ punched' = (IF stage = 1 THEN "no" ELSE IF stage = 2 THEN "so_far"
                                                   ELSE punched)
        /\ stage = 2 => file1 # Missing
    BY <1>5, OpenSteps
  <2>2. Ends(0) = 0
    BY EndsGrow
  <2>3. ASSUME NEW f, f = Missing \/ f \in Seq(Nat)
        PROVE  /\ Opened(f) # Missing /\ 0 <= Len(Opened(f))
               /\ F1(f) => F1(Opened(f))
               /\ F2(f) => F2(Opened(f))
    <3>1. CASE f = Missing
      <4>1. Opened(f) = <<>>
        BY <3>1 DEF Opened
      <4>2. PICK e : e = <<>>
        OBVIOUS
      <4>3. e \in Seq(Nat) /\ Len(e) = 0 /\ DOMAIN e = {}
        BY <4>2
      <4>4. e # Missing
        BY <4>3, UsedType
      <4>5. Ends(total_4K_blks \div block_size) \in Nat /\ Ends(fill_num) \in Nat
        BY Sizes, EndsGrow
      <4> QED BY <4>1, <4>2, <4>3, <4>4, <4>5 DEF F1, F2
    <3>2. CASE f # Missing
      <4>1. Opened(f) = f /\ f \in Seq(Nat)
        BY <2>3, <3>2 DEF Opened
      <4> QED BY <3>2, <4>1
    <3> QED BY <3>1, <3>2
  <2>4. file1 = Missing \/ file1 \in Seq(Nat)
    BY DEF TypeInv, TypeOK
  <2>5. file2 = Missing \/ file2 \in Seq(Nat)
    BY DEF TypeInv, TypeOK
  <2>6. F1(file1') /\ F2(file2')
    BY <1>1, <2>1, <2>3, <2>4, <2>5
  <2>7. CASE stage = 1
    <3>1. file1' # Missing /\ 0 <= Len(file1') /\ Ends(i') = 0 /\ punched' = "no"
      BY <2>1, <2>2, <2>3, <2>4, <2>7
    <3> QED BY <1>2, <2>1, <2>6, <2>7, <3>1
  <2>8. CASE stage = 2
    BY <1>2, <2>1, <2>6, <2>8
  <2>9. CASE stage # 1 /\ stage # 2
    <3>1. stage = 3
      BY <2>9 DEF TypeInv, TypeOK
    <3>2. file2' # Missing /\ 0 <= Len(file2') /\ Ends(i') = 0
      BY <2>1, <2>2, <2>3, <2>5, <3>1
    <3> QED BY <1>2, <2>1, <2>6, <3>1, <3>2
  <2> QED BY <2>7, <2>8, <2>9
<1>6. ASSUME NEW pos \in 0..total_4K_blks - 1, Punch(pos) PROVE FilesInv'
  <2>1. /\ UNCHANGED <<optVars, file2, stage, pc>>
        /\ pc = "run" /\ stage = 2
    BY <1>6 DEF Punch
  <2>2. /\ file1 # Missing /\ file1 \in Seq(Nat) /\ file1' \in Seq(Nat)
        /\ Len(file1') = Len(file1)
        /\ \A k \in 1..Len(file1) :
              file1'[k] = file1[k] \/ (file1'[k] = Hole /\ k = pos + 1)
        /\ punched' \in {punched, "no"}
    BY <1>6, Punches
  <2>3. F1(file1') /\ file1' # Missing
    <3>1. file1' # Missing
      BY <2>2, UsedType
    <3>2. DOMAIN file1' = 1..Len(file1') /\ DOMAIN file1 = 1..Len(file1)
      BY <2>2
    <3>3. /\ Len(file1) <= Ends(total_4K_blks \div block_size)
          /\ \A k \in 1..Len(file1) : file1[k] \in {Hole, total_4K_blks + k - 1}
      BY <1>1, <2>2, <3>2 DEF F1
    <3>4. \A k \in 1..Len(file1) : file1'[k] \in {Hole, total_4K_blks + k - 1}
      BY <2>2, <3>3
    <3> QED BY <2>2, <3>1, <3>2, <3>3, <3>4 DEF F1
  <2>4. punched' # "yes"
    BY <2>1, <2>2 DEF FilesInv
  <2> QED BY <1>1, <1>2, <2>1, <2>3, <2>4
<1>7. CASE UNCHANGED vars
  <2>1. UNCHANGED <<optVars, stage, pc, i, file1, file2, punched>>
    BY <1>7 DEF vars, procVars, histVars
  <2>2. Ends(i') = Ends(i)
    BY <2>1
  <2> QED BY <1>1, <1>2, <2>1, <2>2 DEF FilesInv
<1> QED BY <1>3, <1>4, <1>5, <1>6, <1>7 DEF Next, Progress, DrawAgain, Ended

\* Every step leaves the options.
LEMMA SameOptions == ASSUME TypeInv, [Next]_vars PROVE UNCHANGED optVars
<1>1. CASE UNCHANGED vars
  BY <1>1 DEF vars
<1>2. CASE open
  BY <1>2 DEF open
<1>3. CASE write \/ writeFails
  BY <1>3, FillSteps
<1>4. CASE Invoke \/ openFails \/ Interrupted \/ FillDone \/ PunchDone
  BY <1>4, QuietSteps
<1>5. ASSUME NEW pos \in 0..total_4K_blks - 1, Punch(pos) PROVE UNCHANGED optVars
  BY <1>5 DEF Punch
<1> QED BY <1>1, <1>2, <1>3, <1>4, <1>5 DEF Next, Progress, DrawAgain, Ended

\* Every step keeps what is known of the places that the generator has given.
LEMMA StepDrawn ==
    ASSUME TypeInv, FilesInv, DrawnInv, [Next]_vars
    PROVE  DrawnInv'
<1>1. Holes' = Holes /\ Holes \in Nat
  <2>1. UNCHANGED optVars
    BY SameOptions
  <2> QED BY <2>1, SameSizes, Sizes
<1>2. ASSUME UNCHANGED drawn, pc' # "run" \/ stage' # 2 PROVE DrawnInv'
  BY <1>1, <1>2 DEF DrawnInv
<1>3. CASE Invoke \/ openFails \/ Interrupted \/ FillDone \/ PunchDone
  <2>1. UNCHANGED drawn /\ pc' # "run"
    BY <1>3, QuietSteps
  <2> QED BY <1>2, <2>1
<1>4. CASE write \/ writeFails
  <2>1. UNCHANGED drawn /\ stage' # 2
    BY <1>4, FillSteps DEF Filling
  <2> QED BY <1>2, <2>1
<1>5. CASE open
  <2>1. UNCHANGED <<drawn, stage, phase>> /\ records' = {}
        /\ hole_num' = (IF stage = 2 THEN Holes ELSE 0)
    BY <1>5, OpenSteps
  <2>2. CASE stage = 2
    <3>1. hole_num' = Holes /\ phase \in {2, 4}
      BY <2>1, <2>2 DEF TypeInv
    <3>2. 1..Holes - Holes = {} /\ Holes - Holes = 0
      BY <1>1
    <3>3. Len(drawn[phase]) >= 0
      BY <3>1 DEF TypeInv
    <3>4. Holes' - hole_num' = 0 /\ ~(hole_num' < Holes') /\ hole_num' <= Holes'
      BY <1>1, <3>1
    <3>5. records' = {drawn'[phase'][k] : k \in 1..Holes' - hole_num'}
      <4>1. 1..Holes' - hole_num' = {}
        BY <3>4
      <4> QED BY <2>1, <4>1
    <3>6. Holes' - hole_num' <= Len(drawn'[phase'])
      BY <2>1, <3>3, <3>4
    <3>7. \A seed \in {2, 4} : Len(drawn'[seed]) <= Holes' /\ IsInjective(drawn'[seed])
      BY <1>1, <2>1 DEF DrawnInv
    <3> QED BY <3>4, <3>5, <3>6, <3>7 DEF DrawnInv
  <2>3. CASE stage # 2
    BY <1>2, <2>1, <2>3
  <2> QED BY <2>2, <2>3
<1>6. ASSUME NEW pos \in 0..total_4K_blks - 1, Punch(pos) PROVE DrawnInv'
  <2>1. /\ UNCHANGED <<phase, stage, pc>> /\ records' = records \cup {pos}
        /\ punchers' = punchers \cup {phase} /\ stage = 2 /\ pc = "run"
    BY <1>6 DEF Punch
  <2>2. hole_num \in 1..Holes /\ hole_num' = hole_num - 1
    BY <1>6, Draws
  <2>3. /\ \A seed \in {2, 4} :
              /\ Len(drawn[seed]) <= Len(drawn'[seed]) /\ Len(drawn'[seed]) <= Holes
              /\ IsInjective(drawn'[seed])
              /\ \A j \in 1..Len(drawn[seed]) : drawn'[seed][j] = drawn[seed][j]
        /\ Holes - hole_num + 1 <= Len(drawn'[phase])
        /\ drawn'[phase][Holes - hole_num + 1] = pos
    BY <1>6, Draws
  <2>4. PICK n \in Nat : n = Holes - hole_num
    BY <1>1, <2>2
  <2>5. Holes - hole_num' = n + 1 /\ hole_num' <= Holes
    BY <1>1, <2>2, <2>4
  <2>6. n <= Len(drawn[phase]) /\ records = {drawn[phase][k] : k \in 1..n}
        /\ Len(drawn[phase]) \in Nat /\ phase \in {2, 4}
    BY <2>1, <2>4 DEF DrawnInv, TypeInv
  <2>7. records' = {drawn'[phase][k] : k \in 1..n + 1}
    <3>1. \A k \in 1..n : drawn'[phase][k] = drawn[phase][k]
      <4>1. \A k \in 1..n : k \in 1..Len(drawn[phase])
        BY <2>6
      <4> QED BY <2>3, <2>6, <4>1
    <3>2. drawn'[phase][n + 1] = pos
      BY <2>3, <2>4
    <3>3. 1..n + 1 = (1..n) \cup {n + 1}
      OBVIOUS
    <3> QED BY <2>1, <2>6, <3>1, <3>2, <3>3
  <2>8. Holes' - hole_num' <= Len(drawn'[phase'])
    BY <1>1, <2>1, <2>3, <2>4, <2>5
  <2>9. records' = {drawn'[phase'][k] : k \in 1..Holes' - hole_num'}
    BY <1>1, <2>1, <2>5, <2>7
  <2> QED BY <1>1, <2>1, <2>3, <2>5, <2>8, <2>9 DEF DrawnInv
<1>7. CASE UNCHANGED vars
  <2>1. UNCHANGED <<drawn, pc, stage, phase, hole_num, records, punchers>>
    BY <1>7 DEF vars, procVars, histVars
  <2> QED BY <1>1, <2>1 DEF DrawnInv
<1> QED BY <1>3, <1>4, <1>5, <1>6, <1>7 DEF Next, Progress, DrawAgain, Ended

\* Every step keeps what is known of the holes.
LEMMA StepHoles ==
    ASSUME TypeInv, FilesInv, DrawnInv, HolesInv, [Next]_vars
    PROVE  HolesInv'
<1>1. Holes' = Holes /\ Holes \in Nat
  BY SameOptions, SameSizes, Sizes
<1>2. /\ file1 = Missing \/ file1 \in Seq(Nat)
      /\ drawn \in [{2, 4} -> Seq(0..total_4K_blks - 1)]
      /\ punchers \subseteq {2, 4} /\ stage \in 1..3
  BY DEF TypeInv, TypeOK
<1>3. ASSUME UNCHANGED <<file1, drawn, punchers, punched>>, pc' # "run" \/ stage' # 2
      PROVE  HolesInv'
  <2>1. \A seed, n : Punched(seed, n)' = Punched(seed, n)
    BY <1>3 DEF Punched, Hole
  <2> QED BY <1>1, <1>3, <2>1 DEF HolesInv, HolesPlaced, AllPunched, Missing, Hole
<1>4. CASE Invoke \/ openFails \/ Interrupted
  <2>1. UNCHANGED <<file1, drawn>> /\ pc' # "run"
    BY <1>4, QuietSteps
  <2>2. UNCHANGED <<punchers, punched>>
    BY <1>4 DEF Invoke, openFails, Interrupted, Exit, histVars
  <2> QED BY <1>3, <2>1, <2>2
<1>5. CASE FillDone
  <2>1. UNCHANGED <<file1, drawn, punched>> /\ pc' # "run"
    BY <1>5, QuietSteps DEF FillDone
  <2>2. CASE stage = 1
    <3>1. pc = "run" /\ ~(i < Blocks) /\ punchers' = {}
      BY <1>5, <2>2, Sizes DEF FillDone, Blocks, TypeInv, TypeOK
    <3>2. /\ file1 # Missing /\ punched = "no"
          /\ \A k \in 1..Ends(i) : file1[k] # Hole
          /\ Len(file1) <= Ends(total_4K_blks \div block_size)
      BY <2>2, <3>1 DEF FilesInv
    <3>3. Ends(total_4K_blks \div block_size) <= Ends(i) /\ Ends(i) \in Nat
          /\ Ends(total_4K_blks \div block_size) \in Nat
      <4>1. i \in Nat /\ Blocks \in Nat /\ Blocks <= i
        BY <2>2, <3>1, Sizes DEF Blocks, TypeInv, TypeOK
      <4>2. Blocks = total_4K_blks \div block_size
        BY <2>2 DEF Blocks
      <4> QED BY <4>1, <4>2, EndsGrow
    <3>4. \A k \in DOMAIN file1 : file1[k] # Hole
      <4>1. DOMAIN file1 = 1..Len(file1) /\ Len(file1) \in Nat
        BY <1>2, <3>2
      <4> QED BY <3>2, <3>3, <4>1
    <3> QED BY <2>1, <3>2, <3>4 DEF HolesInv, HolesPlaced, AllPunched, Missing, Hole
  <2>3. CASE stage # 1
    <3>1. punchers' = punchers
      BY <1>5, <2>3 DEF FillDone
    <3> QED BY <1>3, <2>1, <3>1
  <2> QED BY <2>2, <2>3
<1>6. CASE PunchDone
  <2>1. /\ UNCHANGED <<file1, drawn, punchers>> /\ pc' # "run" /\ pc = "run"
        /\ stage = 2 /\ ~(hole_num > 0)
        /\ punched' = (IF punched = "so_far" THEN "yes" ELSE punched)
    BY <1>6, QuietSteps DEF PunchDone, MoreHoles
  <2>2. CASE punched = "so_far"
    <3>1. hole_num = 0 /\ phase \in {2, 4}
      BY <2>1 DEF TypeInv, TypeOK
    <3>2. Holes - hole_num = Holes
      BY <1>1, <3>1
    <3>3. file1 # Missing /\ Punched(phase, Holes)
      BY <2>1, <2>2, <3>2 DEF HolesInv, HolesPlaced, AllPunched, FilesInv
    <3>4. Len(drawn[phase]) = Holes
      <4>1. Len(drawn[phase]) <= Holes /\ Holes <= Len(drawn[phase])
        BY <2>1, <3>1, <3>2 DEF DrawnInv
      <4>2. Len(drawn[phase]) \in Nat
        BY <1>2, <3>1
      <4> QED BY <1>1, <4>1, <4>2
    <3>5. Holes > 0 => phase \in punchers
      BY <2>1, <3>1 DEF DrawnInv
    <3>6. Punched(phase, Holes)'
      <4>1. UNCHANGED <<phase, drawn, file1>> /\ Holes' = Holes
        BY <1>1, <1>6, <2>1 DEF PunchDone, PartDone
      <4> QED BY <3>3, <4>1 DEF Punched, Hole
    <3>7. phase' = phase
      BY <1>6 DEF PunchDone, PartDone
    <3>8. \E seed \in {2, 4} : /\ Len(drawn'[seed]) = Holes' /\ Punched(seed, Holes)'
                               /\ Holes' > 0 => seed \in punchers'
      <4>1. \A seed : seed = phase => (Punched(seed, Holes)' <=> Punched(phase, Holes)')
        BY <3>7 DEF Punched
      <4> QED BY <1>1, <2>1, <3>1, <3>4, <3>5, <3>6, <4>1
    <3>9. file1' # Missing
      BY <2>1, <3>3
    <3>10. \A k \in DOMAIN file1' : file1'[k] = Hole =>
              \E seed \in punchers' : k - 1 \in ToSet(drawn'[seed])
      BY <2>1, <3>3 DEF HolesInv, HolesPlaced, AllPunched
    <3>11. AllPunched'
      BY <3>8, <3>9 DEF AllPunched, Missing, Punched, Hole
    <3>12. HolesPlaced'
      BY <3>10 DEF HolesPlaced, Hole, ToSet
    <3> QED BY <2>1, <3>11, <3>12 DEF HolesInv
  <2>3. CASE punched # "so_far"
    BY <1>3, <2>1, <2>3
  <2> QED BY <2>2, <2>3
<1>7. CASE write \/ writeFails
  <2>1. /\ Filling /\ pc = "run" /\ stage \in {1, 3} /\ stage' = stage
        /\ UNCHANGED <<drawn, punchers, punched>>
    BY <1>7, FillSteps DEF histVars, Filling
  <2>2. PICK n \in 0..block_size : Store(n)
    BY <1>7, FillSteps
  <2>3. CASE stage = 1
    <3>1. /\ file1' \in Seq(Nat)
          /\ \A k \in 1..Len(file1') :
                file1'[k] = Hole => k \in 1..Len(file1) /\ file1[k] = Hole
      BY <2>1, <2>2, <2>3, Stores
    <3>2. punched = "no" /\ file1 # Missing
      BY <2>1, <2>3 DEF FilesInv
    <3>3. DOMAIN file1' = 1..Len(file1') /\ DOMAIN file1 = 1..Len(file1)
      BY <1>2, <3>1, <3>2
    <3>4. ASSUME NEW k \in DOMAIN file1', file1'[k] = Hole
          PROVE  \E seed \in punchers : k - 1 \in ToSet(drawn[seed])
      BY <3>1, <3>2, <3>3, <3>4 DEF HolesInv, HolesPlaced, AllPunched
    <3> QED BY <2>1, <2>3, <3>2, <3>4 DEF HolesInv, HolesPlaced, AllPunched, Hole
  <2>4. CASE stage = 3
    <3>1. file1' = file1
      BY <2>1, <2>2, <2>4, Stores
    <3> QED BY <1>3, <2>1, <2>4, <3>1
  <2> QED BY <2>1, <2>3, <2>4
<1>8. CASE open
  <2>1. /\ UNCHANGED <<drawn, punchers, stage, phase>> /\ pc' = "run"
        /\ hole_num' = (IF stage = 2 THEN Holes ELSE 0)
        /\ file1' = (IF stage = 1 THEN Opened(file1) ELSE file1)
        /\ punched' = (IF stage = 1 THEN "no" ELSE IF stage = 2 THEN "so_far"
                                                   ELSE punched)
    BY <1>8, OpenSteps
  <2>2. CASE stage = 1
    <3>1. file1' = <<>> \/ (file1' = file1 /\ file1 # Missing)
      BY <2>1, <2>2 DEF Opened
    <3>2. \A k \in DOMAIN <<>> : FALSE
      OBVIOUS
    <3>3. \A k \in DOMAIN file1' : file1'[k] = Hole =>
             \E seed \in punchers : k - 1 \in ToSet(drawn[seed])
      BY <3>1, <3>2 DEF HolesInv, HolesPlaced, AllPunched
    <3> QED BY <2>1, <2>2, <3>3 DEF HolesInv, HolesPlaced, AllPunched, Hole
  <2>3. CASE stage = 2
    <3>1. file1' = file1 /\ hole_num' = Holes /\ punched' = "so_far"
      BY <2>1, <2>3
    <3>2. Holes' - hole_num' = 0
      BY <1>1, <3>1
    <3>3. Punched(phase, Holes - hole_num)'
      BY <3>2 DEF Punched
    <3> QED BY <2>1, <3>1, <3>3 DEF HolesInv, HolesPlaced, AllPunched, Missing, Hole
  <2>4. CASE stage = 3
    BY <1>3, <2>1, <2>4
  <2> QED BY <1>2, <2>2, <2>3, <2>4
<1>9. ASSUME NEW pos \in 0..total_4K_blks - 1, Punch(pos) PROVE HolesInv'
  <2>1. /\ UNCHANGED <<phase, stage, pc>> /\ punchers' = punchers \cup {phase}
    BY <1>9 DEF Punch
  <2>2. /\ pc = "run" /\ stage = 2 /\ phase \in {2, 4}
        /\ file1 # Missing /\ file1 \in Seq(Nat) /\ file1' \in Seq(Nat)
        /\ Len(file1') = Len(file1)
        /\ \A k \in 1..Len(file1) :
              file1'[k] = file1[k] \/ (file1'[k] = Hole /\ k = pos + 1)
        /\ punched' \in {punched, "no"}
        /\ punched' # "no" /\ pos + 1 \in 1..Len(file1) => file1'[pos + 1] = Hole
    BY <1>9, Punches
  <2>3. /\ hole_num \in 1..Holes /\ hole_num' = hole_num - 1
        /\ drawn' \in [{2, 4} -> Seq(0..total_4K_blks - 1)]
        /\ \A seed \in {2, 4} :
              /\ Len(drawn[seed]) <= Len(drawn'[seed])
              /\ \A j \in 1..Len(drawn[seed]) : drawn'[seed][j] = drawn[seed][j]
        /\ Holes - hole_num + 1 <= Len(drawn'[phase])
        /\ drawn'[phase][Holes - hole_num + 1] = pos
    BY <1>9, Draws
  <2>4. PICK n \in Nat : n = Holes - hole_num /\ Holes - hole_num' = n + 1
    BY <1>1, <2>3
  <2>5. DOMAIN file1' = 1..Len(file1) /\ DOMAIN file1 = 1..Len(file1)
    BY <2>2
  <2>6. punched' # "yes"
    BY <2>2 DEF FilesInv
  <2>7. \A seed \in {2, 4} : ToSet(drawn[seed]) \subseteq ToSet(drawn'[seed])
    <3> SUFFICES ASSUME NEW seed \in {2, 4}, NEW j \in DOMAIN drawn[seed]
                 PROVE  drawn[seed][j] \in ToSet(drawn'[seed])
      BY DEF ToSet
    <3>1. j \in 1..Len(drawn[seed]) /\ Len(drawn[seed]) \in Nat
      BY <1>2
    <3>2. j \in DOMAIN drawn'[seed] /\ drawn'[seed][j] = drawn[seed][j]
      BY <1>2, <2>3, <3>1
    <3> QED BY <3>2 DEF ToSet
  <2>8. ASSUME NEW k \in DOMAIN file1', file1'[k] = Hole
        PROVE  \E seed \in punchers' : k - 1 \in ToSet(drawn'[seed])
    <3>1. k \in 1..Len(file1) /\ Len(file1) \in Nat
      BY <2>2, <2>5, <2>8
    <3>2. CASE file1[k] = Hole
      <4>1. PICK seed \in punchers : k - 1 \in ToSet(drawn[seed])
        BY <2>2, <2>5, <3>1, <3>2 DEF HolesInv, HolesPlaced, AllPunched
      <4>2. seed \in punchers' /\ seed \in {2, 4}
        BY <1>2, <2>1, <4>1
      <4> QED BY <2>7, <4>1, <4>2
    <3>3. CASE file1[k] # Hole
      <4>1. k = pos + 1
        BY <2>2, <2>8, <3>1, <3>3
      <4>2. k - 1 = drawn'[phase][n + 1]
        <5>1. pos \in Nat
          BY Sizes
        <5>2. k - 1 = pos
          BY <4>1, <5>1
        <5> QED BY <2>3, <2>4, <5>2
      <4>3. n + 1 \in DOMAIN drawn'[phase]
        <5>1. drawn'[phase] \in Seq(0..total_4K_blks - 1)
          BY <2>2, <2>3
        <5>2. n + 1 <= Len(drawn'[phase])
          BY <2>3, <2>4
        <5> QED BY <5>1, <5>2
      <4>4. k - 1 \in ToSet(drawn'[phase])
        BY <4>2, <4>3 DEF ToSet
      <4> QED BY <2>1, <4>4
    <3> QED BY <3>2, <3>3
  <2>9. ASSUME punched' = "so_far" PROVE Punched(phase, Holes - hole_num)'
    <3>1. Punched(phase, n)
      BY <2>2, <2>4, <2>9 DEF HolesInv, HolesPlaced, AllPunched
    <3>2. n <= Len(drawn[phase]) /\ Len(drawn[phase]) \in Nat
      BY <1>2, <2>2, <2>4 DEF DrawnInv
    <3>3. ASSUME NEW k \in 1..n + 1, drawn'[phase][k] + 1 \in DOMAIN file1'
          PROVE  file1'[drawn'[phase][k] + 1] = Hole
      <4>1. CASE k = n + 1
        <5>1. drawn'[phase][k] = pos
          BY <2>3, <2>4, <4>1
        <5> QED BY <2>2, <2>5, <2>9, <3>3, <5>1
      <4>2. CASE k # n + 1
        <5>1. k \in 1..n /\ k \in 1..Len(drawn[phase])
          BY <3>2, <4>2
        <5>2. drawn'[phase][k] = drawn[phase][k]
          BY <2>2, <2>3, <5>1
        <5>3. file1[drawn[phase][k] + 1] = Hole
          BY <2>5, <3>1, <3>3, <5>1, <5>2 DEF Punched
        <5> QED BY <2>2, <2>5, <3>3, <5>2, <5>3
      <4> QED BY <4>1, <4>2
    <3>4. Holes' - hole_num' = n + 1 /\ phase' = phase
      BY <1>1, <2>1, <2>4
    <3> QED BY <3>3, <3>4 DEF Punched, Hole
  <2> QED BY <2>6, <2>8, <2>9 DEF HolesInv, HolesPlaced, AllPunched, Missing, Hole
<1>10. CASE UNCHANGED vars
  <2>1. UNCHANGED <<file1, drawn, punchers, punched, pc, stage, phase, hole_num>>
    BY <1>10 DEF vars, procVars, histVars
  <2>2. Holes' - hole_num' = Holes - hole_num
    BY <1>1, <2>1
  <2>3. \A seed, n : Punched(seed, n)' = Punched(seed, n)
    BY <2>1 DEF Punched, Hole
  <2>4. Punched(phase, Holes - hole_num)' = Punched(phase, Holes - hole_num)
    BY <2>1, <2>2 DEF Punched, Hole
  <2> QED BY <1>1, <2>1, <2>3, <2>4 DEF HolesInv, HolesPlaced, AllPunched, Missing, Hole
<1> QED BY <1>4, <1>5, <1>6, <1>7, <1>8, <1>9, <1>10
        DEF Next, Progress, DrawAgain, Ended

-----------------------------------------------------------------------------
(* The invariant, in every behaviour *)

\* Before the first process there are no files, and nothing is drawn.
LEMMA InitInv == Init => AgingInv
<1> SUFFICES ASSUME Init PROVE AgingInv
  OBVIOUS
<1>1. /\ total_4K_blks \in TotalPages /\ block_size \in BlockPages
      /\ hole_percent \in HolePercents /\ phase = 1 /\ stage = 1 /\ pc = "exited"
      /\ i = 0 /\ hole_num = 0 /\ records = {} /\ file1 = Missing /\ file2 = Missing
      /\ drawn = [seed \in {2, 4} |-> <<>>] /\ punchers = {} /\ punched = "no"
  BY DEF Init
<1>2. /\ total_4K_blks \in 0..Capacity /\ block_size \in Nat \ {0}
      /\ hole_percent \in Nat /\ Capacity \in Nat
  BY <1>1, AgingAssumption DEF AgingAssumption
<1>3. Used(file1) = 0 /\ Used(file2) = 0
  BY <1>1, UsedType
<1>4. drawn \in [{2, 4} -> Seq(0..total_4K_blks - 1)]
  BY <1>1
<1>5. TypeInv
  BY <1>1, <1>2, <1>3, <1>4 DEF TypeInv, TypeOK
<1>6. Holes \in Nat
  BY <1>5, Sizes
<1>7. \A seed \in {2, 4} : Len(drawn[seed]) <= Holes /\ IsInjective(drawn[seed])
  <2>1. PICK e : e = <<>>
    OBVIOUS
  <2>2. Len(e) = 0 /\ \A k \in DOMAIN e : FALSE
    BY <2>1
  <2>3. \A seed \in {2, 4} : drawn[seed] = e
    BY <1>1, <2>1
  <2> QED BY <1>6, <2>2, <2>3 DEF IsInjective
<1> QED BY <1>1, <1>5, <1>7 DEF AgingInv, FilesInv, DrawnInv, HolesInv, HolesPlaced

\* The phases of aging_system keep the invariant, whichever follows which, and
\* whether they end, fail (exit(1)) or are interrupted.
THEOREM Invariant == Spec => []AgingInv
<1>1. AgingInv /\ [Next]_vars => AgingInv'
  BY StepType, StepFiles, StepDrawn, StepHoles DEF AgingInv
<1> QED BY InitInv, <1>1, PTL DEF Spec

-----------------------------------------------------------------------------
(* What the invariant says of the files *)

\* The holes of phase 2 are at the places of its seed and at no others.
LEMMA ExactHoles == AgingInv => HolesExact
<1> SUFFICES ASSUME AgingInv, NEW seed \in {2, 4}, punched = "yes", punchers = {seed}
             PROVE  /\ Len(drawn[seed]) = Holes /\ IsInjective(drawn[seed])
                    /\ HolesOf(file1) =
                          {pos + 1 : pos \in ToSet(drawn[seed])} \cap DOMAIN file1
  BY DEF HolesExact
<1>1. /\ Holes \in Nat /\ Len(drawn[seed]) \in Nat /\ total_4K_blks \in Nat
      /\ drawn[seed] \in Seq(0..total_4K_blks - 1)
      /\ file1 = Missing \/ file1 \in Seq(Nat)
  BY Sizes DEF AgingInv, TypeInv, TypeOK
<1>2. AllPunched /\ HolesPlaced
  BY DEF AgingInv, HolesInv
<1>3. PICK s \in {2, 4} : /\ Len(drawn[s]) = Holes /\ Punched(s, Holes)
                          /\ Holes > 0 => s \in punchers
  BY <1>2 DEF AllPunched
<1>4. Len(drawn[seed]) = Holes /\ IsInjective(drawn[seed]) /\ Punched(seed, Holes)
  <2>1. Len(drawn[seed]) <= Holes /\ IsInjective(drawn[seed])
    BY DEF AgingInv, DrawnInv
  <2>2. CASE Holes > 0
    BY <1>3, <2>1, <2>2
  <2>3. CASE Holes = 0
    <3>1. Len(drawn[seed]) = Holes
      BY <1>1, <2>1, <2>3
    <3>2. 1..Holes = {}
      BY <2>3
    <3> QED BY <2>1, <3>1, <3>2 DEF Punched
  <2> QED BY <1>1, <2>2, <2>3
<1>5. DOMAIN drawn[seed] = 1..Holes
  BY <1>1, <1>4
<1>6. file1 # Missing /\ DOMAIN file1 = 1..Len(file1) /\ Len(file1) \in Nat
  BY <1>1, <1>2 DEF AllPunched
<1>7. ASSUME NEW k \in DOMAIN file1, file1[k] = Hole
      PROVE  k \in {pos + 1 : pos \in ToSet(drawn[seed])}
  <2>1. k - 1 \in ToSet(drawn[seed])
    BY <1>2, <1>6, <1>7 DEF HolesPlaced
  <2>2. k = (k - 1) + 1
    BY <1>6
  <2> QED BY <2>1, <2>2
<1>8. ASSUME NEW pos \in ToSet(drawn[seed]), pos + 1 \in DOMAIN file1
      PROVE  file1[pos + 1] = Hole
  <2>1. PICK k \in 1..Holes : pos = drawn[seed][k]
    BY <1>5, <1>8 DEF ToSet
  <2> QED BY <1>4, <1>8, <2>1 DEF Punched
<1> QED BY <1>4, <1>7, <1>8 DEF HolesOf

\* aging_system.c: after complete phases of one seed the holes are exactly the
\* places that the generator gives, as many as asked for, for any sizes.
THEOREM AlwaysHolesExact == Spec => []HolesExact
  BY Invariant, ExactHoles, PTL

\* No number is in two pages.
LEMMA NumbersDiffer == AgingInv => NoDuplicates
<1> SUFFICES ASSUME AgingInv PROVE NoDuplicates
  OBVIOUS
<1>1. TypeInv /\ FilesInv
  BY DEF AgingInv
<1>2. PICK f : f = Opened(file1)
  OBVIOUS
<1>3. PICK g : g = Opened(file2)
  OBVIOUS
<1>4. /\ total_4K_blks \in Nat /\ Holes \in Nat
      /\ Ends(total_4K_blks \div block_size) <= total_4K_blks
      /\ Ends(total_4K_blks \div block_size) \in Nat
      /\ total_4K_blks = 0 => Holes = 0
      /\ Ends(fill_num) <= Holes /\ Ends(fill_num) \in Nat
  <2>1. total_4K_blks = 0 => Holes = 0
    <3>1. 0 * hole_percent = 0
      <4>1. hole_percent \in Nat
        BY <1>1 DEF TypeInv
      <4> QED BY <4>1
    <3> QED BY <3>1 DEF Holes
  <2>2. total_4K_blks \div block_size \in Nat /\ fill_num \in Nat
    BY <1>1, Sizes
  <2> QED BY <1>1, <2>1, <2>2, Sizes, EndsGrow
<1>5. PICK e : e = <<>>
  OBVIOUS
<1>6. e \in Seq(Nat) /\ Len(e) = 0
  BY <1>5
<1>7. /\ f \in Seq(Nat) /\ Len(f) <= total_4K_blks /\ Len(f) \in Nat
      /\ \A k \in 1..Len(f) : f[k] \in {Hole, total_4K_blks + k - 1}
  <2>1. CASE file1 = Missing
    <3>1. f = e
      BY <1>2, <1>5, <2>1 DEF Opened
    <3> QED BY <1>4, <1>6, <3>1
  <2>2. CASE file1 # Missing
    <3>1. f = file1 /\ f \in Seq(Nat)
      BY <1>1, <1>2, <2>2 DEF Opened, TypeInv, TypeOK
    <3>2. DOMAIN f = 1..Len(f) /\ Len(f) \in Nat
      BY <3>1
    <3>3. /\ Len(f) <= Ends(total_4K_blks \div block_size)
          /\ \A k \in DOMAIN f : f[k] \in {Hole, total_4K_blks + k - 1}
      BY <1>1, <2>2, <3>1 DEF FilesInv
    <3> QED BY <1>4, <3>1, <3>2, <3>3
  <2> QED BY <2>1, <2>2
<1>8. /\ g \in Seq(Nat) /\ Len(g) \in Nat
      /\ Len(g) > 0 => total_4K_blks > 0
      /\ \A k \in 1..Len(g) : g[k] = 3 * total_4K_blks + k - 1
  <2>1. CASE file2 = Missing
    <3>1. g = e
      BY <1>3, <1>5, <2>1 DEF Opened
    <3> QED BY <1>6, <3>1
  <2>2. CASE file2 # Missing
    <3>1. g = file2 /\ g \in Seq(Nat)
      BY <1>1, <1>3, <2>2 DEF Opened, TypeInv, TypeOK
    <3>2. DOMAIN g = 1..Len(g) /\ Len(g) \in Nat
      BY <3>1
    <3>3. /\ Len(g) <= Ends(fill_num)
          /\ \A k \in DOMAIN g : g[k] = 3 * total_4K_blks + k - 1
      BY <1>1, <2>2, <3>1 DEF FilesInv
    <3>4. \A k \in 1..Len(g) : g[k] = 3 * total_4K_blks + k - 1
      BY <3>2, <3>3
    <3>5. Len(g) > 0 => total_4K_blks > 0
      <4>1. Len(g) <= Ends(fill_num)
        BY <3>3
      <4>2. Len(g) > 0 => Holes > 0
        BY <1>4, <3>2, <4>1
      <4> QED BY <1>4, <4>2
    <3> QED BY <3>1, <3>2, <3>4, <3>5
  <2> QED BY <2>1, <2>2
<1>9. PICK pages : pages = f \o g
  OBVIOUS
<1>10. /\ pages \in Seq(Nat) /\ Len(pages) = Len(f) + Len(g)
       /\ \A k \in 1..Len(f) + Len(g) :
             pages[k] = IF k <= Len(f) THEN f[k] ELSE g[k - Len(f)]
  BY <1>7, <1>8, <1>9, ConcatProperties
<1>11. ASSUME NEW k \in 1..Len(f) + Len(g)
       PROVE  \/ k <= Len(f) /\ pages[k] \in {Hole, total_4K_blks + k - 1}
              \/ /\ k > Len(f) /\ total_4K_blks > 0
                 /\ pages[k] = 3 * total_4K_blks + (k - Len(f)) - 1
  <2>1. CASE k <= Len(f)
    <3>1. pages[k] = f[k]
      BY <1>10, <2>1
    <3>2. k \in 1..Len(f)
      BY <1>7, <2>1
    <3> QED BY <1>7, <2>1, <3>1, <3>2
  <2>2. CASE k > Len(f)
    <3>1. k - Len(f) \in 1..Len(g) /\ ~(k <= Len(f)) /\ Len(g) > 0
      BY <1>7, <1>8, <2>2
    <3>2. pages[k] = g[k - Len(f)]
      BY <1>10, <3>1
    <3> QED BY <1>8, <2>2, <3>1, <3>2
  <2> QED BY <1>7, <2>1, <2>2
<1>12. ASSUME NEW j \in 1..Len(f) + Len(g), NEW k \in 1..Len(f) + Len(g),
              pages[j] = pages[k], pages[j] # Hole
       PROVE  j = k
  <2>1. PICK n \in Nat : n = Len(f) /\ n <= total_4K_blks
    BY <1>7
  <2>2. \/ j <= n /\ pages[j] = total_4K_blks + j - 1
        \/ j > n /\ total_4K_blks > 0 /\ pages[j] = 3 * total_4K_blks + (j - n) - 1
    BY <1>11, <1>12, <2>1
  <2>3. \/ k <= n /\ pages[j] = total_4K_blks + k - 1
        \/ k > n /\ total_4K_blks > 0 /\ pages[j] = 3 * total_4K_blks + (k - n) - 1
    BY <1>11, <1>12, <2>1
  <2>4. j \in Nat /\ k \in Nat /\ total_4K_blks \in Nat
    BY <1>4, <1>7, <1>8
  <2> QED BY <2>1, <2>2, <2>3, <2>4
<1>13. DOMAIN pages = 1..Len(f) + Len(g)
  BY <1>10
<1>14. \A j, k \in DOMAIN pages : pages[j] = pages[k] /\ pages[j] # Hole => j = k
  BY <1>12, <1>13
<1> QED BY <1>1, <1>2, <1>3, <1>9, <1>14 DEF NoDuplicates, TypeInv

\* aging_system.c: the two files never hold two equal pages, whatever phases have
\* run, failed or been interrupted, for any sizes.
THEOREM AlwaysNoDuplicates == Spec => []NoDuplicates
  BY Invariant, NumbersDiffer, PTL

-----------------------------------------------------------------------------
(* file2 fits into the holes *)

\* A sequence of places without repetition stands for as many pages.
LEMMA PlacesCount ==
    ASSUME NEW n \in Nat, NEW m \in Nat, NEW s \in Seq(0..m - 1), Len(s) = n,
           IsInjective(s)
    PROVE  LET places == {s[k] + 1 : k \in 1..n}
           IN  /\ places \subseteq 1..m /\ IsFiniteSet(places)
               /\ Cardinality(places) = n
<1> DEFINE places == {s[k] + 1 : k \in 1..n}
           g == [k \in 1..n |-> s[k] + 1]
<1>1. DOMAIN s = 1..n
  OBVIOUS
<1>2. \A k \in 1..n : s[k] \in 0..m - 1
  BY <1>1, ElementOfSeq
<1>3. places \subseteq 1..m
  BY <1>2
<1>4. g \in Bijection(1..n, places)
  <2>1. g \in [1..n -> places]
    OBVIOUS
  <2>2. \A a, b \in 1..n : g[a] = g[b] => a = b
    <3> SUFFICES ASSUME NEW a \in 1..n, NEW b \in 1..n, g[a] = g[b] PROVE a = b
      OBVIOUS
    <3>1. s[a] + 1 = s[b] + 1
      OBVIOUS
    <3>2. s[a] = s[b]
      BY <1>2, <3>1
    <3> QED BY <1>1, <3>2 DEF IsInjective
  <2>3. \A p \in places : \E k \in 1..n : g[k] = p
    OBVIOUS
  <2> QED BY <2>1, <2>2, <2>3 DEF Bijection, Injection, Surjection, IsInjective
<1>5. IsFiniteSet(places) /\ Cardinality(places) = Cardinality(1..n)
  <2>1. ExistsBijection(1..n, places)
    BY <1>4 DEF ExistsBijection
  <2>2. IsFiniteSet(1..n)
    BY FS_Interval
  <2> QED BY <2>1, <2>2, FS_Bijection
<1>6. Cardinality(1..n) = n
  BY FS_Interval
<1> QED BY <1>3, <1>5, <1>6

\* Pages that are stored and punched places are different, so both fit into the
\* pages of the options.
LEMMA StoredAndPunched ==
    ASSUME AgingInv, punched = "yes"
    PROVE  Used(file1) + Holes <= total_4K_blks
<1>1. /\ Holes \in Nat /\ total_4K_blks \in Nat
      /\ Ends(total_4K_blks \div block_size) <= total_4K_blks
      /\ Ends(total_4K_blks \div block_size) \in Nat
  <2>1. TypeInv
    BY DEF AgingInv
  <2>2. total_4K_blks \div block_size \in Nat
    BY <2>1, Sizes
  <2> QED BY <2>1, <2>2, Sizes, EndsGrow
<1>2. file1 # Missing /\ file1 \in Seq(Nat) /\ Len(file1) <= total_4K_blks
      /\ Len(file1) \in Nat /\ DOMAIN file1 = 1..Len(file1)
  <2>1. file1 # Missing
    BY DEF AgingInv, HolesInv, AllPunched
  <2>2. file1 \in Seq(Nat)
    BY <2>1 DEF AgingInv, TypeInv, TypeOK
  <2>3. Len(file1) <= Ends(total_4K_blks \div block_size)
    BY <2>1 DEF AgingInv, FilesInv
  <2>4. Len(file1) \in Nat /\ DOMAIN file1 = 1..Len(file1)
    BY <2>2
  <2> QED BY <1>1, <2>1, <2>2, <2>3, <2>4
<1>3. PICK seed \in {2, 4} : Len(drawn[seed]) = Holes /\ Punched(seed, Holes)
  BY DEF AgingInv, HolesInv, AllPunched
<1>4. drawn[seed] \in Seq(0..total_4K_blks - 1) /\ IsInjective(drawn[seed])
  BY DEF AgingInv, TypeInv, DrawnInv
<1> DEFINE places == {drawn[seed][k] + 1 : k \in 1..Holes}
           stored == {k \in DOMAIN file1 : file1[k] # Hole}
<1>5. /\ places \subseteq 1..total_4K_blks /\ IsFiniteSet(places)
      /\ Cardinality(places) = Holes
  <2>1. PICK s \in Seq(0..total_4K_blks - 1) : s = drawn[seed]
    BY <1>4
  <2> QED BY <1>1, <1>3, <1>4, <2>1, PlacesCount
<1>6. stored \subseteq 1..total_4K_blks /\ IsFiniteSet(stored)
      /\ Cardinality(stored) = Used(file1)
  <2>1. stored \subseteq 1..total_4K_blks
    BY <1>1, <1>2
  <2>2. IsFiniteSet(stored)
    BY <1>2, UsedType
  <2> QED BY <1>2, <2>1, <2>2 DEF Used
<1>7. stored \cap places = {}
  BY <1>3 DEF Punched
<1> HIDE DEF places, stored
<1>8. IsFiniteSet(1..total_4K_blks) /\ Cardinality(1..total_4K_blks) = total_4K_blks
  BY <1>1, FS_Interval
<1>9. Cardinality(stored \cup places) <= total_4K_blks
  <2>1. stored \cup places \in SUBSET (1..total_4K_blks)
    BY <1>5, <1>6
  <2> QED BY <1>8, <2>1, FS_Subset
<1>10. Cardinality(stored \cup places) =
          Cardinality(stored) + Cardinality(places) - Cardinality({})
  <2>1. IsFiniteSet(stored) /\ IsFiniteSet(places)
    BY <1>5, <1>6
  <2>2. Cardinality(stored \cup places) =
           Cardinality(stored) + Cardinality(places) - Cardinality(stored \cap places)
    BY <2>1, FS_Union
  <2> QED BY <1>7, <2>2
<1>11. Cardinality({}) = 0
  BY FS_EmptySet
<1>12. Used(file1) \in Nat
  BY <1>2, UsedType
<1> QED BY <1>1, <1>5, <1>6, <1>9, <1>10, <1>11, <1>12

\* A block of phase 3 after complete phases 1 and 2 has room.
LEMMA RoomInHoles == AgingInv => FitsInHoles
<1> SUFFICES ASSUME AgingInv, Filling, stage = 3, punched = "yes"
             PROVE  HasRoom(block_size)
  BY DEF FitsInHoles
<1>1. TypeInv /\ FilesInv
  BY DEF AgingInv
<1>2. Used(file1) + Holes <= total_4K_blks
  BY StoredAndPunched
<1>3. /\ file2 # Missing /\ file2 \in Seq(Nat) /\ Ends(i) <= Len(file2)
      /\ Len(file2) <= Ends(Blocks) /\ Blocks = fill_num
  <2>1. pc = "run" /\ file2 # Missing
    BY <1>1 DEF Filling, FilesInv
  <2>2. file2 \in Seq(Nat)
    BY <1>1, <2>1 DEF TypeInv, TypeOK
  <2>3. Blocks = fill_num
    BY DEF Blocks
  <2> QED BY <1>1, <2>1, <2>2, <2>3 DEF FilesInv
<1>4. PICK g : g = Written(file2, block_size)
  OBVIOUS
<1>5. g \in Seq(Nat) /\ Len(g) <= Ends(Blocks)
  <2>1. block_size \in 0..block_size
    BY <1>1, Sizes
  <2> QED BY <1>1, <1>3, <1>4, <2>1, Writes
<1>6. Used(g) <= Len(g) /\ Used(g) \in Nat /\ Len(g) \in Nat
  <2>1. g \in Seq(Nat)
    BY <1>5
  <2>2. Used(g) \in Nat /\ Used(g) <= Len(g)
    BY <2>1, UsedType
  <2> QED BY <2>1, <2>2
<1>7. /\ Ends(fill_num) <= Holes /\ Ends(fill_num) \in Nat /\ Holes \in Nat
      /\ total_4K_blks <= Capacity /\ total_4K_blks \in Nat /\ Capacity \in Nat
  <2>1. fill_num \in Nat
    BY <1>1, Sizes
  <2> QED BY <1>1, <2>1, Sizes, EndsGrow
<1>8. Used(file1) \in Nat
  BY <1>1, UsedType DEF TypeInv, TypeOK
<1>9. Used(file1) + Used(g) <= Capacity
  BY <1>2, <1>3, <1>5, <1>6, <1>7, <1>8
<1> QED BY <1>4, <1>9 DEF HasRoom

\* aging_system.c:25, "write another file to fill the holes": phase 3 never runs
\* out of room after a complete fill and a clean punching, for any options and on
\* any file system that file1 fits into.
THEOREM AlwaysFitsInHoles == Spec => []FitsInHoles
  BY Invariant, RoomInHoles, PTL
=============================================================================
