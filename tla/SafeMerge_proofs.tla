--------------------------- MODULE SafeMerge_proofs ---------------------------
(***************************************************************************)
(* Proofs about SafeMerge: no command loses a change that was on a branch  *)
(* when it last looked, for any repository, stack and number of clients.   *)
(***************************************************************************)
EXTENDS SafeMerge, FiniteSetTheorems, WellFoundedInduction, TLAPS

-----------------------------------------------------------------------------
(* What a set of commits stands for when commits may be copied: its changes *)
(* and, as they are never copied, its merge commits themselves.             *)

Sig(n)  == <<change[n], IF change[n] = Merge THEN n ELSE 0>>
Kept(c) == {Sig(n) : n \in c}

(* A ranking respects the deletions if every merge that deleted its source  *)
(* took its changes to a branch of lower rank.  What is below a rank, or    *)
(* was overwritten, then stays there whatever branch above it is deleted.   *)
(* A ranking that does not respect them promises nothing.                   *)
Rankings == [Branches -> 0..Cardinality(Branches)]
Respects(f) == \A e \in deleted : f[e[1]] > f[e[2]]
Below(f, k) == overwritten \cup {n \in Numbers : Made(n) /\ ~Respects(f)}
                  \cup (UNION {tip[b] : b \in {x \in Branches : f[x] < k}})
Top == Cardinality(Branches) + 1

(* What the repository shows or a ref lost, unless deletions made a circle. *)
Shown == overwritten \cup Reachable \cup {n \in Numbers : Made(n) /\ Circle}

LEMMA RankTyped ==
  /\ Top \in Nat
  /\ \A f \in Rankings : \A b \in Branches : f[b] \in Nat /\ f[b] < Top
<1>1. Cardinality(Branches) \in Nat
  BY NamesAssumption, FS_CardinalityType
<1>2. \A f \in Rankings : \A b \in Branches : f[b] \in 0..Cardinality(Branches)
  BY DEF Rankings
<1>q. QED  BY <1>1, <1>2 DEF Top

LEMMA RankExists ==
  /\ \E f \in Rankings : TRUE
  /\ ~Circle <=> \E f \in Rankings : Respects(f)
<1>1. 0 \in 0..Cardinality(Branches)
  BY NamesAssumption, FS_CardinalityType
<1>2. [b \in Branches |-> 0] \in Rankings  BY <1>1 DEF Rankings
<1>q. QED  BY <1>2 DEF Circle, Rankings, Respects

LEMMA AllIsBelow ==
  /\ ~Circle => Shown = Reachable \cup overwritten
  /\ \A f \in Rankings : Respects(f) => Below(f, Top) = Shown
<1>1. ASSUME NEW f \in Rankings, Respects(f)  PROVE Below(f, Top) = Shown
  <2>1. {x \in Branches : f[x] < Top} = Branches  BY RankTyped
  <2>2. ~Circle  BY <1>1, RankExists
  <2>q. QED  BY <1>1, <2>1, <2>2 DEF Below, Reachable, Shown
<1>q. QED  BY <1>1 DEF Shown

-----------------------------------------------------------------------------
(* The inductive invariant.                                                 *)

(* What a command may rely on at each of its statements. *)
Fits(x) ==
    /\ x \in Move =>
         /\ \A n \in x.s \cup x.t \cup x.seenS \cup x.seenT \cup x.new : Made(n)
         /\ x.pc \in {"preview", "checks", "recheck", "state", "delete", "retarget"} => x.kind = "merge"
         /\ x.pc \in {"compare", "write"} =>
              /\ x.t \subseteq x.new
              /\ x.kind = "merge" => x.seenS \subseteq x.new /\ x.id \in x.new /\ change[x.id] = Merge
              /\ x.kind = "apply" => x.id \in x.new /\ change[x.id] = Edit
         /\ x.pc = "compare" => x.kind \in {"merge", "apply"}
         /\ x.pc = "write" => x.seenT \subseteq x.new
         /\ x.pc \in {"state", "delete"} =>
              /\ landed[x.r] # {}
              /\ \A f \in Rankings : f[x.src] > f[x.dst] =>
                    Kept(x.seenS) \subseteq Kept(Below(f, f[x.src]))
         /\ x.pc = "record" => <<Edit, 0>> \in Kept(Shown)
    /\ x \in Restack =>
         /\ \A n \in x.prev \cup x.base : Made(n)
         /\ \A b \in Branches : \A n \in x.tips[b] : Made(n)
         /\ Kept(x.prev) \subseteq Kept(x.base)

Rows == \A r \in Reviews : review[r].state = "Merged" => landed[r] # {} \/ r \in claimed

Stored ==
    /\ \A n \in overwritten : Made(n)
    /\ \A n \in Numbers : change[n] \in Works => Sig(n) \in Kept(Shown)
    /\ \A r \in Reviews : \A n \in landed[r] : change[n] = Merge /\ Sig(n) \in Kept(Shown)
    /\ edit.applied # 0 => <<Edit, 0>> \in Kept(Shown)

Inv == TypeOK /\ Rows /\ Stored /\ \A p \in Clients : Fits(run[p])

-----------------------------------------------------------------------------
(* How a step may change what the others know.                              *)

Grows == /\ change' \in [Numbers -> Changes \cup {None}]
         /\ \A n \in Numbers : Made(n) => change'[n] = change[n]
Keeps == /\ Kept(Shown) \subseteq Kept(Shown)'
         /\ \A f \in Rankings, k \in Nat : Kept(Below(f, k)) \subseteq Kept(Below(f, k))'
Lands == \A r \in Reviews : landed[r] \subseteq landed'[r]

LEMMA NoneIsNone == None \notin Changes
BY NamesAssumption DEF Changes

LEMMA SigKept ==
  ASSUME Grows, NEW n \in Numbers, Made(n)
  PROVE  Made(n)' /\ Sig(n)' = Sig(n)
BY DEF Grows, Made, Sig

LEMMA KeptKept ==
  ASSUME Grows, NEW c \in SUBSET Numbers, \A n \in c : Made(n)
  PROVE  Kept(c)' = Kept(c) /\ \A n \in c : Made(n)'
<1>1. \A n \in c : Made(n)' /\ Sig(n)' = Sig(n)
  BY SigKept
<1>q. QED  BY <1>1 DEF Kept

LEMMA FitsKept ==
  ASSUME TypeOK, Grows, Keeps, Lands, NEW x \in Run, Fits(x)
  PROVE  Fits(x)'
<1>1. ASSUME x \in Move
      PROVE  /\ \A n \in x.s \cup x.t \cup x.seenS \cup x.seenT \cup x.new : Made(n)'
             /\ Kept(x.seenS)' = Kept(x.seenS)
             /\ \A f \in Rankings : f[x.src] \in Nat
             /\ x.id \in Numbers /\ x.r \in Reviews
  <2>1. /\ x.s \cup x.t \cup x.seenS \cup x.seenT \cup x.new \in SUBSET Numbers
        /\ x.seenS \in SUBSET Numbers /\ x.src \in Branches
        /\ x.id \in Numbers /\ x.r \in Reviews
    BY <1>1 DEF Move, Commit
  <2>2. \A n \in x.s \cup x.t \cup x.seenS \cup x.seenT \cup x.new : Made(n)
    BY <1>1 DEF Fits
  <2>3. Kept(x.seenS)' = Kept(x.seenS)
    BY <2>1, <2>2, KeptKept
  <2>q. QED  BY <2>1, <2>2, <2>3, KeptKept, RankTyped
<1>2. ASSUME x \in Move, x.pc \in {"compare", "write"}
      PROVE  /\ x.kind = "merge" => change'[x.id] = Merge
             /\ x.kind = "apply" => change'[x.id] = Edit
  <2>1. x.id \in Numbers  BY <1>1, <1>2
  <2>2. /\ x.kind = "merge" => change[x.id] = Merge
        /\ x.kind = "apply" => change[x.id] = Edit
    BY <1>2 DEF Fits
  <2>3. change[x.id] \in {Merge, Edit} => Made(x.id)
    BY NoneIsNone DEF Made, Changes
  <2>q. QED  BY <2>1, <2>2, <2>3 DEF Grows
<1>3. ASSUME x \in Move, x.pc \in {"state", "delete"}
      PROVE  /\ landed'[x.r] # {}
             /\ \A f \in Rankings : f[x.src] > f[x.dst] =>
                   Kept(x.seenS)' \subseteq Kept(Below(f, f[x.src]))'
  <2>1. landed[x.r] # {} /\ landed[x.r] \subseteq landed'[x.r]
    BY <1>1, <1>3 DEF Fits, Lands
  <2>2. ASSUME NEW f \in Rankings, f[x.src] > f[x.dst]
        PROVE  Kept(x.seenS)' \subseteq Kept(Below(f, f[x.src]))'
    <3>1. Kept(x.seenS) \subseteq Kept(Below(f, f[x.src]))  BY <1>3, <2>2 DEF Fits
    <3>2. Kept(Below(f, f[x.src])) \subseteq Kept(Below(f, f[x.src]))'
      BY <1>1, <1>3 DEF Keeps
    <3>q. QED  BY <1>1, <1>3, <3>1, <3>2
  <2>q. QED  BY <2>1, <2>2
<1>4. ASSUME x \in Move, x.pc = "record"  PROVE <<Edit, 0>> \in Kept(Shown)'
  BY <1>4 DEF Fits, Keeps
<1>5. ASSUME x \in Restack
      PROVE  /\ \A n \in x.prev \cup x.base : Made(n)'
             /\ \A b \in Branches : \A n \in x.tips[b] : Made(n)'
             /\ Kept(x.prev)' \subseteq Kept(x.base)'
  <2>1. /\ x.prev \in SUBSET Numbers /\ x.base \in SUBSET Numbers
        /\ \A b \in Branches : x.tips[b] \in SUBSET Numbers
    BY <1>5 DEF Restack, Commit
  <2>2. /\ \A n \in x.prev \cup x.base : Made(n)
        /\ \A b \in Branches : \A n \in x.tips[b] : Made(n)
        /\ Kept(x.prev) \subseteq Kept(x.base)
    BY <1>5 DEF Fits
  <2>q. QED  BY <2>1, <2>2, KeptKept
<1>q. QED  BY <1>1, <1>2, <1>3, <1>4, <1>5 DEF Fits

LEMMA IdleFits == Idle \in Run /\ Fits(Idle) /\ Fits(Idle)'
BY DEF Idle, Run, Fits, Move, Restack

(* A step that moves one command. *)
LEMMA OneMoves ==
  ASSUME Inv, Grows, Keeps, Lands, NEW p \in Clients, NEW x \in Run, Set(p, x), Fits(x)'
  PROVE  /\ run' \in [Clients -> Run]
         /\ \A q \in Clients : Fits(run[q])'
<1>1. run \in [Clients -> Run] /\ TypeOK  BY DEF Inv, TypeOK
<1>2. run' = [run EXCEPT ![p] = x]  BY DEF Set
<1>3. run' \in [Clients -> Run]  BY <1>1, <1>2
<1>4. ASSUME NEW q \in Clients  PROVE Fits(run[q])'
  <2>1. CASE q = p
    <3>1. run'[q] = x  BY <1>1, <1>2, <2>1
    <3>q. QED  BY <3>1 DEF Fits
  <2>2. CASE q # p
    <3>1. run'[q] = run[q] /\ run[q] \in Run  BY <1>1, <1>2, <2>2
    <3>2. Fits(run[q])  BY DEF Inv
    <3>3. PICK y \in Run : y = run[q] /\ Fits(y)  BY <3>1, <3>2
    <3>4. Fits(y)'  BY <1>1, <3>3, FitsKept
    <3>5. run'[q] = y  BY <3>1, <3>3
    <3>q. QED  BY <3>4, <3>5 DEF Fits
  <2>q. QED  BY <2>1, <2>2
<1>q. QED  BY <1>3, <1>4

(* The other commands after a step that moves none. *)
LEMMA NoneMoves ==
  ASSUME Inv, Grows, Keeps, Lands, UNCHANGED run
  PROVE  run' \in [Clients -> Run] /\ \A q \in Clients : Fits(run[q])'
<1>1. TypeOK /\ run \in [Clients -> Run]  BY DEF Inv, TypeOK
<1>2. ASSUME NEW q \in Clients  PROVE Fits(run[q])'
  <2>1. PICK y \in Run : y = run[q] /\ Fits(y)  BY <1>1 DEF Inv
  <2>2. Fits(y)'  BY <1>1, <2>1, FitsKept
  <2>q. QED  BY <2>1, <2>2 DEF Fits
<1>q. QED  BY <1>1, <1>2

(* A step of the database alone. *)
LEMMA Undisturbed ==
  ASSUME TypeOK, UNCHANGED <<change, tip, deleted, overwritten, landed>>
  PROVE  Grows /\ Keeps /\ Lands /\ Kept(Shown)' = Kept(Shown)
<1>1. Grows /\ Lands  BY DEF TypeOK, Grows, Lands
<1>2. \A f, k : Kept(Below(f, k))' = Kept(Below(f, k))  BY DEF Kept, Sig, Below, Made, Respects
<1>3. Kept(Shown)' = Kept(Shown)  BY DEF Kept, Sig, Shown, Made, Reachable, Circle
<1>q. QED  BY <1>1, <1>2, <1>3 DEF Keeps

Sane == /\ review' \in [Reviews -> ReviewRow] /\ edit' \in Suggestion
        /\ begun' \in 0..MaxCommands /\ faults' \in 0..MaxFaults
        /\ broken' \subseteq Reviews /\ crossed' \subseteq Reviews /\ rewritten' \subseteq Reviews
        /\ forwarded' \subseteq Branches /\ claimed' \subseteq Reviews
        /\ deleted' \subseteq Branches \X Branches /\ file' \in [Numbers -> Texts]

LEMMA Still ==
  ASSUME Inv, UNCHANGED <<change, tip, deleted, overwritten, landed>>, Sane, Rows',
         edit'.applied # 0 => <<Edit, 0>> \in Kept(Shown),
         NEW p \in Clients, NEW x \in Run, Set(p, x), Fits(x)
  PROVE  Inv'
<1>1. TypeOK /\ Stored  BY DEF Inv
<1>2. Grows /\ Keeps /\ Lands /\ Kept(Shown)' = Kept(Shown)
  BY <1>1, Undisturbed
<1>3. Fits(x)'  BY <1>1, <1>2, FitsKept
<1>4. run' \in [Clients -> Run] /\ \A q \in Clients : Fits(run[q])'
  BY <1>2, <1>3, OneMoves
<1>5. TypeOK'  BY <1>1, <1>4 DEF TypeOK, Sane, Made, Count
<1>6. Stored'
  <2>1. \A n \in overwritten' : Made(n)'  BY <1>1 DEF Stored, Made
  <2>2. \A n : Sig(n)' = Sig(n)  BY DEF Sig
  <2>q. QED  BY <1>1, <1>2, <2>1, <2>2 DEF Stored
<1>q. QED  BY <1>4, <1>5, <1>6 DEF Inv

(* A step of the tables that moves no command. *)
LEMMA AsideInv ==
  ASSUME Inv, UNCHANGED <<change, tip, deleted, overwritten, landed, edit, run>>, Sane, Rows'
  PROVE  Inv'
<1>1. TypeOK /\ Stored  BY DEF Inv
<1>2. Grows /\ Keeps /\ Lands /\ Kept(Shown)' = Kept(Shown)
  BY <1>1, Undisturbed
<1>3. run' \in [Clients -> Run] /\ \A q \in Clients : Fits(run[q])'
  BY <1>2, NoneMoves
<1>4. TypeOK'  BY <1>1, <1>3 DEF TypeOK, Sane, Made, Count
<1>5. Stored'
  <2>1. \A n : Sig(n)' = Sig(n) /\ Made(n)' = Made(n)  BY DEF Sig, Made
  <2>q. QED  BY <1>1, <1>2, <2>1 DEF Stored
<1>q. QED  BY <1>3, <1>4, <1>5 DEF Inv

-----------------------------------------------------------------------------
(* A new commit.                                                            *)

LEMMA NumbersFinite ==
  /\ IsFiniteSet(Numbers) /\ Numbers \subseteq Nat
  /\ TypeOK => Count \in Nat /\ Fresh \in Nat /\ ~(Fresh <= Count)
<1>1. MaxCommits \in Nat  BY BoundsAssumption
<1>2. IsFiniteSet(Numbers)  BY <1>1, FS_Interval DEF Numbers
<1>3. {n \in Numbers : Made(n)} \in SUBSET Numbers  OBVIOUS
<1>4. Count \in Nat  BY <1>2, <1>3, FS_Subset, FS_CardinalityType DEF Count
<1>q. QED  BY <1>1, <1>2, <1>4 DEF Numbers, Fresh

LEMMA MakeGrows ==
  ASSUME TypeOK, NEW w \in Changes, NEW txt \in Texts, Make(w, txt)
  PROVE  /\ file' \in [Numbers -> Texts] /\ file' = [file EXCEPT ![Fresh] = txt]
         /\ Grows /\ ~Made(Fresh) /\ Fresh \in Numbers
         /\ change' = [change EXCEPT ![Fresh] = w] /\ change'[Fresh] = w
         /\ \A n \in Numbers : Made(n)' <=> n <= Count'
         /\ \A n \in Numbers : Made(n) => Made(n)'
<1>1. Fresh \in Numbers /\ change' = [change EXCEPT ![Fresh] = w]  BY DEF Make
<1>2. change \in [Numbers -> Changes \cup {None}] /\ \A n \in Numbers : Made(n) <=> n <= Count
  BY DEF TypeOK
<1>3. ~Made(Fresh)  BY <1>1, <1>2, NumbersFinite
<1>4. change'[Fresh] = w /\ w # None  BY <1>1, <1>2, NoneIsNone
<1>5. \A n \in Numbers : n # Fresh => change'[n] = change[n]  BY <1>1, <1>2
<1>6. Grows  BY <1>1, <1>2, <1>3, <1>5 DEF Grows
<1>7. \A n \in Numbers : Made(n)' <=> Made(n) \/ n = Fresh
  BY <1>4, <1>5 DEF Made
<1>8. Count' = Count + 1
  <2> DEFINE S == {n \in Numbers : Made(n)}
  <2>1. IsFiniteSet(S) /\ Fresh \notin S  BY <1>3, NumbersFinite, FS_Subset
  <2>2. {n \in Numbers : Made(n)'} = S \cup {Fresh}  BY <1>1, <1>7
  <2>3. Cardinality(S \cup {Fresh}) = Cardinality(S) + 1
    <3> HIDE DEF S
    <3>q. QED  BY <2>1, FS_AddElement
  <2>q. QED  BY <2>2, <2>3 DEF Count
<1>9. \A n \in Numbers : Made(n)' <=> n <= Count'
  <2>1. Numbers \subseteq Nat /\ Count \in Nat  BY NumbersFinite
  <2>q. QED  BY <1>2, <1>7, <1>8, <2>1 DEF Fresh
<1>10. file' \in [Numbers -> Texts] /\ file' = [file EXCEPT ![Fresh] = txt]  BY <1>1 DEF Make, TypeOK
<1>q. QED  BY <1>1, <1>3, <1>4, <1>6, <1>7, <1>9, <1>10 DEF Made

(* The commits a branch shows, or lost, have been made. *)
LEMMA BelowMade ==
  ASSUME TypeOK, Stored
  PROVE  /\ \A f, k : Below(f, k) \in SUBSET Numbers /\ \A n \in Below(f, k) : Made(n)
         /\ Shown \in SUBSET Numbers /\ \A n \in Shown : Made(n)
<1>1. overwritten \subseteq Numbers /\ \A b \in Branches : tip[b] \subseteq Numbers
  BY DEF TypeOK, Commit
<1>2. \A b \in Branches : \A n \in tip[b] : n \in Numbers /\ Made(n)  BY <1>1 DEF TypeOK
<1>3. \A n \in overwritten : n \in Numbers /\ Made(n)  BY <1>1 DEF Stored
<1>4. ASSUME NEW f, NEW k, NEW n \in Below(f, k)  PROVE n \in Numbers /\ Made(n)
  <2>1. \/ n \in overwritten \/ \E b \in Branches : n \in tip[b]
        \/ n \in {m \in Numbers : Made(m) /\ ~Respects(f)}
    BY Zenon DEF Below
  <2>q. QED  BY <1>2, <1>3, <2>1
<1>5. ASSUME NEW n \in Shown  PROVE n \in Numbers /\ Made(n)
  BY <1>2, <1>3 DEF Shown, Reachable
<1>q. QED  BY <1>4, <1>5

(* What is kept for the rankings that still respect the deletions is kept.  *)
LEMMA KeepsAll ==
  ASSUME TypeOK, Stored, Grows, deleted \subseteq deleted',
         \A f \in Rankings, k \in Nat :
            Respects(f) /\ Respects(f)' => Kept(Below(f, k)) \subseteq Kept(Below(f, k))'
  PROVE  Keeps
<1>1. \A f : Respects(f)' => Respects(f)  BY DEF Respects
<1>2. ASSUME NEW n \in Numbers, Made(n)  PROVE Made(n)' /\ Sig(n)' = Sig(n)
  BY <1>2, SigKept
<1>3. ASSUME NEW f \in Rankings, NEW k \in Nat, ~Respects(f)', NEW n \in Below(f, k)
      PROVE  Sig(n) \in Kept(Below(f, k))'
  <2>1. n \in Numbers /\ Made(n)  BY BelowMade
  <2>2. n \in {m \in Numbers : Made(m) /\ ~Respects(f)}'  BY <1>2, <1>3, <2>1
  <2>3. n \in Below(f, k)'  BY <2>2, Zenon DEF Below
  <2>q. QED  BY <1>2, <2>1, <2>3 DEF Kept
<1>4. ASSUME NEW f \in Rankings, NEW k \in Nat  PROVE Kept(Below(f, k)) \subseteq Kept(Below(f, k))'
  <2>1. CASE Respects(f)'  BY <1>1, <2>1
  <2>2. CASE ~Respects(f)'  BY <1>3, <2>2 DEF Kept
  <2>q. QED  BY <2>1, <2>2
<1>5. Kept(Shown) \subseteq Kept(Shown)'
  <2>1. CASE Circle'
    <3>1. ASSUME NEW n \in Shown  PROVE Sig(n) \in Kept(Shown)'
      <4>1. n \in Numbers /\ Made(n)  BY BelowMade
      <4>2. n \in Shown'  BY <1>2, <2>1, <4>1 DEF Shown
      <4>q. QED  BY <1>2, <4>1, <4>2 DEF Kept
    <3>q. QED  BY <3>1 DEF Kept
  <2>2. CASE ~Circle'
    <3>1. PICK f \in Rankings : Respects(f)'
      <4>1. PICK f \in Rankings : \A e \in deleted' : f[e[1]] > f[e[2]]  BY <2>2 DEF Circle, Rankings
      <4>q. QED  BY <4>1 DEF Respects
    <3>2. Respects(f)  BY <1>1, <3>1
    <3>3. Below(f, Top) = Shown  BY <3>2, AllIsBelow
    <3>4. Below(f, Top)' = Shown'
      <4>1. {x \in Branches : f[x] < Top} = Branches  BY RankTyped
      <4>q. QED  BY <2>2, <3>1, <4>1 DEF Below, Reachable, Shown
    <3>5. Top \in Nat  BY RankTyped
    <3>6. Kept(Below(f, Top)) \subseteq Kept(Below(f, Top))'  BY <1>4, <3>5
    <3>q. QED  BY <3>3, <3>4, <3>6 DEF Kept
  <2>q. QED  BY <2>1, <2>2
<1>q. QED  BY <1>4, <1>5 DEF Keeps

(* Merge commits are made before any ref shows them, edits too. *)
LEMMA MakeStill ==
  ASSUME Inv, NEW w \in Changes, NEW txt \in Texts, Make(w, txt),
         UNCHANGED <<tip, deleted, overwritten, landed, review, edit, claimed>>, Sane, w \in Works => <<w, 0>> \in Kept(Shown),
         NEW p \in Clients, NEW x \in Run, Set(p, x), Fits(x)'
  PROVE  Inv'
<1>1. TypeOK /\ Stored /\ Rows  BY DEF Inv
<1>2. /\ Grows /\ ~Made(Fresh) /\ Fresh \in Numbers /\ change'[Fresh] = w
      /\ change' = [change EXCEPT ![Fresh] = w]
      /\ \A n \in Numbers : Made(n)' <=> n <= Count'
      /\ \A n \in Numbers : Made(n) => Made(n)'
  BY <1>1, MakeGrows
<1>3. Keeps
  <2>1. ASSUME NEW f, NEW k, Respects(f), Respects(f)'
        PROVE  Kept(Below(f, k)) \subseteq Kept(Below(f, k))'
    <3>1. Below(f, k)' = Below(f, k)  BY <2>1 DEF Below
    <3>2. PICK c \in SUBSET Numbers : c = Below(f, k) /\ \A n \in c : Made(n)  BY <1>1, BelowMade
    <3>3. Kept(c)' = Kept(c)  BY <1>2, <3>2, KeptKept
    <3>q. QED  BY <3>1, <3>2, <3>3 DEF Kept
  <2>q. QED  BY <1>1, <1>2, <2>1, KeepsAll
<1>4. Lands /\ Kept(Shown) \subseteq Kept(Shown)'  BY <1>3 DEF Keeps, Lands
<1>5. run' \in [Clients -> Run] /\ \A q \in Clients : Fits(run[q])'
  BY <1>2, <1>3, <1>4, OneMoves
<1>6. TypeOK'  BY <1>1, <1>2, <1>5 DEF TypeOK, Sane, Grows
<1>7. Stored'
  <2>1. \A n \in overwritten' : Made(n)'  BY <1>1, <1>2 DEF Stored, TypeOK, Commit
  <2>2. ASSUME NEW n \in Numbers, change'[n] \in Works  PROVE Sig(n)' \in Kept(Shown)'
    <3>1. CASE n = Fresh
      <4>1. Sig(n)' = <<w, 0>> /\ w \in Works  BY <1>2, <2>2, <3>1, NamesAssumption DEF Sig
      <4>q. QED  BY <4>1, <1>4
    <3>2. CASE n # Fresh
      <4>1. change'[n] = change[n]  BY <1>1, <1>2, <3>2 DEF TypeOK
      <4>2. Sig(n)' = Sig(n)  BY <4>1 DEF Sig
      <4>q. QED  BY <1>1, <1>4, <2>2, <4>1, <4>2 DEF Stored
    <3>q. QED  BY <3>1, <3>2
  <2>3. ASSUME NEW r \in Reviews, NEW n \in landed[r]
        PROVE  change'[n] = Merge /\ Sig(n)' \in Kept(Shown)'
    <3>1. n \in Numbers  BY <1>1 DEF TypeOK, Commit
    <3>2. change[n] = Merge /\ Sig(n) \in Kept(Shown)  BY <1>1 DEF Stored
    <3>3. Made(n)  BY <3>2, NoneIsNone DEF Made, Changes
    <3>4. change'[n] = change[n] /\ Sig(n)' = Sig(n)  BY <1>2, <3>1, <3>3, SigKept DEF Grows
    <3>q. QED  BY <1>4, <3>2, <3>4
  <2>q. QED  BY <1>1, <1>4, <2>1, <2>2, <2>3 DEF Stored
<1>8. Rows'  BY <1>1 DEF Rows
<1>q. QED  BY <1>5, <1>6, <1>7, <1>8 DEF Inv

-----------------------------------------------------------------------------
(* One lemma per action.                                                    *)

MovePcs == {"preview", "checks", "recheck", "compare", "write", "state", "delete",
            "retarget", "record"}

LEMMA AtMove ==
  ASSUME Inv, NEW p \in Clients, run[p].pc \in MovePcs
  PROVE  \E x \in Move : x = run[p] /\ Fits(x)
<1>1. run[p] \in Run /\ Fits(run[p])  BY DEF Inv, TypeOK
<1>2. run[p] \in Move  BY <1>1 DEF Run, Restack, MovePcs
<1>q. QED  BY <1>1, <1>2

LEMMA MoverTyped ==
  ASSUME NEW l \in MovePcs, NEW k \in {"merge", "apply", "pick"}, NEW r \in Reviews,
         NEW b \in Branches, NEW d \in Branches
  PROVE  Mover(l, k, r, b, d) \in Move
<1>1. 1 \in Numbers  BY BoundsAssumption DEF Numbers
<1>q. QED  BY <1>1 DEF Mover, Move, MovePcs, Commit

LEMMA RowTyped ==
  ASSUME Inv, NEW r \in Reviews
  PROVE  /\ review[r] \in ReviewRow
         /\ review[r].source \in Branches /\ review[r].target \in Branches
<1>1. review[r] \in ReviewRow  BY DEF Inv, TypeOK
<1>q. QED  BY <1>1 DEF ReviewRow

LEMMA TipTyped ==
  ASSUME Inv, NEW b \in Branches
  PROVE  tip[b] \in Commit /\ \A n \in tip[b] : Made(n)
BY DEF Inv, TypeOK, Commit

LEMMA EditKept == Inv => (edit.applied # 0 => <<Edit, 0>> \in Kept(Shown))
BY DEF Inv, Stored

LEMMA BeginTyped == ASSUME Inv, NEW p \in Clients, Begin(p)  PROVE begun' \in 0..MaxCommands
BY BoundsAssumption DEF Inv, TypeOK, Begin

LEMMA BeginMergeInv ==
  ASSUME Inv, NEW p \in Clients, BeginMerge(p)
  PROVE  Inv'
<1>1. PICK a \in Asked, del \in BOOLEAN :
         /\ Begin(p)
         /\ Set(p, [Mover("preview", "merge", a[1], a[2], a[3]) EXCEPT !.del = del])
         /\ UNCHANGED <<change, file, tip, review, edit, faults, overwritten, landed, broken, crossed, rewritten, forwarded, claimed, deleted>>
  BY DEF BeginMerge
<1>2. a[1] \in Reviews /\ a[2] \in Branches /\ a[3] \in Branches
  BY NamesAssumption
<1>3. PICK m \in Move : m = Mover("preview", "merge", a[1], a[2], a[3])
  BY <1>2, MoverTyped DEF MovePcs
<1>4. PICK x : x = [m EXCEPT !.del = del]  OBVIOUS
<1>5. x \in Move /\ x.pc = "preview"  BY <1>3, <1>4 DEF Mover, Move
<1>6. Fits(x)
  <2>1. /\ x.s = {} /\ x.t = {} /\ x.seenS = {} /\ x.seenT = {} /\ x.new = {}
        /\ x.kind = "merge"
    BY <1>3, <1>4 DEF Mover, Move
  <2>q. QED  BY <1>5, <2>1 DEF Fits, Restack
<1>7. Sane /\ Rows'  BY <1>1, BeginTyped DEF Inv, TypeOK, Sane, Rows
<1>q. QED  BY <1>1, <1>3, <1>4, <1>5, <1>6, <1>7, EditKept, Still DEF Run

(* Steps that only move the command on. *)
LEMMA PreviewInv ==
  ASSUME Inv, NEW p \in Clients, Preview(p)
  PROVE  Inv'
<1>1. PICK y \in Move : y = run[p] /\ Fits(y) /\ y.pc = "preview"
  BY AtMove DEF Preview, MovePcs
<1>2. Sane /\ Rows' /\ UNCHANGED <<change, tip, deleted, overwritten, landed, edit>>
  BY DEF Preview, Inv, TypeOK, Sane, Rows
<1>3. \E x \in Run : Set(p, x) /\ Fits(x)
  <2>1. CASE Set(p, [run[p] EXCEPT !.pc = "checks", !.s = tip[run[p].src], !.t = tip[run[p].dst]])
    <3>1. y.src \in Branches /\ y.dst \in Branches  BY DEF Move
    <3>2. PICK c \in Commit, d \in Commit : /\ c = tip[y.src] /\ d = tip[y.dst]
                                            /\ \A n \in c \cup d : Made(n)
      BY <3>1, TipTyped
    <3>3. PICK x : x = [y EXCEPT !.pc = "checks", !.s = c, !.t = d]  OBVIOUS
    <3>4. x \in Move  BY <3>3 DEF Move
    <3>5. Fits(x)
      BY <1>1, <3>2, <3>3, <3>4 DEF Fits, Move, Restack
    <3>q. QED  BY <1>1, <2>1, <3>2, <3>3, <3>4, <3>5 DEF Run
  <2>2. CASE Return(p)
    BY <2>2, IdleFits DEF Return
  <2>q. QED  BY <2>1, <2>2 DEF Preview
<1>q. QED  BY <1>2, <1>3, EditKept, Still

LEMMA ChecksInv ==
  ASSUME Inv, NEW p \in Clients, Checks(p)
  PROVE  Inv'
<1>1. PICK y \in Move : y = run[p] /\ Fits(y) /\ y.pc = "checks"
  BY AtMove DEF Checks, MovePcs
<1>2. Sane /\ Rows' /\ UNCHANGED <<change, tip, deleted, overwritten, landed, edit>>
  BY DEF Checks, Inv, TypeOK, Sane, Rows
<1>3. \E x \in Run : Set(p, x) /\ Fits(x)
  <2>1. CASE Set(p, [run[p] EXCEPT !.pc = "recheck", !.checked = tip[run[p].src]])
    <3>1. tip[y.src] \in Commit  BY TipTyped DEF Move
    <3>2. PICK x : x = [y EXCEPT !.pc = "recheck", !.checked = tip[y.src]]  OBVIOUS
    <3>3. x \in Move  BY <3>1, <3>2 DEF Move
    <3>4. Fits(x)  BY <1>1, <3>2, <3>3 DEF Fits, Move, Restack
    <3>q. QED  BY <1>1, <2>1, <3>2, <3>3, <3>4 DEF Run
  <2>2. CASE Return(p)
    BY <2>2, IdleFits DEF Return
  <2>q. QED  BY <2>1, <2>2 DEF Checks
<1>q. QED  BY <1>2, <1>3, EditKept, Still

LEMMA RecheckInv ==
  ASSUME Inv, NEW p \in Clients, Recheck(p)
  PROVE  Inv'
<1>1. PICK y \in Move : y = run[p] /\ Fits(y) /\ y.pc = "recheck"
  BY AtMove DEF Recheck, MovePcs
<1>2. y.src \in Branches /\ y.dst \in Branches  BY DEF Move
<1>3. CASE StillVerified(p)
  <2>1. PICK txt \in Texts :
        /\ Make(Merge, txt)
        /\ Set(p, [run[p] EXCEPT !.pc = "compare", !.id = Fresh, !.seenS = tip[run[p].src],
                                 !.new = tip[run[p].src] \cup tip[run[p].dst] \cup {Fresh}])
        /\ UNCHANGED <<tip, deleted, overwritten, landed, review, edit, claimed>>
    BY <1>3 DEF Recheck
  <2>2. Sane
    <3>1. file' \in [Numbers -> Texts]  BY <2>1 DEF Make, Inv, TypeOK
    <3>q. QED  BY <3>1 DEF Recheck, Inv, TypeOK, Sane
  <2>3. Merge \in Changes /\ Merge \notin Works /\ Merge # None
    BY NamesAssumption DEF Changes
  <2>4. TypeOK  BY DEF Inv
  <2>5. /\ Grows /\ Fresh \in Numbers /\ change'[Fresh] = Merge
        /\ \A n \in Numbers : Made(n) => Made(n)'
    BY <2>1, <2>3, <2>4, MakeGrows
  <2>6. PICK f \in Numbers : f = Fresh  BY <2>5
  <2>7. PICK c \in Commit, d \in Commit : /\ c = tip[y.src] /\ d = tip[y.dst]
                                          /\ \A n \in c \cup d : Made(n)
    BY <1>2, TipTyped
  <2>8. y.t = d  BY <1>1, <1>3, <2>7 DEF StillVerified
  <2>9. PICK x : x = [y EXCEPT !.pc = "compare", !.id = f, !.seenS = c, !.new = c \cup d \cup {f}]
    OBVIOUS
  <2>10. /\ x \in Move /\ x.pc = "compare" /\ x.kind = y.kind /\ x.s = y.s /\ x.t = d
         /\ x.seenT = y.seenT /\ x.seenS = c /\ x.new = c \cup d \cup {f} /\ x.id = f
         /\ x.src = y.src /\ x.dst = y.dst
    BY <2>8, <2>9 DEF Move, Commit
  <2>11. Made(f)' /\ change'[f] = Merge  BY <2>3, <2>5, <2>6 DEF Made
  <2>12. y.kind = "merge"
         /\ \A n \in y.s \cup y.t \cup y.seenT : n \in Numbers /\ Made(n)
    BY <1>1 DEF Fits, Move, Commit
  <2>13. \A n \in x.s \cup x.t \cup x.seenS \cup x.seenT \cup x.new : Made(n)'
    BY <2>5, <2>7, <2>8, <2>10, <2>11, <2>12 DEF Commit
  <2>14. Fits(x)'
    BY <2>10, <2>11, <2>12, <2>13 DEF Fits, Restack
  <2>q. QED  BY <1>1, <2>1, <2>2, <2>3, <2>6, <2>7, <2>9, <2>10, <2>14, MakeStill DEF Run
<1>4. CASE ~StillVerified(p)
  <2>1. Set(p, Idle) /\ UNCHANGED <<change, tip, deleted, overwritten, landed, edit>>
    BY <1>4 DEF Recheck, Return
  <2>2. Sane /\ Rows'  BY <1>4 DEF Recheck, Inv, TypeOK, Sane, Rows
  <2>q. QED  BY <2>1, <2>2, IdleFits, EditKept, Still
<1>q. QED  BY <1>3, <1>4

LEMMA CompareInv ==
  ASSUME Inv, NEW p \in Clients, Compare(p)
  PROVE  Inv'
<1>1. PICK y \in Move : y = run[p] /\ Fits(y) /\ y.pc = "compare"
  BY AtMove DEF Compare, MovePcs
<1>2. Sane /\ Rows' /\ UNCHANGED <<change, tip, deleted, overwritten, landed, edit>>
  BY DEF Compare, Inv, TypeOK, Sane, Rows
<1>3. \E x \in Run : Set(p, x) /\ Fits(x)
  <2>1. CASE Unmoved(p)
    <3>1. Set(p, [run[p] EXCEPT !.pc = "write", !.seenT = tip[run[p].dst]])  BY <2>1 DEF Compare
    <3>2. tip[y.dst] = y.t  BY <1>1, <2>1 DEF Unmoved
    <3>3. PICK x : x = [y EXCEPT !.pc = "write", !.seenT = y.t]  OBVIOUS
    <3>4. x \in Move  BY <3>3 DEF Move
    <3>5. Fits(x)  BY <1>1, <3>3, <3>4 DEF Fits, Move, Restack
    <3>q. QED  BY <1>1, <3>1, <3>2, <3>3, <3>4, <3>5 DEF Run
  <2>2. CASE ~Unmoved(p)
    BY <2>2, IdleFits DEF Compare, Return
  <2>q. QED  BY <2>1, <2>2
<1>q. QED  BY <1>2, <1>3, EditKept, Still

LEMMA MarkMergedInv ==
  ASSUME Inv, NEW p \in Clients, MarkMerged(p)
  PROVE  Inv'
<1>1. PICK y \in Move : y = run[p] /\ Fits(y) /\ y.pc = "state"
  BY AtMove DEF MarkMerged, MovePcs
<1>2. y.r \in Reviews /\ landed[y.r] # {}  BY <1>1 DEF Move, Fits
<1>3. /\ UNCHANGED <<change, tip, deleted, overwritten, landed, edit>>
      /\ review' = [review EXCEPT ![y.r].state = "Merged"]
  BY <1>1 DEF MarkMerged
<1>4. \A r \in Reviews : /\ review'[r].source = review[r].source
                         /\ review'[r].target = review[r].target
                         /\ review'[r].state = IF r = y.r THEN "Merged" ELSE review[r].state
                         /\ review'[r] \in ReviewRow
  BY <1>2, <1>3 DEF Inv, TypeOK, ReviewRow, States
<1>5. review' \in [Reviews -> ReviewRow]  BY <1>3, <1>4 DEF Inv, TypeOK
<1>6. Sane  BY <1>5 DEF MarkMerged, Inv, TypeOK, Sane
<1>7. Rows'  BY <1>2, <1>3, <1>4 DEF MarkMerged, Inv, Rows
<1>8. \E x \in Run : Set(p, x) /\ Fits(x)
  <2>1. PICK l \in {"delete", "retarget"} : Goto(p, l)  BY DEF MarkMerged
  <2>2. PICK x : x = [y EXCEPT !.pc = l]  OBVIOUS
  <2>3. x \in Move  BY <2>2 DEF Move
  <2>4. Fits(x)  BY <1>1, <2>2, <2>3 DEF Fits, Move, Restack
  <2>q. QED  BY <1>1, <2>1, <2>2, <2>3, <2>4 DEF Run, Goto
<1>q. QED  BY <1>3, <1>6, <1>7, <1>8, EditKept, Still

LEMMA RetargetInv ==
  ASSUME Inv, NEW p \in Clients, Retarget(p)
  PROVE  Inv'
<1>1. PICK y \in Move : y = run[p] /\ Fits(y) /\ y.pc = "retarget"
  BY AtMove DEF Retarget, MovePcs
<1>2. y.r \in Reviews  BY DEF Move
<1>3. /\ UNCHANGED <<change, tip, deleted, overwritten, landed, edit>>
      /\ review' = [c \in Reviews |-> IF c \in Children(y.r)
                                      THEN [review[c] EXCEPT !.target = review[y.r].target]
                                      ELSE review[c]]
      /\ Set(p, Idle)
  BY <1>1 DEF Retarget, Return
<1>4. ASSUME NEW c \in Reviews
      PROVE  review'[c] \in ReviewRow /\ review'[c].state = review[c].state
  <2>1. CASE c \in Children(y.r)
    <3>1. review'[c] = [review[c] EXCEPT !.target = review[y.r].target]  BY <1>3, <2>1
    <3>q. QED  BY <1>2, <3>1, RowTyped DEF ReviewRow
  <2>2. CASE c \notin Children(y.r)
    BY <1>3, <2>2, RowTyped
  <2>q. QED  BY <2>1, <2>2
<1>5. review' \in [Reviews -> ReviewRow]  BY <1>3, <1>4
<1>6. Sane
  <2>1. crossed' \subseteq Reviews  BY DEF Retarget, Inv, TypeOK
  <2>q. QED  BY <1>5, <2>1 DEF Retarget, Inv, TypeOK, Sane
<1>7. Rows'  BY <1>3, <1>4 DEF Retarget, Inv, Rows
<1>q. QED  BY <1>3, <1>6, <1>7, IdleFits, EditKept, Still

(* Commands of the database. *)
LEMMA RecordInv ==
  ASSUME Inv, NEW p \in Clients, Record(p)
  PROVE  Inv'
<1>1. PICK y \in Move : y = run[p] /\ Fits(y) /\ y.pc = "record"
  BY AtMove DEF Record, MovePcs
<1>2. <<Edit, 0>> \in Kept(Shown)  BY <1>1 DEF Fits
<1>3. y.id \in Numbers  BY DEF Move
<1>4. edit \in Suggestion  BY DEF Inv, TypeOK
<1>5. Recorded(y.id) \in Suggestion
  BY <1>3, <1>4 DEF Recorded, Suggestion, Statuses
<1>6. edit' \in Suggestion  BY <1>1, <1>4, <1>5 DEF Record
<1>7. Sane /\ Rows'  BY <1>6 DEF Record, Inv, TypeOK, Sane, Rows
<1>8. UNCHANGED <<change, tip, deleted, overwritten, landed>> /\ Set(p, Idle)  BY DEF Record, Return
<1>q. QED  BY <1>2, <1>7, <1>8, IdleFits, Still

LEMMA BeginStatusInv ==
  ASSUME Inv, NEW p \in Clients, BeginStatus(p)
  PROVE  Inv'
<1>1. PICK to \in Statuses : Begin(p) /\ Set(p, [pc |-> "set", status |-> to])
  BY DEF BeginStatus
<1>2. PICK x : x = [pc |-> "set", status |-> to]  OBVIOUS
<1>3. x \in Run /\ Fits(x)  BY <1>2 DEF Run, Fits, Move, Restack
<1>4. Sane /\ Rows' /\ UNCHANGED <<change, tip, deleted, overwritten, landed, edit>>
  BY <1>1, BeginTyped DEF BeginStatus, Inv, TypeOK, Sane, Rows
<1>q. QED  BY <1>1, <1>2, <1>3, <1>4, EditKept, Still

LEMMA SetStatusInv ==
  ASSUME Inv, NEW p \in Clients, SetStatus(p)
  PROVE  Inv'
<1>1. run[p] \in Run /\ run[p].pc = "set" /\ edit \in Suggestion  BY DEF SetStatus, Inv, TypeOK
<1>2. run[p].status \in Statuses  BY <1>1 DEF Run, Move, Restack
<1>3. /\ edit' = [edit EXCEPT !.status = run[p].status, !.loose = @ \/ run[p].status = "OPEN"]
      /\ Set(p, Idle) /\ UNCHANGED <<change, tip, deleted, overwritten, landed>>
  BY DEF SetStatus, Return
<1>4. edit' \in Suggestion /\ edit'.applied = edit.applied
  BY <1>1, <1>2, <1>3 DEF Suggestion
<1>5. Sane /\ Rows'  BY <1>4 DEF SetStatus, Inv, TypeOK, Sane, Rows
<1>q. QED  BY <1>3, <1>4, <1>5, IdleFits, EditKept, Still

LEMMA UpdateInv ==
  ASSUME Inv, NEW r \in Reviews, Update(r)
  PROVE  Inv'
<1>1. PICK w \in ReviewRow :
         /\ begun < MaxCommands /\ begun' = begun + 1
         /\ review' = [review EXCEPT ![r] = w] /\ rewritten' = rewritten \cup {r}
         /\ claimed' = IF w.state = "Merged" /\ landed[r] = {} THEN claimed \cup {r} ELSE claimed
         /\ UNCHANGED <<change, file, tip, edit, run, faults, overwritten, landed, broken, crossed, forwarded, deleted>>
  BY DEF Update
<1>2. TypeOK  BY DEF Inv
<1>3. review' \in [Reviews -> ReviewRow]  BY <1>1, <1>2 DEF TypeOK
<1>4. \A c \in Reviews : review'[c] = IF c = r THEN w ELSE review[c]  BY <1>1, <1>2 DEF TypeOK
<1>5. begun' \in 0..MaxCommands  BY <1>1, <1>2, BoundsAssumption DEF TypeOK
<1>6. Sane  BY <1>1, <1>2, <1>3, <1>5 DEF TypeOK, Sane
<1>7. Rows'  BY <1>1, <1>4 DEF Inv, Rows
<1>8. UNCHANGED <<change, tip, deleted, overwritten, landed, edit, run>>  BY <1>1
<1>q. QED  BY <1>6, <1>7, <1>8, AsideInv

LEMMA FailInv ==
  ASSUME Inv, NEW p \in Clients, Fail(p)
  PROVE  Inv'
<1>1. /\ Set(p, Idle) /\ UNCHANGED <<change, file, tip, review, begun, overwritten, landed, crossed, rewritten, forwarded, claimed, deleted>>
      /\ faults < MaxFaults /\ faults' = faults + 1
  BY DEF Fail, Return
<1>2. edit' \in Suggestion /\ edit'.applied = edit.applied
  <2>1. edit \in Suggestion  BY DEF Inv, TypeOK
  <2>2. CASE run[p].pc = "record"
    <3>1. edit' = [edit EXCEPT !.loose = TRUE]  BY <2>2 DEF Fail
    <3>q. QED  BY <2>1, <3>1 DEF Suggestion
  <2>3. CASE run[p].pc # "record"
    BY <2>1, <2>3 DEF Fail
  <2>q. QED  BY <2>2, <2>3
<1>3. broken' \subseteq Reviews
  <2>1. CASE run[p].pc \in {"state", "delete", "retarget"}
    <3>1. PICK y \in Move : y = run[p]  BY <2>1, AtMove DEF MovePcs
    <3>2. run[p].r \in Reviews  BY <3>1 DEF Move
    <3>q. QED  BY <2>1, <3>2 DEF Fail, Inv, TypeOK
  <2>2. CASE ~(run[p].pc \in {"state", "delete", "retarget"})
    BY <2>2 DEF Fail, Inv, TypeOK
  <2>q. QED  BY <2>1, <2>2
<1>4. faults' \in 0..MaxFaults  BY <1>1, BoundsAssumption DEF Inv, TypeOK
<1>5. Sane /\ Rows'  BY <1>1, <1>2, <1>3, <1>4 DEF Inv, TypeOK, Sane, Rows
<1>q. QED  BY <1>1, <1>2, <1>5, IdleFits, EditKept, Still

LEMMA BeginRestackInv ==
  ASSUME Inv, NEW p \in Clients, BeginRestack(p)
  PROVE  Inv'
<1>1. /\ Begin(p) /\ Len(Stack) > 0
      /\ Set(p, [pc |-> "member", left |-> 1, tips |-> tip, prev |-> tip[Trunk], base |-> tip[Trunk]])
      /\ UNCHANGED <<change, tip, deleted, overwritten, landed, edit>>
  BY DEF BeginRestack
<1>2. PICK c \in Commit : c = tip[Trunk] /\ \A n \in c : Made(n)
  BY TipTyped, NamesAssumption
<1>3. PICK x : x = [pc |-> "member", left |-> 1, tips |-> tip, prev |-> c, base |-> c]  OBVIOUS
<1>4. Len(Stack) \in Nat  BY NamesAssumption
<1>5. tip \in [Branches -> Commit]  BY DEF Inv, TypeOK
<1>6. x \in Restack
  BY <1>1, <1>2, <1>3, <1>4, <1>5 DEF Restack
<1>7. Fits(x)
  <2>1. x \notin Move  BY <1>3 DEF Move
  <2>2. x.prev = c /\ x.base = c /\ x.tips = tip /\ x.pc = "member"  BY <1>3
  <2>3. \A b \in Branches : \A n \in tip[b] : Made(n)  BY TipTyped
  <2>q. QED  BY <1>2, <2>1, <2>2, <2>3 DEF Fits
<1>8. Sane /\ Rows'  BY <1>1, BeginTyped DEF BeginRestack, Inv, TypeOK, Sane, Rows
<1>q. QED  BY <1>1, <1>2, <1>3, <1>6, <1>7, <1>8, EditKept, Still DEF Run

LEMMA BeginPickInv ==
  ASSUME Inv, NEW p \in Clients, NEW r \in Reviews, BeginPick(p, r)
  PROVE  Inv'
<1>1. PICK n \in Reachable, txt \in Texts :
         /\ Begin(p)
         /\ change[n] \in Works /\ Make(change[n], txt)
         /\ Set(p, [Mover("write", "pick", r, review[r].source, review[r].source)
                      EXCEPT !.t = tip[review[r].source], !.seenT = tip[review[r].source],
                             !.new = tip[review[r].source] \cup {Fresh}])
         /\ UNCHANGED <<tip, review, edit, faults, overwritten, landed, broken, crossed, rewritten, forwarded, claimed, deleted>>
  BY DEF BeginPick
<1>2. TypeOK /\ Stored  BY DEF Inv
<1>3. n \in Numbers  BY <1>2 DEF Reachable, TypeOK, Commit
<1>4. PICK w \in Works : w = change[n]  BY <1>1
<1>5. w \in Changes /\ w # Merge /\ w # None  BY NamesAssumption DEF Changes
<1>6. <<w, 0>> \in Kept(Shown)
  <2>1. Sig(n) = <<w, 0>>  BY <1>4, <1>5 DEF Sig
  <2>q. QED  BY <1>1, <1>2, <1>3, <2>1 DEF Stored
<1>7. /\ Grows /\ Fresh \in Numbers /\ change'[Fresh] = w
      /\ \A m \in Numbers : Made(m) => Made(m)'
  BY <1>1, <1>2, <1>4, <1>5, MakeGrows
<1>8. PICK f \in Numbers : f = Fresh  BY <1>7
<1>9. PICK b \in Branches, c \in Commit : /\ b = review[r].source /\ c = tip[b]
                                            /\ \A m \in c : Made(m)
  BY RowTyped, TipTyped
<1>10. PICK m \in Move : m = Mover("write", "pick", r, b, b)  BY MoverTyped DEF MovePcs
<1>11. PICK x : x = [m EXCEPT !.t = c, !.seenT = c, !.new = c \cup {f}]  OBVIOUS
<1>12. /\ x \in Move /\ x.pc = "write" /\ x.kind = "pick" /\ x.s = {} /\ x.t = c
       /\ x.seenT = c /\ x.seenS = {} /\ x.new = c \cup {f}
  BY <1>10, <1>11 DEF Mover, Move, Commit
<1>13. Made(f)'  BY <1>5, <1>7, <1>8 DEF Made
<1>14. \A k \in c : Made(k)'  BY <1>7, <1>9 DEF Commit
<1>15. Fits(x)'  BY <1>12, <1>13, <1>14 DEF Fits, Restack
<1>16. Sane
  <2>1. file' \in [Numbers -> Texts]  BY <1>1, <1>2 DEF Make, TypeOK
  <2>q. QED  BY <1>1, <2>1, BeginTyped DEF Inv, TypeOK, Sane
<1>q. QED  BY <1>1, <1>4, <1>5, <1>6, <1>8, <1>9, <1>10, <1>11, <1>12, <1>15, <1>16, MakeStill DEF Run

LEMMA BeginApplyInv ==
  ASSUME Inv, NEW p \in Clients, BeginApply(p)
  PROVE  Inv'
<1>1. PICK b \in Branches, c \in Commit : /\ b = review[SuggestedOn].source /\ c = tip[b]
                                            /\ \A m \in c : Made(m)
  BY RowTyped, TipTyped, NamesAssumption
<1>2. Begin(p) /\ UNCHANGED <<tip, review, faults, overwritten, landed, broken, crossed, rewritten, forwarded, claimed, deleted>>
  BY DEF BeginApply
<1>3. begun' \in 0..MaxCommands  BY <1>2, BeginTyped
<1>4. CASE FileUnchanged(c)
  <2>1. /\ Make(Edit, Edited) /\ UNCHANGED edit
        /\ Set(p, [Mover("compare", "apply", SuggestedOn, b, b)
                     EXCEPT !.t = c, !.id = Fresh, !.new = c \cup {Fresh}])
    BY <1>1, <1>4 DEF BeginApply
  <2>2. Edit \in Changes /\ Edit \notin Works /\ Edit # None /\ Edit # Merge /\ Edited \in Texts
    BY NamesAssumption DEF Changes
  <2>3. TypeOK  BY DEF Inv
  <2>4. /\ Grows /\ Fresh \in Numbers /\ change'[Fresh] = Edit
        /\ \A m \in Numbers : Made(m) => Made(m)'
    BY <2>1, <2>2, <2>3, MakeGrows
  <2>5. PICK f \in Numbers : f = Fresh  BY <2>4
  <2>6. PICK m \in Move : m = Mover("compare", "apply", SuggestedOn, b, b)
    BY MoverTyped, NamesAssumption DEF MovePcs
  <2>7. PICK x : x = [m EXCEPT !.t = c, !.id = f, !.new = c \cup {f}]  OBVIOUS
  <2>8. /\ x \in Move /\ x.pc = "compare" /\ x.kind = "apply" /\ x.s = {} /\ x.t = c
        /\ x.seenT = {} /\ x.seenS = {} /\ x.new = c \cup {f} /\ x.id = f
    BY <2>6, <2>7 DEF Mover, Move, Commit
  <2>9. Made(f)' /\ change'[f] = Edit  BY <2>2, <2>4, <2>5 DEF Made
  <2>10. \A k \in c : Made(k)'  BY <1>1, <2>4 DEF Commit
  <2>11. Fits(x)'  BY <2>8, <2>9, <2>10 DEF Fits, Restack
  <2>12. Sane
    <3>1. file' \in [Numbers -> Texts]  BY <2>1, <2>2, <2>3 DEF Make, TypeOK
    <3>q. QED  BY <1>2, <1>3, <2>1, <3>1 DEF Inv, TypeOK, Sane
  <2>q. QED  BY <1>2, <2>1, <2>2, <2>5, <2>6, <2>7, <2>8, <2>11, <2>12, MakeStill DEF Run
<1>5. CASE ~FileUnchanged(c)
  <2>1. edit' = [edit EXCEPT !.conflicts = TRUE] /\ UNCHANGED <<change, file, run>>
    BY <1>1, <1>5 DEF BeginApply
  <2>2. edit \in Suggestion /\ run \in [Clients -> Run]  BY DEF Inv, TypeOK
  <2>3. edit' \in Suggestion /\ edit'.applied = edit.applied
    BY <2>1, <2>2 DEF Suggestion
  <2>4. Sane /\ Rows'  BY <1>2, <1>3, <2>1, <2>3 DEF Inv, TypeOK, Sane, Rows
  <2>5. PICK x \in Run : x = run[p] /\ Fits(x)  BY <2>2 DEF Inv
  <2>6. run' = [run EXCEPT ![p] = x]  BY <2>1, <2>2, <2>5
  <2>q. QED  BY <1>2, <2>1, <2>3, <2>4, <2>5, <2>6, EditKept, Still DEF Set
<1>q. QED  BY <1>4, <1>5

-----------------------------------------------------------------------------
(* Steps that move refs.                                                    *)

(* What a branch showed stays on it, as a copy or the commit itself, or was *)
(* overwritten. *)
LEMMA KeepsInPlace ==
  ASSUME TypeOK, overwritten \subseteq overwritten', deleted \subseteq deleted', Grows, Stored,
         \A b \in Branches : \A n \in tip[b] : Sig(n) \in Kept(overwritten \cup tip[b])'
  PROVE  Keeps
<1>1. ASSUME NEW f \in Rankings, NEW k \in Nat, Respects(f), NEW n \in Below(f, k)
      PROVE  Sig(n) \in Kept(Below(f, k))'
  <2>1. CASE n \in overwritten
    <3>1. n \in Numbers /\ Made(n) /\ n \in Below(f, k)'  BY <2>1 DEF TypeOK, Commit, Stored, Below
    <3>2. Sig(n)' = Sig(n)  BY <3>1, SigKept
    <3>q. QED  BY <3>1, <3>2 DEF Kept
  <2>2. CASE \E b \in Branches : f[b] < k /\ n \in tip[b]
    <3>1. PICK b \in Branches : f[b] < k /\ n \in tip[b]  BY <2>2
    <3>2. (overwritten \cup tip[b])' \subseteq Below(f, k)'  BY <3>1 DEF Below
    <3>3. Kept(overwritten \cup tip[b])' \subseteq Kept(Below(f, k))'  BY <3>2 DEF Kept
    <3>q. QED  BY <3>1, <3>3
  <2>q. QED  BY <1>1, <2>1, <2>2 DEF Below
<1>2. \A f \in Rankings, k \in Nat : Respects(f) => Kept(Below(f, k)) \subseteq Kept(Below(f, k))'
  BY <1>1 DEF Kept
<1>q. QED  BY <1>2, KeepsAll

LEMMA RefsMove ==
  ASSUME Inv, Grows, Keeps, Lands, Sane, UNCHANGED <<review, edit, claimed>>,
         \A n \in Numbers : Made(n)' <=> n <= Count',
         tip' \in [Branches -> Commit],
         \A b \in Branches : \A n \in tip'[b] : Made(n)',
         overwritten' \in Commit, \A n \in overwritten' : Made(n)',
         landed' \in [Reviews -> Commit],
         \A r \in Reviews : \A n \in landed'[r] \ landed[r] :
            change'[n] = Merge /\ Sig(n)' \in Kept(Shown)',
         \A n \in Numbers : change'[n] \in Works /\ ~Made(n) => Sig(n)' \in Kept(Shown)',
         run' \in [Clients -> Run], \A q \in Clients : Fits(run[q])'
  PROVE  Inv'
<1>1. TypeOK /\ Stored /\ Rows  BY DEF Inv
<1>2. TypeOK'
  <2>1. \A b \in Branches, n \in Numbers : n \in tip'[b] => Made(n)'  OBVIOUS
  <2>q. QED  BY <2>1 DEF TypeOK, Sane, Grows
<1>3. Rows'  BY <1>1 DEF Rows, Lands
<1>4. Kept(Shown) \subseteq Kept(Shown)'  BY DEF Keeps
<1>5. Stored'
  <2>1. ASSUME NEW n \in Numbers, change'[n] \in Works  PROVE Sig(n)' \in Kept(Shown)'
    <3>1. CASE Made(n)
      <4>1. change'[n] = change[n] /\ Sig(n)' = Sig(n)  BY <3>1, SigKept DEF Grows
      <4>q. QED  BY <1>1, <1>4, <2>1, <4>1 DEF Stored
    <3>q. QED  BY <2>1, <3>1
  <2>2. ASSUME NEW r \in Reviews, NEW n \in landed'[r]
        PROVE  change'[n] = Merge /\ Sig(n)' \in Kept(Shown)'
    <3>1. CASE n \in landed[r]
      <4>1. n \in Numbers  BY <1>1, <3>1 DEF TypeOK, Commit
      <4>2. change[n] = Merge /\ Sig(n) \in Kept(Shown)  BY <1>1, <3>1 DEF Stored
      <4>3. Made(n)  BY <4>2, NoneIsNone DEF Made, Changes
      <4>4. change'[n] = change[n] /\ Sig(n)' = Sig(n)  BY <4>1, <4>3, SigKept DEF Grows
      <4>q. QED  BY <1>4, <4>2, <4>4
    <3>q. QED  BY <2>2, <3>1
  <2>q. QED  BY <1>1, <1>4, <2>1, <2>2 DEF Stored
<1>q. QED  BY <1>2, <1>3, <1>5 DEF Inv

LEMMA PushInv ==
  ASSUME Inv, NEW b \in Branches, Push(b)
  PROVE  Inv'
<1>1. PICK w \in Works, txt \in Texts :
         /\ Make(w, txt)
         /\ tip' = [tip EXCEPT ![b] = @ \cup {Fresh}]
         /\ UNCHANGED <<review, edit, run, begun, faults, overwritten, landed, broken, crossed, rewritten, forwarded, claimed, deleted>>
  BY DEF Push
<1>2. TypeOK /\ Stored  BY DEF Inv
<1>3. w \in Changes /\ w # Merge /\ w # None  BY NamesAssumption DEF Changes
<1>4. /\ Grows /\ Fresh \in Numbers /\ change'[Fresh] = w
      /\ change' = [change EXCEPT ![Fresh] = w]
      /\ \A n \in Numbers : Made(n)' <=> n <= Count'
      /\ \A n \in Numbers : Made(n) => Made(n)'
  BY <1>1, <1>2, <1>3, MakeGrows
<1>5. PICK f \in Numbers : f = Fresh  BY <1>4
<1>6. tip' = [tip EXCEPT ![b] = @ \cup {f}] /\ tip \in [Branches -> Commit]
  BY <1>1, <1>2, <1>5 DEF TypeOK
<1>7. \A d \in Branches : tip'[d] = IF d = b THEN tip[d] \cup {f} ELSE tip[d]
  BY <1>6
<1>8. tip' \in [Branches -> Commit]  BY <1>6 DEF Commit
<1>9. \A d \in Branches : \A n \in tip[d] : n \in Numbers /\ Made(n)
  BY <1>2 DEF TypeOK, Commit
<1>10. Made(f)'  BY <1>3, <1>4, <1>5 DEF Made
<1>11. \A d \in Branches : \A n \in tip'[d] : Made(n)'
  BY <1>4, <1>7, <1>9, <1>10
<1>12. Keeps
  <2>1. ASSUME NEW d \in Branches, NEW n \in tip[d]
        PROVE  Sig(n) \in Kept(overwritten \cup tip[d])'
    <3>1. Sig(n)' = Sig(n)  BY <1>4, <1>9, SigKept
    <3>2. n \in (overwritten \cup tip[d])'  BY <1>7
    <3>q. QED  BY <3>1, <3>2 DEF Kept
  <2>q. QED  BY <1>1, <1>2, <1>4, <2>1, KeepsInPlace
<1>13. Lands  BY <1>1 DEF Lands
<1>14. run' \in [Clients -> Run] /\ \A q \in Clients : Fits(run[q])'
  BY <1>1, <1>4, <1>12, <1>13, NoneMoves
<1>15. Sane
  <2>1. file' \in [Numbers -> Texts]  BY <1>1, <1>2 DEF Make, TypeOK
  <2>q. QED  BY <1>1, <2>1 DEF Inv, TypeOK, Sane
<1>16. \A n \in Numbers : change'[n] \in Works /\ ~Made(n) => Sig(n)' \in Kept(Shown)'
  <2>1. f \in Shown'
    <3>1. f \in tip'[b]  BY <1>7
    <3>q. QED  BY <3>1 DEF Shown, Reachable
  <2>2. Sig(f)' \in Kept(Shown)'  BY <2>1 DEF Kept
  <2>3. \A n \in Numbers : n # f => change'[n] = change[n]  BY <1>2, <1>4, <1>5 DEF TypeOK
  <2>4. \A n \in Numbers : change[n] \in Works => Made(n)  BY NamesAssumption DEF Made
  <2>q. QED  BY <2>2, <2>3, <2>4
<1>17. overwritten' \in Commit /\ \A n \in overwritten' : Made(n)'
  BY <1>1, <1>2, <1>4 DEF TypeOK, Stored, Commit
<1>q. QED
  BY <1>1, <1>2, <1>4, <1>8, <1>11, <1>12, <1>13, <1>14, <1>15, <1>16, <1>17, RefsMove DEF TypeOK

LEMMA WriteInv ==
  ASSUME Inv, NEW p \in Clients, Write(p)
  PROVE  Inv'
<1>1. PICK y \in Move : y = run[p] /\ Fits(y) /\ y.pc = "write"
  BY AtMove DEF Write, MovePcs
<1>2. /\ y.dst \in Branches /\ y.src \in Branches /\ y.r \in Reviews /\ y.id \in Numbers
      /\ y.new \in Commit /\ y.seenS \in Commit /\ y.kind \in {"merge", "apply", "pick"}
  BY DEF Move
<1>3. /\ y.seenT \subseteq y.new /\ \A n \in y.new : n \in Numbers /\ Made(n)
      /\ y.kind = "merge" => /\ y.seenS \subseteq y.new /\ y.id \in y.new /\ change[y.id] = Merge
      /\ y.kind = "apply" => y.id \in y.new /\ change[y.id] = Edit
  BY <1>1, <1>2 DEF Fits, Commit
<1>4. /\ tip' = [tip EXCEPT ![y.dst] = y.new]
      /\ overwritten' = overwritten \cup (tip[y.dst] \ y.seenT)
      /\ landed' = IF y.kind = "merge" THEN [landed EXCEPT ![y.r] = @ \cup {y.id}] ELSE landed
      /\ UNCHANGED <<change, file, review, edit, begun, faults, broken, crossed, rewritten, forwarded, claimed, deleted>>
  BY <1>1 DEF Write
<1>5. TypeOK /\ Stored  BY DEF Inv
<1>6. /\ Grows /\ \A n : Sig(n)' = Sig(n) /\ Made(n)' = Made(n)
      /\ \A n \in Numbers : Made(n)' <=> n <= Count'
  BY <1>4, <1>5 DEF TypeOK, Grows, Sig, Made, Count
<1>7. \A d \in Branches : tip'[d] = IF d = y.dst THEN y.new ELSE tip[d]
  BY <1>4, <1>5 DEF TypeOK
<1>8. tip' \in [Branches -> Commit]  BY <1>2, <1>4, <1>5 DEF TypeOK
<1>9. \A d \in Branches : tip[d] \in Commit /\ \A n \in tip[d] : Made(n)  BY TipTyped
<1>10. \A d \in Branches : \A n \in tip'[d] : Made(n)'
  BY <1>3, <1>6, <1>7, <1>9
<1>11. overwritten' \in Commit /\ \A n \in overwritten' : Made(n)'
  BY <1>2, <1>4, <1>5, <1>6, <1>9 DEF TypeOK, Stored, Commit
<1>12. Keeps
  <2>1. ASSUME NEW d \in Branches, NEW n \in tip[d]
        PROVE  Sig(n) \in Kept(overwritten \cup tip[d])'
    <3>1. n \in (overwritten \cup tip[d])'  BY <1>3, <1>4, <1>7
    <3>q. QED  BY <1>6, <3>1 DEF Kept
  <2>q. QED  BY <1>4, <1>5, <1>6, <2>1, KeepsInPlace
<1>13. landed' \in [Reviews -> Commit] /\ Lands
  BY <1>2, <1>4, <1>5 DEF TypeOK, Commit, Lands
<1>14. y.new \subseteq Shown'
  <2>1. tip'[y.dst] = y.new  BY <1>2, <1>7
  <2>q. QED  BY <1>2, <2>1 DEF Shown, Reachable
<1>15. \A r \in Reviews : \A n \in landed'[r] \ landed[r] :
           change'[n] = Merge /\ Sig(n)' \in Kept(Shown)'
  <2>1. TAKE r \in Reviews
  <2>2. TAKE n \in landed'[r] \ landed[r]
  <2>3. n = y.id /\ y.kind = "merge"  BY <1>2, <1>4, <1>5 DEF TypeOK
  <2>4. n \in Shown' /\ change'[n] = Merge  BY <1>3, <1>4, <1>14, <2>3
  <2>q. QED  BY <2>4 DEF Kept
<1>16. \E x \in Run : Set(p, x) /\ Fits(x)'
  <2>1. CASE y.kind = "merge"
    <3>1. Set(p, [run[p] EXCEPT !.pc = "state"])
      BY <1>1, <2>1 DEF Write, Goto, AfterWrite
    <3>2. PICK x : x = [y EXCEPT !.pc = "state"]  OBVIOUS
    <3>3. /\ x \in Move /\ x.pc = "state" /\ x.kind = y.kind /\ x.src = y.src /\ x.dst = y.dst
          /\ x.seenS = y.seenS /\ x.r = y.r /\ x.s = y.s /\ x.t = y.t /\ x.seenT = y.seenT
          /\ x.new = y.new
      BY <3>2 DEF Move
    <3>4. landed'[y.r] # {}  BY <1>2, <1>4, <1>5, <2>1 DEF TypeOK
    <3>5. ASSUME NEW f \in Rankings, f[y.src] > f[y.dst]
          PROVE  Kept(y.seenS)' \subseteq Kept(Below(f, f[y.src]))'
      <4>1. y.seenS \subseteq tip'[y.dst] /\ f[y.dst] < f[y.src]
        BY <1>2, <1>3, <1>7, <2>1, <3>5, RankTyped
      <4>2. y.seenS \subseteq Below(f, f[y.src])'  BY <1>2, <4>1 DEF Below
      <4>q. QED  BY <4>2 DEF Kept
    <3>6. \A n \in x.s \cup x.t \cup x.seenS \cup x.seenT \cup x.new : Made(n)'
      BY <1>1, <1>6, <3>3 DEF Fits
    <3>7. Fits(x)'  BY <1>3, <2>1, <3>3, <3>4, <3>5, <3>6 DEF Fits, Restack
    <3>q. QED  BY <1>1, <3>1, <3>2, <3>3, <3>7 DEF Run
  <2>2. CASE y.kind = "apply"
    <3>1. Set(p, [run[p] EXCEPT !.pc = "record"])
      BY <1>1, <2>2 DEF Write, Goto, AfterWrite
    <3>2. PICK x : x = [y EXCEPT !.pc = "record"]  OBVIOUS
    <3>3. /\ x \in Move /\ x.pc = "record" /\ x.kind = y.kind /\ x.s = y.s /\ x.t = y.t
          /\ x.seenS = y.seenS /\ x.seenT = y.seenT /\ x.new = y.new
      BY <3>2 DEF Move
    <3>4. Sig(y.id)' = <<Edit, 0>>  BY <1>3, <1>6, <2>2, NamesAssumption DEF Sig
    <3>5. <<Edit, 0>> \in Kept(Shown)'  BY <1>3, <1>14, <2>2, <3>4 DEF Kept
    <3>6. \A n \in x.s \cup x.t \cup x.seenS \cup x.seenT \cup x.new : Made(n)'
      BY <1>1, <1>6, <3>3 DEF Fits
    <3>7. Fits(x)'  BY <2>2, <3>3, <3>5, <3>6 DEF Fits, Restack
    <3>q. QED  BY <1>1, <3>1, <3>2, <3>3, <3>7 DEF Run
  <2>3. CASE y.kind = "pick"
    BY <1>1, <2>3, IdleFits DEF Write, Return
  <2>q. QED  BY <1>2, <2>1, <2>2, <2>3
<1>17. run' \in [Clients -> Run] /\ \A q \in Clients : Fits(run[q])'
  BY <1>6, <1>12, <1>13, <1>16, OneMoves
<1>18. Sane  BY <1>4, <1>5 DEF TypeOK, Sane
<1>19. \A n \in Numbers : change'[n] \in Works /\ ~Made(n) => Sig(n)' \in Kept(Shown)'
  BY <1>4, NamesAssumption DEF Made
<1>q. QED
  BY <1>4, <1>6, <1>8, <1>10, <1>11, <1>12, <1>13, <1>15, <1>17, <1>18, <1>19, RefsMove

LEMMA DeleteSourceInv ==
  ASSUME Inv, NEW p \in Clients, DeleteSource(p)
  PROVE  Inv'
<1>1. PICK y \in Move : y = run[p] /\ Fits(y) /\ y.pc = "delete"
  BY AtMove DEF DeleteSource, MovePcs
<1>2. y.src \in Branches /\ y.dst \in Branches /\ y.r \in Reviews  BY DEF Move
<1>3. TypeOK /\ Stored  BY DEF Inv
<1>4. CASE Exists(y.src)
  <2>1. /\ tip' = [tip EXCEPT ![y.src] = {}]
        /\ overwritten' = overwritten \cup (tip[y.src] \ y.seenS)
        /\ deleted' = deleted \cup {<<y.src, y.dst>>}
        /\ Set(p, [run[p] EXCEPT !.pc = "retarget"])
        /\ UNCHANGED <<change, file, review, edit, begun, faults, landed, broken, crossed, rewritten, forwarded, claimed>>
    BY <1>1, <1>4 DEF DeleteSource, Goto
  <2>2. /\ Grows /\ \A n : Sig(n)' = Sig(n) /\ Made(n)' = Made(n)
        /\ \A n \in Numbers : Made(n)' <=> n <= Count'
    BY <1>3, <2>1 DEF TypeOK, Grows, Sig, Made, Count
  <2>3. \A d \in Branches : tip'[d] = IF d = y.src THEN {} ELSE tip[d]
    BY <1>3, <2>1 DEF TypeOK
  <2>4. tip' \in [Branches -> Commit]  BY <1>3, <2>1 DEF TypeOK, Commit
  <2>5. \A d \in Branches : tip[d] \in Commit /\ \A n \in tip[d] : Made(n)  BY TipTyped
  <2>6. \A d \in Branches : \A n \in tip'[d] : Made(n)'  BY <2>2, <2>3, <2>5
  <2>7. overwritten' \in Commit /\ \A n \in overwritten' : Made(n)'
    BY <1>2, <1>3, <2>1, <2>2, <2>5 DEF TypeOK, Stored, Commit
  <2>8. ASSUME NEW f \in Rankings, NEW k \in Nat, Respects(f), Respects(f)', NEW n \in Below(f, k)
        PROVE  Sig(n) \in Kept(Below(f, k))'
    <3>1. \A m \in Below(f, k)' : Sig(m) \in Kept(Below(f, k))'  BY <2>2 DEF Kept
    <3>2. ASSUME NEW d \in Branches, d # y.src, f[d] < k, NEW m \in tip[d]
          PROVE  m \in Below(f, k)'
      BY <2>3, <3>2 DEF Below
    <3>3. overwritten' \subseteq Below(f, k)'  BY DEF Below
    <3>4. CASE f[y.src] < k /\ n \in tip[y.src] /\ n \in y.seenS
      <4>1. f[y.src] > f[y.dst]
        <5>1. <<y.src, y.dst>> \in deleted'  BY <2>1
        <5>q. QED  BY <2>8, <5>1 DEF Respects
      <4>2. Sig(n) \in Kept(Below(f, f[y.src]))  BY <1>1, <3>4, <4>1 DEF Fits, Kept
      <4>3. PICK m \in Below(f, f[y.src]) : Sig(n) = Sig(m)  BY <4>2 DEF Kept
      <4>4. CASE m \in overwritten
        BY <2>1, <3>1, <3>3, <4>3, <4>4
      <4>5. CASE \E d \in Branches : f[d] < f[y.src] /\ m \in tip[d]
        <5>1. PICK d \in Branches : f[d] < f[y.src] /\ m \in tip[d]  BY <4>5
        <5>2. f[d] \in Nat /\ f[y.src] \in Nat  BY <1>2, RankTyped
        <5>3. d # y.src /\ f[d] < k  BY <3>4, <5>1, <5>2
        <5>q. QED  BY <3>1, <3>2, <4>3, <5>1, <5>3
      <4>q. QED  BY <2>8, <4>3, <4>4, <4>5 DEF Below
    <3>5. CASE n \in overwritten \/ n \in tip[y.src] \ y.seenS
      BY <2>1, <3>1, <3>3, <3>5
    <3>6. CASE \E d \in Branches : d # y.src /\ f[d] < k /\ n \in tip[d]
      BY <3>1, <3>2, <3>6
    <3>q. QED  BY <2>8, <3>4, <3>5, <3>6 DEF Below
  <2>9. Keeps
    <3>1. \A f \in Rankings, k \in Nat :
             Respects(f) /\ Respects(f)' => Kept(Below(f, k)) \subseteq Kept(Below(f, k))'
      BY <2>8 DEF Kept
    <3>2. deleted \subseteq deleted'  BY <2>1
    <3>q. QED  BY <1>3, <2>2, <3>1, <3>2, KeepsAll
  <2>10. Lands  BY <2>1 DEF Lands
  <2>11. \E x \in Run : Set(p, x) /\ Fits(x)'
    <3>1. PICK x : x = [y EXCEPT !.pc = "retarget"]  OBVIOUS
    <3>2. x \in Move  BY <3>1 DEF Move
    <3>3. Fits(x)  BY <1>1, <3>1, <3>2 DEF Fits, Move, Restack
    <3>4. x \in Run  BY <3>2 DEF Run
    <3>5. Fits(x)'  BY <1>3, <2>2, <2>9, <2>10, <3>3, <3>4, FitsKept
    <3>q. QED  BY <1>1, <2>1, <3>1, <3>4, <3>5
  <2>12. run' \in [Clients -> Run] /\ \A q \in Clients : Fits(run[q])'
    BY <2>2, <2>9, <2>10, <2>11, OneMoves
  <2>13. Sane  BY <1>2, <1>3, <2>1 DEF TypeOK, Sane
  <2>14. \A n \in Numbers : change'[n] \in Works /\ ~Made(n) => Sig(n)' \in Kept(Shown)'
    BY <2>1, NamesAssumption DEF Made
  <2>q. QED
    BY <1>3, <2>1, <2>2, <2>4, <2>6, <2>7, <2>9, <2>10, <2>12, <2>13, <2>14, RefsMove DEF TypeOK
<1>5. CASE ~Exists(y.src)
  <2>1. /\ Set(p, Idle) /\ broken' = broken \cup {y.r}
        /\ UNCHANGED <<change, file, tip, overwritten, review, edit, begun, faults, landed, crossed, rewritten, forwarded, claimed, deleted>>
    BY <1>1, <1>5 DEF DeleteSource, Return
  <2>2. Sane /\ Rows'  BY <1>2, <2>1 DEF Inv, TypeOK, Sane, Rows
  <2>q. QED  BY <2>1, <2>2, IdleFits, EditKept, Still
<1>q. QED  BY <1>4, <1>5

-----------------------------------------------------------------------------
(* A restack copies commits in their order and gives them the next numbers. *)

LEMMA CopyNumbers ==
  ASSUME TypeOK, NEW s \in SUBSET Numbers
  PROVE  /\ IsFiniteSet(s) /\ Cardinality(s) \in Nat
         /\ \A n \in s : Copy(s, n) \in (Count + 1)..(Count + Cardinality(s))
         /\ \A m, n \in s : Copy(s, m) = Copy(s, n) => m = n
         /\ {Copy(s, n) : n \in s} = (Count + 1)..(Count + Cardinality(s))
<1> DEFINE Upto(n) == {m \in s : m <= n}
           f == [n \in s |-> Copy(s, n)]
           k == Cardinality(s)
           T == (Count + 1)..(Count + k)
<1>1. IsFiniteSet(s) /\ k \in Nat /\ s \subseteq Nat /\ Count \in Nat
  BY NumbersFinite, FS_Subset, FS_CardinalityType
<1>2. ASSUME NEW n \in s
      PROVE  /\ IsFiniteSet(Upto(n)) /\ Cardinality(Upto(n)) \in Nat
             /\ Cardinality(Upto(n)) <= k /\ Cardinality(Upto(n)) # 0
  <2>1. Upto(n) \in SUBSET s /\ n \in Upto(n)  BY <1>1
  <2>q. QED  BY <1>1, <2>1, FS_Subset, FS_CardinalityType, FS_EmptySet
<1>3. \A n \in s : f[n] = Count + Cardinality(Upto(n)) /\ f[n] = Copy(s, n)  BY DEF Copy
<1>4. \A n \in s : f[n] \in T
  <2>1. TAKE n \in s
  <2>2. PICK c \in Nat : c = Cardinality(Upto(n)) /\ c <= k /\ c # 0  BY <1>2
  <2>3. f[n] = Count + c  BY <1>3, <2>2
  <2>q. QED  BY <1>1, <2>2, <2>3
<1>5. ASSUME NEW m \in s, NEW n \in s, m < n  PROVE f[m] # f[n]
  <2>1. /\ Upto(m) \in SUBSET Upto(n) /\ n \in Upto(n) /\ n \notin Upto(m)
    <3>1. \A i \in s : i <= m => i <= n  BY <1>1, <1>5
    <3>2. n <= n /\ ~(n <= m)  BY <1>1, <1>5
    <3>q. QED  BY <3>1, <3>2
  <2>2. Cardinality(Upto(m)) # Cardinality(Upto(n))  BY <1>2, <2>1, FS_Subset
  <2>3. PICK c \in Nat, d \in Nat : c = Cardinality(Upto(m)) /\ d = Cardinality(Upto(n))  BY <1>2
  <2>4. f[m] = Count + c /\ f[n] = Count + d /\ c # d  BY <1>3, <2>2, <2>3
  <2>q. QED  BY <1>1, <2>4
<1>6. \A m, n \in s : f[m] = f[n] => m = n
  <2>1. \A m, n \in s : m < n \/ n < m \/ m = n  BY <1>1
  <2>q. QED  BY <1>5, <2>1
<1>7. f \in Injection(s, T)
  <2>1. f \in [s -> T]  BY <1>4
  <2>q. QED  BY <1>6, <2>1 DEF Injection, IsInjective
<1>8. IsFiniteSet(T) /\ Cardinality(T) = k
  <2>1. Count + 1 \in Int /\ Count + k \in Int  BY <1>1
  <2>q. QED  BY <1>1, <2>1, FS_Interval
<1>9. f \in Surjection(s, T)  BY <1>1, <1>7, <1>8, FS_Injection
<1>10. {Copy(s, n) : n \in s} = T
  <2>1. \A t \in T : \E n \in s : f[n] = t  BY <1>9 DEF Surjection
  <2>q. QED  BY <1>3, <1>4, <2>1
<1>q. QED  BY <1>1, <1>3, <1>4, <1>6, <1>10

Copies(s) == {Copy(s, n) : n \in s}
Copied(s) == [n \in Numbers |-> IF n \in Copies(s)
                                THEN change[CHOOSE m \in s : Copy(s, m) = n] ELSE change[n]]

LEMMA CopiesGrow ==
  ASSUME TypeOK, NEW s \in SUBSET Numbers, \A n \in s : Made(n),
         Copies(s) \subseteq Numbers, change' = Copied(s)
  PROVE  /\ Grows
         /\ \A n \in Numbers : Made(n)' <=> n <= Count'
         /\ \A n \in s : Copy(s, n) \in Copies(s) /\ change'[Copy(s, n)] = change[n]
         /\ \A n \in Numbers : Made(n)' <=> Made(n) \/ n \in Copies(s)
         /\ \A n \in Copies(s) : ~Made(n)
<1>1. /\ change \in [Numbers -> Changes \cup {None}]
      /\ \A n \in Numbers : Made(n) <=> n <= Count
      /\ Count \in Nat /\ Numbers \subseteq Nat
  BY NumbersFinite DEF TypeOK
<1>2. PICK k \in Nat : k = Cardinality(s) /\ Copies(s) = (Count + 1)..(Count + k)
  BY CopyNumbers DEF Copies
<1>3. \A n \in Copies(s) : ~Made(n)  BY <1>1, <1>2
<1>4. \A n \in s : Copy(s, n) \in Copies(s)  BY DEF Copies
<1>5. \A n \in s : (CHOOSE m \in s : Copy(s, m) = Copy(s, n)) = n
  BY CopyNumbers
<1>6. ASSUME NEW n \in s  PROVE change'[Copy(s, n)] = change[n]
  <2>1. Copy(s, n) \in Numbers  BY <1>4
  <2>q. QED  BY <1>4, <1>5, <2>1 DEF Copied
<1>7. \A n \in Numbers : n \notin Copies(s) => change'[n] = change[n]  BY DEF Copied
<1>8. \A n \in Copies(s) : \E m \in s : n = Copy(s, m)  BY DEF Copies
<1>9. \A n \in Copies(s) : change'[n] \in Changes
  <2>1. \A m \in s : change[m] \in Changes  BY <1>1 DEF Made
  <2>q. QED  BY <1>6, <1>8, <2>1
<1>10. \A n \in Numbers : change'[n] \in Changes \cup {None}  BY <1>1, <1>7, <1>9
<1>11. change' \in [Numbers -> Changes \cup {None}]
  <2>1. change' = [n \in Numbers |-> change'[n]]  BY DEF Copied
  <2>q. QED  BY <1>10, <2>1
<1>12. Grows  BY <1>3, <1>7, <1>11 DEF Grows
<1>13. \A n \in Numbers : Made(n)' <=> Made(n) \/ n \in Copies(s)
  BY <1>7, <1>9, NoneIsNone DEF Made
<1>14. {n \in Numbers : Made(n)'} = 1..(Count + k)
  <2>1. \A n \in Numbers : Made(n)' <=> n <= Count + k
    BY <1>1, <1>2, <1>13
  <2>2. 1..(Count + k) \subseteq Numbers
    <3>1. CASE k = 0
      <4>1. {n \in Numbers : Made(n)} \in SUBSET Numbers  OBVIOUS
      <4>2. Count <= Cardinality(Numbers)  BY <4>1, NumbersFinite, FS_Subset DEF Count
      <4>3. Cardinality(Numbers) = MaxCommits /\ MaxCommits \in Nat
        <5>1. MaxCommits \in Nat \ {0}  BY BoundsAssumption
        <5>q. QED  BY <5>1, FS_Interval DEF Numbers
      <4>q. QED  BY <1>1, <3>1, <4>2, <4>3 DEF Numbers
    <3>2. CASE k # 0
      <4>1. Count + k \in Numbers  BY <1>1, <1>2, <3>2
      <4>q. QED  BY <1>1, <4>1, BoundsAssumption DEF Numbers
    <3>q. QED  BY <3>1, <3>2
  <2>3. \A n \in Numbers : n >= 1  BY BoundsAssumption DEF Numbers
  <2>4. \A n \in 1..(Count + k) : n <= Count + k  BY <1>1
  <2>5. \A n \in Numbers : n <= Count + k => n \in 1..(Count + k)  BY <1>1, <2>3
  <2>q. QED  BY <2>1, <2>2, <2>4, <2>5
<1>15. Count' = Count + k
  <2>1. Cardinality(1..(Count + k)) = Count + k
    <3>1. Count + k \in Nat /\ 1 \in Int  BY <1>1
    <3>q. QED  BY <3>1, FS_Interval
  <2>q. QED  BY <1>14, <2>1 DEF Count
<1>16. \A n \in Numbers : Made(n)' <=> n <= Count'
  BY <1>1, <1>2, <1>13, <1>15
<1>q. QED  BY <1>3, <1>4, <1>6, <1>12, <1>13, <1>16

(* What a command stands on after a member, with the next base c. *)
Advanced(y, orig, c) == IF y.left + 1 <= Len(Stack)
                     THEN [y EXCEPT !.left = y.left + 1, !.prev = orig, !.base = c]
                     ELSE Idle

(* What one member's step does, in the words of these lemmas. *)
Stepped(p, y, b, orig, base, replay) ==
  \/ /\ UNCHANGED <<change, file, tip, overwritten, forwarded>>
     /\ Return(p) \/ Set(p, Advanced(y, orig, orig))
  \/ /\ Merge \notin WorksOf(replay) /\ Copies(replay) \subseteq Numbers
     /\ change' = Copied(replay)
     /\ \E t \in [Copies(replay) -> Texts] :
           file' = [n \in Numbers |-> IF n \in Copies(replay) THEN t[n] ELSE file[n]]
     /\ tip' = [tip EXCEPT ![b] = base \cup Copies(replay)]
     /\ overwritten' = overwritten \cup (tip[b] \ orig)
     /\ forwarded' = IF Copies(replay) = {} THEN forwarded \cup {b} ELSE forwarded
     /\ Set(p, Advanced(y, orig, base \cup Copies(replay)))

LEMMA NextTyped ==
  ASSUME NEW y \in Restack, NEW orig \in Commit, NEW c \in Commit
  PROVE  /\ Advanced(y, orig, c) \in Run
         /\ Advanced(y, orig, c) = Idle \/
            /\ Advanced(y, orig, c) \in Restack \ Move /\ Advanced(y, orig, c).pc = "member"
            /\ Advanced(y, orig, c).prev = orig /\ Advanced(y, orig, c).base = c
            /\ Advanced(y, orig, c).tips = y.tips
<1>1. Len(Stack) \in Nat  BY NamesAssumption
<1>2. y.left \in 1..Len(Stack)  BY DEF Restack
<1>3. CASE y.left + 1 <= Len(Stack)
  <2>1. y.left + 1 \in 1..Len(Stack)  BY <1>1, <1>2, <1>3
  <2>2. PICK l \in 1..Len(Stack) : l = y.left + 1  BY <2>1
  <2>3. PICK x : x = [y EXCEPT !.left = l, !.prev = orig, !.base = c]  OBVIOUS
  <2>4. x \in Restack \ Move /\ x.pc = "member" /\ x.prev = orig /\ x.base = c /\ x.tips = y.tips
    BY <2>3 DEF Restack, Move
  <2>5. Advanced(y, orig, c) = x  BY <1>3, <2>2, <2>3 DEF Advanced
  <2>q. QED  BY <2>4, <2>5 DEF Run
<1>4. CASE ~(y.left + 1 <= Len(Stack))
  BY <1>4, IdleFits DEF Advanced
<1>q. QED  BY <1>3, <1>4

(* The step of Member, and what the command knows. *)
LEMMA MemberSteps ==
  ASSUME Inv, NEW p \in Clients, Member(p)
  PROVE  \E y \in Restack, b \in Branches, orig \in Commit, base \in Commit,
            prev \in Commit, replay \in SUBSET Numbers :
           /\ y = run[p] /\ Fits(y) /\ y.pc = "member"
           /\ orig = y.tips[b] /\ base = y.base /\ prev = y.prev
           /\ replay = orig \ (orig \cap prev)
           /\ Stepped(p, y, b, orig, base, replay)
<1>1. PICK y \in Restack : y = run[p] /\ Fits(y) /\ y.pc = "member"
  <2>1. run[p] \in Run /\ run[p].pc = "member" /\ Fits(run[p])  BY DEF Inv, TypeOK, Member
  <2>q. QED  BY <2>1 DEF Run, Move
<1>2. PICK b \in Branches : b = review[Stack[y.left]].source
  <2>1. y.left \in 1..Len(Stack)  BY DEF Restack
  <2>2. Stack[y.left] \in Reviews  BY <2>1, NamesAssumption
  <2>q. QED  BY <2>2, RowTyped
<1>3. PICK orig \in Commit : orig = y.tips[b]  BY DEF Restack
<1>4. PICK base \in Commit, prev \in Commit : base = y.base /\ prev = y.prev  BY DEF Restack
<1>5. PICK replay \in SUBSET Numbers : replay = orig \ (orig \cap prev)  BY DEF Commit
<1>6. Stepped(p, run[p], review[Stack[run[p].left]].source,
              run[p].tips[review[Stack[run[p].left]].source], run[p].base,
              run[p].tips[review[Stack[run[p].left]].source]
                 \ (run[p].tips[review[Stack[run[p].left]].source] \cap run[p].prev))
  BY Zenon DEF Member, Stepped, Advanced, Return, Copies, Copied
<1>7. Stepped(p, y, b, orig, base, replay)  BY <1>1, <1>2, <1>3, <1>4, <1>5, <1>6
<1>q. QED  BY <1>1, <1>3, <1>4, <1>5, <1>7

LEMMA MemberInv ==
  ASSUME Inv, NEW p \in Clients, Member(p)
  PROVE  Inv'
<1>1. TypeOK /\ Stored  BY DEF Inv
<1>2. PICK y \in Restack, b \in Branches, orig \in Commit, base \in Commit,
           prev \in Commit, replay \in SUBSET Numbers :
         /\ y = run[p] /\ Fits(y) /\ y.pc = "member"
         /\ orig = y.tips[b] /\ base = y.base /\ prev = y.prev
         /\ replay = orig \ (orig \cap prev)
         /\ Stepped(p, y, b, orig, base, replay)
  BY MemberSteps
<1>6. /\ \A n \in orig \cup base \cup prev : n \in Numbers /\ Made(n)
      /\ Kept(prev) \subseteq Kept(base)
      /\ \A d \in Branches : \A n \in y.tips[d] : Made(n)
  BY <1>2 DEF Fits, Commit
<1>7. PICK old \in Commit : old = orig \cap prev  BY DEF Commit
<1>8. replay = orig \ old  BY <1>2, <1>7
<1>9. UNCHANGED <<review, edit, begun, faults, landed, broken, crossed, rewritten, claimed, deleted>>
  BY DEF Member
<1>10. Sane /\ Lands
  <2>1. forwarded' \subseteq Branches  BY <1>1, <1>2 DEF TypeOK, Stepped
  <2>2. file' \in [Numbers -> Texts]  BY <1>1, <1>2 DEF TypeOK, Stepped
  <2>q. QED  BY <1>1, <1>9, <2>1, <2>2 DEF TypeOK, Sane, Lands
<1>11. CASE UNCHANGED <<change, tip, overwritten>> /\ (Return(p) \/ Set(p, Advanced(y, orig, orig)))
  <2>1. \E x \in Run : Set(p, x) /\ Fits(x)
    <3>1. CASE Return(p)  BY <3>1, IdleFits DEF Return
    <3>2. CASE Set(p, Advanced(y, orig, orig))
      <4>1. PICK x : x = Advanced(y, orig, orig)  OBVIOUS
      <4>2. CASE x = Idle  BY <3>2, <4>1, <4>2, IdleFits
      <4>3. CASE x # Idle
        <5>1. /\ x \in Restack \ Move /\ x.pc = "member" /\ x.prev = orig /\ x.base = orig
              /\ x.tips = y.tips
          BY <4>1, <4>3, NextTyped
        <5>2. Fits(x)  BY <1>6, <5>1 DEF Fits
        <5>q. QED  BY <3>2, <4>1, <5>2, NextTyped
      <4>q. QED  BY <4>2, <4>3
    <3>q. QED  BY <1>11, <3>1, <3>2
  <2>2. Rows'  BY <1>9 DEF Inv, Rows
  <2>q. QED  BY <1>9, <1>10, <1>11, <2>1, <2>2, EditKept, Still
<1>12. CASE /\ Merge \notin WorksOf(replay) /\ Copies(replay) \subseteq Numbers
            /\ change' = Copied(replay)
            /\ tip' = [tip EXCEPT ![b] = base \cup Copies(replay)]
            /\ overwritten' = overwritten \cup (tip[b] \ orig)
            /\ Set(p, Advanced(y, orig, base \cup Copies(replay)))
  <2>1. \A n \in replay : Made(n) /\ change[n] # Merge  BY <1>6, <1>8, <1>12 DEF WorksOf
  <2>2. /\ Grows
        /\ \A n \in Numbers : Made(n)' <=> n <= Count'
        /\ \A n \in replay : Copy(replay, n) \in Copies(replay) /\ change'[Copy(replay, n)] = change[n]
        /\ \A n \in Numbers : Made(n)' <=> Made(n) \/ n \in Copies(replay)
    BY <1>1, <1>12, <2>1, CopiesGrow
  <2>3. PICK c \in Commit : c = base \cup Copies(replay)  BY <1>12 DEF Commit
  <2>4. \A d \in Branches : tip'[d] = IF d = b THEN c ELSE tip[d]
    BY <1>1, <1>12, <2>3 DEF TypeOK
  <2>5. tip' \in [Branches -> Commit]  BY <1>1, <1>12, <2>3 DEF TypeOK
  <2>6. \A d \in Branches : tip[d] \in Commit /\ \A n \in tip[d] : Made(n)  BY TipTyped
  <2>7. \A n \in c : n \in Numbers /\ Made(n)'  BY <1>6, <1>12, <2>2, <2>3
  <2>8. \A n \in Numbers : Made(n) => Made(n)' /\ Sig(n)' = Sig(n)  BY <2>2, SigKept
  <2>9. \A d \in Branches : \A n \in tip'[d] : Made(n)'
    BY <2>4, <2>6, <2>7, <2>8 DEF Commit
  <2>10. overwritten' \in Commit /\ \A n \in overwritten' : Made(n)'
    BY <1>1, <1>12, <2>6, <2>8 DEF TypeOK, Stored, Commit
  <2>11. ASSUME NEW n \in orig  PROVE Sig(n)' = Sig(n) /\ Sig(n) \in Kept(c)'
    <3>1. n \in Numbers /\ Made(n) /\ Sig(n)' = Sig(n)  BY <1>6, <2>8
    <3>2. CASE n \in old
      <4>1. Sig(n) \in Kept(base)  BY <1>6, <1>7, <3>2 DEF Kept
      <4>2. PICK m \in base : Sig(n) = Sig(m)  BY <4>1 DEF Kept
      <4>3. Sig(m)' = Sig(m) /\ m \in c  BY <1>6, <2>3, <2>8
      <4>q. QED  BY <3>1, <4>2, <4>3 DEF Kept
    <3>3. CASE n \in replay
      <4>1. PICK m \in Copies(replay) : change'[m] = change[n]  BY <2>2, <3>3
      <4>2. Sig(m)' = <<change[n], 0>> /\ Sig(n) = <<change[n], 0>>
        BY <2>1, <3>3, <4>1 DEF Sig
      <4>3. m \in c  BY <2>3
      <4>q. QED  BY <3>1, <4>2, <4>3 DEF Kept
    <3>q. QED  BY <1>7, <1>8, <3>2, <3>3
  <2>12. Keeps
    <3>1. ASSUME NEW d \in Branches, NEW n \in tip[d]
          PROVE  Sig(n) \in Kept(overwritten \cup tip[d])'
      <4>1. Sig(n)' = Sig(n)  BY <2>6, <2>8 DEF Commit
      <4>2. CASE n \in (overwritten \cup tip[d])'
        BY <4>1, <4>2 DEF Kept
      <4>3. CASE d = b /\ n \in orig
        <5>1. c \subseteq (overwritten \cup tip[d])'  BY <2>4, <4>3
        <5>2. Kept(c)' \subseteq Kept(overwritten \cup tip[d])'  BY <5>1 DEF Kept
        <5>q. QED  BY <2>11, <4>3, <5>2
      <4>q. QED  BY <1>12, <2>4, <4>2, <4>3
    <3>q. QED  BY <1>1, <1>9, <1>12, <2>2, <3>1, KeepsInPlace
  <2>13. \E x \in Run : Set(p, x) /\ Fits(x)'
    <3>1. PICK x \in Run : x = Advanced(y, orig, c)  BY NextTyped
    <3>2. CASE x = Idle
      BY <1>12, <2>3, <3>1, <3>2, IdleFits
    <3>3. CASE x # Idle
      <4>1. /\ x \in Restack \ Move /\ x.pc = "member" /\ x.prev = orig /\ x.base = c
            /\ x.tips = y.tips
        BY <3>1, <3>3, NextTyped
      <4>2. Kept(orig)' \subseteq Kept(c)'  BY <2>11 DEF Kept
      <4>3. \A n \in orig \cup c : Made(n)'  BY <1>6, <2>7, <2>8
      <4>4. \A d \in Branches : \A n \in y.tips[d] : n \in Numbers  BY DEF Restack, Commit
      <4>5. \A d \in Branches : \A n \in y.tips[d] : Made(n)'  BY <1>6, <2>8, <4>4
      <4>6. Fits(x)'  BY <4>1, <4>2, <4>3, <4>5 DEF Fits
      <4>q. QED  BY <1>12, <2>3, <3>1, <4>6
    <3>q. QED  BY <3>2, <3>3
  <2>14. run' \in [Clients -> Run] /\ \A q \in Clients : Fits(run[q])'
    BY <1>10, <2>2, <2>12, <2>13, OneMoves
  <2>15. \A n \in Numbers : change'[n] \in Works /\ ~Made(n) => Sig(n)' \in Kept(Shown)'
    <3>1. c \subseteq Shown'
      <4>1. tip'[b] = c  BY <2>4
      <4>q. QED  BY <4>1 DEF Shown, Reachable
    <3>2. \A n \in Copies(replay) : Sig(n)' \in Kept(Shown)'  BY <2>3, <3>1 DEF Kept
    <3>3. \A n \in Numbers : change'[n] \in Works => Made(n)'  BY NamesAssumption DEF Made
    <3>q. QED  BY <2>2, <3>2, <3>3
  <2>16. landed' \in [Reviews -> Commit] /\ landed' = landed  BY <1>1, <1>9 DEF TypeOK
  <2>q. QED
    BY <1>9, <1>10, <2>2, <2>5, <2>9, <2>10, <2>12, <2>14, <2>15, <2>16, RefsMove
<1>q. QED  BY <1>2, <1>11, <1>12 DEF Stepped

-----------------------------------------------------------------------------
(* The invariant holds at first and after every step. *)

LEMMA InitInv == Init => Inv
<1> SUFFICES ASSUME Init PROVE Inv  OBVIOUS
<1>1. PICK k \in 0..MaxCommits : /\ {n \in Numbers : InitChange[n] # None} = 1..k
                                 /\ UNION {InitTip[b] : b \in Branches} = 1..k
  BY InitAssumption
<1>2. k \in Nat /\ Numbers \subseteq Nat  BY <1>1, BoundsAssumption, NumbersFinite
<1>3. change = InitChange /\ tip = InitTip /\ review = InitReview
      /\ overwritten = {} /\ landed = [r \in Reviews |-> {}] /\ edit.applied = 0
      /\ run = [p \in Clients |-> Idle]
  BY DEF Init
<1>4. Count = k
  <2>1. {n \in Numbers : Made(n)} = 1..k  BY <1>1, <1>3 DEF Made
  <2>2. Cardinality(1..k) = k  BY <1>2, FS_Interval
  <2>q. QED  BY <2>1, <2>2 DEF Count
<1>5. \A n \in Numbers : Made(n) <=> n \in 1..k  BY <1>1, <1>3 DEF Made
<1>6. \A n \in Numbers : Made(n) <=> n <= Count
  <2>1. \A n \in Numbers : n >= 1  BY BoundsAssumption DEF Numbers
  <2>2. \A n \in Numbers : n \in 1..k <=> n <= k  BY <1>2, <2>1
  <2>q. QED  BY <1>4, <1>5, <2>2
<1>7. \A b \in Branches : \A n \in tip[b] : n \in 1..k  BY <1>1, <1>3
<1>8. TypeOK
  <2>1. edit \in Suggestion
    <3>1. InitReview[SuggestedOn].source \in Branches  BY InitAssumption, NamesAssumption DEF ReviewRow
    <3>2. InitTip[InitReview[SuggestedOn].source] \in Commit  BY <3>1, InitAssumption DEF Commit
    <3>q. QED  BY <3>2 DEF Init, Suggestion, Statuses
  <2>2. run \in [Clients -> Run]  BY <1>3, IdleFits
  <2>3. begun \in 0..MaxCommands /\ faults \in 0..MaxFaults  BY BoundsAssumption DEF Init
  <2>4. \A b \in Branches, n \in Numbers : n \in tip[b] => Made(n)  BY <1>5, <1>7
  <2>5. /\ broken \subseteq Reviews /\ crossed \subseteq Reviews
        /\ rewritten \subseteq Reviews /\ forwarded \subseteq Branches
        /\ claimed \subseteq Reviews /\ deleted \subseteq Branches \X Branches
        /\ file \in [Numbers -> Texts]
    BY InitAssumption DEF Init
  <2>q. QED  BY <1>3, <1>6, <2>1, <2>2, <2>3, <2>4, <2>5, InitAssumption DEF TypeOK, Commit
<1>9. Rows  BY <1>3, InitAssumption DEF Rows
<1>10. Stored
  <2>1. ASSUME NEW n \in Numbers, change[n] \in Works  PROVE Sig(n) \in Kept(Shown)
    <3>1. Made(n)  BY <2>1, NamesAssumption DEF Made
    <3>2. n \in Reachable  BY <1>1, <1>3, <1>5, <3>1 DEF Reachable
    <3>q. QED  BY <3>2 DEF Kept, Shown
  <2>q. QED  BY <1>3, <2>1 DEF Stored
<1>11. \A p \in Clients : Fits(run[p])  BY <1>3, IdleFits
<1>q. QED  BY <1>8, <1>9, <1>10, <1>11 DEF Inv

LEMMA NextInv == Inv /\ [Next]_vars => Inv'
<1> SUFFICES ASSUME Inv, [Next]_vars PROVE Inv'  OBVIOUS
<1>1. ASSUME NEW p \in Clients, Merging(p)  PROVE Inv'
  BY <1>1, BeginMergeInv, PreviewInv, ChecksInv, RecheckInv, MarkMergedInv, DeleteSourceInv, RetargetInv
     DEF Merging
<1>2. ASSUME NEW p \in Clients, Editing(p)  PROVE Inv'
  BY <1>2, BeginApplyInv, RecordInv, BeginStatusInv, SetStatusInv DEF Editing
<1>3. ASSUME NEW p \in Clients, Stacking(p)  PROVE Inv'
  BY <1>3, BeginPickInv, BeginRestackInv, MemberInv DEF Stacking
<1>4. CASE UNCHANGED vars
  <2>1. UNCHANGED <<change, tip, deleted, overwritten, landed, edit, run>>  BY <1>4 DEF vars
  <2>2. Sane /\ Rows'  BY <1>4 DEF vars, Inv, TypeOK, Rows, Sane
  <2>q. QED  BY <2>1, <2>2, AsideInv
<1>q. QED
  BY <1>1, <1>2, <1>3, <1>4, PushInv, UpdateInv, CompareInv, WriteInv, FailInv DEF Next

(* What every execution of the commands of review.rs keeps. *)
THEOREM SafeMergeInvariant == Spec => []Inv
BY InitInv, NextInv, PTL DEF Spec

(* The tables, the refs and the commands stay of their types, and commits   *)
(* are numbered without gaps. *)
THEOREM SafeMergeTypeCorrect == Spec => []TypeOK
<1>1. Inv => TypeOK  BY DEF Inv
<1>q. QED  BY <1>1, SafeMergeInvariant, PTL

(* No pushed change is ever lost but in the time between a command's last   *)
(* look at a branch and its forced write: whatever merges, edits, picks,    *)
(* restacks and deletions of source branches run at once, unless merges     *)
(* deleted their source branches in a circle.                               *)
THEOREM NothingLostUnseen == Spec => []LossIsExplained
<1>1. Inv => LossIsExplained
  <2> SUFFICES ASSUME Inv, ~Circle, NEW w \in WorksOf(Numbers) \cap Works
               PROVE  w \in WorksOf(Reachable \cup overwritten)
    BY DEF LossIsExplained
  <2>1. PICK n \in Numbers : change[n] = w  BY DEF WorksOf
  <2>2. Sig(n) \in Kept(Reachable \cup overwritten)
    <3>1. Sig(n) \in Kept(Shown)  BY <2>1 DEF Inv, Stored
    <3>q. QED  BY <3>1, AllIsBelow
  <2>3. PICK m \in Reachable \cup overwritten : Sig(n) = Sig(m)  BY <2>2 DEF Kept
  <2>4. change[m] = w  BY <2>1, <2>3 DEF Sig
  <2>q. QED  BY <2>4 DEF WorksOf
<1>q. QED  BY <1>1, SafeMergeInvariant, PTL

-----------------------------------------------------------------------------
(* The suggested edit.  Until some command has put it on a branch no branch *)
(* shows it and no command holds a commit that would bring it there; from   *)
(* then on its row, or a command about to write the row, tells of it.       *)

Plain(c) == \A n \in c : change[n] # Edit

Bare(x) ==
    /\ x \in Move /\ x.pc \in {"compare", "write"} /\ x.kind # "apply" => Plain(x.new)
    /\ x \in Restack => Plain(x.base) /\ \A b \in Branches : Plain(x.tips[b])

Hidden == (\A b \in Branches : Plain(tip[b])) /\ (\A p \in Clients : Bare(run[p]))

Accounted == \/ edit.status # "OPEN" \/ edit.loose
             \/ \E p \in Clients : run[p].pc = "record"

LEMMA PlainKept ==
  ASSUME Grows, NEW c \in SUBSET Numbers, \A n \in c : Made(n), Plain(c)
  PROVE  Plain(c)'
BY DEF Grows, Plain

LEMMA BareKept ==
  ASSUME Grows, NEW x \in Run, Fits(x), Bare(x)
  PROVE  Bare(x)'
<1>1. ASSUME x \in Move, x.pc \in {"compare", "write"}, x.kind # "apply"  PROVE Plain(x.new)'
  <2>1. x.new \in SUBSET Numbers  BY <1>1 DEF Move, Commit
  <2>2. \A n \in x.new : Made(n)  BY <1>1 DEF Fits
  <2>3. Plain(x.new)  BY <1>1 DEF Bare
  <2>q. QED  BY <2>1, <2>2, <2>3, PlainKept
<1>2. ASSUME x \in Restack  PROVE Plain(x.base)' /\ \A b \in Branches : Plain(x.tips[b])'
  <2>1. x.base \in SUBSET Numbers /\ \A b \in Branches : x.tips[b] \in SUBSET Numbers
    BY <1>2 DEF Restack, Commit
  <2>2. /\ \A n \in x.base : Made(n)
        /\ \A b \in Branches : \A n \in x.tips[b] : Made(n)
    BY <1>2 DEF Fits
  <2>3. Plain(x.base) /\ \A b \in Branches : Plain(x.tips[b])  BY <1>2 DEF Bare
  <2>q. QED  BY <2>1, <2>2, <2>3, PlainKept
<1>q. QED  BY <1>1, <1>2 DEF Bare

(* Only a commit that is being compared or written, or a restack, can bring *)
(* a change to a branch. *)
LEMMA IdleBare == Idle \in Run /\ Bare(Idle) /\ Bare(Idle)'
BY IdleFits DEF Idle, Bare, Move, Restack

LEMMA HiddenStep ==
  ASSUME Inv, Hidden, Grows, \A b \in Branches : Plain(tip[b])',
         \A q \in Clients : run'[q] = run[q] \/ Bare(run[q])'
  PROVE  Hidden'
<1>1. ASSUME NEW q \in Clients  PROVE Bare(run[q])'
  <2>1. CASE run'[q] = run[q]
    <3>1. PICK y \in Run : y = run[q] /\ Fits(y) /\ Bare(y)  BY DEF Inv, TypeOK, Hidden
    <3>2. Bare(y)'  BY <3>1, BareKept
    <3>3. run'[q] = y  BY <2>1, <3>1
    <3>q. QED  BY <3>2, <3>3 DEF Bare
  <2>q. QED  BY <2>1
<1>q. QED  BY <1>1 DEF Hidden

(* One command moves. *)
LEMMA HiddenMove ==
  ASSUME Inv, Hidden, Grows, \A b \in Branches : Plain(tip[b])',
         NEW p \in Clients, NEW x, Set(p, x), Bare(x)'
  PROVE  Hidden'
<1>1. run \in [Clients -> Run] /\ run' = [run EXCEPT ![p] = x]  BY DEF Inv, TypeOK, Set
<1>2. \A q \in Clients : q # p => run'[q] = run[q]  BY <1>1
<1>3. run'[p] = x  BY <1>1
<1>4. Bare(run[p])'  BY <1>3 DEF Bare
<1>q. QED  BY <1>2, <1>4, HiddenStep

(* A branch that stays where it is. *)
LEMMA TipPlain ==
  ASSUME Inv, Hidden, Grows, NEW b \in Branches, tip'[b] = tip[b]
  PROVE  Plain(tip[b])'
<1>1. PICK c \in SUBSET Numbers : c = tip[b] /\ \A n \in c : Made(n)  BY TipTyped DEF Commit
<1>2. Plain(c)  BY <1>1 DEF Hidden
<1>3. Plain(c)'  BY <1>1, <1>2, PlainKept
<1>q. QED  BY <1>1, <1>3 DEF Plain

(* A step of one command that moves no ref and makes no commit. *)
LEMMA HiddenStill ==
  ASSUME Inv, Hidden, UNCHANGED <<change, tip>>, NEW p \in Clients, NEW x, Set(p, x), Bare(x)
  PROVE  Hidden'
<1>1. Grows  BY DEF Inv, TypeOK, Grows
<1>2. Bare(x)'  BY DEF Bare, Plain
<1>3. \A b \in Branches : Plain(tip[b])'  BY <1>1, TipPlain
<1>q. QED  BY <1>1, <1>2, <1>3, HiddenMove

(* A new commit, which no branch shows yet. *)
LEMMA MakePlain ==
  ASSUME Inv, NEW w \in Changes, w # Edit, NEW txt \in Texts, Make(w, txt),
         NEW f \in Numbers, f = Fresh, NEW c \in SUBSET Numbers, \A n \in c : Made(n), Plain(c)
  PROVE  Plain(c \cup {f})'
<1>1. Grows /\ change'[Fresh] = w  BY MakeGrows DEF Inv
<1>2. \A n \in c : change'[n] # Edit  BY <1>1, PlainKept DEF Plain
<1>q. QED  BY <1>1, <1>2 DEF Plain

LEMMA ElsewhereBare ==
  ASSUME NEW x, x.pc \notin {"compare", "write", "member"}
  PROVE  Bare(x) /\ Bare(x)'
BY DEF Bare, Move, Restack

(* Nothing takes back what the suggestion's row, or the command about to    *)
(* write it, says. *)
LEMMA StaysAccounted ==
  ASSUME Inv, Accounted, Next
  PROVE  Accounted'
<1>0. run \in [Clients -> Run]  BY DEF Inv, TypeOK
<1>1. ASSUME edit'.status = edit.status, edit'.loose = edit.loose,
             \A q \in Clients : run[q].pc = "record" => run'[q].pc = "record"
      PROVE  Accounted'
  BY <1>1 DEF Accounted
<1>2. ASSUME NEW p \in Clients, NEW x, Set(p, x), run[p].pc # "record",
             edit'.status = edit.status, edit'.loose = edit.loose
      PROVE  Accounted'
  <2>1. \A q \in Clients : q # p => run'[q] = run[q]  BY <1>0, <1>2 DEF Set
  <2>q. QED  BY <1>1, <1>2, <2>1
<1>3. ASSUME NEW p \in Clients, Merging(p)  PROVE Accounted'
  <2>1. UNCHANGED edit /\ run[p].pc # "record" /\ \E x : Set(p, x)
    BY <1>3 DEF Merging, BeginMerge, Preview, Checks, Recheck, MarkMerged, DeleteSource,
                Retarget, Begin, Goto, Return
  <2>q. QED  BY <1>2, <2>1
<1>4. ASSUME NEW p \in Clients, Stacking(p)  PROVE Accounted'
  <2>1. CASE Member(p)
    <3>1. UNCHANGED edit /\ run[p].pc = "member"  BY <2>1 DEF Member
    <3>2. PICK y, b, orig, base, replay : Stepped(p, y, b, orig, base, replay)
      BY <2>1, MemberSteps
    <3>3. \E x : Set(p, x)  BY <3>2 DEF Stepped, Return
    <3>q. QED  BY <1>2, <3>1, <3>3
  <2>2. CASE ~Member(p)
    <3>1. UNCHANGED edit /\ run[p].pc # "record" /\ \E x : Set(p, x)
      BY <1>4, <2>2 DEF Stacking, BeginPick, BeginRestack, Begin
    <3>q. QED  BY <1>2, <3>1
  <2>q. QED  BY <2>1, <2>2
<1>5. ASSUME NEW p \in Clients, Compare(p) \/ Write(p)  PROVE Accounted'
  <2>1. UNCHANGED edit /\ run[p].pc # "record" /\ \E x : Set(p, x)
    BY <1>5 DEF Compare, Write, Goto, Return
  <2>q. QED  BY <1>2, <2>1
<1>6. ASSUME NEW p \in Clients, Editing(p)  PROVE Accounted'
  <2>1. edit \in Suggestion  BY DEF Inv, TypeOK
  <2>2. CASE BeginApply(p)
    <3>1. edit'.status = edit.status /\ edit'.loose = edit.loose
      BY <2>1, <2>2 DEF BeginApply, Suggestion
    <3>2. run[p].pc # "record" /\ (UNCHANGED run \/ \E x : Set(p, x))
      BY <2>2 DEF BeginApply, Begin
    <3>q. QED  BY <1>1, <1>2, <3>1, <3>2
  <2>3. CASE Record(p)
    BY <2>1, <2>3 DEF Record, Recorded, Suggestion, Accounted
  <2>4. CASE BeginStatus(p)
    <3>1. UNCHANGED edit /\ run[p].pc # "record" /\ \E x : Set(p, x)
      BY <2>4 DEF BeginStatus, Begin
    <3>q. QED  BY <1>2, <3>1
  <2>5. CASE SetStatus(p)
    BY <2>1, <2>5 DEF SetStatus, Suggestion, Accounted
  <2>q. QED  BY <1>6, <2>2, <2>3, <2>4, <2>5 DEF Editing
<1>7. ASSUME NEW p \in Clients, Fail(p)  PROVE Accounted'
  <2>1. CASE run[p].pc = "record"
    <3>1. edit' = [edit EXCEPT !.loose = TRUE]  BY <1>7, <2>1 DEF Fail
    <3>2. edit \in Suggestion  BY DEF Inv, TypeOK
    <3>q. QED  BY <3>1, <3>2 DEF Suggestion, Accounted
  <2>2. CASE run[p].pc # "record"
    <3>1. UNCHANGED edit /\ Set(p, Idle)  BY <1>7, <2>2 DEF Fail, Return
    <3>q. QED  BY <1>2, <2>2, <3>1
  <2>q. QED  BY <2>1, <2>2
<1>8. ASSUME NEW b \in Branches, Push(b)  PROVE Accounted'
  BY <1>1, <1>8 DEF Push
<1>9. ASSUME NEW r \in Reviews, Update(r)  PROVE Accounted'
  BY <1>1, <1>9 DEF Update
<1>q. QED  BY <1>3, <1>4, <1>5, <1>6, <1>7, <1>8, <1>9 DEF Next

(* The steps that neither compare nor write a ref. *)
LEMMA MergingMoves ==
  ASSUME Inv, NEW p \in Clients, Merging(p), ~Recheck(p)
  PROVE  \E x : Set(p, x) /\ x.pc \notin {"compare", "write", "member"}
<1>1. Idle.pc = "idle"  BY DEF Idle
<1>2. CASE BeginMerge(p)
  <2>1. PICK a \in Asked, del \in BOOLEAN :
           Set(p, [Mover("preview", "merge", a[1], a[2], a[3]) EXCEPT !.del = del])
    BY <1>2 DEF BeginMerge
  <2>2. PICK z : z = [Mover("preview", "merge", a[1], a[2], a[3]) EXCEPT !.del = del]  OBVIOUS
  <2>3. z.pc = "preview"  BY <2>2 DEF Mover
  <2>q. QED  BY <2>1, <2>2, <2>3
<1>3. CASE Preview(p)
  <2>1. PICK y \in Move : y = run[p]  BY <1>3, AtMove DEF Preview, MovePcs
  <2>2. Set(p, Idle) \/ \E s, t : Set(p, [y EXCEPT !.pc = "checks", !.s = s, !.t = t])
    BY <1>3, <2>1 DEF Preview, Return
  <2>3. ASSUME NEW s, NEW t, Set(p, [y EXCEPT !.pc = "checks", !.s = s, !.t = t])
        PROVE  \E x : Set(p, x) /\ x.pc \notin {"compare", "write", "member"}
    <3>1. PICK z : z = [y EXCEPT !.pc = "checks", !.s = s, !.t = t]  OBVIOUS
    <3>2. z.pc = "checks"  BY <3>1 DEF Move
    <3>q. QED  BY <2>3, <3>1, <3>2
  <2>q. QED  BY <1>1, <2>2, <2>3
<1>4. CASE Checks(p)
  <2>1. PICK y \in Move : y = run[p]  BY <1>4, AtMove DEF Checks, MovePcs
  <2>2. Set(p, Idle) \/ \E c : Set(p, [y EXCEPT !.pc = "recheck", !.checked = c])
    BY <1>4, <2>1 DEF Checks, Return
  <2>3. ASSUME NEW c, Set(p, [y EXCEPT !.pc = "recheck", !.checked = c])
        PROVE  \E x : Set(p, x) /\ x.pc \notin {"compare", "write", "member"}
    <3>1. PICK z : z = [y EXCEPT !.pc = "recheck", !.checked = c]  OBVIOUS
    <3>2. z.pc = "recheck"  BY <3>1 DEF Move
    <3>q. QED  BY <2>3, <3>1, <3>2
  <2>q. QED  BY <1>1, <2>2, <2>3
<1>5. CASE MarkMerged(p) \/ DeleteSource(p)
  <2>1. PICK y \in Move : y = run[p]  BY <1>5, AtMove DEF MarkMerged, DeleteSource, MovePcs
  <2>2. Return(p) \/ \E l \in {"delete", "retarget"} : Goto(p, l)
    BY <1>5 DEF MarkMerged, DeleteSource
  <2>3. \A l : [y EXCEPT !.pc = l].pc = l  BY DEF Move
  <2>q. QED  BY <1>1, <2>1, <2>2, <2>3 DEF Goto, Return
<1>6. CASE Retarget(p)  BY <1>1, <1>6 DEF Retarget, Return
<1>q. QED  BY <1>2, <1>3, <1>4, <1>5, <1>6 DEF Merging

LEMMA PlainMoves ==
  ASSUME NEW p \in Clients,
         Record(p) \/ BeginStatus(p) \/ SetStatus(p) \/ Fail(p)
  PROVE  \E x : Set(p, x) /\ x.pc \in {"idle", "set"}
<1>1. CASE BeginStatus(p)
  <2>1. PICK to \in Statuses : Set(p, [pc |-> "set", status |-> to])  BY <1>1 DEF BeginStatus
  <2>2. PICK x : x = [pc |-> "set", status |-> to]  OBVIOUS
  <2>q. QED  BY <2>1, <2>2
<1>2. CASE Record(p) \/ SetStatus(p) \/ Fail(p)
  BY <1>2 DEF Record, SetStatus, Fail, Return, Idle
<1>q. QED  BY <1>1, <1>2

(* As long as the edit is hidden, only the write of its own command shows it. *)
LEMMA MergingHidden ==
  ASSUME Inv, Hidden, NEW p \in Clients, Merging(p)
  PROVE  Hidden'
<1>1. CASE Recheck(p)
  <2>1. PICK y \in Move : y = run[p]  BY <1>1, AtMove DEF Recheck, MovePcs
  <2>2. CASE Return(p) /\ UNCHANGED change
    <3>1. UNCHANGED tip /\ Idle.pc = "idle"  BY <1>1 DEF Recheck, Idle
    <3>q. QED  BY <2>2, <3>1, ElsewhereBare, HiddenStill DEF Return
  <2>3. CASE ~(Return(p) /\ UNCHANGED change)
    <3>1. PICK txt \in Texts :
          /\ Make(Merge, txt) /\ UNCHANGED tip
          /\ Set(p, [y EXCEPT !.pc = "compare", !.id = Fresh, !.seenS = tip[y.src],
                              !.new = tip[y.src] \cup tip[y.dst] \cup {Fresh}])
      BY <1>1, <2>1, <2>3 DEF Recheck
    <3>2. Merge \in Changes /\ Merge # Edit  BY NamesAssumption DEF Changes
    <3>3. PICK f \in Numbers : f = Fresh  BY <3>1 DEF Make
    <3>4. PICK c \in SUBSET Numbers : /\ c = tip[y.src] \cup tip[y.dst]
                                      /\ \A n \in c : Made(n)
      <4>1. y.src \in Branches /\ y.dst \in Branches  BY DEF Move
      <4>q. QED  BY <4>1, TipTyped DEF Commit
    <3>5. Plain(c)
      <4>1. y.src \in Branches /\ y.dst \in Branches  BY DEF Move
      <4>q. QED  BY <3>4, <4>1 DEF Hidden, Plain
    <3>6. Plain(c \cup {f})'  BY <3>1, <3>2, <3>3, <3>4, <3>5, MakePlain
    <3>7. PICK x : x = [y EXCEPT !.pc = "compare", !.id = f, !.seenS = tip[y.src],
                                 !.new = c \cup {f}]
      OBVIOUS
    <3>8. x.new = c \cup {f} /\ x.pc = "compare"  BY <3>7 DEF Move
    <3>9. Bare(x)'  BY <3>6, <3>8 DEF Bare, Restack
    <3>10. Grows  BY <3>1, <3>2, MakeGrows DEF Inv
    <3>11. \A b \in Branches : Plain(tip[b])'  BY <3>1, <3>10, TipPlain
    <3>12. Set(p, x)  BY <3>1, <3>3, <3>4, <3>7
    <3>q. QED  BY <3>9, <3>10, <3>11, <3>12, HiddenMove
  <2>q. QED  BY <2>2, <2>3
<1>2. CASE ~Recheck(p)
  <2>1. PICK x : Set(p, x) /\ x.pc \notin {"compare", "write", "member"}
    BY <1>2, MergingMoves
  <2>2. UNCHANGED change /\ (UNCHANGED tip \/ \E b : tip' = [tip EXCEPT ![b] = {}])
    BY <1>2 DEF Merging, BeginMerge, Preview, Checks, MarkMerged, DeleteSource, Retarget
  <2>3. Grows  BY <2>2 DEF Inv, TypeOK, Grows
  <2>4. ASSUME NEW b \in Branches  PROVE Plain(tip[b])'
    <3>1. tip \in [Branches -> Commit]  BY DEF Inv, TypeOK
    <3>2. CASE tip'[b] = tip[b]  BY <2>3, <3>2, TipPlain
    <3>3. CASE tip'[b] = {}  BY <3>3 DEF Plain
    <3>q. QED  BY <2>2, <3>1, <3>2, <3>3
  <2>q. QED  BY <2>1, <2>3, <2>4, ElsewhereBare, HiddenMove
<1>q. QED  BY <1>1, <1>2

LEMMA WritingHidden ==
  ASSUME Inv, Hidden, NEW p \in Clients, Compare(p) \/ Write(p)
  PROVE  Hidden' \/ Accounted'
<1>1. PICK y \in Move : y = run[p] /\ Fits(y) /\ Bare(y) /\ y.pc \in {"compare", "write"}
  <2>1. run[p].pc \in {"compare", "write"}  BY DEF Compare, Write
  <2>q. QED  BY <2>1, AtMove DEF MovePcs, Hidden
<1>2. UNCHANGED change /\ Grows  BY DEF Compare, Write, Inv, TypeOK, Grows
<1>3. Idle.pc = "idle" /\ \A l : [y EXCEPT !.pc = l].pc = l  BY DEF Idle, Move
<1>4. CASE Compare(p)
  <2>1. UNCHANGED tip  BY <1>4 DEF Compare
  <2>2. CASE Return(p)
    BY <1>2, <1>3, <2>1, <2>2, ElsewhereBare, HiddenStill DEF Return
  <2>3. CASE ~Return(p)
    <3>1. PICK x : x = [y EXCEPT !.pc = "write", !.seenT = tip[y.dst]]  OBVIOUS
    <3>2. Set(p, x)  BY <1>1, <1>4, <2>3, <3>1 DEF Compare
    <3>3. x.kind = y.kind /\ x.new = y.new /\ x.pc = "write"  BY <3>1 DEF Move
    <3>4. Bare(x)  BY <1>1, <3>3 DEF Bare, Restack
    <3>q. QED  BY <1>2, <2>1, <3>2, <3>4, HiddenStill
  <2>q. QED  BY <2>2, <2>3
<1>5. CASE Write(p) /\ y.kind = "apply"
  <2>1. Set(p, [y EXCEPT !.pc = "record"])  BY <1>1, <1>5 DEF Write, Goto, AfterWrite
  <2>2. PICK x : x = [y EXCEPT !.pc = "record"]  OBVIOUS
  <2>3. run'[p].pc = "record"  BY <1>3, <2>1, <2>2 DEF Set, Inv, TypeOK
  <2>q. QED  BY <2>3 DEF Accounted
<1>6. CASE Write(p) /\ y.kind # "apply"
  <2>1. \E x : Set(p, x) /\ x.pc \notin {"compare", "write", "member"}
    <3>1. Set(p, Idle) \/ Set(p, [y EXCEPT !.pc = "state"])
      <4>1. y.kind \in {"merge", "pick"}  BY <1>6 DEF Move
      <4>q. QED  BY <1>1, <1>6, <4>1 DEF Write, Goto, Return, AfterWrite
    <3>2. PICK x : x = [y EXCEPT !.pc = "state"]  OBVIOUS
    <3>q. QED  BY <1>3, <3>1, <3>2
  <2>2. tip' = [tip EXCEPT ![y.dst] = y.new] /\ tip \in [Branches -> Commit]
    BY <1>1, <1>6 DEF Write, Inv, TypeOK
  <2>3. Plain(y.new)'  BY <1>1, <1>2, <1>6 DEF Bare, Plain, Write
  <2>4. ASSUME NEW b \in Branches  PROVE Plain(tip[b])'
    <3>1. CASE tip'[b] = tip[b]  BY <1>2, <3>1, TipPlain
    <3>2. CASE tip'[b] = y.new  BY <2>3, <3>2 DEF Plain
    <3>q. QED  BY <2>2, <3>1, <3>2
  <2>q. QED  BY <1>2, <2>1, <2>4, ElsewhereBare, HiddenMove
<1>q. QED  BY <1>4, <1>5, <1>6

LEMMA EditingHidden ==
  ASSUME Inv, Hidden, NEW p \in Clients, Editing(p)
  PROVE  Hidden'
<1>1. CASE BeginApply(p)
  <2>1. UNCHANGED tip  BY <1>1 DEF BeginApply
  <2>2. CASE UNCHANGED <<change, file, run>>
    <3>1. Grows  BY <2>2 DEF Inv, TypeOK, Grows
    <3>2. \A b \in Branches : Plain(tip[b])'  BY <2>1, <3>1, TipPlain
    <3>q. QED  BY <2>2, <3>1, <3>2, HiddenStep
  <2>3. CASE ~(UNCHANGED <<change, file, run>>)
    <3>1. PICK b, c : /\ Make(Edit, Edited)
                      /\ Set(p, [Mover("compare", "apply", SuggestedOn, b, b)
                                   EXCEPT !.t = c, !.id = Fresh, !.new = c \cup {Fresh}])
      BY <1>1, <2>3 DEF BeginApply
    <3>2. PICK x : x = [Mover("compare", "apply", SuggestedOn, b, b)
                          EXCEPT !.t = c, !.id = Fresh, !.new = c \cup {Fresh}]
      OBVIOUS
    <3>3. x.kind = "apply" /\ x.pc = "compare"  BY <3>2 DEF Mover
    <3>4. Bare(x)'  BY <3>3 DEF Bare, Restack
    <3>5. Grows
      <4>1. Edit \in Changes /\ Edited \in Texts  BY NamesAssumption DEF Changes
      <4>q. QED  BY <3>1, <4>1, MakeGrows DEF Inv
    <3>6. \A d \in Branches : Plain(tip[d])'  BY <2>1, <3>5, TipPlain
    <3>q. QED  BY <3>1, <3>2, <3>4, <3>5, <3>6, HiddenMove
  <2>q. QED  BY <2>2, <2>3
<1>2. CASE Record(p) \/ BeginStatus(p) \/ SetStatus(p)
  <2>1. UNCHANGED <<change, tip>>  BY <1>2 DEF Record, BeginStatus, SetStatus
  <2>q. QED  BY <1>2, <2>1, PlainMoves, ElsewhereBare, HiddenStill
<1>q. QED  BY <1>1, <1>2 DEF Editing

LEMMA StackingHidden ==
  ASSUME Inv, Hidden, NEW p \in Clients, Stacking(p)
  PROVE  Hidden'
<1>1. ASSUME NEW r \in Reviews, BeginPick(p, r)  PROVE Hidden'
  <2>1. PICK n \in Reachable, txt \in Texts :
           /\ change[n] \in Works /\ Make(change[n], txt) /\ UNCHANGED tip
           /\ Set(p, [Mover("write", "pick", r, review[r].source, review[r].source)
                        EXCEPT !.t = tip[review[r].source], !.seenT = tip[review[r].source],
                               !.new = tip[review[r].source] \cup {Fresh}])
    BY <1>1 DEF BeginPick
  <2>2. change[n] \in Changes /\ change[n] # Edit  BY <2>1, NamesAssumption DEF Changes
  <2>3. PICK f \in Numbers : f = Fresh  BY <2>1 DEF Make
  <2>4. PICK b \in Branches, c \in SUBSET Numbers :
           b = review[r].source /\ c = tip[b] /\ \A m \in c : Made(m)
    BY RowTyped, TipTyped DEF Commit
  <2>5. Plain(c)  BY <2>4 DEF Hidden
  <2>6. Plain(c \cup {f})'  BY <2>1, <2>2, <2>3, <2>4, <2>5, MakePlain
  <2>7. PICK x : x = [Mover("write", "pick", r, b, b)
                        EXCEPT !.t = c, !.seenT = c, !.new = c \cup {f}]
    OBVIOUS
  <2>8. x.new = c \cup {f} /\ x.pc = "write"  BY <2>7 DEF Mover
  <2>9. Bare(x)'  BY <2>6, <2>8 DEF Bare, Restack
  <2>10. Grows  BY <2>1, <2>2, MakeGrows DEF Inv
  <2>11. \A d \in Branches : Plain(tip[d])'  BY <2>1, <2>10, TipPlain
  <2>12. Set(p, x)  BY <2>1, <2>3, <2>4, <2>7
  <2>q. QED  BY <2>9, <2>10, <2>11, <2>12, HiddenMove
<1>2. CASE BeginRestack(p)
  <2>1. /\ UNCHANGED <<change, tip>>
        /\ Set(p, [pc |-> "member", left |-> 1, tips |-> tip, prev |-> tip[Trunk],
                   base |-> tip[Trunk]])
    BY <1>2 DEF BeginRestack
  <2>2. PICK x : x = [pc |-> "member", left |-> 1, tips |-> tip, prev |-> tip[Trunk],
                      base |-> tip[Trunk]]
    OBVIOUS
  <2>3. x.base = tip[Trunk] /\ x.tips = tip /\ x.pc = "member"  BY <2>2
  <2>4. Bare(x)  BY <2>3, NamesAssumption DEF Bare, Hidden, Move
  <2>q. QED  BY <2>1, <2>2, <2>4, HiddenStill
<1>3. CASE Member(p)
  <2>1. PICK y \in Restack, b \in Branches, orig \in Commit, base \in Commit,
             prev \in Commit, replay \in SUBSET Numbers :
           /\ y = run[p] /\ Fits(y) /\ y.pc = "member"
           /\ orig = y.tips[b] /\ base = y.base /\ prev = y.prev
           /\ replay = orig \ (orig \cap prev)
           /\ Stepped(p, y, b, orig, base, replay)
    BY <1>3, MemberSteps
  <2>2. Bare(y)  BY <2>1 DEF Hidden
  <2>3. Plain(orig) /\ Plain(base) /\ \A d \in Branches : Plain(y.tips[d])
    BY <2>1, <2>2 DEF Bare
  <2>4. ASSUME NEW c \in Commit, Plain(c)  PROVE Bare(Advanced(y, orig, c))
    <3>1. CASE Advanced(y, orig, c) = Idle  BY <3>1, IdleBare
    <3>2. CASE Advanced(y, orig, c) # Idle
      <4>1. PICK x : x = Advanced(y, orig, c)  OBVIOUS
      <4>2. x \notin Move /\ x.base = c /\ x.tips = y.tips  BY <3>2, <4>1, NextTyped
      <4>3. Bare(x)  BY <2>3, <2>4, <4>2 DEF Bare
      <4>q. QED  BY <4>1, <4>3
    <3>q. QED  BY <3>1, <3>2
  <2>5. CASE UNCHANGED <<change, tip, overwritten>>
             /\ (Return(p) \/ Set(p, Advanced(y, orig, orig)))
    <3>1. CASE Return(p)  BY <2>5, <3>1, IdleBare, HiddenStill DEF Return
    <3>2. CASE Set(p, Advanced(y, orig, orig))
      <4>1. PICK x : x = Advanced(y, orig, orig)  OBVIOUS
      <4>2. Bare(x) /\ Set(p, x)  BY <2>3, <2>4, <3>2, <4>1
      <4>q. QED  BY <2>5, <4>2, HiddenStill
    <3>q. QED  BY <2>5, <3>1, <3>2
  <2>6. CASE ~(UNCHANGED <<change, tip, overwritten>>
               /\ (Return(p) \/ Set(p, Advanced(y, orig, orig))))
    <3>1. /\ Copies(replay) \subseteq Numbers /\ change' = Copied(replay)
          /\ tip' = [tip EXCEPT ![b] = base \cup Copies(replay)]
          /\ Set(p, Advanced(y, orig, base \cup Copies(replay)))
      BY <2>1, <2>6 DEF Stepped
    <3>2. /\ \A n \in base \cup replay : n \in Numbers /\ Made(n)
          /\ \A n \in base \cup replay : change[n] # Edit
      BY <2>1, <2>3 DEF Fits, Commit, Plain
    <3>3. /\ Grows
          /\ \A n \in replay : change'[Copy(replay, n)] = change[n]
      BY <3>1, <3>2, CopiesGrow DEF Inv
    <3>4. PICK c \in Commit : c = base \cup Copies(replay)  BY <3>1 DEF Commit
    <3>5. Plain(c)'
      <4>1. ASSUME NEW n \in Copies(replay)  PROVE change'[n] # Edit
        <5>1. PICK m \in replay : n = Copy(replay, m)  BY DEF Copies
        <5>q. QED  BY <3>2, <3>3, <5>1
      <4>2. ASSUME NEW n \in base  PROVE change'[n] # Edit
        BY <3>2, <3>3 DEF Grows
      <4>q. QED  BY <3>4, <4>1, <4>2 DEF Plain
    <3>6. ASSUME NEW d \in Branches  PROVE Plain(tip[d])'
      <4>1. tip \in [Branches -> Commit]  BY DEF Inv, TypeOK
      <4>2. CASE d = b
        <5>1. tip'[d] = c  BY <3>1, <3>4, <4>1, <4>2
        <5>q. QED  BY <3>5, <5>1 DEF Plain
      <4>3. CASE d # b
        <5>1. tip'[d] = tip[d]  BY <3>1, <4>1, <4>3
        <5>q. QED  BY <3>3, <5>1, TipPlain
      <4>q. QED  BY <4>2, <4>3
    <3>7. PICK x : x = Advanced(y, orig, c)  OBVIOUS
    <3>8. Bare(x)'
      <4>1. CASE x = Idle  BY <4>1, IdleBare
      <4>2. CASE x # Idle
        <5>1. x \notin Move /\ x.base = c /\ x.tips = y.tips  BY <3>7, <4>2, NextTyped
        <5>2. Bare(y)'  BY <2>1, <2>2, <3>3, BareKept DEF Run
        <5>q. QED  BY <3>5, <5>1, <5>2 DEF Bare
      <4>q. QED  BY <4>1, <4>2
    <3>9. Set(p, x)  BY <3>1, <3>4, <3>7
    <3>q. QED  BY <3>3, <3>6, <3>8, <3>9, HiddenMove
  <2>q. QED  BY <2>5, <2>6
<1>q. QED  BY <1>1, <1>2, <1>3, Zenon DEF Stacking

LEMMA OthersHidden ==
  ASSUME Inv, Hidden
  PROVE  /\ \A b \in Branches : Push(b) => Hidden'
         /\ \A r \in Reviews : Update(r) => Hidden'
         /\ \A p \in Clients : Fail(p) => Hidden'
<1>1. ASSUME NEW b \in Branches, Push(b)  PROVE Hidden'
  <2>1. PICK w \in Works, txt \in Texts :
           Make(w, txt) /\ tip' = [tip EXCEPT ![b] = @ \cup {Fresh}] /\ UNCHANGED run
    BY <1>1 DEF Push
  <2>2. w \in Changes /\ w # Edit  BY NamesAssumption DEF Changes
  <2>3. PICK f \in Numbers : f = Fresh  BY <2>1 DEF Make
  <2>4. Grows  BY <2>1, <2>2, MakeGrows DEF Inv
  <2>5. PICK c \in SUBSET Numbers : c = tip[b] /\ \A n \in c : Made(n)  BY TipTyped DEF Commit
  <2>6. Plain(c)  BY <2>5 DEF Hidden
  <2>7. Plain(c \cup {f})'  BY <2>1, <2>2, <2>3, <2>5, <2>6, MakePlain
  <2>8. ASSUME NEW d \in Branches  PROVE Plain(tip[d])'
    <3>1. tip \in [Branches -> Commit]  BY DEF Inv, TypeOK
    <3>2. CASE d = b
      <4>1. tip'[d] = c \cup {f}  BY <2>1, <2>3, <2>5, <3>1, <3>2
      <4>q. QED  BY <2>7, <4>1 DEF Plain
    <3>3. CASE d # b
      <4>1. tip'[d] = tip[d]  BY <2>1, <3>1, <3>3
      <4>q. QED  BY <2>4, <4>1, TipPlain
    <3>q. QED  BY <3>2, <3>3
  <2>q. QED  BY <2>1, <2>4, <2>8, HiddenStep
<1>2. ASSUME NEW p \in Clients, Fail(p)  PROVE Hidden'
  <2>1. UNCHANGED <<change, tip>>  BY <1>2 DEF Fail
  <2>q. QED  BY <1>2, <2>1, PlainMoves, ElsewhereBare, HiddenStill
<1>3. ASSUME NEW r \in Reviews, Update(r)  PROVE Hidden'
  <2>1. UNCHANGED <<change, tip, run>>  BY <1>3 DEF Update
  <2>2. Grows  BY <2>1 DEF Inv, TypeOK, Grows
  <2>q. QED  BY <2>1, <2>2, TipPlain, HiddenStep
<1>q. QED  BY <1>1, <1>2, <1>3

LEMMA ShownNext == Inv /\ (Hidden \/ Accounted) /\ [Next]_vars => (Hidden \/ Accounted)'
<1> SUFFICES ASSUME Inv, Hidden \/ Accounted, [Next]_vars  PROVE Hidden' \/ Accounted'
  OBVIOUS
<1>1. CASE Next /\ Accounted  BY <1>1, StaysAccounted
<1>2. CASE Next /\ Hidden
  BY <1>2, MergingHidden, WritingHidden, EditingHidden, StackingHidden, OthersHidden DEF Next
<1>3. CASE UNCHANGED vars
  BY <1>3 DEF vars, Hidden, Accounted, Bare, Plain
<1>q. QED  BY <1>1, <1>2, <1>3

LEMMA ShownInit == Init => Hidden
<1> SUFFICES ASSUME Init PROVE Hidden  OBVIOUS
<1>1. change = InitChange /\ tip = InitTip /\ run = [p \in Clients |-> Idle]  BY DEF Init
<1>2. \A n \in Numbers : change[n] # Edit  BY <1>1, InitAssumption, NamesAssumption
<1>3. \A b \in Branches : tip[b] \subseteq Numbers  BY <1>1, InitAssumption
<1>q. QED  BY <1>1, <1>2, <1>3, IdleBare DEF Hidden, Plain

(* The row of a suggested edit and the branches agree: an edit that is on a *)
(* branch is not open, unless its command is about to record it, failed     *)
(* there, or a person reopened it; and what is recorded as applied is in    *)
(* the repository, was overwritten unseen, or went with branches that were  *)
(* merged and deleted in a circle. *)
THEOREM EditsAreRecorded == Spec => []EditIsRecorded
<1>1. Inv /\ (Hidden \/ Accounted) => EditIsRecorded
  <2> SUFFICES ASSUME Inv, Hidden \/ Accounted  PROVE EditIsRecorded  OBVIOUS
  <2>1. ASSUME Edit \in WorksOf(Reachable), edit.status = "OPEN"
        PROVE  edit.loose \/ \E p \in Clients : run[p].pc = "record"
    <3>1. PICK b \in Branches : \E n \in tip[b] : change[n] = Edit  BY <2>1 DEF WorksOf, Reachable
    <3>2. ~Hidden  BY <3>1 DEF Hidden, Plain
    <3>q. QED  BY <2>1, <3>2 DEF Accounted
  <2>2. ASSUME edit.applied # 0, ~Circle  PROVE Edit \in WorksOf(Reachable \cup overwritten)
    <3>0. <<Edit, 0>> \in Kept(Shown)  BY <2>2, EditKept
    <3>1. <<Edit, 0>> \in Kept(Reachable \cup overwritten)  BY <2>2, <3>0, AllIsBelow
    <3>2. PICK n \in Reachable \cup overwritten : <<Edit, 0>> = Sig(n)  BY <3>1 DEF Kept
    <3>3. change[n] = Edit  BY <3>2 DEF Sig
    <3>q. QED  BY <3>3 DEF WorksOf
  <2>q. QED  BY <2>1, <2>2 DEF EditIsRecorded
<1>2. Init => Hidden \/ Accounted  BY ShownInit
<1>q. QED  BY <1>1, <1>2, SafeMergeInvariant, ShownNext, PTL DEF Spec

-----------------------------------------------------------------------------
(* An application of the edit starts from a branch whose file reads as it   *)
(* did at the suggestion's base.  Commits and their files never change, so  *)
(* that is still so of the commit the branch is compared with.              *)

FilesStay == \A n \in Numbers : Made(n) => file'[n] = file[n]

Acts(p) == \/ Merging(p) \/ Editing(p) \/ Stacking(p)
           \/ Compare(p) \/ Write(p) \/ Fail(p)

LEMMA OneSets ==
  ASSUME Inv, NEW p \in Clients, Acts(p)
  PROVE  /\ UNCHANGED run \/ \E x : Set(p, x)
         /\ run[p].pc = "write" => Write(p) \/ Fail(p)
<1>1. CASE Merging(p)
  BY <1>1 DEF Merging, BeginMerge, Preview, Checks, Recheck, MarkMerged, DeleteSource, Retarget,
              Begin, Goto, Return
<1>2. CASE Editing(p)
  BY <1>2 DEF Editing, BeginApply, Record, BeginStatus, SetStatus, Begin, Return
<1>3. CASE Stacking(p)
  <2>1. CASE Member(p)
    <3>1. PICK y, b, orig, base, replay : Stepped(p, y, b, orig, base, replay)
      BY <2>1, MemberSteps
    <3>q. QED  BY <2>1, <3>1 DEF Stepped, Return, Member
  <2>q. QED  BY <1>3, <2>1 DEF Stacking, BeginPick, BeginRestack, Begin
<1>4. CASE Compare(p) \/ Write(p) \/ Fail(p)
  BY <1>4 DEF Compare, Write, Fail, Goto, Return
<1>q. QED  BY <1>1, <1>2, <1>3, <1>4 DEF Acts

(* Commits are only added, and the suggestion stays written against its     *)
(* base. *)
LEMMA NextGrows ==
  ASSUME Inv, Next
  PROVE  Grows /\ FilesStay /\ edit'.base = edit.base
<1>1. ASSUME UNCHANGED <<change, file>>  PROVE Grows /\ FilesStay
  BY <1>1 DEF Inv, TypeOK, Grows, FilesStay
<1>2. ASSUME NEW w \in Changes, NEW txt \in Texts, Make(w, txt)  PROVE Grows /\ FilesStay
  <2>1. /\ Grows /\ ~Made(Fresh) /\ file' = [file EXCEPT ![Fresh] = txt]
        /\ file \in [Numbers -> Texts]
    BY <1>2, MakeGrows DEF Inv, TypeOK
  <2>q. QED  BY <2>1 DEF FilesStay
<1>3. Edit \in Changes /\ Merge \in Changes /\ Works \subseteq Changes /\ Edited \in Texts
  BY NamesAssumption DEF Changes
<1>4. edit \in Suggestion  BY DEF Inv, TypeOK
<1>5. ASSUME NEW p \in Clients, Merging(p)  PROVE Grows /\ FilesStay /\ UNCHANGED edit
  <2>1. UNCHANGED edit /\ (UNCHANGED <<change, file>> \/ \E txt \in Texts : Make(Merge, txt))
    BY <1>5 DEF Merging, BeginMerge, Preview, Checks, Recheck, MarkMerged, DeleteSource, Retarget
  <2>q. QED  BY <1>1, <1>2, <1>3, <2>1
<1>6. ASSUME NEW p \in Clients, Editing(p)  PROVE Grows /\ FilesStay /\ edit'.base = edit.base
  <2>1. UNCHANGED <<change, file>> \/ Make(Edit, Edited)
    BY <1>6 DEF Editing, BeginApply, Record, BeginStatus, SetStatus
  <2>2. edit'.base = edit.base
    BY <1>4, <1>6 DEF Editing, BeginApply, Record, Recorded, BeginStatus, SetStatus, Suggestion
  <2>q. QED  BY <1>1, <1>2, <1>3, <2>1, <2>2
<1>7. ASSUME NEW p \in Clients, Stacking(p)  PROVE Grows /\ FilesStay /\ UNCHANGED edit
  <2>1. UNCHANGED edit  BY <1>7 DEF Stacking, BeginPick, BeginRestack, Member
  <2>2. ASSUME NEW r \in Reviews, BeginPick(p, r)  PROVE Grows /\ FilesStay
    <3>1. PICK n \in Reachable, txt \in Texts : change[n] \in Works /\ Make(change[n], txt)
      BY <2>2 DEF BeginPick
    <3>q. QED  BY <1>2, <1>3, <3>1
  <2>3. CASE BeginRestack(p)  BY <1>1, <2>3 DEF BeginRestack
  <2>4. CASE Member(p)
    <3>1. PICK y \in Restack, b \in Branches, orig \in Commit, base \in Commit,
               prev \in Commit, replay \in SUBSET Numbers :
             /\ Fits(y) /\ orig = y.tips[b] /\ replay = orig \ (orig \cap prev)
             /\ Stepped(p, y, b, orig, base, replay)
      BY <2>4, MemberSteps
    <3>2. \A n \in replay : Made(n)  BY <3>1 DEF Fits
    <3>3. CASE UNCHANGED <<change, file>>  BY <1>1, <2>1, <3>3
    <3>4. CASE /\ Copies(replay) \subseteq Numbers /\ change' = Copied(replay)
               /\ \E t \in [Copies(replay) -> Texts] :
                     file' = [n \in Numbers |-> IF n \in Copies(replay) THEN t[n] ELSE file[n]]
      <4>1. Grows /\ \A n \in Copies(replay) : ~Made(n)  BY <3>2, <3>4, CopiesGrow DEF Inv
      <4>2. FilesStay  BY <3>4, <4>1 DEF FilesStay
      <4>q. QED  BY <2>1, <4>1, <4>2
    <3>q. QED  BY <3>1, <3>3, <3>4 DEF Stepped
  <2>q. QED  BY <1>7, <2>1, <2>2, <2>3, <2>4 DEF Stacking
<1>8. ASSUME NEW p \in Clients, Compare(p) \/ Write(p) \/ Fail(p)
      PROVE  Grows /\ FilesStay /\ edit'.base = edit.base
  <2>1. UNCHANGED <<change, file>>  BY <1>8 DEF Compare, Write, Fail
  <2>2. edit'.base = edit.base  BY <1>4, <1>8 DEF Compare, Write, Fail, Suggestion
  <2>q. QED  BY <1>1, <2>1, <2>2
<1>9. ASSUME NEW b \in Branches, Push(b)  PROVE Grows /\ FilesStay /\ UNCHANGED edit
  <2>1. UNCHANGED edit /\ \E w \in Works, txt \in Texts : Make(w, txt)  BY <1>9 DEF Push
  <2>q. QED  BY <1>2, <1>3, <2>1
<1>10. ASSUME NEW r \in Reviews, Update(r)  PROVE Grows /\ FilesStay /\ UNCHANGED edit
  BY <1>1, <1>10 DEF Update
<1>q. QED  BY <1>5, <1>6, <1>7, <1>8, <1>9, <1>10 DEF Next

(* A commit's newest ancestor is one of them, so its text is a made commit's. *)
LEMMA NewestIn == ASSUME NEW c \in SUBSET Numbers, c # {}  PROVE Newest(c) \in c
<1> DEFINE S == {MaxCommits - n : n \in c}
<1>1. MaxCommits \in Nat /\ \A n \in c : n \in Nat /\ n <= MaxCommits
  BY BoundsAssumption DEF Numbers
<1>2. S \in SUBSET Nat /\ S # {}  BY <1>1
<1>3. PICK s \in S : \A t \in S : s <= t
  <2> HIDE DEF S
  <2>1. PICK R : R = OpToRel(<, Nat) /\ IsWellFoundedOn(R, Nat)  BY NatLessThanWellFounded
  <2>2. PICK s \in S : \A t \in S : <<t, s>> \notin R  BY <1>2, <2>1, WFMin
  <2>3. \A x, y \in Nat : <<x, y>> \in R <=> x < y  BY <2>1 DEF OpToRel
  <2>4. ASSUME NEW t \in S  PROVE s <= t
    <3>1. s \in Nat /\ t \in Nat /\ <<t, s>> \notin R  BY <1>2, <2>2
    <3>2. ~(t < s)  BY <2>3, <3>1
    <3>q. QED  BY <3>1, <3>2
  <2>q. QED  BY <2>4
<1>4. PICK n \in c : s = MaxCommits - n  OBVIOUS
<1>5. \A m \in c : m <= n
  <2>1. ASSUME NEW m \in c  PROVE m <= n
    <3>1. MaxCommits - n <= MaxCommits - m  BY <1>3, <1>4
    <3>q. QED  BY <1>1, <3>1
  <2>q. QED  BY <2>1
<1>q. QED  BY <1>5 DEF Newest

LEMMA TextKept ==
  ASSUME FilesStay, NEW c \in SUBSET Numbers, \A n \in c : Made(n)
  PROVE  Text(c)' = Text(c)
<1>1. CASE c = {}  BY <1>1 DEF Text, At
<1>2. CASE c # {}
  <2>1. PICK n \in c : n = Newest(c)  BY <1>2, NewestIn
  <2>2. file'[n] = file[n]  BY DEF FilesStay
  <2>3. Text(c) = file[n]  BY <1>2, <2>1 DEF Text, At
  <2>4. Text(c)' = file'[n]  BY <1>2, <2>1 DEF Text, At
  <2>q. QED  BY <2>2, <2>3, <2>4
<1>q. QED  BY <1>1, <1>2

Based == edit.base \in SUBSET Numbers /\ \A n \in edit.base : Made(n)

OnBase(x) == x \in Move /\ x.pc \in {"compare", "write"} /\ x.kind = "apply" =>
                /\ Text(x.t) = Text(edit.base)
                /\ x.pc = "write" => x.seenT = x.t

AllOnBase == Based /\ \A p \in Clients : OnBase(run[p])

LEMMA BasedKept ==
  ASSUME Based, Grows, FilesStay, edit'.base = edit.base
  PROVE  Based' /\ Text(edit.base)' = Text(edit.base)
<1>1. PICK c \in SUBSET Numbers : c = edit.base /\ \A n \in c : Made(n)  BY DEF Based
<1>2. \A n \in c : Made(n)'  BY <1>1, SigKept
<1>3. Text(c)' = Text(c)  BY <1>1, TextKept
<1>q. QED  BY <1>1, <1>2, <1>3 DEF Based

LEMMA OnBaseKept ==
  ASSUME Based, Grows, FilesStay, edit'.base = edit.base, NEW x \in Run, Fits(x), OnBase(x)
  PROVE  OnBase(x)'
<1>1. ASSUME x \in Move, x.pc \in {"compare", "write"}, x.kind = "apply"
      PROVE  Text(x.t)' = Text(edit.base)' /\ (x.pc = "write" => x.seenT = x.t)
  <2>1. PICK c \in SUBSET Numbers : c = x.t /\ \A n \in c : Made(n)
    BY <1>1 DEF Move, Commit, Fits
  <2>2. Text(c) = Text(edit.base) /\ (x.pc = "write" => x.seenT = x.t)  BY <1>1, <2>1 DEF OnBase
  <2>3. Text(c)' = Text(c)  BY <2>1, TextKept
  <2>4. Text(edit.base)' = Text(edit.base)  BY BasedKept
  <2>q. QED  BY <2>1, <2>2, <2>3, <2>4
<1>q. QED  BY <1>1 DEF OnBase

(* What the step of one command leaves it with. *)
LEMMA NextOnBase ==
  ASSUME Inv, AllOnBase, NEW p \in Clients, Acts(p), run'[p] # run[p], run' \in [Clients -> Run]
  PROVE  OnBase(run[p])'
<1>1. Grows /\ FilesStay /\ edit'.base = edit.base  BY NextGrows DEF Acts, Next
<1>2. run \in [Clients -> Run]  BY DEF Inv, TypeOK
<1>3. ASSUME NEW x, Set(p, x), x.pc \notin {"compare", "write"} \/ x.kind # "apply"
      PROVE  OnBase(run[p])'
  <2>1. run'[p] = x  BY <1>2, <1>3 DEF Set
  <2>q. QED  BY <1>3, <2>1 DEF OnBase
<1>4. CASE BeginApply(p)
  <2>1. PICK b \in Branches, c \in SUBSET Numbers :
           b = review[SuggestedOn].source /\ c = tip[b] /\ \A n \in c : Made(n)
    BY RowTyped, TipTyped, NamesAssumption DEF Commit
  <2>2. CASE UNCHANGED run  BY <1>2, <2>2
  <2>3. CASE ~UNCHANGED run
    <3>1. /\ FileUnchanged(c)
          /\ Set(p, [Mover("compare", "apply", SuggestedOn, b, b)
                       EXCEPT !.t = c, !.id = Fresh, !.new = c \cup {Fresh}])
      BY <1>4, <2>1, <2>3 DEF BeginApply
    <3>2. PICK x : x = [Mover("compare", "apply", SuggestedOn, b, b)
                          EXCEPT !.t = c, !.id = Fresh, !.new = c \cup {Fresh}]
      OBVIOUS
    <3>3. x.t = c /\ x.pc = "compare"  BY <3>2 DEF Mover
    <3>4. Text(c)' = Text(edit.base)'
      <4>1. Text(c)' = Text(c)  BY <1>1, <2>1, TextKept
      <4>2. Text(edit.base)' = Text(edit.base)  BY <1>1, BasedKept DEF AllOnBase
      <4>q. QED  BY <3>1, <4>1, <4>2 DEF FileUnchanged
    <3>5. run'[p] = x  BY <1>2, <3>1, <3>2 DEF Set
    <3>q. QED  BY <3>3, <3>4, <3>5 DEF OnBase
  <2>q. QED  BY <2>2, <2>3
<1>5. CASE Compare(p)
  <2>1. PICK y \in Move : y = run[p] /\ Fits(y) /\ OnBase(y) /\ y.pc = "compare"
    BY <1>5, AtMove DEF Compare, MovePcs, AllOnBase
  <2>2. CASE Return(p)  BY <1>3, <2>2 DEF Return, Idle
  <2>3. CASE ~Return(p)
    <3>1. PICK x : x = [y EXCEPT !.pc = "write", !.seenT = tip[y.dst]]  OBVIOUS
    <3>2. Set(p, x) /\ tip[y.dst] = y.t  BY <1>5, <2>1, <2>3, <3>1 DEF Compare, Unmoved
    <3>3. x.kind = y.kind /\ x.t = y.t /\ x.seenT = y.t  BY <3>1, <3>2 DEF Move
    <3>4. OnBase(y)'  BY <1>1, <2>1, OnBaseKept DEF Run, AllOnBase
    <3>5. run'[p] = x  BY <1>2, <3>2 DEF Set
    <3>6. y.kind = "apply" => Text(y.t)' = Text(edit.base)'  BY <2>1, <3>4 DEF OnBase
    <3>q. QED  BY <3>3, <3>5, <3>6 DEF OnBase
  <2>q. QED  BY <2>2, <2>3
<1>6. CASE Merging(p)
  <2>1. CASE Recheck(p)
    <3>1. PICK y \in Move : y = run[p] /\ y.kind = "merge"
      BY <2>1, AtMove DEF Recheck, MovePcs, Fits
    <3>2. CASE Return(p)  BY <1>3, <3>2 DEF Return, Idle
    <3>3. CASE ~Return(p)
      <4>1. PICK x : x = [y EXCEPT !.pc = "compare", !.id = Fresh, !.seenS = tip[y.src],
                                   !.new = tip[y.src] \cup tip[y.dst] \cup {Fresh}]
        OBVIOUS
      <4>2. Set(p, x)  BY <2>1, <3>1, <3>3, <4>1 DEF Recheck
      <4>3. x.kind = "merge"  BY <3>1, <4>1 DEF Move
      <4>q. QED  BY <1>3, <4>2, <4>3
    <3>q. QED  BY <3>2, <3>3
  <2>q. QED  BY <1>3, <1>6, <2>1, MergingMoves
<1>7. CASE Record(p) \/ BeginStatus(p) \/ SetStatus(p) \/ Fail(p)
  BY <1>3, <1>7, PlainMoves
<1>8. CASE Stacking(p)
  <2>1. ASSUME NEW r \in Reviews, BeginPick(p, r)  PROVE OnBase(run[p])'
    <3>1. PICK b, c, d : Set(p, [Mover("write", "pick", r, b, b)
                                   EXCEPT !.t = c, !.seenT = c, !.new = d])
      BY <2>1 DEF BeginPick
    <3>2. PICK x : x = [Mover("write", "pick", r, b, b) EXCEPT !.t = c, !.seenT = c, !.new = d]
      OBVIOUS
    <3>3. x.kind = "pick"  BY <3>2 DEF Mover
    <3>q. QED  BY <1>3, <3>1, <3>2, <3>3
  <2>2. CASE BeginRestack(p)
    <3>1. PICK x : x = [pc |-> "member", left |-> 1, tips |-> tip, prev |-> tip[Trunk],
                        base |-> tip[Trunk]]
      OBVIOUS
    <3>2. Set(p, x) /\ x.pc = "member"  BY <2>2, <3>1 DEF BeginRestack
    <3>q. QED  BY <1>3, <3>2
  <2>3. CASE Member(p)
    <3>1. PICK y \in Restack, b \in Branches, orig \in Commit, base \in Commit,
               prev \in Commit, replay \in SUBSET Numbers :
             y.pc = "member" /\ Stepped(p, y, b, orig, base, replay)
      BY <2>3, MemberSteps
    <3>2. \A c : Advanced(y, orig, c).pc \in {"idle", "member"}
      BY <3>1 DEF Advanced, Idle, Restack
    <3>3. Return(p) \/ \E c : Set(p, Advanced(y, orig, c))  BY <3>1 DEF Stepped
    <3>4. CASE Return(p)  BY <1>3, <3>4 DEF Return, Idle
    <3>5. ASSUME NEW c, Set(p, Advanced(y, orig, c))  PROVE OnBase(run[p])'
      <4>1. PICK x : x = Advanced(y, orig, c)  OBVIOUS
      <4>q. QED  BY <1>3, <3>2, <3>5, <4>1
    <3>q. QED  BY <3>3, <3>4, <3>5
  <2>q. QED  BY <1>8, <2>1, <2>2, <2>3 DEF Stacking
<1>9. CASE Write(p)
  <2>1. PICK y \in Move : y = run[p] /\ y.pc = "write"  BY <1>9, AtMove DEF Write, MovePcs
  <2>2. Return(p) \/ \E l \in {"state", "record"} : Goto(p, l)
    <3>1. y.kind \in {"merge", "apply", "pick"}  BY DEF Move
    <3>q. QED  BY <1>9, <2>1, <3>1 DEF Write, AfterWrite
  <2>3. \A l : [y EXCEPT !.pc = l].pc = l  BY DEF Move
  <2>4. CASE Return(p)  BY <1>3, <2>4 DEF Return, Idle
  <2>5. ASSUME NEW l \in {"state", "record"}, Goto(p, l)  PROVE OnBase(run[p])'
    <3>1. PICK x : x = [y EXCEPT !.pc = l]  OBVIOUS
    <3>q. QED  BY <1>3, <2>1, <2>3, <2>5, <3>1 DEF Goto
  <2>q. QED  BY <2>2, <2>4, <2>5
<1>q. QED  BY <1>4, <1>5, <1>6, <1>7, <1>8, <1>9 DEF Acts, Editing

LEMMA OnBaseNext == Inv /\ AllOnBase /\ Inv' /\ [Next]_vars => AllOnBase'
<1> SUFFICES ASSUME Inv, AllOnBase, Inv', [Next]_vars  PROVE AllOnBase'  OBVIOUS
<1>1. CASE UNCHANGED vars
  BY <1>1 DEF vars, AllOnBase, Based, Made, OnBase, Text, At
<1>2. CASE Next
  <2>1. Grows /\ FilesStay /\ edit'.base = edit.base  BY <1>2, NextGrows
  <2>2. Based'  BY <2>1, BasedKept DEF AllOnBase
  <2>3. run \in [Clients -> Run] /\ run' \in [Clients -> Run]  BY DEF Inv, TypeOK
  <2>4. ASSUME NEW q \in Clients, run'[q] = run[q]  PROVE OnBase(run[q])'
    <3>1. PICK y \in Run : y = run[q] /\ Fits(y) /\ OnBase(y)  BY <2>3 DEF Inv, AllOnBase
    <3>2. OnBase(y)'  BY <2>1, <3>1, OnBaseKept DEF AllOnBase
    <3>q. QED  BY <2>4, <3>1, <3>2 DEF OnBase
  <2>5. CASE UNCHANGED run  BY <2>2, <2>4, <2>5 DEF AllOnBase
  <2>6. ASSUME NEW p \in Clients, Acts(p)  PROVE AllOnBase'
    <3>1. UNCHANGED run \/ \E x : Set(p, x)  BY <2>6, OneSets
    <3>2. \A q \in Clients : q # p => run'[q] = run[q]  BY <2>3, <3>1 DEF Set
    <3>3. ASSUME NEW q \in Clients  PROVE OnBase(run[q])'
      <4>1. CASE run'[q] = run[q]  BY <2>4, <4>1
      <4>2. CASE run'[q] # run[q]  BY <2>3, <2>6, <3>2, <4>2, NextOnBase
      <4>q. QED  BY <4>1, <4>2
    <3>q. QED  BY <2>2, <3>3 DEF AllOnBase
  <2>7. \/ \E b \in Branches : Push(b)
        \/ \E r \in Reviews : Update(r)
        \/ \E p \in Clients : Acts(p)
    BY <1>2 DEF Next, Acts
  <2>q. QED  BY <2>5, <2>6, <2>7 DEF Push, Update
<1>q. QED  BY <1>1, <1>2

LEMMA OnBaseInit == Init => AllOnBase
<1> SUFFICES ASSUME Init PROVE AllOnBase  OBVIOUS
<1>1. /\ tip = InitTip /\ run = [p \in Clients |-> Idle]
      /\ edit.base = InitTip[InitReview[SuggestedOn].source]
  BY DEF Init
<1>2. InitReview[SuggestedOn].source \in Branches
  BY InitAssumption, NamesAssumption DEF ReviewRow
<1>3. PICK b \in Branches : edit.base = tip[b]  BY <1>1, <1>2
<1>4. Based  BY <1>3, InitInv, TipTyped DEF Based, Commit
<1>5. \A p \in Clients : OnBase(run[p])  BY <1>1 DEF OnBase, Idle
<1>q. QED  BY <1>4, <1>5 DEF AllOnBase

(* A suggested edit reaches only a branch whose file reads as it did where  *)
(* the suggestion was written, whatever was applied, reverted, restacked or *)
(* pushed since it was computed, unless the branch moved in the time between *)
(* the comparison and the forced write. *)
THEOREM EditsLandOnTheirBase == Spec => EditLandsOnItsBase
<1>1. Inv /\ AllOnBase /\ [Next]_vars =>
        [\A p \in Clients : run[p].pc = "write" /\ run'[p].pc = "record" =>
            \/ Text(tip[run[p].dst]) = Text(edit.base)
            \/ tip[run[p].dst] # run[p].seenT]_vars
  <2> SUFFICES ASSUME Inv, AllOnBase, Next, NEW p \in Clients,
                      run[p].pc = "write", run'[p].pc = "record",
                      tip[run[p].dst] = run[p].seenT
               PROVE  Text(tip[run[p].dst]) = Text(edit.base)
    OBVIOUS
  <2>1. run \in [Clients -> Run] /\ run'[p] # run[p]  BY DEF Inv, TypeOK
  <2>2. PICK q \in Clients : Acts(q)  BY <2>1 DEF Next, Push, Update, Acts
  <2>3. q = p
    <3>1. UNCHANGED run \/ \E x : Set(q, x)  BY <2>2, OneSets
    <3>q. QED  BY <2>1, <3>1 DEF Set
  <2>4. Write(p)
    <3>1. ~Fail(p)
      <4>1. Fail(p) => run'[p] = Idle  BY <2>1 DEF Fail, Return, Set
      <4>q. QED  BY <4>1 DEF Idle
    <3>q. QED  BY <2>2, <2>3, <3>1, OneSets
  <2>5. PICK y \in Move : y = run[p] /\ OnBase(y) /\ y.pc = "write"
    BY AtMove DEF MovePcs, AllOnBase
  <2>6. y.kind = "apply"
    <3>1. y.kind \in {"merge", "apply", "pick"}  BY DEF Move
    <3>2. y.kind = "pick" => run'[p] = Idle  BY <2>1, <2>4, <2>5 DEF Write, Return, Set
    <3>3. y.kind = "merge" => run'[p].pc = "state"
      <4>1. y.kind = "merge" => run' = [run EXCEPT ![p] = [y EXCEPT !.pc = "state"]]
        BY <2>4, <2>5 DEF Write, Goto, Set, AfterWrite
      <4>2. [y EXCEPT !.pc = "state"].pc = "state"  BY DEF Move
      <4>q. QED  BY <2>1, <4>1, <4>2
    <3>q. QED  BY <3>1, <3>2, <3>3 DEF Idle
  <2>7. tip[y.dst] = y.t /\ Text(y.t) = Text(edit.base)  BY <2>5, <2>6 DEF OnBase
  <2>q. QED  BY <2>5, <2>7
<1>q. QED  BY <1>1, OnBaseInit, OnBaseNext, SafeMergeInvariant, PTL DEF Spec, EditLandsOnItsBase

-----------------------------------------------------------------------------
(* Stacks.  The property is inductive: a review becomes merged while its    *)
(* command is at work, and the command ends by moving every child away.     *)

AtWorkPcs == {"state", "delete", "retarget"}

LEMMA AtWorkStays ==
  ASSUME Inv, NEW p \in Clients, NEW x, Set(p, x), NEW r \in Reviews, AtWork(r),
         run[p].pc \notin AtWorkPcs \/ run[p].r # r \/ (x.pc \in AtWorkPcs /\ x.r = r)
  PROVE  AtWork(r)'
<1>1. PICK q \in Clients : run[q].pc \in AtWorkPcs /\ run[q].r = r  BY DEF AtWork, AtWorkPcs
<1>2. run \in [Clients -> Run] /\ run' = [run EXCEPT ![p] = x]  BY DEF Inv, TypeOK, Set
<1>3. run'[q].pc \in AtWorkPcs /\ run'[q].r = r
  <2>1. CASE q = p  BY <1>1, <1>2, <2>1
  <2>2. CASE q # p  BY <1>1, <1>2, <2>2
  <2>q. QED  BY <2>1, <2>2
<1>q. QED  BY <1>3 DEF AtWork, AtWorkPcs

(* A step that writes no review. *)
LEMMA ChildrenStay ==
  ASSUME ChildrenFollow, UNCHANGED <<review, crossed, rewritten>>, broken \subseteq broken',
         \A r \in Reviews : AtWork(r) => AtWork(r)' \/ r \in broken'
  PROVE  ChildrenFollow'
BY DEF ChildrenFollow

LEMMA ChildrenQuiet ==
  ASSUME Inv, ChildrenFollow, UNCHANGED <<review, broken, crossed, rewritten>>,
         NEW p \in Clients, NEW x, Set(p, x), run[p].pc \notin AtWorkPcs
  PROVE  ChildrenFollow'
BY AtWorkStays, ChildrenStay

LEMMA MarkMergedChildren ==
  ASSUME Inv, ChildrenFollow, NEW p \in Clients, MarkMerged(p)
  PROVE  ChildrenFollow'
<1>1. PICK y \in Move : y = run[p] /\ y.pc = "state"  BY AtMove DEF MarkMerged, MovePcs
<1>2. PICK l \in {"delete", "retarget"} : Goto(p, l)  BY DEF MarkMerged
<1>3. PICK x : x = [y EXCEPT !.pc = l]  OBVIOUS
<1>4. Set(p, x) /\ x.pc \in AtWorkPcs /\ x.r = y.r  BY <1>1, <1>2, <1>3 DEF Goto, Move, AtWorkPcs
<1>5. y.r \in Reviews /\ review \in [Reviews -> ReviewRow]  BY DEF Move, Inv, TypeOK
<1>6. AtWork(y.r)'
  <2>1. AtWork(y.r)  BY <1>1 DEF AtWork
  <2>q. QED  BY <1>4, <1>5, <2>1, AtWorkStays
<1>7. \A r \in Reviews : AtWork(r) => AtWork(r)'  BY <1>1, <1>4, AtWorkStays
<1>8. /\ review' = [review EXCEPT ![y.r].state = "Merged"]
      /\ UNCHANGED <<broken, crossed, rewritten>>
  BY <1>1 DEF MarkMerged
<1>9. \A r \in Reviews : /\ review'[r].source = review[r].source
                         /\ review'[r].target = review[r].target
                         /\ r # y.r => review'[r].state = review[r].state
                         /\ r = y.r => review'[r].state = "Merged"
  BY <1>5, <1>8 DEF ReviewRow
<1>10. Stacked \subseteq Reviews  BY NamesAssumption DEF Stacked
<1>11. ASSUME NEW r \in Reviews, NEW c \in Stacked, review'[c].state = "Opened",
              review'[r].state = "Merged", review'[c].target = review'[r].source,
              review'[r].source # review'[r].target
       PROVE  AtWork(r)' \/ r \in broken' \cup crossed' \/ {r, c} \cap rewritten' # {}
  <2>1. CASE r = y.r  BY <1>6, <2>1
  <2>2. CASE r # y.r
    <3>1. /\ review[c].state = "Opened" /\ review[r].state = "Merged"
          /\ review[c].target = review[r].source /\ review[r].source # review[r].target
      BY <1>9, <1>10, <1>11, <2>2
    <3>2. AtWork(r) \/ r \in broken \cup crossed \/ {r, c} \cap rewritten # {}
      BY <3>1 DEF ChildrenFollow
    <3>q. QED  BY <1>7, <1>8, <3>2
  <2>q. QED  BY <2>1, <2>2
<1>q. QED  BY <1>11 DEF ChildrenFollow, Stacked

LEMMA RetargetChildren ==
  ASSUME Inv, ChildrenFollow, NEW p \in Clients, Retarget(p)
  PROVE  ChildrenFollow'
<1>1. PICK y \in Move, s \in Reviews : y = run[p] /\ y.r = s /\ y.pc = "retarget"
  <2>1. PICK y \in Move : y = run[p] /\ y.pc = "retarget"  BY AtMove DEF Retarget, MovePcs
  <2>q. QED  BY <2>1 DEF Move
<1>2. /\ review' = [c \in Reviews |-> IF c \in Children(s)
                                      THEN [review[c] EXCEPT !.target = review[s].target]
                                      ELSE review[c]]
      /\ crossed' = IF Children(s) = {} THEN crossed
                    ELSE crossed \cup {q \in Reviews : /\ review[q].state = "Merged"
                                                       /\ review[q].source = review[s].target}
      /\ Set(p, Idle) /\ UNCHANGED <<broken, rewritten>>
  BY <1>1 DEF Retarget, Return
<1>3. review \in [Reviews -> ReviewRow] /\ Stacked \subseteq Reviews
  BY NamesAssumption DEF Inv, TypeOK, Stacked
<1>4. \A c \in Reviews : /\ review'[c].state = review[c].state
                         /\ review'[c].source = review[c].source
                         /\ c \in Children(s) => review'[c].target = review[s].target
                         /\ c \notin Children(s) => review'[c].target = review[c].target
  BY <1>2, <1>3 DEF ReviewRow
<1>6. ASSUME NEW r \in Reviews, NEW c \in Stacked, review'[c].state = "Opened",
             review'[r].state = "Merged", review'[c].target = review'[r].source,
             review'[r].source # review'[r].target
      PROVE  AtWork(r)' \/ r \in broken' \cup crossed' \/ {r, c} \cap rewritten' # {}
  <2>1. CASE c \in Children(s)
    <3>1. review[r].state = "Merged" /\ review[r].source = review[s].target
      BY <1>3, <1>4, <1>6, <2>1
    <3>q. QED  BY <1>2, <2>1, <3>1
  <2>2. CASE c \notin Children(s)
    <3>1. /\ review[c].state = "Opened" /\ review[r].state = "Merged"
          /\ review[c].target = review[r].source
      BY <1>3, <1>4, <1>6, <2>2
    <3>2. r # s  BY <2>2, <3>1 DEF Children
    <3>3. AtWork(r) => AtWork(r)'  BY <1>1, <1>2, <3>2, AtWorkStays
    <3>4. CASE review[r].source # review[r].target
      <4>1. AtWork(r) \/ r \in broken \cup crossed \/ {r, c} \cap rewritten # {}
        BY <3>1, <3>4 DEF ChildrenFollow
      <4>q. QED  BY <1>2, <3>3, <4>1
    <3>5. CASE review[r].source = review[r].target
      <4>1. r \in Children(s) /\ review[r].state = "Opened"  BY <1>4, <1>6, <3>5 DEF Children
      <4>q. QED  BY <3>1, <4>1
    <3>q. QED  BY <3>4, <3>5
  <2>q. QED  BY <2>1, <2>2
<1>q. QED  BY <1>6 DEF ChildrenFollow, Stacked

LEMMA ChildrenNext == Inv /\ ChildrenFollow /\ [Next]_vars => ChildrenFollow'
<1> SUFFICES ASSUME Inv, ChildrenFollow, [Next]_vars  PROVE ChildrenFollow'  OBVIOUS
<1>1. ASSUME NEW p \in Clients, Merging(p)  PROVE ChildrenFollow'
  <2>1. CASE BeginMerge(p) \/ Preview(p) \/ Checks(p) \/ Recheck(p)
    <3>1. /\ UNCHANGED <<review, broken, crossed, rewritten>> /\ \E x : Set(p, x)
          /\ run[p].pc \notin AtWorkPcs
      BY <2>1 DEF BeginMerge, Preview, Checks, Recheck, Begin, Return, AtWorkPcs
    <3>q. QED  BY <3>1, ChildrenQuiet
  <2>2. CASE DeleteSource(p)
    <3>1. PICK y \in Move : y = run[p] /\ y.pc = "delete"  BY <2>2, AtMove DEF DeleteSource, MovePcs
    <3>2. UNCHANGED <<review, crossed, rewritten>>  BY <2>2 DEF DeleteSource
    <3>3. CASE Goto(p, "retarget") /\ UNCHANGED broken
      <4>1. PICK x : x = [y EXCEPT !.pc = "retarget"]  OBVIOUS
      <4>2. Set(p, x) /\ x.pc \in AtWorkPcs /\ x.r = y.r
        BY <3>1, <3>3, <4>1 DEF Goto, Move, AtWorkPcs
      <4>3. \A r \in Reviews : AtWork(r) => AtWork(r)'  BY <3>1, <4>2, AtWorkStays
      <4>q. QED  BY <3>2, <3>3, <4>3, ChildrenStay
    <3>4. CASE Return(p) /\ broken' = broken \cup {y.r}
      <4>1. \A r \in Reviews : AtWork(r) => AtWork(r)' \/ r = y.r
        BY <3>1, <3>4, AtWorkStays DEF Return
      <4>q. QED  BY <3>2, <3>4, <4>1, ChildrenStay
    <3>q. QED  BY <2>2, <3>1, <3>3, <3>4 DEF DeleteSource
  <2>q. QED  BY <1>1, <2>1, <2>2, MarkMergedChildren, RetargetChildren DEF Merging
<1>2. ASSUME NEW p \in Clients, Editing(p)  PROVE ChildrenFollow'
  <2>1. UNCHANGED <<review, broken, crossed, rewritten>> /\ run[p].pc \notin AtWorkPcs
    BY <1>2 DEF Editing, BeginApply, Record, BeginStatus, SetStatus, Begin, AtWorkPcs
  <2>2. UNCHANGED run \/ \E x : Set(p, x)
    BY <1>2 DEF Editing, BeginApply, Record, BeginStatus, SetStatus, Return
  <2>3. CASE UNCHANGED run
    <3>1. \A r \in Reviews : AtWork(r) => AtWork(r)'  BY <2>3 DEF AtWork
    <3>q. QED  BY <2>1, <3>1, ChildrenStay
  <2>q. QED  BY <2>1, <2>2, <2>3, ChildrenQuiet
<1>3. ASSUME NEW p \in Clients, Stacking(p)  PROVE ChildrenFollow'
  <2>1. UNCHANGED <<review, broken, crossed, rewritten>> /\ run[p].pc \notin AtWorkPcs
    BY <1>3 DEF Stacking, BeginPick, BeginRestack, Member, Begin, AtWorkPcs
  <2>2. \E x : Set(p, x)
    <3>1. CASE Member(p)
      <4>1. PICK y, b, orig, base, replay : Stepped(p, y, b, orig, base, replay)
        BY <3>1, MemberSteps
      <4>q. QED  BY <4>1 DEF Stepped, Return
    <3>q. QED  BY <1>3, <3>1 DEF Stacking, BeginPick, BeginRestack
  <2>q. QED  BY <2>1, <2>2, ChildrenQuiet
<1>4. ASSUME NEW p \in Clients, Compare(p) \/ Write(p)  PROVE ChildrenFollow'
  <2>1. /\ UNCHANGED <<review, broken, crossed, rewritten>> /\ run[p].pc \notin AtWorkPcs
        /\ \E x : Set(p, x)
    BY <1>4 DEF Compare, Write, Goto, Return, AtWorkPcs
  <2>q. QED  BY <2>1, ChildrenQuiet
<1>5. ASSUME NEW u \in Reviews, Update(u)  PROVE ChildrenFollow'
  <2>1. PICK row : /\ UNCHANGED <<run, broken, crossed>> /\ rewritten' = rewritten \cup {u}
                   /\ review' = [review EXCEPT ![u] = row]
    BY <1>5 DEF Update
  <2>2. \A r \in Reviews : r # u => review'[r] = review[r]  BY <2>1 DEF Inv, TypeOK
  <2>3. \A r \in Reviews : AtWork(r) => AtWork(r)'  BY <2>1 DEF AtWork
  <2>4. Stacked \subseteq Reviews  BY NamesAssumption DEF Stacked
  <2>q. QED  BY <2>1, <2>2, <2>3, <2>4 DEF ChildrenFollow, Stacked
<1>6. ASSUME NEW p \in Clients, Fail(p)  PROVE ChildrenFollow'
  <2>1. /\ UNCHANGED <<review, crossed, rewritten>> /\ Set(p, Idle)
        /\ broken' = IF run[p].pc \in AtWorkPcs THEN broken \cup {run[p].r} ELSE broken
    BY <1>6 DEF Fail, Return, AtWorkPcs
  <2>2. \A r \in Reviews : AtWork(r) => AtWork(r)' \/ r \in broken'  BY <2>1, AtWorkStays
  <2>q. QED  BY <2>1, <2>2, ChildrenStay
<1>7. ASSUME NEW b \in Branches, Push(b)  PROVE ChildrenFollow'
  <2>1. UNCHANGED <<review, broken, crossed, rewritten, run>>  BY <1>7 DEF Push
  <2>2. \A r \in Reviews : AtWork(r) => AtWork(r)'  BY <2>1 DEF AtWork
  <2>q. QED  BY <2>1, <2>2, ChildrenStay
<1>8. CASE UNCHANGED vars  BY <1>8 DEF vars, ChildrenFollow, AtWork, Stacked
<1>q. QED  BY <1>1, <1>2, <1>3, <1>4, <1>5, <1>6, <1>7, <1>8 DEF Next

(* Once a review is merged no open review of its stack is left waiting for  *)
(* its source branch, if the merge ran to its end, overlapped with no merge *)
(* of the next review of the stack, and nobody wrote the rows over.         *)
THEOREM NoChildLeftBehind == Spec => []ChildrenFollow
<1>1. Init => ChildrenFollow  BY InitAssumption DEF Init, ChildrenFollow
<1>q. QED  BY <1>1, SafeMergeInvariant, ChildrenNext, PTL DEF Spec

-----------------------------------------------------------------------------
(* A merge that reached a ref is marked in its review's row, or about to    *)
(* be, or its command failed after the ref moved, or the row was rewritten. *)

Settled(r) == review[r].state = "Merged" \/ r \in broken \cup rewritten

Posted ==
    /\ \A p \in Clients : run[p].pc \in {"delete", "retarget"} => Settled(run[p].r)
    /\ \A r \in Reviews : landed[r] # {} =>
          Settled(r) \/ \E p \in Clients : run[p].pc = "state" /\ run[p].r = r

LEMMA PostedStays ==
  ASSUME Posted, UNCHANGED <<landed, run>>, \A r \in Reviews : Settled(r) => Settled(r)',
         \A p \in Clients : run[p].pc \in {"delete", "retarget"} => run[p].r \in Reviews
  PROVE  Posted'
<1>1. \A p \in Clients : run'[p].pc \in {"delete", "retarget"} => Settled(run[p].r)'
  <2>1. ASSUME NEW p \in Clients, run[p].pc \in {"delete", "retarget"}
        PROVE  Settled(run[p].r)'
    <3>1. PICK r \in Reviews : r = run[p].r /\ Settled(r)  BY <2>1 DEF Posted
    <3>2. Settled(r)' /\ run'[p].r = r  BY <3>1
    <3>q. QED  BY <3>2 DEF Settled
  <2>q. QED  BY <2>1
<1>q. QED  BY <1>1 DEF Posted, Settled

(* A step of one command. *)
LEMMA PostedMove ==
  ASSUME Inv, Posted, NEW p \in Clients, NEW x, Set(p, x),
         \A r \in Reviews : Settled(r) => Settled(r)',
         \A r \in Reviews : landed'[r] # {} => landed[r] # {} \/ (x.pc = "state" /\ x.r = r),
         x.pc \in {"delete", "retarget"} =>
             \E r \in Reviews : r = x.r /\ Settled(r)',
         run[p].pc = "state" => \E r \in Reviews : r = run[p].r /\ Settled(r)'
  PROVE  Posted'
<1>1. run' = [run EXCEPT ![p] = x] /\ run \in [Clients -> Run]  BY DEF Set, Inv, TypeOK
<1>2. run'[p] = x /\ \A q \in Clients : q # p => run'[q] = run[q]  BY <1>1
<1>3. ASSUME NEW q \in Clients, run'[q].pc \in {"delete", "retarget"}
      PROVE  \E r \in Reviews : r = run'[q].r /\ Settled(r)'
  <2>1. CASE q = p  BY <1>2, <1>3, <2>1
  <2>2. CASE q # p
    <3>1. run'[q] = run[q] /\ run[q].pc \in {"delete", "retarget"}  BY <1>2, <1>3, <2>2
    <3>2. PICK y \in Move : y = run[q]  BY <3>1, AtMove DEF MovePcs
    <3>3. PICK r \in Reviews : r = run[q].r  BY <3>2 DEF Move
    <3>4. Settled(r)  BY <3>1, <3>3 DEF Posted
    <3>q. QED  BY <3>1, <3>3, <3>4
  <2>q. QED  BY <2>1, <2>2
<1>4. ASSUME NEW r \in Reviews, landed'[r] # {}
      PROVE  Settled(r)' \/ \E q \in Clients : run'[q].pc = "state" /\ run'[q].r = r
  <2>1. CASE x.pc = "state" /\ x.r = r  BY <1>2, <2>1
  <2>2. CASE ~(x.pc = "state" /\ x.r = r)
    <3>1. Settled(r) \/ \E q \in Clients : run[q].pc = "state" /\ run[q].r = r
      BY <1>4, <2>2 DEF Posted
    <3>2. ASSUME NEW q \in Clients, run[q].pc = "state", run[q].r = r
          PROVE  Settled(r)' \/ \E k \in Clients : run'[k].pc = "state" /\ run'[k].r = r
      <4>1. CASE q = p  BY <3>2, <4>1
      <4>2. CASE q # p  BY <1>2, <3>2, <4>2
      <4>q. QED  BY <4>1, <4>2
    <3>q. QED  BY <3>1, <3>2
  <2>q. QED  BY <2>1, <2>2
<1>5. ASSUME NEW q \in Clients, run'[q].pc \in {"delete", "retarget"}  PROVE Settled(run[q].r)'
  <2>1. PICK r \in Reviews : r = run'[q].r /\ Settled(r)'  BY <1>3, <1>5
  <2>q. QED  BY <2>1 DEF Settled
<1>q. QED  BY <1>4, <1>5 DEF Posted, Settled

(* A step that is not of the merge's second half and merges nothing. *)
LEMMA PostedQuiet ==
  ASSUME Inv, Posted, NEW p \in Clients, NEW x, Set(p, x),
         UNCHANGED <<review, broken, rewritten, landed>>,
         x.pc \notin {"state", "delete", "retarget"}, run[p].pc # "state"
  PROVE  Posted'
<1>1. \A r \in Reviews : Settled(r) => Settled(r)'  BY DEF Settled
<1>q. QED  BY <1>1, PostedMove

LEMMA MergingPosted ==
  ASSUME Inv, Posted, NEW p \in Clients, Merging(p)
  PROVE  Posted'
<1>0. Idle.pc = "idle"  BY DEF Idle
<1>1. CASE BeginMerge(p)
  <2>1. PICK a \in Asked, del \in BOOLEAN :
           Set(p, [Mover("preview", "merge", a[1], a[2], a[3]) EXCEPT !.del = del])
    BY <1>1 DEF BeginMerge
  <2>2. PICK z : z = [Mover("preview", "merge", a[1], a[2], a[3]) EXCEPT !.del = del]  OBVIOUS
  <2>3. z.pc = "preview"  BY <2>2 DEF Mover
  <2>4. UNCHANGED <<review, broken, rewritten, landed>> /\ run[p].pc = "idle"
    BY <1>1 DEF BeginMerge, Begin
  <2>q. QED  BY <2>1, <2>2, <2>3, <2>4, PostedQuiet
<1>2. CASE Preview(p) \/ Checks(p) \/ Recheck(p)
  <2>1. PICK y \in Move : y = run[p] /\ y.pc \in {"preview", "checks", "recheck"}
    BY <1>2, AtMove DEF Preview, Checks, Recheck, MovePcs
  <2>2. UNCHANGED <<review, broken, rewritten, landed>>
    BY <1>2 DEF Preview, Checks, Recheck
  <2>3. \/ Set(p, Idle)
        \/ \E s, t : Set(p, [y EXCEPT !.pc = "checks", !.s = s, !.t = t])
        \/ \E c : Set(p, [y EXCEPT !.pc = "recheck", !.checked = c])
        \/ \E i, s, c : Set(p, [y EXCEPT !.pc = "compare", !.id = i, !.seenS = s, !.new = c])
    BY <1>2, <2>1 DEF Preview, Checks, Recheck, Return
  <2>4. \E x : Set(p, x) /\ x.pc \in {"idle", "checks", "recheck", "compare"}
    <3>1. ASSUME NEW s, NEW t, Set(p, [y EXCEPT !.pc = "checks", !.s = s, !.t = t])
          PROVE  \E x : Set(p, x) /\ x.pc = "checks"
      <4>1. PICK z : z = [y EXCEPT !.pc = "checks", !.s = s, !.t = t]  OBVIOUS
      <4>2. z.pc = "checks"  BY <4>1 DEF Move
      <4>q. QED  BY <3>1, <4>1, <4>2
    <3>2. ASSUME NEW c, Set(p, [y EXCEPT !.pc = "recheck", !.checked = c])
          PROVE  \E x : Set(p, x) /\ x.pc = "recheck"
      <4>1. PICK z : z = [y EXCEPT !.pc = "recheck", !.checked = c]  OBVIOUS
      <4>2. z.pc = "recheck"  BY <4>1 DEF Move
      <4>q. QED  BY <3>2, <4>1, <4>2
    <3>3. ASSUME NEW i, NEW s, NEW c,
                 Set(p, [y EXCEPT !.pc = "compare", !.id = i, !.seenS = s, !.new = c])
          PROVE  \E x : Set(p, x) /\ x.pc = "compare"
      <4>1. PICK z : z = [y EXCEPT !.pc = "compare", !.id = i, !.seenS = s, !.new = c]  OBVIOUS
      <4>2. z.pc = "compare"  BY <4>1 DEF Move
      <4>q. QED  BY <3>3, <4>1, <4>2
    <3>q. QED  BY <1>0, <2>3, <3>1, <3>2, <3>3
  <2>q. QED  BY <2>1, <2>2, <2>4, PostedQuiet
<1>3. CASE MarkMerged(p)
  <2>1. PICK y \in Move, s \in Reviews : y = run[p] /\ y.pc = "state" /\ s = y.r
    <3>1. PICK y \in Move : y = run[p] /\ y.pc = "state"  BY <1>3, AtMove DEF MarkMerged, MovePcs
    <3>q. QED  BY <3>1 DEF Move
  <2>2. PICK l \in {"delete", "retarget"} : Goto(p, l)  BY <1>3 DEF MarkMerged
  <2>3. PICK x : x = [y EXCEPT !.pc = l]  OBVIOUS
  <2>4. Set(p, x) /\ x.pc = l /\ x.r = s  BY <2>1, <2>2, <2>3 DEF Goto, Move
  <2>5. /\ review' = [review EXCEPT ![s].state = "Merged"] /\ review \in [Reviews -> ReviewRow]
        /\ UNCHANGED <<broken, rewritten, landed>>
    BY <1>3, <2>1 DEF MarkMerged, Inv, TypeOK
  <2>6. /\ review'[s].state = "Merged"
        /\ \A r \in Reviews : r # s => review'[r] = review[r]
    BY <2>5 DEF ReviewRow
  <2>7. Settled(s)' /\ \A r \in Reviews : Settled(r) => Settled(r)'
    BY <2>5, <2>6 DEF Settled
  <2>q. QED  BY <2>1, <2>4, <2>5, <2>7, PostedMove
<1>4. CASE DeleteSource(p)
  <2>1. PICK y \in Move, s \in Reviews : y = run[p] /\ y.pc = "delete" /\ s = y.r
    <3>1. PICK y \in Move : y = run[p] /\ y.pc = "delete"  BY <1>4, AtMove DEF DeleteSource, MovePcs
    <3>q. QED  BY <3>1 DEF Move
  <2>2. UNCHANGED <<review, rewritten, landed>> /\ broken \subseteq broken'
    BY <1>4 DEF DeleteSource
  <2>3. \A r \in Reviews : Settled(r) => Settled(r)'  BY <2>2 DEF Settled
  <2>4. Settled(s)  BY <2>1 DEF Posted
  <2>5. PICK x : Set(p, x) /\ (x = Idle \/ x = [y EXCEPT !.pc = "retarget"])
    BY <1>4, <2>1 DEF DeleteSource, Goto, Return
  <2>6. x.pc = "idle" \/ (x.pc = "retarget" /\ x.r = s)  BY <1>0, <2>1, <2>5 DEF Move
  <2>q. QED  BY <2>1, <2>2, <2>3, <2>4, <2>5, <2>6, PostedMove
<1>5. CASE Retarget(p)
  <2>1. PICK s \in Reviews : /\ review' = [c \in Reviews |->
                                            IF c \in Children(s)
                                            THEN [review[c] EXCEPT !.target = review[s].target]
                                            ELSE review[c]]
                             /\ run[p].pc = "retarget"
    <3>1. PICK y \in Move : y = run[p] /\ y.pc = "retarget"  BY <1>5, AtMove DEF Retarget, MovePcs
    <3>2. y.r \in Reviews  BY DEF Move
    <3>q. QED  BY <1>5, <3>1, <3>2 DEF Retarget
  <2>2. UNCHANGED <<broken, rewritten, landed>> /\ Set(p, Idle)  BY <1>5 DEF Retarget, Return
  <2>3. \A c \in Reviews : review'[c].state = review[c].state
    <3>1. \A c \in Reviews : review[c] \in ReviewRow  BY RowTyped
    <3>q. QED  BY <2>1, <3>1 DEF ReviewRow
  <2>4. \A r \in Reviews : Settled(r) => Settled(r)'  BY <2>2, <2>3 DEF Settled
  <2>q. QED  BY <1>0, <2>1, <2>2, <2>4, PostedMove
<1>q. QED  BY <1>1, <1>2, <1>3, <1>4, <1>5 DEF Merging

LEMMA StackingPosted ==
  ASSUME Inv, Posted, NEW p \in Clients, Stacking(p)
  PROVE  Posted'
<1>1. /\ UNCHANGED <<review, broken, rewritten, landed>> /\ run[p].pc # "state"
  BY DEF Stacking, BeginPick, BeginRestack, Member, Begin
<1>2. \E x : Set(p, x) /\ x.pc \in {"write", "member", "idle"}
  <2>1. ASSUME NEW r \in Reviews, BeginPick(p, r)  PROVE \E x : Set(p, x) /\ x.pc = "write"
    <3>1. PICK b, c, d : Set(p, [Mover("write", "pick", r, b, b)
                                   EXCEPT !.t = c, !.seenT = c, !.new = d])
      BY <2>1 DEF BeginPick
    <3>2. PICK x : x = [Mover("write", "pick", r, b, b) EXCEPT !.t = c, !.seenT = c, !.new = d]
      OBVIOUS
    <3>3. x.pc = "write"  BY <3>2 DEF Mover
    <3>q. QED  BY <3>1, <3>2, <3>3
  <2>2. ASSUME BeginRestack(p)  PROVE \E x : Set(p, x) /\ x.pc = "member"
    <3>1. PICK x : x = [pc |-> "member", left |-> 1, tips |-> tip, prev |-> tip[Trunk],
                        base |-> tip[Trunk]]
      OBVIOUS
    <3>q. QED  BY <2>2, <3>1 DEF BeginRestack
  <2>3. ASSUME Member(p)  PROVE \E x : Set(p, x) /\ x.pc \in {"member", "idle"}
    <3>1. PICK y \in Restack, b \in Branches, orig \in Commit, base \in Commit,
               prev \in Commit, replay \in SUBSET Numbers :
             y.pc = "member" /\ Stepped(p, y, b, orig, base, replay)
      BY <2>3, MemberSteps
    <3>2. \A c : Advanced(y, orig, c).pc \in {"idle", "member"}
      BY <3>1 DEF Advanced, Idle, Restack
    <3>3. Set(p, Idle) \/ \E c : Set(p, Advanced(y, orig, c))  BY <3>1 DEF Stepped, Return
    <3>4. Idle.pc = "idle"  BY DEF Idle
    <3>5. ASSUME NEW c, Set(p, Advanced(y, orig, c))
          PROVE  \E x : Set(p, x) /\ x.pc \in {"member", "idle"}
      <4>1. PICK x : x = Advanced(y, orig, c)  OBVIOUS
      <4>q. QED  BY <3>2, <3>5, <4>1
    <3>q. QED  BY <3>3, <3>4, <3>5
  <2>q. QED  BY <2>1, <2>2, <2>3 DEF Stacking
<1>q. QED  BY <1>1, <1>2, PostedQuiet

LEMMA WritePosted ==
  ASSUME Inv, Posted, NEW p \in Clients, Write(p)
  PROVE  Posted'
<1>1. PICK y \in Move : y = run[p] /\ y.pc = "write" /\ y.kind \in {"merge", "apply", "pick"}
  <2>1. PICK y \in Move : y = run[p] /\ y.pc = "write"  BY AtMove DEF Write, MovePcs
  <2>q. QED  BY <2>1 DEF Move
<1>2. UNCHANGED <<review, broken, rewritten>>  BY DEF Write
<1>3. \A r \in Reviews : Settled(r) => Settled(r)'  BY <1>2 DEF Settled
<1>4. CASE y.kind = "merge"
  <2>1. PICK x : x = [y EXCEPT !.pc = "state"]  OBVIOUS
  <2>2. Set(p, x) /\ x.pc = "state" /\ x.r = y.r
    BY <1>1, <1>4, <2>1 DEF Write, Goto, AfterWrite, Move
  <2>3. landed' = [landed EXCEPT ![y.r] = @ \cup {y.id}] /\ landed \in [Reviews -> Commit]
    BY <1>1, <1>4 DEF Write, Inv, TypeOK
  <2>4. \A r \in Reviews : r # y.r => landed'[r] = landed[r]  BY <2>3
  <2>q. QED  BY <1>1, <1>3, <2>2, <2>4, PostedMove
<1>5. CASE y.kind # "merge"
  <2>1. PICK x : Set(p, x) /\ (x = Idle \/ x = [y EXCEPT !.pc = "record"])
    BY <1>1, <1>5 DEF Write, Goto, Return, AfterWrite
  <2>2. x.pc \in {"idle", "record"}  BY <2>1 DEF Idle, Move
  <2>3. UNCHANGED landed  BY <1>1, <1>5 DEF Write
  <2>q. QED  BY <1>1, <1>2, <2>1, <2>2, <2>3, PostedQuiet
<1>q. QED  BY <1>4, <1>5

LEMMA PostedNext == Inv /\ Posted /\ [Next]_vars => Posted'
<1> SUFFICES ASSUME Inv, Posted, [Next]_vars  PROVE Posted'  OBVIOUS
<1>0. \A p \in Clients : run[p].pc \in {"delete", "retarget"} => run[p].r \in Reviews
  <2>1. ASSUME NEW p \in Clients, run[p].pc \in {"delete", "retarget"}  PROVE run[p].r \in Reviews
    <3>1. PICK y \in Move : y = run[p]  BY <2>1, AtMove DEF MovePcs
    <3>q. QED  BY <3>1 DEF Move
  <2>q. QED  BY <2>1
<1>1. ASSUME NEW p \in Clients, Merging(p)  PROVE Posted'  BY <1>1, MergingPosted
<1>2. ASSUME NEW p \in Clients, Editing(p)  PROVE Posted'
  <2>1. UNCHANGED <<review, broken, rewritten, landed>> /\ run[p].pc # "state"
    BY <1>2 DEF Editing, BeginApply, Record, BeginStatus, SetStatus, Begin
  <2>2. \A r \in Reviews : Settled(r) => Settled(r)'  BY <2>1 DEF Settled
  <2>3. CASE UNCHANGED run  BY <1>0, <2>1, <2>2, <2>3, PostedStays
  <2>4. CASE BeginApply(p) /\ ~UNCHANGED run
    <3>1. PICK b, c, i, d : Set(p, [Mover("compare", "apply", SuggestedOn, b, b)
                                      EXCEPT !.t = c, !.id = i, !.new = d])
      BY <2>4 DEF BeginApply
    <3>2. PICK x : x = [Mover("compare", "apply", SuggestedOn, b, b)
                          EXCEPT !.t = c, !.id = i, !.new = d]
      OBVIOUS
    <3>3. x.pc = "compare"  BY <3>2 DEF Mover
    <3>q. QED  BY <2>1, <3>1, <3>2, <3>3, PostedQuiet
  <2>5. CASE Record(p) \/ BeginStatus(p) \/ SetStatus(p)
    <3>1. PICK x : Set(p, x) /\ x.pc \in {"idle", "set"}  BY <2>5, PlainMoves
    <3>q. QED  BY <2>1, <3>1, PostedQuiet
  <2>q. QED  BY <1>2, <2>3, <2>4, <2>5 DEF Editing
<1>3. ASSUME NEW p \in Clients, Stacking(p)  PROVE Posted'  BY <1>3, StackingPosted
<1>4. ASSUME NEW p \in Clients, Compare(p)  PROVE Posted'
  <2>1. PICK y \in Move : y = run[p] /\ y.pc = "compare"  BY <1>4, AtMove DEF Compare, MovePcs
  <2>2. PICK t, x : Set(p, x) /\ (x = Idle \/ x = [y EXCEPT !.pc = "write", !.seenT = t])
    BY <1>4, <2>1 DEF Compare, Return
  <2>3. x.pc \in {"idle", "write"}
    <3>1. CASE x = Idle  BY <3>1 DEF Idle
    <3>2. CASE x = [y EXCEPT !.pc = "write", !.seenT = t]  BY <3>2 DEF Move
    <3>q. QED  BY <2>2, <3>1, <3>2
  <2>4. UNCHANGED <<review, broken, rewritten, landed>>  BY <1>4 DEF Compare
  <2>q. QED  BY <2>1, <2>2, <2>3, <2>4, PostedQuiet
<1>5. ASSUME NEW p \in Clients, Write(p)  PROVE Posted'  BY <1>5, WritePosted
<1>6. ASSUME NEW p \in Clients, Fail(p)  PROVE Posted'
  <2>1. /\ UNCHANGED <<review, rewritten, landed>> /\ Set(p, Idle)
        /\ broken' = IF run[p].pc \in {"state", "delete", "retarget"}
                     THEN broken \cup {run[p].r} ELSE broken
    BY <1>6 DEF Fail, Return
  <2>2. \A r \in Reviews : Settled(r) => Settled(r)'  BY <2>1 DEF Settled
  <2>3. run[p].pc = "state" => \E r \in Reviews : r = run[p].r /\ Settled(r)'
    <3>1. ASSUME run[p].pc = "state"  PROVE run[p].r \in Reviews
      <4>1. PICK y \in Move : y = run[p]  BY <3>1, AtMove DEF MovePcs
      <4>q. QED  BY <4>1 DEF Move
    <3>q. QED  BY <2>1, <3>1 DEF Settled
  <2>4. Idle.pc = "idle"  BY DEF Idle
  <2>q. QED  BY <2>1, <2>2, <2>3, <2>4, PostedMove
<1>7. ASSUME NEW b \in Branches, Push(b)  PROVE Posted'
  <2>1. UNCHANGED <<review, broken, rewritten, landed, run>>  BY <1>7 DEF Push
  <2>2. \A r \in Reviews : Settled(r) => Settled(r)'  BY <2>1 DEF Settled
  <2>q. QED  BY <1>0, <2>1, <2>2, PostedStays
<1>8. ASSUME NEW u \in Reviews, Update(u)  PROVE Posted'
  <2>1. PICK row : /\ UNCHANGED <<run, broken, landed>> /\ rewritten' = rewritten \cup {u}
                   /\ review' = [review EXCEPT ![u] = row]
    BY <1>8 DEF Update
  <2>2. \A r \in Reviews : r # u => review'[r] = review[r]  BY <2>1 DEF Inv, TypeOK
  <2>3. \A r \in Reviews : Settled(r) => Settled(r)'  BY <2>1, <2>2 DEF Settled
  <2>q. QED  BY <1>0, <2>1, <2>3, PostedStays
<1>9. CASE UNCHANGED vars  BY <1>9 DEF vars, Posted, Settled
<1>q. QED  BY <1>1, <1>2, <1>3, <1>4, <1>5, <1>6, <1>7, <1>8, <1>9 DEF Next

(* The row of a review and the refs agree: a review is merged only when a   *)
(* merge of it reached a ref, or a caller of update_review called it so; a  *)
(* merge that reached a ref is recorded, unless its command is at it,       *)
(* failed there, or the row was rewritten; and its merge commit stays in    *)
(* the repository, whatever is pushed, merged, restacked or deleted since,  *)
(* but for forced writes and circles of merges. *)
THEOREM MergedReviewsLanded == Spec => []MergedIsReachable
<1>1. Inv /\ Posted => MergedIsReachable
  <2> SUFFICES ASSUME Inv, Posted, NEW r \in Reviews
               PROVE  /\ review[r].state = "Merged" => landed[r] # {} \/ r \in claimed
                      /\ landed[r] # {} =>
                            review[r].state = "Merged" \/ AtWork(r) \/ r \in broken \cup rewritten
                      /\ landed[r] \subseteq Reachable \cup overwritten \/ Circle
    BY DEF MergedIsReachable
  <2>1. review[r].state = "Merged" => landed[r] # {} \/ r \in claimed  BY DEF Inv, Rows
  <2>2. landed[r] # {} => review[r].state = "Merged" \/ AtWork(r) \/ r \in broken \cup rewritten
    BY DEF Posted, Settled, AtWork
  <2>3. ASSUME ~Circle, NEW n \in landed[r]  PROVE n \in Reachable \cup overwritten
    <3>1. change[n] = Merge /\ Sig(n) \in Kept(Shown)  BY DEF Inv, Stored
    <3>2. Sig(n) \in Kept(Reachable \cup overwritten)  BY <2>3, <3>1, AllIsBelow
    <3>3. PICK m \in Reachable \cup overwritten : Sig(n) = Sig(m)  BY <3>2 DEF Kept
    <3>4. n # 0
      <4>1. n \in Numbers  BY DEF Inv, TypeOK, Commit
      <4>q. QED  BY <4>1, BoundsAssumption DEF Numbers
    <3>5. m = n  BY <3>1, <3>3, <3>4 DEF Sig
    <3>q. QED  BY <3>5
  <2>q. QED  BY <2>1, <2>2, <2>3
<1>2. Init => Posted  BY DEF Init, Posted, Idle
<1>q. QED  BY <1>1, <1>2, SafeMergeInvariant, PostedNext, PTL DEF Spec

-----------------------------------------------------------------------------
(* What was checked is what lands.  A merge compares names of commits, so   *)
(* it is fooled only if its source branch leaves the commit of the preview  *)
(* and returns to it.  It cannot return: what a command is about to write   *)
(* is a commit nobody else knows yet, and every other step that moves a     *)
(* branch makes a commit, but for the restack of a branch with none.        *)

Waits(x) == x \in Move /\ x.pc \in {"checks", "recheck"}
Ready(x) == x \in Move /\ x.pc \in {"compare", "write"}

(* a commit that a command may yet compare with, or put on a branch *)
Holds(x, c) == \/ Waits(x) /\ x.s = c
               \/ x \in Restack /\ (x.base = c \/ \E b \in Branches : x.tips[b] = c)

(* What is about to be written is known to its writer alone. *)
Private == \A p \in Clients : Ready(run[p]) =>
    /\ run[p].new # {} /\ \A b \in Branches : tip[b] # run[p].new
    /\ \A q \in Clients : /\ ~Holds(run[q], run[p].new)
                          /\ q # p /\ Ready(run[q]) => run[q].new # run[p].new

Exact(x) == x.new = x.checked \cup x.t \cup {x.id} \/ x.src \in forwarded

Vouched(x) ==
    /\ Waits(x) => x.s # {}
    /\ Waits(x) /\ x.pc = "recheck" /\ tip[x.src] = x.s => x.checked = x.s \/ x.src \in forwarded
    /\ Ready(x) /\ x.kind = "merge" => Exact(x)

AllVouched == \A p \in Clients : Vouched(run[p])

(* with a commit that this step makes *)
Novel(c) == \E n \in c : n \in Numbers /\ ~Made(n)

(* What one step of a command does to the branches and to what it holds. *)
TipsMove(x, y) == \A b \in Branches :
    \/ tip'[b] = tip[b] \/ Novel(tip'[b]) \/ tip'[b] = {}
    \/ Ready(x) /\ ~Ready(y) /\ tip'[b] = x.new
    \/ Holds(x, tip'[b]) /\ b \in forwarded'
Learns(x, y) == \A c : Holds(y, c) => Holds(x, c) \/ Novel(c) \/ \E b \in Branches : tip[b] = c
Plans(x, y) == Ready(y) => \/ Ready(x) /\ y.new = x.new
                           \/ Novel(y.new) /\ UNCHANGED tip
Effect(x, y) == TipsMove(x, y) /\ Learns(x, y) /\ Plans(x, y)

LEMMA KnownMade ==
  ASSUME Inv, NEW q \in Clients, NEW c
  PROVE  /\ Holds(run[q], c) => ~Novel(c)
         /\ Ready(run[q]) => ~Novel(run[q].new)
         /\ \A b \in Branches : ~Novel(tip[b])
<1>1. run[q] \in Run /\ Fits(run[q])  BY DEF Inv, TypeOK
<1>2. \A b \in Branches : ~Novel(tip[b])  BY TipTyped DEF Novel
<1>3. Ready(run[q]) => ~Novel(run[q].new)  BY <1>1 DEF Ready, Novel, Fits
<1>4. Holds(run[q], c) => ~Novel(c)  BY <1>1 DEF Holds, Waits, Novel, Fits
<1>q. QED  BY <1>2, <1>3, <1>4

(* A command that did not move. *)
LEMMA OthersVouched ==
  ASSUME Inv, Private, AllVouched, NEW p \in Clients, NEW q \in Clients,
         NEW y, TipsMove(run[p], y), forwarded \subseteq forwarded', run'[q] = run[q]
  PROVE  Vouched(run[q])'
<1>1. PICK x : x = run[q]  OBVIOUS
<1>2. Vouched(x) /\ run'[q] = x  BY <1>1 DEF AllVouched
<1>3. ASSUME Waits(x), x.pc = "recheck", tip'[x.src] = x.s
      PROVE  x.checked = x.s \/ x.src \in forwarded'
  <2>1. x.src \in Branches /\ Holds(x, x.s) /\ x.s # {}
    BY <1>2, <1>3 DEF Waits, Move, Holds, Vouched
  <2>2. ~Novel(x.s)  BY <1>1, <2>1, KnownMade
  <2>3. CASE tip'[x.src] = tip[x.src]  BY <1>2, <1>3, <2>3 DEF Vouched
  <2>4. CASE Ready(run[p]) /\ tip'[x.src] = run[p].new
    BY <1>1, <1>3, <2>1, <2>4 DEF Private
  <2>q. QED  BY <1>3, <2>1, <2>2, <2>3, <2>4 DEF TipsMove
<1>4. ASSUME Ready(x), x.kind = "merge"  PROVE Exact(x)'
  BY <1>2, <1>4 DEF Vouched, Exact
<1>q. QED  BY <1>2, <1>3, <1>4 DEF Vouched

(* The step of one command keeps what others are about to write to them. *)
LEMMA EffectPrivate ==
  ASSUME Inv, Private, NEW p \in Clients, Effect(run[p], run'[p]),
         \A q \in Clients : q # p => run'[q] = run[q]
  PROVE  Private'
<1> SUFFICES ASSUME NEW q \in Clients, Ready(run'[q])
             PROVE  /\ run'[q].new # {} /\ \A b \in Branches : tip'[b] # run'[q].new
                    /\ \A r \in Clients : /\ ~Holds(run'[r], run'[q].new)
                                          /\ r # q /\ Ready(run'[r]) => run'[r].new # run'[q].new
  BY DEF Private, Ready, Waits, Holds
<1>1. PICK c : c = run'[q].new  OBVIOUS
<1>2. ~(Ready(run'[p]) /\ \E d : Holds(run'[p], d))  BY DEF Ready, Waits, Holds, Move, Restack
<1>3. CASE Ready(run[q]) /\ run[q].new = c
  <2>1. /\ c # {} /\ ~Novel(c) /\ \A b \in Branches : tip[b] # c
        /\ \A r \in Clients : ~Holds(run[r], c) /\ (r # q /\ Ready(run[r]) => run[r].new # c)
    BY <1>3, KnownMade DEF Private
  <2>2. ASSUME NEW b \in Branches  PROVE tip'[b] # c
    <3>1. CASE Ready(run[p]) /\ ~Ready(run'[p]) /\ tip'[b] = run[p].new
      BY <2>1, <3>1
    <3>q. QED  BY <2>1, <3>1 DEF Effect, TipsMove
  <2>3. ASSUME NEW r \in Clients  PROVE ~Holds(run'[r], c)
    BY <2>1 DEF Effect, Learns
  <2>4. ASSUME NEW r \in Clients, r # q, Ready(run'[r])  PROVE run'[r].new # c
    BY <2>1, <2>4 DEF Effect, Plans
  <2>q. QED  BY <1>1, <2>1, <2>2, <2>3, <2>4
<1>4. CASE q = p /\ Novel(c) /\ UNCHANGED tip
  <2>1. c # {}  BY <1>4 DEF Novel
  <2>2. \A b \in Branches : tip'[b] # c  BY <1>4, KnownMade
  <2>3. ASSUME NEW r \in Clients  PROVE ~Holds(run'[r], c)  BY <1>2, <1>4, KnownMade
  <2>4. ASSUME NEW r \in Clients, r # q, Ready(run'[r])  PROVE run'[r].new # c
    BY <1>4, <2>4, KnownMade
  <2>q. QED  BY <1>1, <2>1, <2>2, <2>3, <2>4
<1>q. QED  BY <1>1, <1>3, <1>4 DEF Effect, Plans

(* The effect of each action.  Most steps leave a command with nothing that *)
(* this section is about. *)
LEMMA RestEffect ==
  ASSUME NEW p \in Clients, NEW x, TipsMove(x, run'[p]),
         run'[p].pc \notin {"checks", "recheck", "compare", "write", "member"}
  PROVE  Effect(x, run'[p]) /\ Vouched(run[p])'
BY DEF Effect, Learns, Plans, Vouched, Holds, Waits, Ready, Restack

LEMMA StaysPut ==
  ASSUME UNCHANGED tip, NEW x, NEW y
  PROVE  TipsMove(x, y)
BY DEF TipsMove

LEMMA RunSet ==
  ASSUME Inv, NEW p \in Clients, NEW y, Set(p, y)
  PROVE  run'[p] = y
BY DEF Inv, TypeOK, Set

LEMMA PreviewEffect ==
  ASSUME Inv, NEW p \in Clients, Preview(p)
  PROVE  Effect(run[p], run'[p]) /\ Vouched(run[p])'
<1>1. PICK x \in Move : x = run[p]  BY AtMove DEF Preview, MovePcs
<1>2. UNCHANGED tip  BY DEF Preview
<1>3. CASE Return(p)
  <2>1. run'[p] = Idle  BY <1>3, RunSet DEF Return
  <2>q. QED  BY <1>2, <2>1, RestEffect, StaysPut DEF Idle
<1>4. CASE ~Return(p)
  <2>1. PICK s, t : /\ s = tip[x.src] /\ s # {}
                    /\ Set(p, [x EXCEPT !.pc = "checks", !.s = s, !.t = t])
    BY <1>1, <1>4 DEF Preview, Exists
  <2>2. PICK y : y = [x EXCEPT !.pc = "checks", !.s = s, !.t = t]  OBVIOUS
  <2>3. run'[p] = y  BY <2>1, <2>2, RunSet
  <2>4. y.pc = "checks" /\ y.s = s  BY <2>2 DEF Move
  <2>5. x.src \in Branches  BY DEF Move
  <2>6. Learns(x, y)  BY <2>1, <2>4, <2>5 DEF Learns, Holds, Waits, Restack
  <2>7. Plans(x, y) /\ Vouched(y)'  BY <2>1, <2>4 DEF Plans, Ready, Vouched, Waits
  <2>q. QED  BY <1>1, <1>2, <2>3, <2>6, <2>7, StaysPut DEF Effect, Vouched, Exact
<1>q. QED  BY <1>3, <1>4

LEMMA ChecksEffect ==
  ASSUME Inv, AllVouched, NEW p \in Clients, Checks(p)
  PROVE  Effect(run[p], run'[p]) /\ Vouched(run[p])'
<1>1. PICK x \in Move : x = run[p] /\ x.pc = "checks" /\ Vouched(x)
  BY AtMove DEF Checks, MovePcs, AllVouched
<1>2. UNCHANGED <<tip, forwarded>>  BY DEF Checks
<1>3. CASE Return(p)
  <2>1. run'[p] = Idle  BY <1>3, RunSet DEF Return
  <2>q. QED  BY <1>2, <2>1, RestEffect, StaysPut DEF Idle
<1>4. CASE ~Return(p)
  <2>1. PICK c : c = tip[x.src] /\ Set(p, [x EXCEPT !.pc = "recheck", !.checked = c])
    BY <1>1, <1>4 DEF Checks
  <2>2. PICK y : y = [x EXCEPT !.pc = "recheck", !.checked = c]  OBVIOUS
  <2>3. run'[p] = y  BY <2>1, <2>2, RunSet
  <2>4. y.pc = "recheck" /\ y.s = x.s /\ y.checked = tip[y.src] /\ y.src = x.src
    BY <2>1, <2>2 DEF Move
  <2>5. Waits(x) /\ x.s # {}  BY <1>1 DEF Waits, Vouched
  <2>6. Learns(x, y)  BY <2>4, <2>5 DEF Learns, Holds, Waits, Restack
  <2>7. Plans(x, y) /\ Vouched(y)'  BY <1>2, <2>4, <2>5 DEF Plans, Ready, Vouched, Waits
  <2>q. QED  BY <1>1, <1>2, <2>3, <2>6, <2>7, StaysPut DEF Effect, Vouched, Exact
<1>q. QED  BY <1>3, <1>4

LEMMA FreshNovel ==
  ASSUME Inv, NEW w \in Changes, NEW txt \in Texts, Make(w, txt), NEW c
  PROVE  Novel(c \cup {Fresh})
BY MakeGrows DEF Inv, Novel

LEMMA RecheckEffect ==
  ASSUME Inv, AllVouched, NEW p \in Clients, Recheck(p)
  PROVE  Effect(run[p], run'[p]) /\ Vouched(run[p])'
<1>1. PICK x \in Move : x = run[p] /\ x.pc = "recheck" /\ Vouched(x)
  BY AtMove DEF Recheck, MovePcs, AllVouched
<1>2. UNCHANGED <<tip, forwarded>>  BY DEF Recheck
<1>3. CASE Return(p)
  <2>1. run'[p] = Idle  BY <1>3, RunSet DEF Return
  <2>q. QED  BY <1>2, <2>1, RestEffect, StaysPut DEF Idle
<1>4. CASE ~Return(p)
  <2>1. PICK txt \in Texts :
        /\ tip[x.src] = x.s /\ tip[x.dst] = x.t /\ Make(Merge, txt)
        /\ Set(p, [x EXCEPT !.pc = "compare", !.id = Fresh, !.seenS = tip[x.src],
                            !.new = tip[x.src] \cup tip[x.dst] \cup {Fresh}])
    BY <1>1, <1>4 DEF Recheck, StillVerified
  <2>2. PICK y : y = [x EXCEPT !.pc = "compare", !.id = Fresh, !.seenS = tip[x.src],
                               !.new = tip[x.src] \cup tip[x.dst] \cup {Fresh}]
    OBVIOUS
  <2>3. run'[p] = y  BY <2>1, <2>2, RunSet
  <2>4. /\ y.pc = "compare" /\ y.src = x.src /\ y.checked = x.checked /\ y.t = x.t
        /\ y.id = Fresh /\ y.new = x.s \cup x.t \cup {Fresh}
    BY <2>1, <2>2 DEF Move
  <2>5. Novel(y.new)  BY <2>1, <2>4, FreshNovel DEF Changes
  <2>6. Exact(y)'  BY <1>1, <1>2, <2>1, <2>4 DEF Vouched, Waits, Exact
  <2>7. Learns(x, y)  BY <2>4 DEF Learns, Holds, Waits, Restack
  <2>8. Plans(x, y) /\ Vouched(y)'  BY <1>2, <2>4, <2>5, <2>6 DEF Plans, Vouched, Waits
  <2>q. QED  BY <1>1, <1>2, <2>3, <2>7, <2>8, StaysPut DEF Effect, Vouched, Exact
<1>q. QED  BY <1>3, <1>4

LEMMA CompareEffect ==
  ASSUME Inv, AllVouched, NEW p \in Clients, Compare(p)
  PROVE  Effect(run[p], run'[p]) /\ Vouched(run[p])'
<1>1. PICK x \in Move : x = run[p] /\ x.pc = "compare" /\ Vouched(x)
  BY AtMove DEF Compare, MovePcs, AllVouched
<1>2. UNCHANGED <<tip, forwarded>>  BY DEF Compare
<1>3. CASE Return(p)
  <2>1. run'[p] = Idle  BY <1>3, RunSet DEF Return
  <2>q. QED  BY <1>2, <2>1, RestEffect, StaysPut DEF Idle
<1>4. CASE ~Return(p)
  <2>1. PICK y : y = [x EXCEPT !.pc = "write", !.seenT = tip[x.dst]]  OBVIOUS
  <2>2. Set(p, y)  BY <1>1, <1>4, <2>1 DEF Compare
  <2>3. run'[p] = y  BY <2>2, RunSet
  <2>4. /\ y.pc = "write" /\ y.src = x.src /\ y.checked = x.checked /\ y.t = x.t
        /\ y.id = x.id /\ y.new = x.new /\ y.kind = x.kind
    BY <2>1 DEF Move
  <2>5. Ready(x)  BY <1>1 DEF Ready
  <2>6. x.kind = "merge" => Exact(y)'  BY <1>1, <1>2, <2>4, <2>5 DEF Vouched, Exact
  <2>7. Learns(x, y)  BY <2>4 DEF Learns, Holds, Waits, Restack
  <2>8. Plans(x, y) /\ Vouched(y)'  BY <2>4, <2>5, <2>6 DEF Plans, Vouched, Waits
  <2>q. QED  BY <1>1, <1>2, <2>3, <2>7, <2>8, StaysPut DEF Effect, Vouched, Exact
<1>q. QED  BY <1>3, <1>4

(* The other commands that make a commit before they show it. *)
LEMMA DraftEffect ==
  ASSUME Inv, NEW p \in Clients, NEW x, UNCHANGED tip, NEW y, Set(p, y),
         y.pc \in {"compare", "write"}, y.kind # "merge", Novel(y.new)
  PROVE  Effect(x, run'[p]) /\ Vouched(run[p])'
<1>1. run'[p] = y  BY RunSet
<1>2. Learns(x, y)  BY DEF Learns, Holds, Waits, Restack
<1>3. Plans(x, y) /\ Vouched(y)'  BY DEF Plans, Vouched, Waits
<1>q. QED  BY <1>1, <1>2, <1>3, StaysPut DEF Effect, Vouched, Exact

LEMMA WriteEffect ==
  ASSUME Inv, NEW p \in Clients, Write(p)
  PROVE  Effect(run[p], run'[p]) /\ Vouched(run[p])'
<1>1. PICK x \in Move : x = run[p] /\ x.pc = "write"  BY AtMove DEF Write, MovePcs
<1>2. run'[p].pc \in {"idle", "state", "record"}
  <2>1. x.kind \in {"merge", "apply", "pick"}  BY DEF Move
  <2>2. Set(p, Idle) \/ \E l \in {"state", "record"} : Set(p, [x EXCEPT !.pc = l])
    BY <1>1, <2>1 DEF Write, AfterWrite, Goto, Return
  <2>3. \A l : [x EXCEPT !.pc = l].pc = l  BY DEF Move
  <2>4. run'[p] = Idle \/ \E l \in {"state", "record"} : run'[p] = [x EXCEPT !.pc = l]
    BY <2>2, RunSet
  <2>5. Idle.pc = "idle"  BY DEF Idle
  <2>q. QED  BY <2>3, <2>4, <2>5
<1>3. tip' = [tip EXCEPT ![x.dst] = x.new] /\ tip \in [Branches -> Commit]
  BY <1>1 DEF Write, Inv, TypeOK
<1>4. TipsMove(x, run'[p])  BY <1>1, <1>2, <1>3 DEF TipsMove, Ready
<1>q. QED  BY <1>1, <1>2, <1>4, RestEffect

LEMMA BeginApplyEffect ==
  ASSUME Inv, AllVouched, NEW p \in Clients, BeginApply(p)
  PROVE  Effect(run[p], run'[p]) /\ Vouched(run[p])'
<1>1. UNCHANGED <<tip, forwarded>>  BY DEF BeginApply
<1>2. CASE UNCHANGED run
  <2>1. PICK x : x = run[p] /\ run'[p] = x /\ Vouched(x)  BY <1>2 DEF AllVouched
  <2>2. Vouched(x)'  BY <1>1, <2>1 DEF Vouched, Exact
  <2>q. QED  BY <1>1, <2>1, <2>2, StaysPut DEF Effect, Learns, Plans, Vouched, Exact
<1>3. CASE ~UNCHANGED run
  <2>1. PICK b : b = review[SuggestedOn].source  OBVIOUS
  <2>2. PICK c : c = tip[b]  OBVIOUS
  <2>3. /\ Make(Edit, Edited)
        /\ Set(p, [Mover("compare", "apply", SuggestedOn, b, b)
                     EXCEPT !.t = c, !.id = Fresh, !.new = c \cup {Fresh}])
    BY <1>3, <2>1, <2>2 DEF BeginApply
  <2>4. PICK y : y = [Mover("compare", "apply", SuggestedOn, b, b)
                        EXCEPT !.t = c, !.id = Fresh, !.new = c \cup {Fresh}]
    OBVIOUS
  <2>5. y.pc = "compare" /\ y.kind = "apply" /\ y.new = c \cup {Fresh}  BY <2>4 DEF Mover
  <2>6. Novel(y.new)  BY <2>3, <2>5, FreshNovel, NamesAssumption DEF Changes
  <2>q. QED  BY <1>1, <2>3, <2>4, <2>5, <2>6, DraftEffect
<1>q. QED  BY <1>2, <1>3

LEMMA BeginPickEffect ==
  ASSUME Inv, NEW p \in Clients, NEW r \in Reviews, BeginPick(p, r)
  PROVE  Effect(run[p], run'[p]) /\ Vouched(run[p])'
<1>1. PICK b, c, n, txt :
           /\ txt \in Texts
           /\ change[n] \in Works /\ Make(change[n], txt)
           /\ Set(p, [Mover("write", "pick", r, b, b)
                        EXCEPT !.t = c, !.seenT = c, !.new = c \cup {Fresh}])
  BY DEF BeginPick
<1>2. PICK y : y = [Mover("write", "pick", r, b, b)
                      EXCEPT !.t = c, !.seenT = c, !.new = c \cup {Fresh}]
  OBVIOUS
<1>3. y.pc = "write" /\ y.kind = "pick" /\ y.new = c \cup {Fresh}  BY <1>2 DEF Mover
<1>4. Novel(y.new)  BY <1>1, <1>3, FreshNovel DEF Changes
<1>q. QED  BY <1>1, <1>2, <1>3, <1>4, DraftEffect DEF BeginPick

LEMMA BeginRestackEffect ==
  ASSUME Inv, NEW p \in Clients, BeginRestack(p)
  PROVE  Effect(run[p], run'[p]) /\ Vouched(run[p])'
<1>1. PICK y : y = [pc |-> "member", left |-> 1, tips |-> tip, prev |-> tip[Trunk],
                    base |-> tip[Trunk]]
  OBVIOUS
<1>2. UNCHANGED tip /\ Set(p, y)  BY <1>1 DEF BeginRestack
<1>3. run'[p] = y  BY <1>2, RunSet
<1>4. y.pc = "member" /\ y.base = tip[Trunk] /\ y.tips = tip  BY <1>1
<1>5. \A x : Learns(x, y)
  BY <1>4, NamesAssumption DEF Learns, Holds, Waits
<1>6. \A x : Plans(x, y)  BY <1>4 DEF Plans, Ready
<1>7. Vouched(y)'  BY <1>4 DEF Ready, Vouched, Waits
<1>q. QED  BY <1>2, <1>3, <1>5, <1>6, <1>7, StaysPut DEF Effect, Vouched, Exact

LEMMA MemberEffect ==
  ASSUME Inv, NEW p \in Clients, Member(p)
  PROVE  Effect(run[p], run'[p]) /\ Vouched(run[p])'
<1>1. PICK x \in Restack, b \in Branches, orig \in Commit, base \in Commit,
           prev \in Commit, replay \in SUBSET Numbers :
         /\ x = run[p] /\ Fits(x) /\ x.pc = "member"
         /\ orig = x.tips[b] /\ base = x.base /\ replay = orig \ (orig \cap prev)
         /\ Stepped(p, x, b, orig, base, replay)
  BY MemberSteps
<1>2. Holds(x, orig) /\ Holds(x, base)  BY <1>1 DEF Holds
(* what the next member starts from *)
<1>3. ASSUME NEW y, NEW c \in Commit, y = Idle \/ y = Advanced(x, orig, c),
             Holds(x, c) \/ Novel(c)
      PROVE  Learns(x, y) /\ Plans(x, y) /\ Vouched(y)'
  <2>1. y = Idle \/ (y \in Restack \ Move /\ y.pc = "member" /\ y.base = c /\ y.tips = x.tips)
    BY <1>3, NextTyped
  <2>2. CASE y = Idle
    BY <2>2 DEF Idle, Learns, Plans, Vouched, Holds, Waits, Ready, Restack
  <2>3. CASE y # Idle
    BY <1>1, <1>3, <2>1, <2>3 DEF Learns, Plans, Vouched, Holds, Waits, Ready
  <2>q. QED  BY <2>2, <2>3
<1>4. CASE UNCHANGED <<change, tip, overwritten, forwarded>> /\ (Return(p) \/ Set(p, Advanced(x, orig, orig)))
  <2>1. PICK y : y = run'[p] /\ (y = Idle \/ y = Advanced(x, orig, orig))
    <3>1. PICK z : z = Advanced(x, orig, orig)  OBVIOUS
    <3>2. Set(p, Idle) \/ Set(p, z)  BY <1>4, <3>1 DEF Return
    <3>q. QED  BY <3>1, <3>2, RunSet
  <2>2. Learns(x, y) /\ Plans(x, y) /\ Vouched(y)'  BY <1>2, <1>3, <2>1
  <2>q. QED  BY <1>1, <1>4, <2>1, <2>2, StaysPut DEF Effect, Vouched, Exact
<1>5. CASE /\ Copies(replay) \subseteq Numbers /\ change' = Copied(replay)
           /\ tip' = [tip EXCEPT ![b] = base \cup Copies(replay)]
           /\ forwarded' = IF Copies(replay) = {} THEN forwarded \cup {b} ELSE forwarded
           /\ Set(p, Advanced(x, orig, base \cup Copies(replay)))
  <2>1. PICK c \in Commit : c = base \cup Copies(replay)  BY <1>5 DEF Commit
  <2>2. Novel(c) \/ (Holds(x, c) /\ b \in forwarded')
    <3>1. CASE Copies(replay) = {}
      <4>1. c = base  BY <2>1, <3>1
      <4>q. QED  BY <1>2, <1>5, <3>1, <4>1
    <3>2. CASE Copies(replay) # {}
      <4>1. \A n \in replay : Made(n)  BY <1>1 DEF Fits
      <4>2. \A n \in Copies(replay) : ~Made(n)  BY <1>5, <4>1, CopiesGrow DEF Inv
      <4>q. QED  BY <1>5, <2>1, <3>2, <4>2 DEF Novel
    <3>q. QED  BY <3>1, <3>2
  <2>3. PICK y : y = Advanced(x, orig, c) /\ run'[p] = y
    <3>1. PICK z : z = Advanced(x, orig, c)  OBVIOUS
    <3>q. QED  BY <1>5, <2>1, <3>1, RunSet
  <2>4. Learns(x, y) /\ Plans(x, y) /\ Vouched(y)'  BY <1>3, <2>2, <2>3
  <2>5. TipsMove(x, y)
    <3>1. tip \in [Branches -> Commit]  BY DEF Inv, TypeOK
    <3>2. \A d \in Branches : tip'[d] = IF d = b THEN c ELSE tip[d]  BY <1>5, <2>1, <3>1
    <3>q. QED  BY <2>2, <3>2 DEF TipsMove
  <2>q. QED  BY <1>1, <2>3, <2>4, <2>5 DEF Effect, Vouched, Exact
<1>q. QED  BY <1>1, <1>4, <1>5 DEF Stepped

LEMMA MergingEffect ==
  ASSUME Inv, AllVouched, NEW p \in Clients, Merging(p)
  PROVE  Effect(run[p], run'[p]) /\ Vouched(run[p])'
<1>1. CASE Preview(p)  BY <1>1, PreviewEffect
<1>2. CASE Checks(p)  BY <1>2, ChecksEffect
<1>3. CASE Recheck(p)  BY <1>3, RecheckEffect
<1>4. CASE MarkMerged(p) \/ DeleteSource(p)
  <2>1. PICK x \in Move : x = run[p]  BY <1>4, AtMove DEF MarkMerged, DeleteSource, MovePcs
  <2>2. Set(p, Idle) \/ \E l \in {"delete", "retarget"} : Set(p, [x EXCEPT !.pc = l])
    BY <1>4, <2>1 DEF MarkMerged, DeleteSource, Goto, Return
  <2>3. run'[p] = Idle \/ \E l \in {"delete", "retarget"} : run'[p] = [x EXCEPT !.pc = l]
    BY <2>2, RunSet
  <2>4. \A l : [x EXCEPT !.pc = l].pc = l  BY DEF Move
  <2>5. Idle.pc = "idle"  BY DEF Idle
  <2>6. run'[p].pc \in {"idle", "delete", "retarget"}  BY <2>3, <2>4, <2>5
  <2>7. UNCHANGED tip \/ \E b : tip' = [tip EXCEPT ![b] = {}]
    BY <1>4 DEF MarkMerged, DeleteSource
  <2>8. TipsMove(x, run'[p])  BY <2>7 DEF TipsMove, Inv, TypeOK
  <2>q. QED  BY <2>1, <2>6, <2>8, RestEffect
<1>5. CASE Retarget(p) \/ BeginMerge(p)
  <2>1. UNCHANGED tip /\ ~Recheck(p)
    BY <1>5 DEF Retarget, BeginMerge, Begin, Recheck
  <2>2. run'[p].pc \in {"idle", "preview"}
    <3>1. Idle.pc = "idle"  BY DEF Idle
    <3>2. CASE Retarget(p)  BY <3>1, <3>2, RunSet DEF Retarget, Return
    <3>3. CASE BeginMerge(p)
      <4>1. PICK r, b, d, del : Set(p, [Mover("preview", "merge", r, b, d) EXCEPT !.del = del])
        BY <3>3 DEF BeginMerge
      <4>2. PICK z : z = [Mover("preview", "merge", r, b, d) EXCEPT !.del = del]  OBVIOUS
      <4>3. z.pc = "preview"  BY <4>2 DEF Mover
      <4>q. QED  BY <4>1, <4>2, <4>3, RunSet
    <3>q. QED  BY <1>5, <3>2, <3>3
  <2>q. QED  BY <2>1, <2>2, RestEffect, StaysPut
<1>q. QED  BY <1>1, <1>2, <1>3, <1>4, <1>5 DEF Merging

LEMMA ActsEffect ==
  ASSUME Inv, AllVouched, NEW p \in Clients, Acts(p)
  PROVE  Effect(run[p], run'[p]) /\ Vouched(run[p])'
<1>1. CASE Record(p) \/ BeginStatus(p) \/ SetStatus(p) \/ Fail(p)
  <2>1. UNCHANGED tip  BY <1>1 DEF Record, BeginStatus, SetStatus, Fail
  <2>2. PICK y : Set(p, y) /\ y.pc \in {"idle", "set"}  BY <1>1, PlainMoves
  <2>3. run'[p] = y  BY <2>2, RunSet
  <2>q. QED  BY <2>1, <2>2, <2>3, RestEffect, StaysPut
<1>2. CASE Merging(p)  BY <1>2, MergingEffect
<1>3. CASE BeginApply(p)  BY <1>3, BeginApplyEffect
<1>4. CASE Stacking(p)
  BY <1>4, BeginPickEffect, BeginRestackEffect, MemberEffect DEF Stacking
<1>5. CASE Compare(p)  BY <1>5, CompareEffect
<1>6. CASE Write(p)  BY <1>6, WriteEffect
<1>q. QED  BY <1>1, <1>2, <1>3, <1>4, <1>5, <1>6 DEF Acts, Editing

(* A push moves a branch to a commit nobody knew. *)
LEMMA PushEffect ==
  ASSUME Inv, NEW b \in Branches, Push(b), NEW x
  PROVE  Effect(x, x)
<1>1. PICK w \in Works, txt \in Texts :
           Make(w, txt) /\ tip' = [tip EXCEPT ![b] = @ \cup {Fresh}]
  BY DEF Push
<1>2. PICK c : c = tip[b] \cup {Fresh}  OBVIOUS
<1>3. Novel(c)  BY <1>1, <1>2, FreshNovel DEF Changes
<1>4. \A d \in Branches : tip'[d] = IF d = b THEN c ELSE tip[d]
  BY <1>1, <1>2 DEF Inv, TypeOK
<1>5. TipsMove(x, x)  BY <1>3, <1>4 DEF TipsMove
<1>q. QED  BY <1>5 DEF Effect, Learns, Plans

LEMMA ForwardedGrows == ASSUME Inv, Next  PROVE forwarded \subseteq forwarded'
<1>1. ASSUME NEW p \in Clients, Acts(p)  PROVE forwarded \subseteq forwarded'
  <2>1. CASE Member(p)
    <3>1. PICK x, b, orig, base, replay : Stepped(p, x, b, orig, base, replay)
      BY <2>1, MemberSteps
    <3>q. QED  BY <3>1 DEF Stepped
  <2>q. QED
    BY <1>1, <2>1 DEF Acts, Merging, BeginMerge, Preview, Checks, Recheck, MarkMerged, DeleteSource,
       Retarget, Editing, BeginApply, Record, BeginStatus, SetStatus, Stacking, BeginPick,
       BeginRestack, Compare, Write, Fail
<1>q. QED  BY <1>1 DEF Next, Acts, Push, Update

LEMMA VouchedNext ==
  Inv /\ Private /\ AllVouched /\ [Next]_vars => (Private /\ AllVouched)'
<1> SUFFICES ASSUME Inv, Private, AllVouched, [Next]_vars  PROVE Private' /\ AllVouched'
  OBVIOUS
<1>1. CASE UNCHANGED vars
  BY <1>1 DEF vars, Private, AllVouched, Vouched, Exact
<1>2. ASSUME NEW p \in Clients, Acts(p)  PROVE Private' /\ AllVouched'
  <2>1. Effect(run[p], run'[p]) /\ Vouched(run[p])'  BY <1>2, ActsEffect
  <2>2. forwarded \subseteq forwarded'  BY <1>2, ForwardedGrows DEF Next, Acts
  <2>3. \A q \in Clients : q # p => run'[q] = run[q]
    <3>1. UNCHANGED run \/ \E x : Set(p, x)  BY <1>2, OneSets
    <3>q. QED  BY <3>1 DEF Set, Inv, TypeOK
  <2>4. Private'  BY <2>1, <2>3, EffectPrivate
  <2>5. PICK y : y = run'[p]  OBVIOUS
  <2>6. TipsMove(run[p], y)  BY <2>1, <2>5 DEF Effect
  <2>7. \A q \in Clients : q # p => Vouched(run[q])'  BY <2>2, <2>3, <2>6, OthersVouched
  <2>q. QED  BY <2>1, <2>4, <2>7 DEF AllVouched
<1>3. ASSUME NEW b \in Branches, Push(b)  PROVE Private' /\ AllVouched'
  <2>1. UNCHANGED <<run, forwarded>>  BY <1>3 DEF Push
  <2>2. \A p \in Clients : Effect(run[p], run'[p])  BY <1>3, <2>1, PushEffect
  <2>3. ASSUME NEW p \in Clients  PROVE Private' /\ Vouched(run[p])'
    <3>1. Private'  BY <2>1, <2>2, EffectPrivate
    <3>2. PICK y : y = run'[p]  OBVIOUS
    <3>3. TipsMove(run[p], y)  BY <2>2, <3>2 DEF Effect
    <3>q. QED  BY <2>1, <3>1, <3>3, OthersVouched
  <2>4. Clients = {} => Private'  BY DEF Private
  <2>q. QED  BY <2>3, <2>4 DEF AllVouched
<1>4. ASSUME NEW r \in Reviews, Update(r)  PROVE Private' /\ AllVouched'
  <2>1. UNCHANGED <<tip, run, forwarded>>  BY <1>4 DEF Update
  <2>q. QED  BY <2>1 DEF Private, AllVouched, Vouched, Exact
<1>q. QED  BY <1>1, <1>2, <1>3, <1>4 DEF Next, Acts

(* What was checked is what lands: a merge brings its target exactly the    *)
(* commits that were on the source branch when gate and CI were asked, the  *)
(* second look at both tips being enough for that whatever is pushed,       *)
(* merged, picked, edited or restacked between the two looks, unless a      *)
(* restack moved the source branch while it had no commits of its own.      *)
THEOREM ChecksCoverTheMerge == Spec => []LandsWhatWasChecked
<1>1. Init => Private /\ AllVouched
  BY DEF Init, Private, AllVouched, Vouched, Waits, Ready, Move, Idle
<1>2. Inv /\ AllVouched => LandsWhatWasChecked
  <2> SUFFICES ASSUME Inv, AllVouched, NEW p \in Clients, run[p].pc \in {"compare", "write"},
                      run[p].kind = "merge"
               PROVE  Exact(run[p])
    BY DEF LandsWhatWasChecked, Exact
  <2>1. run[p] \in Move  BY AtMove DEF MovePcs
  <2>q. QED  BY <2>1 DEF AllVouched, Vouched, Ready
<1>q. QED  BY <1>1, <1>2, SafeMergeInvariant, VouchedNext, PTL DEF Spec
=============================================================================
