--------------------------- MODULE GeneticProofs ---------------------------
(***************************************************************************)
(* Up to which size of a request the score of the genetic search is the    *)
(* proof of feasibility that its comment takes it for.                     *)
(***************************************************************************)
EXTENDS GeneticSearch, SumTheorems

(* The search is used from eleven sections on; up to fifteen of them earn less than 2000. *)
ModestRequest == IsFiniteSet(Course) /\ Cardinality(Course) <= 15

Broken(ind, c) == TeacherClash(ind, c) \/ HallClash(ind, c) \/ TooSmall(ind, c)

(* A section adds at most 130, and takes 1000 for a hard constraint it breaks. *)
LEMMA GainBounded ==
    ASSUME NEW ind, NEW c
    PROVE  /\ Gain(ind, c) \in Int /\ Gain(ind, c) <= 130
           /\ Broken(ind, c) => Gain(ind, c) <= -870
<1>2. PICK p \in {0, 1} : p = One(<<taughtBy[c], ind[c][2]>> \in Preferred)
  BY DEF One
<1>3. PICK w \in {0, 1} : w = One(WellUsed(ind, c))
  BY DEF One
<1>4. PICK t \in {0, 1} : t = One(TeacherClash(ind, c)) /\ (TeacherClash(ind, c) => t = 1)
  BY DEF One
<1>5. PICK h \in {0, 1} : h = One(HallClash(ind, c)) /\ (HallClash(ind, c) => h = 1)
  BY DEF One
<1>6. PICK s \in {0, 1} : s = One(TooSmall(ind, c)) /\ (TooSmall(ind, c) => s = 1)
  BY DEF One
<1>7. Gain(ind, c) = 100 + 20 * p + 10 * w - 100 * (10 * (t + h + s))
  BY <1>2, <1>3, <1>4, <1>5, <1>6 DEF Gain, Violations
<1>8. Broken(ind, c) => t = 1 \/ h = 1 \/ s = 1
  BY <1>4, <1>5, <1>6 DEF Broken
<1>. QED  BY <1>7, <1>8

(* With fewer than sixteen sections the rewards of all the others do not make up for one *)
(* that breaks a hard constraint.                                                        *)
LEMMA HighScoreIsFeasible ==
    ASSUME ModestRequest, NEW ind, calculateFitness(ind) >= 1000
    PROVE  \A c \in Assigned(ind) : ~Broken(ind, c)
<1>. SUFFICES ASSUME NEW c \in Assigned(ind), Broken(ind, c) PROVE FALSE
  OBVIOUS
<1>1. PICK S : S = Assigned(ind)
  OBVIOUS
<1>2. PICK f : f = [d \in S |-> Gain(ind, d)]
  OBVIOUS
<1>3. calculateFitness(ind) = SumFunction(f) - 50 * Cardinality(Course \ S)
  BY <1>1, <1>2 DEF calculateFitness
<1>4. PICK T : T = S \ {c}
  OBVIOUS
<1>5. PICK g : g = [d \in T |-> f[d]]
  OBVIOUS
<1>6. c \in S /\ S \subseteq Course
  BY <1>1 DEF Assigned
<1>7. IsFiniteSet(S) /\ Cardinality(S) \in Nat /\ Cardinality(S) <= 15
  BY <1>6, FS_Subset, FS_CardinalityType DEF ModestRequest
<1>8. IsFiniteSet(T) /\ Cardinality(T) \in Nat /\ Cardinality(T) <= 14
  <2>1. IsFiniteSet(S \ {c}) /\ Cardinality(S \ {c}) = Cardinality(S) - 1
    BY <1>6, <1>7, FS_RemoveElement
  <2>2. IsFiniteSet(T) /\ Cardinality(T) = Cardinality(S) - 1
    BY <1>4, <2>1
  <2>3. Cardinality(T) \in Nat
    BY <2>2, FS_CardinalityType
  <2>. QED  BY <1>7, <2>2, <2>3
<1>9. Cardinality(Course \ S) \in Nat
  BY FS_Difference, FS_CardinalityType DEF ModestRequest
<1>10. f \in [S -> Int]
  BY <1>2, GainBounded
<1>11. f[c] \in Int /\ f[c] <= -870
  BY <1>2, <1>6, GainBounded
<1>12. SumFunction(f) = f[c] + SumFunction(g)
  BY <1>4, <1>5, <1>6, <1>7, <1>10, SumRemove
<1>13. g \in [T -> Int]
  BY <1>4, <1>5, <1>10
<1>14. SumFunction(g) \in Int
  BY <1>8, <1>13, SumType
<1>15. SumFunction(g) <= 130 * Cardinality(T)
  <2>1. PICK m \in Int : m = 130
    OBVIOUS
  <2>2. \A d \in T : g[d] <= m
    BY <1>2, <1>4, <1>5, <2>1, GainBounded
  <2>3. SumFunction(g) <= m * Cardinality(T)
    BY <1>8, <1>13, <2>2, SumAtMost
  <2>. QED  BY <2>1, <2>3
<1>. QED  BY <1>3, <1>8, <1>9, <1>11, <1>12, <1>14, <1>15

(* A timetable is returned at a score of 1000 or more. *)
AcceptedScore == found => calculateFitness(best) >= 1000

LEMMA AcceptedScoreStep == AcceptedScore /\ [GaNext]_gaVars => AcceptedScore'
<1>. SUFFICES ASSUME AcceptedScore, [GaNext]_gaVars PROVE AcceptedScore'
  OBVIOUS
<1>1. CASE Accept
  BY <1>1 DEF Accept, AcceptedScore
<1>2. CASE Breed
  BY <1>2 DEF Breed, AcceptedScore
<1>3. CASE UNCHANGED gaVars
  BY <1>3 DEF AcceptedScore, gaVars
<1>. QED  BY <1>1, <1>2, <1>3 DEF GaNext

(* For a request of at most fifteen sections the comment is right: a       *)
(* timetable the search returns breaks no hard constraint                  *)
(* (solveWithGeneticAlgorithm).  With sixteen it may, as the run shows.    *)
THEOREM ModestRequestsAreFeasible == ModestRequest => (GaSpec => []AcceptedIsFeasible)
<1>. SUFFICES ASSUME ModestRequest PROVE GaSpec => []AcceptedIsFeasible
  OBVIOUS
<1>1. GaInit => AcceptedScore
  BY DEF GaInit, AcceptedScore
<1>2. AcceptedScore => AcceptedIsFeasible
  BY HighScoreIsFeasible DEF AcceptedScore, AcceptedIsFeasible, Broken
<1>. QED  BY <1>1, <1>2, AcceptedScoreStep, PTL DEF GaSpec
=============================================================================
