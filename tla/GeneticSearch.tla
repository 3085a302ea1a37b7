--------------------------- MODULE GeneticSearch ---------------------------
(***************************************************************************)
(* The genetic search for a timetable, used for more than ten sections     *)
(* (schedulingService.solveWithGeneticAlgorithm).  Random choices are left *)
(* open; the population is the set of its individuals, a tournament may    *)
(* pick any of them as parents.                                            *)
(***************************************************************************)
EXTENDS Integers, FiniteSets, FiniteSetsExt, Functions

CONSTANTS
    Course,           \* 1 .. N, in the order of the request
    taughtBy,         \* [Course -> instructor]
    Hall, HallSize, CourseSize, Slot,
    Preferred,        \* pairs of instructor and slot
    Founders,         \* bound: the initial population considered
    MAX_GENERATIONS,
    ELITISM_COUNT

VARIABLES
    population,   \* the set of individuals
    generation,
    best,         \* the best individual so far
    found         \* the search has returned "best" as the timetable

gaVars == <<population, generation, best, found>>

Nowhere == <<>>
Assigned(ind) == {c \in Course : ind[c] # Nowhere}
Sizes(c) == {h \in Hall : HallSize[h] >= CourseSize[c]}

Before(ind, c) == {d \in Assigned(ind) : d < c}
TeacherClash(ind, c) ==
    \E d \in Before(ind, c) : taughtBy[d] = taughtBy[c] /\ ind[d][2] = ind[c][2]
HallClash(ind, c) == \E d \in Before(ind, c) : ind[d] = ind[c]
TooSmall(ind, c) == HallSize[ind[c][1]] < CourseSize[c]

(* initializePopulation: each section draws once; a draw that clashes leaves it unassigned. *)
InitialOutcome(ind) ==
    \A c \in Course :
        IF ind[c] # Nowhere
        THEN ind[c][1] \in Sizes(c) /\ ~TeacherClash(ind, c) /\ ~HallClash(ind, c)
        ELSE \/ Sizes(c) = {}
             \/ \E h \in Sizes(c), s \in Slot :
                   LET drawn == [ind EXCEPT ![c] = <<h, s>>] IN
                   TeacherClash(drawn, c) \/ HallClash(drawn, c)

One(condition) == IF condition THEN 1 ELSE 0

Violations(ind, c) ==
    10 * (One(TeacherClash(ind, c)) + One(HallClash(ind, c)) + One(TooSmall(ind, c)))

(* Utilization between 0.7 and 0.95. *)
WellUsed(ind, c) ==
    LET size == HallSize[ind[c][1]] IN
    10 * CourseSize[c] > 7 * size /\ 100 * CourseSize[c] < 95 * size

(* What a section adds to the score: the preferences it meets, less ten for each hard *)
(* constraint it breaks, weighted 100.                                                *)
Gain(ind, c) ==
    100 + 20 * One(<<taughtBy[c], ind[c][2]>> \in Preferred) + 10 * One(WellUsed(ind, c))
        - 100 * Violations(ind, c)

calculateFitness(ind) ==
    SumFunction([c \in Assigned(ind) |-> Gain(ind, c)]) - 50 * Cardinality(Course \ Assigned(ind))

Fittest(n) ==
    CHOOSE elite \in kSubset(n, population) :
        \A e \in elite, p \in population \ elite : calculateFitness(e) >= calculateFitness(p)

crossover(p, q, point) == [c \in Course |-> IF c <= point THEN p[c] ELSE q[c]]

mutate(ind) == UNION {{[ind EXCEPT ![c] = <<h, s>>] : h \in Sizes(c), s \in Slot} : c \in Course}

Offspring ==
    LET parents == population \cup {crossover(p, q, k - 1) : p \in population, q \in population, k \in Course}
    IN  parents \cup UNION {mutate(p) : p \in parents}

GaInit == /\ population = {ind \in Founders : InitialOutcome(ind)} /\ generation = 0 /\ found = FALSE
          /\ best \in Fittest(1)

Better == LET top == CHOOSE i \in Fittest(1) : TRUE IN
          IF calculateFitness(top) > calculateFitness(best) THEN top ELSE best

(* A generation: evaluate, stop at fitness 1000, else keep the elite and breed. *)
Accept ==
    /\ ~found /\ generation < MAX_GENERATIONS
    /\ best' = Better /\ calculateFitness(best') >= 1000
    /\ found' = TRUE /\ UNCHANGED <<population, generation>>

(* The offspring of the last generation are never evaluated, and are not bred here. *)
Breed ==
    /\ ~found /\ generation + 1 < MAX_GENERATIONS
    /\ best' = Better /\ calculateFitness(best') < 1000
    /\ \E child \in Offspring : population' = Fittest(ELITISM_COUNT) \cup {child}
    /\ generation' = generation + 1 /\ UNCHANGED found

GaNext == Accept \/ Breed

GaSpec == GaInit /\ [][GaNext]_gaVars

-----------------------------------------------------------------------------
(* "fitness >= 1000 means all constraints satisfied" (the comment at            *)
(* schedulingService.js:667): a timetable the search returns puts no instructor *)
(* and no room in two places in one slot, and no section in too small a room.   *)
AcceptedIsFeasible ==
    found => \A c \in Assigned(best) :
        ~TeacherClash(best, c) /\ ~HallClash(best, c) /\ ~TooSmall(best, c)
=============================================================================
