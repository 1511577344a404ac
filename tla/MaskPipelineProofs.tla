------------------------- MODULE MaskPipelineProofs -------------------------
(***************************************************************************)
(* The mask pipeline, for vectors of any length, any build, any population *)
(* and any number of generations, trials and masks.                        *)
(*                                                                         *)
(* Verified is what OnlyVerifiedMasks needs of the two files on the way;   *)
(* MatchInv fixes the masks while best_match goes through them.            *)
(***************************************************************************)
EXTENDS MaskPipeline, SumTheorems, FiniteSetTheorems, SequenceTheorems, TLAPS

(* A run's locals, of whatever value.                                       *)
RunForm == run = [features |-> run.features, best |-> run.best, top |-> run.top,
                  generation |-> run.generation, step |-> run.step, passed |-> run.passed]

LEMMA InitForm == Init => RunForm
  BY DEF Init, RunForm, NoRun, Begun

LEMMA NextForm == RunForm /\ [Next]_vars => RunForm'
<1> SUFFICES ASSUME RunForm, [Next]_vars PROVE RunForm'
  OBVIOUS
<1>1. ASSUME run' = run PROVE RunForm'
  BY <1>1 DEF RunForm
<1>2. ASSUME NEW v \in Vectors, NEW f \in FeatureScores, BeginRun(v, f) PROVE RunForm'
  BY <1>2 DEF BeginRun, Begun, RunForm
<1>3. ASSUME NEW v \in Vectors, Candidate(v) PROVE RunForm'
  BY <1>3 DEF Candidate, RunForm
<1>4. ASSUME NEW v \in Vectors, MutateElite(v) PROVE RunForm'
  BY <1>4 DEF MutateElite, RunForm
<1>5. ASSUME NEW v \in Vectors, Trial(v) PROVE RunForm'
  BY <1>5 DEF Trial, RunForm
<1>6. ASSUME Over PROVE RunForm'
  BY <1>6 DEF Over, NoRun, Begun, RunForm
<1>7. CASE Reported \/ Written \/ Killed
  BY <1>1, <1>6, <1>7 DEF Reported, Written, Killed
<1>8. CASE Copy \/ EngineStep \/ UNCHANGED vars
  BY <1>1, <1>8 DEF Copy, EngineStep, Load, Halt, TickArrives, Compare, MatchEnds, swarmVars, vars
<1> QED
  BY <1>2, <1>3, <1>4, <1>5, <1>7, <1>8 DEF Next, SwarmStep

LEMMA Form == Spec => []RunForm
  BY InitForm, NextForm, PTL DEF Spec

-----------------------------------------------------------------------------
(* Types.                                                                   *)

Runs       == [features : 0..60, best : Vectors, top : Int,
               generation : Nat, step : Nat, passed : Nat]
AnyEntries == [mask : Vectors, threshold : 0..100]

TypeInv ==
  /\ TypeOK
  /\ output.state = "missing" => output = Missing

LEMMA SmallSets ==
  /\ {} \in Vectors /\ TickVectors \subseteq Vectors
  /\ \A S : <<>> \in Seq(S)
  /\ Seq(Entries) \subseteq Seq(AnyEntries)
<1>1. TickVectors \subseteq Vectors
  BY SizesAssumption DEF TickVectors, Vectors
<1>2. Entries \subseteq AnyEntries
  BY DEF Entries, AnyEntries
<1>3. Seq(Entries) \subseteq Seq(AnyEntries)
  BY <1>2, SeqMonotonic
<1> QED
  BY <1>1, <1>3, EmptySeq DEF Vectors

LEMMA SumsOfWeights ==
  /\ SumOfWeights(1..Bits) \in Nat \ {0}
  /\ \A v \in Vectors : SumOfWeights(v) \in Nat
<1>1. IsFiniteSet(1..Bits) /\ 1..Bits # {}
  <2>1. Bits \in Int /\ 1 \in 1..Bits
    BY SizesAssumption
  <2>2. IsFiniteSet(1..Bits)
    BY <2>1, FS_Interval
  <2> QED BY <2>1, <2>2
<1>2. \A b \in 1..Bits : Weight[b] \in Nat \ {0}
  BY SizesAssumption
<1>3. SumOfWeights(1..Bits) \in Nat \ {0}
  BY <1>1, <1>2, SumIsPositive DEF SumOfWeights
<1>4. ASSUME NEW v \in Vectors PROVE SumOfWeights(v) \in Nat
  <2>1. IsFiniteSet(v) /\ \A b \in v : Weight[b] \in Nat
    BY <1>1, <1>2, FS_Subset DEF Vectors
  <2> QED BY <2>1, SumIsNat DEF SumOfWeights
<1> QED BY <1>3, <1>4

LEMMA FitnessIsInt ==
  ASSUME NEW v \in Vectors, NEW f \in 0..60
  PROVE  FitnessWith(v, f) \in Int
<1> DEFINE n == SumOfWeights(v)
           m == SumOfWeights(1..Bits)
<1>1. n \in Nat /\ m \in Nat \ {0} /\ f \in Int
  BY SumsOfWeights
<1> HIDE DEF n, m
<1>2. (40 * n) \div m \in Int
  <2> DEFINE k == 40 * n
  <2>1. k \in Int
    BY <1>1
  <2> HIDE DEF k
  <2>2. k \div m \in Int
    BY <1>1, <2>1
  <2> QED
    BY <2>2 DEF k
<1> DEFINE d == (40 * n) \div m
<1> HIDE DEF d
<1>3. d + f \in Int
  BY <1>1, <1>2 DEF d
<1> QED
  BY <1>3 DEF FitnessWith, d, n, m

LEMMA EntryForm ==
  ASSUME TypeOK
  PROVE  Entry \in Entries /\ Fitness(run.best) \in Int
<1> DEFINE x == Fitness(run.best)
<1>1. x \in Int
  BY FitnessIsInt DEF TypeOK, Fitness
<1> HIDE DEF x
<1>2. 55 + (35 * x) \div 100 \in Int
  BY <1>1
<1> DEFINE y == 55 + (35 * x) \div 100
<1> HIDE DEF y
<1>3. Clip(y, 50, 95) \in 50..95
  BY <1>2 DEF Clip, y
<1> QED
  BY <1>1, <1>3 DEF Entry, Entries, TypeOK, x, y

LEMMA NoRunForm == NoRun \in Runs
  BY SmallSets DEF NoRun, Begun, Runs

LEMMA InitTypes == Init => TypeInv
<1> SUFFICES ASSUME Init PROVE TypeInv
  OBVIOUS
<1>1. run \in Runs /\ Example \in Seq(AnyEntries)
  BY NoRunForm, ExampleAssumption DEF Init, AnyEntries
<1>2. Len(<<>>) = 0
  OBVIOUS
<1> QED
  BY <1>1, <1>2, SmallSets DEF Init, TypeInv, TypeOK, Missing, Whole, Runs, AnyEntries

LEMMA NextTypes == TypeInv /\ [Next]_vars => TypeInv'
<1> SUFFICES ASSUME TypeInv, [Next]_vars PROVE TypeInv'
  OBVIOUS
<1> USE DEF TypeInv
<1>1. run \in Runs /\ Entry \in Entries
  BY EntryForm DEF TypeOK, Runs
<1>2. ASSUME UNCHANGED <<output, config, engineVars, approved>>,
             stage' \in {"idle", "evolving", "stress", "writing"}, runs' \in Nat, run' \in Runs
      PROVE  TypeInv'
  BY <1>2 DEF TypeOK, Runs, engineVars
<1>3. ASSUME NEW v \in Vectors, NEW f \in FeatureScores, BeginRun(v, f) PROVE TypeInv'
  <2>1. f \in 0..60
    BY SizesAssumption
  <2>2. run' \in Runs
    BY <1>3, <2>1, FitnessIsInt DEF BeginRun, Begun, Runs
  <2>3. runs' \in Nat
    BY <1>3 DEF BeginRun, TypeOK
  <2> QED
    BY <1>2, <1>3, <2>2, <2>3 DEF BeginRun
<1>4. ASSUME NEW v \in Vectors PROVE Fitter(v) \in Vectors /\ Higher(v) \in Int
  <2>1. Fitness(v) \in Int
    BY <1>1, FitnessIsInt DEF Fitness, Runs
  <2> QED
    BY <1>1, <2>1 DEF Fitter, Higher, Runs
<1>5. ASSUME NEW v \in Vectors, Candidate(v) \/ MutateElite(v) \/ Trial(v) PROVE TypeInv'
  <2> DEFINE b == Fitter(v)
             t == Higher(v)
  <2>1. b \in Vectors /\ t \in Int
    BY <1>4
  <2>2. /\ \/ run' = [run EXCEPT !.best = b, !.top = t, !.step = @ + 1]
           \/ run' = [run EXCEPT !.best = b, !.top = t, !.step = 0, !.generation = @ + 1]
           \/ run' = [run EXCEPT !.step = @ + 1, !.passed = @ + 1]
           \/ run' = [run EXCEPT !.step = @ + 1]
        /\ runs' = runs /\ stage' \in {stage, "stress", "evolving"}
        /\ UNCHANGED <<output, config, engineVars, approved>>
    BY <1>1, <1>5 DEF Candidate, MutateElite, Trial, Runs
  <2> HIDE DEF b, t
  <2>3. run' \in Runs
    <3>1. run.step + 1 \in Nat /\ run.passed + 1 \in Nat /\ run.generation + 1 \in Nat
      BY <1>1 DEF Runs
    <3>2. ASSUME NEW s \in Nat, NEW p \in Nat, NEW g \in Nat
          PROVE  /\ [run EXCEPT !.best = b, !.top = t, !.step = s] \in Runs
                 /\ [run EXCEPT !.best = b, !.top = t, !.step = s, !.generation = g] \in Runs
                 /\ [run EXCEPT !.step = s, !.passed = p] \in Runs
                 /\ [run EXCEPT !.step = s] \in Runs
      BY <1>1, <2>1, <3>2 DEF Runs
    <3>3. 0 \in Nat
      OBVIOUS
    <3> QED
      BY <2>2, <3>1, <3>2, <3>3
  <2> QED
    BY <1>2, <2>2, <2>3 DEF TypeOK
<1>6. CASE Reported
  <2>1. approved' \subseteq Entries /\ stage' \in {"writing", "idle"} /\ run' \in Runs
    BY <1>1, <1>6, NoRunForm DEF Reported, Over, TypeOK
  <2>2. /\ output'.state \in {"missing", "truncated", "whole"} /\ output'.entries \in Seq(Entries)
        /\ output'.state = "missing" => output' = Missing
    <3>1. output' = Truncated \/ output' = output
      BY <1>6 DEF Reported
    <3>2. CASE output' = Truncated
      <4>1. output'.state = "truncated" /\ output'.entries = <<>>
        BY <3>2 DEF Truncated
      <4> QED
        BY <4>1, SmallSets
    <3>3. CASE output' = output
      BY <3>3 DEF TypeOK
    <3> QED
      BY <3>1, <3>2, <3>3
  <2>3. UNCHANGED <<runs, config, engineVars>>
    BY <1>6 DEF Reported
  <2> QED
    BY <2>1, <2>2, <2>3 DEF TypeOK, Runs, engineVars
<1>7. CASE Written
  <2>1. <<Entry>> \in Seq(Entries)
    BY <1>1
  <2>2. /\ run' \in Runs /\ stage' = "idle" /\ output' = Whole(<<Entry>>)
        /\ UNCHANGED <<runs, approved, config, engineVars>>
    BY <1>7, NoRunForm DEF Written, Over
  <2> DEFINE es == <<Entry>>
  <2>3. es \in Seq(Entries) /\ output' = Whole(es)
    BY <2>1, <2>2
  <2> HIDE DEF es
  <2>4. output'.state = "whole" /\ output'.entries = es
    BY <2>3 DEF Whole
  <2>5. /\ output'.state \in {"missing", "truncated", "whole"} /\ output'.entries \in Seq(Entries)
        /\ output'.state # "missing"
    BY <2>3, <2>4
  <2> QED
    BY <2>2, <2>5 DEF TypeOK, Runs, engineVars
<1>8. CASE Killed
  BY <1>2, <1>8, NoRunForm DEF Killed, Over, TypeOK
<1>9. CASE Copy
  <2>1. output.state \in {"truncated", "whole"} /\ output.entries \in Seq(AnyEntries)
    BY <1>9, SmallSets DEF Copy, TypeOK
  <2>2. config' = output /\ UNCHANGED <<stage, run, runs, approved, output, engineVars>>
    BY <1>9 DEF Copy, swarmVars
  <2> QED
    BY <2>1, <2>2 DEF TypeOK, AnyEntries, engineVars
<1>10. ASSUME UNCHANGED <<stage, run, runs, approved, output, config, build>>,
              masks' \in Seq(AnyEntries), tick' \in Vectors,
              at' \in 0..(Len(masks') + 1), match' \in 0..Len(masks')
       PROVE  TypeInv'
  BY <1>10 DEF TypeOK, AnyEntries
<1>11. /\ masks \in Seq(AnyEntries) /\ Len(masks) \in Nat /\ tick \in Vectors
       /\ masks # <<>> <=> Len(masks) >= 1
       /\ at \in 0..(Len(masks) + 1) /\ match \in 0..Len(masks)
  <2>1. masks \in Seq(AnyEntries)
    BY DEF TypeOK, AnyEntries
  <2>2. Len(masks) \in Nat /\ (masks = <<>> <=> Len(masks) = 0)
    BY <2>1, EmptySeq, LenProperties
  <2> QED
    BY <2>1, <2>2 DEF TypeOK
<1> DEFINE n == Len(masks)
           m == Len(masks')
<1>12. CASE Load
  <2>1. masks' \in Seq(AnyEntries)
    BY <1>12 DEF Load, TypeOK, AnyEntries
  <2>2. m \in Nat /\ n = 0
    BY <1>11, <1>12, <2>1, LenProperties DEF Load
  <2> HIDE DEF n, m
  <2>3. at \in 0..(n + 1) /\ match \in 0..n
    BY <1>11 DEF n
  <2>4. at \in 0..(m + 1) /\ match \in 0..m
    BY <2>2, <2>3
  <2> QED
    BY <1>10, <1>11, <1>12, <2>1, <2>4 DEF Load, swarmVars, m
<1>13. CASE Halt
  <2>1. masks' = <<>> /\ Len(<<>>) = 0 /\ at' = 0 /\ match' = 0 /\ tick' = tick
    BY <1>13 DEF Halt
  <2> QED
    BY <1>10, <1>11, <1>13, <2>1, SmallSets DEF Halt, swarmVars
<1>14. CASE (\E v \in TickVectors : TickArrives(v)) \/ Compare \/ MatchEnds
  <2>1. masks' = masks /\ UNCHANGED <<stage, run, runs, approved, output, config, build>>
    BY <1>14 DEF TickArrives, Compare, MatchEnds, swarmVars
  <2>2. tick' \in Vectors
    BY <1>11, <1>14, SmallSets DEF TickArrives, Compare, MatchEnds
  <2>3. DOMAIN masks = 1..n
    BY <1>11, LenProperties
  <2>4. /\ n \in Nat /\ at \in 0..(n + 1) /\ match \in 0..n
        /\ \/ n >= 1 /\ at' = 1 /\ match' = 0
           \/ at \in 1..n /\ at' = at + 1 /\ match' \in {at, match}
           \/ at' = 0 /\ match' = match
    BY <1>11, <1>14, <2>3 DEF TickArrives, Compare, MatchEnds
  <2> HIDE DEF n
  <2>5. at' \in 0..(n + 1) /\ match' \in 0..n
    BY <2>4
  <2> QED
    BY <1>10, <1>11, <2>1, <2>2, <2>5 DEF n
<1>15. CASE UNCHANGED vars
  BY <1>15 DEF vars, swarmVars, engineVars, TypeOK
<1> QED
  BY <1>3, <1>5, <1>6, <1>7, <1>8, <1>9, <1>12, <1>13, <1>14, <1>15
     DEF Next, SwarmStep, EngineStep

LEMMA Typed == Spec => []TypeInv
  BY InitTypes, NextTypes, PTL DEF Spec

(* For vectors of any length, runs of any number and files of any masks,    *)
(* thresholds stay between 50 and 95 and indices within the masks.          *)
THEOREM TypeCorrect == Spec => []TypeOK
<1>1. TypeInv => TypeOK
  BY DEF TypeInv
<1> QED
  BY <1>1, Typed, PTL

-----------------------------------------------------------------------------
(* Evolution keeps the fittest mask it has seen, over all candidates and    *)
(* generations.                                                             *)
THEOREM FittestIsKept == Spec => []EvolvedIsFittest
<1>1. Init => EvolvedIsFittest
  BY DEF Init, EvolvedIsFittest
<1>2. RunForm /\ EvolvedIsFittest /\ [Next]_vars => EvolvedIsFittest'
  <2> SUFFICES ASSUME RunForm, EvolvedIsFittest, [Next]_vars PROVE EvolvedIsFittest'
    OBVIOUS
  <2>1. ASSUME UNCHANGED run, stage' # "idle" => stage # "idle" PROVE EvolvedIsFittest'
    BY <2>1 DEF EvolvedIsFittest, Fitness
  <2>2. ASSUME NEW v \in Vectors, NEW f \in FeatureScores, BeginRun(v, f) PROVE EvolvedIsFittest'
    BY <2>2 DEF BeginRun, Begun, EvolvedIsFittest, Fitness
  <2>3. ASSUME NEW v \in Vectors, stage # "idle",
               run'.features = run.features, run'.best = Fitter(v), run'.top = Higher(v)
        PROVE  EvolvedIsFittest'
    BY <2>3 DEF EvolvedIsFittest, Fitter, Higher, Fitness
  <2>4. ASSUME NEW v \in Vectors, Candidate(v) PROVE EvolvedIsFittest'
    <3>1. run'.features = run.features /\ run'.best = Fitter(v) /\ run'.top = Higher(v)
      BY <2>4 DEF Candidate, RunForm
    <3> QED
      BY <2>3, <2>4, <3>1 DEF Candidate
  <2>5. ASSUME NEW v \in Vectors, MutateElite(v) PROVE EvolvedIsFittest'
    <3>1. run'.features = run.features /\ run'.best = Fitter(v) /\ run'.top = Higher(v)
      BY <2>5 DEF MutateElite, RunForm
    <3> QED
      BY <2>3, <2>5, <3>1 DEF MutateElite
  <2>6. ASSUME NEW v \in Vectors, Trial(v) PROVE EvolvedIsFittest'
    <3>1. run'.features = run.features /\ run'.best = run.best /\ run'.top = run.top
      BY <2>6 DEF Trial, RunForm
    <3> QED
      BY <2>6, <3>1 DEF Trial, EvolvedIsFittest, Fitness
  <2>7. CASE Reported
    BY <2>1, <2>7 DEF Reported, Over, EvolvedIsFittest
  <2>8. CASE Written \/ Killed
    BY <2>8 DEF Written, Killed, Over, EvolvedIsFittest
  <2>9. CASE Copy \/ EngineStep \/ UNCHANGED vars
    BY <2>1, <2>9
       DEF Copy, EngineStep, Load, Halt, TickArrives, Compare, MatchEnds, swarmVars, vars
  <2> QED
    BY <2>2, <2>4, <2>5, <2>6, <2>7, <2>8, <2>9 DEF Next, SwarmStep
<1> QED
  BY Form, <1>1, <1>2, PTL DEF Spec

-----------------------------------------------------------------------------
(* The way of a mask into the engine.                                       *)

Among(entries, good)  == \A i \in DOMAIN entries : entries[i] \in good
AllApproved(entries) == Among(entries, approved)

Verified ==
  /\ stage = "writing" => Entry \in approved
  /\ output.state = "whole" => AllApproved(output.entries)
  /\ config.state = "whole" => config.entries = Example \/ AllApproved(config.entries)
  /\ masks # <<>> => masks = Example \/ AllApproved(masks)

LEMMA NextVerified == Verified /\ [Next]_vars => Verified'
<1> SUFFICES ASSUME Verified, [Next]_vars PROVE Verified'
  OBVIOUS
<1>1. ASSUME approved \subseteq approved', UNCHANGED <<config, masks>>,
             stage' = "writing" => Entry' \in approved',
             output'.state = "whole" => Among(output'.entries, approved')
      PROVE  Verified'
  BY <1>1 DEF Verified, AllApproved, Among
<1>2. ASSUME UNCHANGED <<approved, output, config, masks>>,
             stage' = "writing" => stage = "writing" /\ run' = run
      PROVE  Verified'
  <2>1. stage' = "writing" => Entry' = Entry
    BY <1>2 DEF Entry, Fitness
  <2> QED
    BY <1>2, <2>1 DEF Verified, AllApproved
<1>3. CASE \/ \E v \in Vectors, f \in FeatureScores : BeginRun(v, f)
           \/ \E v \in Vectors : Candidate(v) \/ MutateElite(v) \/ Trial(v)
           \/ Killed
  BY <1>2, <1>3 DEF BeginRun, Candidate, MutateElite, Trial, Killed, Over, engineVars
<1>4. CASE Reported
  <2>1. CASE MayWrite /\ stage' = "writing" /\ output' = Truncated /\ UNCHANGED run
    <3>1. Entry' = Entry /\ approved' = approved \cup {Entry}
      BY <1>4, <2>1 DEF Reported, MayWrite, Entry, Fitness
    <3>2. output'.state # "whole"
      BY <2>1 DEF Truncated
    <3> QED
      BY <1>1, <1>4, <3>1, <3>2 DEF Reported, engineVars
  <2>2. CASE Over /\ UNCHANGED output
    BY <1>4, <2>2 DEF Reported, Over, engineVars, Verified, AllApproved, Among
  <2> QED
    BY <1>4, <2>1, <2>2 DEF Reported
<1>5. CASE Written
  <2>1. /\ Entry \in approved /\ UNCHANGED <<approved, config, masks>>
        /\ stage' = "idle" /\ output' = Whole(<<Entry>>)
    BY <1>5 DEF Written, Over, Verified, engineVars
  <2>2. output'.entries = <<Entry>>
    BY <2>1 DEF Whole
  <2>3. Among(output'.entries, approved')
    BY <2>1, <2>2 DEF Among
  <2> QED
    BY <1>1, <2>1, <2>3
<1>6. CASE Copy
  BY <1>6 DEF Copy, swarmVars, engineVars, Verified, AllApproved, Entry, Fitness
<1>7. CASE Load
  BY <1>7 DEF Load, swarmVars, Verified, AllApproved, Entry, Fitness
<1>8. CASE Halt
  BY <1>8 DEF Halt, swarmVars, Verified, AllApproved, Entry, Fitness
<1>9. CASE (\E v \in TickVectors : TickArrives(v)) \/ Compare \/ MatchEnds
  BY <1>2, <1>9 DEF TickArrives, Compare, MatchEnds, swarmVars
<1>10. CASE UNCHANGED vars
  BY <1>2, <1>10 DEF vars, swarmVars, engineVars
<1> QED
  BY <1>3, <1>4, <1>5, <1>6, <1>7, <1>8, <1>9, <1>10 DEF Next, SwarmStep, EngineStep

(* Through killed runs, copies of half-written files and restarts, a mask   *)
(* the engine matches with has passed its stress test or was shipped.       *)
THEOREM EngineMatchesVerifiedMasks == Spec => []OnlyVerifiedMasks
<1>1. Init => Verified
  BY DEF Init, Verified, Missing, Whole
<1>2. Verified => OnlyVerifiedMasks
  BY DEF Verified, OnlyVerifiedMasks, AllApproved, Among
<1> QED
  BY <1>1, <1>2, NextVerified, PTL DEF Spec

-----------------------------------------------------------------------------
(* The comparison of vectors.                                               *)

(* The number of bits in which v and w differ is one, in every build.       *)
LEMMA DifferenceCounts ==
  ASSUME NEW v \in Vectors, NEW w \in Vectors, NEW b
  PROVE  /\ IsFiniteSet(Differ(v, w) \cap Compared(b))
         /\ Cardinality(Differ(v, w) \cap Compared(b)) \in Nat
         /\ Similarity(b, v, w) \in Int
<1>1. IsFiniteSet(1..Bits)
  BY SizesAssumption, FS_Interval
<1>2. Differ(v, w) \cap Compared(b) \subseteq 1..Bits
  BY DEF Differ, Vectors
<1>3. IsFiniteSet(Differ(v, w) \cap Compared(b))
  BY <1>1, <1>2, FS_Subset
<1>4. Cardinality(Differ(v, w) \cap Compared(b)) \in Nat
  BY <1>3, FS_CardinalityType
<1> QED
  BY <1>3, <1>4, SizesAssumption DEF Similarity

(* Whole blocks are part of all bits, so that leaving the rest out can only *)
(* make vectors more alike.                                                 *)
LEMMA FastIsMoreAlike ==
  ASSUME NEW v \in Vectors, NEW w \in Vectors
  PROVE  Similarity("portable", v, w) <= Similarity("avx512", v, w)
<1> DEFINE P == Differ(v, w) \cap Compared("portable")
           A == Differ(v, w) \cap Compared("avx512")
<1>1. A \subseteq P
  BY DEF Differ, Vectors, Compared
<1>2. Cardinality(A) <= Cardinality(P)
  BY <1>1, DifferenceCounts, FS_Subset
<1>3. Cardinality(A) \in Nat /\ Cardinality(P) \in Nat
  BY DifferenceCounts
<1> QED
  BY <1>2, <1>3, SizesAssumption DEF Similarity

LEMMA EntryAt ==
  ASSUME NEW S, NEW entries \in Seq(S)
  PROVE  /\ Len(entries) \in Nat /\ DOMAIN entries = 1..Len(entries)
         /\ \A i \in DOMAIN entries : entries[i] \in S
  BY LenProperties, ElementOfSeq

LEMMA FieldsOf ==
  ASSUME NEW V, NEW T, NEW e \in [mask : V, threshold : T]
  PROVE  e.mask \in V /\ e.threshold \in T
  OBVIOUS

(* Whatever masks are loaded, on a tick on which the portable build         *)
(* triggers the AVX-512 build does so too.                                  *)
LEMMA FastBuildTriggers == TypeOK => FastBuildMissesNothing
<1> SUFFICES ASSUME masks \in Seq([mask : Vectors, threshold : 0..100]),
                    NEW v \in TickVectors, NEW i \in DOMAIN masks,
                    Reaches("portable", v, masks[i])
             PROVE  Reaches("avx512", v, masks[i])
  BY DEF FastBuildMissesNothing, Triggers, TypeOK
<1>1. masks[i].mask \in Vectors /\ masks[i].threshold \in Int
  <2>1. masks[i] \in [mask : Vectors, threshold : 0..100]
    BY EntryAt
  <2>2. masks[i].mask \in Vectors /\ masks[i].threshold \in 0..100
    BY <2>1, FieldsOf
  <2>3. \A n \in 0..100 : n \in Int
    OBVIOUS
  <2> QED
    BY <2>2, <2>3
<1>2. v \in Vectors
  BY SizesAssumption DEF TickVectors, Vectors
<1>3. Similarity("portable", v, masks[i].mask) <= Similarity("avx512", v, masks[i].mask)
  BY <1>1, <1>2, FastIsMoreAlike
<1>4. /\ Similarity("portable", v, masks[i].mask) \in Int
      /\ Similarity("avx512", v, masks[i].mask) \in Int
  BY <1>1, <1>2, DifferenceCounts
<1>5. masks[i].threshold * Bits \in Int
  BY <1>1, SizesAssumption
<1> QED
  BY <1>3, <1>4, <1>5 DEF Reaches

(* So it is in whatever state the engine gets, with masks of any swarm.     *)
THEOREM FastBuildIsSafe == Spec => []FastBuildMissesNothing
  BY TypeCorrect, FastBuildTriggers, PTL

-----------------------------------------------------------------------------
(* The search.                                                              *)

MatchInv ==
  /\ at \in Nat /\ match \in Nat
  /\ at > 0 => masks # <<>>
  /\ BestMatchIsBest

LEMMA InitMatch == Init => MatchInv
  BY DEF Init, MatchInv, BestMatchIsBest

LEMMA CompareMatches ==
  ASSUME TypeOK, MatchInv, Compare
  PROVE  BestMatchIsBest'
<1> DEFINE S(i) == Similarity(build, tick, masks[i].mask)
           R(i) == Reaches(build, tick, masks[i])
<1>1. /\ at \in DOMAIN masks /\ at' = at + 1
      /\ match' = IF R(at) /\ Better(at) THEN at ELSE match
      /\ UNCHANGED <<build, masks, tick>>
  BY DEF Compare
<1>2. /\ Len(masks) \in Nat /\ DOMAIN masks = 1..Len(masks) /\ tick \in Vectors
      /\ \A i \in DOMAIN masks : masks[i].mask \in Vectors
  <2>1. masks \in Seq(AnyEntries) /\ tick \in Vectors
    BY DEF TypeOK, AnyEntries
  <2>2. \A i \in DOMAIN masks : masks[i] \in [mask : Vectors, threshold : 0..100]
    BY <2>1, EntryAt DEF AnyEntries
  <2> QED
    BY <2>1, <2>2, EntryAt
<1>3. at \in Nat /\ at > 0 /\ match \in Nat
  BY <1>1, <1>2 DEF MatchInv
<1>4. \A i \in 1..at : S(i) \in Int
  <2> SUFFICES ASSUME NEW i \in 1..at PROVE S(i) \in Int
    OBVIOUS
  <2>1. i \in DOMAIN masks
    BY <1>1, <1>2, <1>3
  <2> QED
    BY <1>2, <2>1, DifferenceCounts
<1>5. IF match = 0 THEN \A i \in 1..(at - 1) : ~R(i)
      ELSE /\ match \in 1..(at - 1) /\ R(match)
           /\ \A i \in 1..(at - 1) : R(i) => S(match) > S(i) \/ (S(match) = S(i) /\ match <= i)
  BY <1>3 DEF MatchInv, BestMatchIsBest, Candidates
<1>6. Better(at) <=> (match = 0 \/ S(at) > S(match))
  BY DEF Better
<1> HIDE DEF S, R
<1>7. IF match' = 0 THEN \A i \in 1..at : ~R(i)
      ELSE /\ match' \in 1..at /\ R(match')
           /\ \A i \in 1..at : R(i) => S(match') > S(i) \/ (S(match') = S(i) /\ match' <= i)
  <2>1. \A i \in 1..at : i = at \/ i \in 1..(at - 1)
    BY <1>3
  <2>2. CASE ~R(at)
    <3>1. match' = match
      BY <1>1, <2>2
    <3> QED
      BY <1>3, <1>5, <2>1, <2>2, <3>1
  <2>3. CASE R(at) /\ Better(at)
    <3>1. match' = at /\ at # 0
      BY <1>1, <1>3, <2>3
    <3>2. ASSUME NEW i \in 1..(at - 1), R(i) PROVE S(at) > S(i)
      <4>1. match # 0 /\ match \in 1..at /\ i \in 1..at /\ at \in 1..at
        BY <1>3, <1>5, <3>2
      <4>2. S(match) > S(i) \/ S(match) = S(i)
        BY <1>5, <3>2, <4>1
      <4>3. S(at) > S(match)
        BY <1>6, <2>3, <4>1
      <4> QED
        BY <1>4, <4>1, <4>2, <4>3
    <3> QED
      BY <1>3, <2>1, <2>3, <3>1, <3>2
  <2>4. CASE R(at) /\ ~Better(at)
    <3>1. match' = match /\ match # 0 /\ ~(S(at) > S(match))
      BY <1>1, <1>6, <2>4
    <3>2. match \in 1..at /\ match <= at /\ at \in 1..at
      BY <1>3, <1>5, <3>1
    <3>3. S(match) > S(at) \/ S(match) = S(at)
      BY <1>4, <3>1, <3>2
    <3> QED
      BY <1>5, <2>1, <3>1, <3>2, <3>3
  <2> QED
    BY <2>2, <2>3, <2>4
<1>8. at' - 1 = at
  BY <1>1, <1>3
<1> USE DEF S, R
<1> QED
  BY <1>1, <1>7, <1>8 DEF BestMatchIsBest, Candidates

LEMMA NextMatch == TypeOK /\ MatchInv /\ [Next]_vars => MatchInv'
<1> SUFFICES ASSUME TypeOK, MatchInv, [Next]_vars PROVE MatchInv'
  OBVIOUS
<1>1. ASSUME UNCHANGED engineVars PROVE MatchInv'
  BY <1>1 DEF engineVars, MatchInv, BestMatchIsBest, Candidates, Similarity, Reaches
<1>2. CASE SwarmStep \/ Copy
  BY <1>1, <1>2 DEF SwarmStep, BeginRun, Candidate, MutateElite, Trial, Reported, Written,
                    Killed, Copy
<1>3. CASE Load
  <2>1. at' = at /\ match' = match /\ ~(at > 0)
    BY <1>3 DEF Load, MatchInv
  <2> QED
    BY <2>1 DEF MatchInv, BestMatchIsBest
<1>4. CASE Halt
  BY <1>4 DEF Halt, MatchInv, BestMatchIsBest
<1>5. ASSUME NEW v \in TickVectors, TickArrives(v) PROVE MatchInv'
  <2>1. at' = 1 /\ match' = 0 /\ masks' # <<>>
    BY <1>5 DEF TickArrives
  <2>2. Candidates(at - 1)' = {}
    BY <2>1 DEF Candidates
  <2> QED
    BY <2>1, <2>2 DEF MatchInv, BestMatchIsBest
<1>6. CASE Compare
  <2>1. at \in Nat /\ at' = at + 1 /\ match' \in Nat /\ masks' = masks /\ masks # <<>>
    BY <1>6 DEF Compare, MatchInv
  <2> QED
    BY <1>6, <2>1, CompareMatches DEF MatchInv
<1>7. CASE MatchEnds
  BY <1>7 DEF MatchEnds, MatchInv, BestMatchIsBest
<1>8. CASE UNCHANGED vars
  BY <1>1, <1>8 DEF vars
<1> QED
  BY <1>2, <1>3, <1>4, <1>5, <1>6, <1>7, <1>8 DEF Next, EngineStep

(* best_match returns, of the masks that reach their own thresholds, the    *)
(* most similar, and of equals the first, for any file of masks.            *)
THEOREM SearchFindsTheBest == Spec => []BestMatchIsBest
<1>1. MatchInv => BestMatchIsBest
  BY DEF MatchInv
<1> QED
  BY TypeCorrect, InitMatch, NextMatch, <1>1, PTL DEF Spec
=============================================================================
