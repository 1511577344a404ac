---------------------------- MODULE MaskPipeline ----------------------------
(***************************************************************************)
(* From research to the Rust engine: the swarm (alpha-swarm/) evolves a    *)
(* mask, puts it under stress and writes it to a file; the operator copies *)
(* the file; the engine (execution-engine/) loads the copy when it starts  *)
(* and looks for the mask most similar to each tick.  The two programs     *)
(* share nothing but the file.                                             *)
(*                                                                         *)
(* A hypervector is the set of its one-bits.  Scores and thresholds are in *)
(* percent, similarities in bits that agree.  Random choices are any.      *)
(***************************************************************************)
EXTENDS Integers, Sequences, FiniteSets, Functions

CONSTANTS
  Bits,          \* length of a hypervector (10000)
  BlockBits,     \* width of an AVX-512 block (512)
  TickBits,      \* leading bits a tick is packed into (224)
  Weight,        \* of each bit in its byte's value
  FeatureScores, \* what the mined features add to every mask's fitness
  Population, Generations,
  Flips,         \* bits changed in a mutant of the elite
  Corruption,    \* bits a trial of the stress test changes at most
  Trials,
  Builds,        \* ways the engine may have been built
  Example,       \* the mask file the engine is shipped with
  MaxRuns        \* bound on runs of the swarm

ASSUME SizesAssumption ==
  /\ Bits \in Nat \ {0} /\ BlockBits \in Nat \ {0} /\ TickBits \in 0..Bits
  /\ Weight \in [1..Bits -> Nat \ {0}]
  /\ FeatureScores \subseteq 0..60
  /\ {Population, Generations, Flips, Corruption, Trials, MaxRuns} \subseteq Nat
  /\ Builds \subseteq {"portable", "avx512"}

Vectors     == SUBSET (1..Bits)
TickVectors == SUBSET (1..TickBits)
Entries     == [mask : Vectors, threshold : 50..95]   \* as the swarm writes them

ASSUME ExampleAssumption == Example \in Seq([mask : Vectors, threshold : 0..100])

VARIABLES
  stage,     \* of the swarm's run
  runs,
  run,       \* its locals
  approved,  \* history: entries whose trials were passed as required
  output,    \* the swarm's file
  config,    \* the engine's copy
  build,     \* how the engine was built
  masks,     \* HdcEngine.masks; <<>> while it is down
  tick,      \* the feature vector being matched
  at,        \* index of the next mask in best_match, 0 between ticks
  match      \* index of the best match so far, 0 for none

swarmVars  == <<stage, runs, run, approved>>
engineVars == <<build, masks, tick, at, match>>
vars       == <<swarmVars, output, config, engineVars>>

Whole(entries) == [state |-> "whole", entries |-> entries]
Missing        == [state |-> "missing", entries |-> <<>>]
Truncated      == [state |-> "truncated", entries |-> <<>>]

\* A run's locals: the fitness its features give to every mask, the fittest
\* mask so far, generations finished, candidates seen in this one (or trials
\* done), trials passed; as history the highest fitness it has seen.
Begun(f, v, top) == [features |-> f, best |-> v, top |-> top,
                     generation |-> 0, step |-> 0, passed |-> 0]
NoRun == Begun(0, {}, 0)

Differ(v, w) == (v \ w) \cup (w \ v)
Clip(n, low, high) == IF n < low THEN low ELSE IF n > high THEN high ELSE n

-----------------------------------------------------------------------------
(* The swarm: StrategyEvolution.run.                                        *)

SumOfWeights(v) == SumFunctionOnSet(Weight, v)

(* Density of ones by byte value, and what the features give.               *)
FitnessWith(v, f) == (40 * SumOfWeights(v)) \div SumOfWeights(1..Bits) + f
Fitness(v)        == FitnessWith(v, run.features)

Fitter(v) == IF Fitness(v) > Fitness(run.best) THEN v ELSE run.best

Higher(v) == IF Fitness(v) > run.top THEN Fitness(v) ELSE run.top

BeginRun(v, f) == /\ stage = "idle" /\ runs < MaxRuns
                  /\ stage' = "evolving" /\ runs' = runs + 1
                  /\ run' = Begun(f, v, FitnessWith(v, f))
                  /\ UNCHANGED <<approved, output, config, engineVars>>

Candidate(v) ==
  /\ stage = "evolving" /\ run.step < Population
  /\ run' = [run EXCEPT !.best = Fitter(v), !.top = Higher(v), !.step = @ + 1]
  /\ UNCHANGED <<stage, runs, approved, output, config, engineVars>>

MutateElite(v) ==
  /\ stage = "evolving" /\ run.step = Population
  /\ Cardinality(Differ(v, run.best)) <= Flips
  /\ run' = [run EXCEPT !.best = Fitter(v), !.top = Higher(v), !.step = 0,
                         !.generation = @ + 1]
  /\ stage' = IF run'.generation = Generations THEN "stress" ELSE "evolving"
  /\ UNCHANGED <<runs, approved, output, config, engineVars>>

Entry == [mask      |-> run.best,
          threshold |-> Clip(55 + (35 * Fitness(run.best)) \div 100, 50, 95)]

-----------------------------------------------------------------------------
(* The swarm: StressTest.run, and run_swarm after it.                       *)

(* similarity >= threshold * 0.9                                            *)
Passes(v) ==
  1000 * (Bits - Cardinality(Differ(v, run.best))) >= 9 * Entry.threshold * Bits

Trial(v) == /\ stage = "stress" /\ run.step < Trials
            /\ Cardinality(Differ(v, run.best)) <= Corruption
            /\ run' = [run EXCEPT !.step = @ + 1,
                                  !.passed = IF Passes(v) THEN @ + 1 ELSE @]
            /\ UNCHANGED <<stage, runs, approved, output, config, engineVars>>

Enough == 10 * run.passed >= 8 * Trials

\* Mutant of MayWrite: the report is not looked at.
MutMayWrite == TRUE

MayWrite == Enough

(* The run is over, and its locals are gone.                                *)
Over == stage' = "idle" /\ run' = NoRun

(* The report is in: RuntimeError, or the file is opened, which empties it. *)
Reported ==
  /\ stage = "stress" /\ run.step = Trials
  /\ approved' = IF Enough THEN approved \cup {Entry} ELSE approved
  /\ \/ MayWrite /\ stage' = "writing" /\ output' = Truncated /\ UNCHANGED run
     \/ ~MayWrite /\ Over /\ UNCHANGED output
  /\ UNCHANGED <<runs, config, engineVars>>

Written == /\ stage = "writing"
           /\ Over /\ output' = Whole(<<Entry>>)
           /\ UNCHANGED <<runs, approved, config, engineVars>>

(* The batch is killed where it is.                                         *)
Killed == /\ stage # "idle" /\ Over
          /\ UNCHANGED <<runs, approved, output, config, engineVars>>

(* The operator's cp, also while the swarm writes.                          *)
Copy == /\ output # Missing /\ config' = output
        /\ UNCHANGED <<swarmVars, output, engineVars>>

-----------------------------------------------------------------------------
(* The engine: main, HdcEngine::from_config, best_match.                    *)

(* A truncated file is no JSON: main ends with the error.                   *)
Load == /\ masks = <<>> /\ config.state = "whole"
        /\ masks' = config.entries
        /\ UNCHANGED <<swarmVars, output, config, build, tick, at, match>>

Halt == /\ masks # <<>> /\ at = 0
        /\ masks' = <<>> /\ match' = 0
        /\ UNCHANGED <<swarmVars, output, config, build, tick, at>>

(* Bits popcount_xor looks at: whole blocks only, or all.                   *)
Compared(b) == IF b = "avx512" THEN 1..((Bits \div BlockBits) * BlockBits) ELSE 1..Bits

\* Mutant of Similarity: relative to the bits that were compared.
MutSimilarity(b, v, w) ==
  LET n == Cardinality(Compared(b))
  IN (Bits * (n - Cardinality(Differ(v, w) \cap Compared(b)))) \div n

(* hamming_similarity, in bits of Bits.                                     *)
Similarity(b, v, w) == Bits - Cardinality(Differ(v, w) \cap Compared(b))

Reaches(b, v, e) == 100 * Similarity(b, v, e.mask) >= e.threshold * Bits

TickArrives(v) == /\ masks # <<>> /\ at = 0
                  /\ tick' = v /\ at' = 1 /\ match' = 0
                  /\ UNCHANGED <<swarmVars, output, config, build, masks>>

\* Mutant of Better: of equals the last one wins.
MutBetter(i) == match = 0 \/ Similarity(build, tick, masks[i].mask)
                               >= Similarity(build, tick, masks[match].mask)

Better(i) == match = 0 \/ Similarity(build, tick, masks[i].mask)
                            > Similarity(build, tick, masks[match].mask)

Compare == /\ at \in DOMAIN masks
           /\ match' = IF Reaches(build, tick, masks[at]) /\ Better(at) THEN at ELSE match
           /\ at' = at + 1
           /\ UNCHANGED <<swarmVars, output, config, build, masks, tick>>

(* best_match returns; a match is staged as a trigger.                      *)
MatchEnds == /\ at > Len(masks)
             /\ at' = 0
             /\ UNCHANGED <<swarmVars, output, config, build, masks, tick, match>>

Init ==
  /\ stage = "idle" /\ run = NoRun /\ runs = 0 /\ approved = {}
  /\ output = Missing /\ config = Whole(Example)
  /\ build \in Builds
  /\ masks = <<>> /\ tick = {} /\ at = 0 /\ match = 0

SwarmStep == \/ \E v \in Vectors, f \in FeatureScores : BeginRun(v, f)
             \/ \E v \in Vectors : Candidate(v) \/ MutateElite(v) \/ Trial(v)
             \/ Reported \/ Written \/ Killed

EngineStep == \/ Load \/ Halt
              \/ \E v \in TickVectors : TickArrives(v)
              \/ Compare \/ MatchEnds

Next == SwarmStep \/ Copy \/ EngineStep

Spec == Init /\ [][Next]_vars

-----------------------------------------------------------------------------
(* Type invariant.                                                          *)
TypeOK ==
  /\ stage \in {"idle", "evolving", "stress", "writing"}
  /\ runs \in Nat
  /\ run \in [features : 0..60, best : Vectors, top : Int,
              generation : Nat, step : Nat, passed : Nat]
  /\ approved \subseteq Entries
  /\ output.state \in {"missing", "truncated", "whole"} /\ output.entries \in Seq(Entries)
  /\ config.state \in {"truncated", "whole"}
  /\ config.entries \in Seq([mask : Vectors, threshold : 0..100])
  /\ build \in Builds
  /\ masks \in Seq([mask : Vectors, threshold : 0..100])
  /\ tick \in Vectors /\ at \in 0..(Len(masks) + 1) /\ match \in 0..Len(masks)

(* Evolution keeps the fittest mask it has seen, over all generations and   *)
(* mutations of the elite (strategy_evolution.py run).                      *)
EvolvedIsFittest == stage # "idle" => Fitness(run.best) = run.top

(* SOVEREIGN_ARCHITECTURE.md: the swarm "produces verified" masks.  Through *)
(* killed runs, copies of half-written files and restarts, the engine       *)
(* matches with no mask that has not passed its stress test, but for those  *)
(* it was shipped with (swarm.py run_swarm, main.rs).                       *)
OnlyVerifiedMasks ==
  \A i \in DOMAIN masks : masks[i] \in approved \/ masks = Example

(* best_match has, of the masks it has been through that reach their own    *)
(* threshold, the most similar one, and of equals the first (hdc/mod.rs).   *)
Candidates(n) == {i \in 1..n : Reaches(build, tick, masks[i])}
BestMatchIsBest ==
  at > 0 =>
    IF match = 0 THEN Candidates(at - 1) = {}
    ELSE /\ match \in Candidates(at - 1)
         /\ \A i \in Candidates(at - 1) :
              LET here == Similarity(build, tick, masks[i].mask)
                  there == Similarity(build, tick, masks[match].mask)
              IN there > here \/ (there = here /\ match <= i)

Triggers(b, v) == \E i \in DOMAIN masks : Reaches(b, v, masks[i])

(* The AVX-512 build leaves the last bits out and so takes vectors to be    *)
(* more alike than they are: it may trigger where the portable build does   *)
(* not, but misses none of its triggers (hdc/simd.rs).                      *)
FastBuildMissesNothing ==
  \A v \in TickVectors : Triggers("portable", v) => Triggers("avx512", v)

(* simd.rs: "AVX-512 when available, portable fallback": which of the two   *)
(* was built makes no difference.                                           *)
BuildsAgree ==
  \A v \in TickVectors : Triggers("portable", v) <=> Triggers("avx512", v)
=============================================================================
