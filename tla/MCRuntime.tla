------------------------------ MODULE MCRuntime ------------------------------
(***************************************************************************)
(* Small instances of four parts that share no state: one array, the       *)
(* nvCOMP codecs with their allocator, the setup of cuFile and a benchmark *)
(* command.  In a behaviour one of them runs while the others have not     *)
(* begun, so that one run visits the states of each and not their product. *)
(***************************************************************************)
EXTENDS CudaArray, NvcompCodecs, CufileSetup, Bench, TLC

CONSTANTS c1, c2

SomeBatches == {<<Missing>>, <<c1>>, <<Missing, c1>>, <<c1, Missing, c2>>}
SomeKnobs == {<<"max_io_threads", "parallel_io">>, <<"max_io_threads", "typo">>}
KnownKnobs == {"max_io_threads", "parallel_io"}

MCInit == ArrayInit /\ Init /\ SetupInit /\ BenchInit

ArrayBegins == ArrayInit /\ scope = "served" /\ disk = [s \in Shards |-> Absent]

MCNext ==
  \/ /\ BenchInit /\ SetupInit /\ ~disabled /\ Init /\ ArrayNext
     /\ UNCHANGED vars /\ UNCHANGED setupVars /\ UNCHANGED benchVars
  \/ /\ BenchInit /\ SetupInit /\ ~disabled /\ ArrayBegins /\ Next
     /\ UNCHANGED arrayVars /\ UNCHANGED setupVars /\ UNCHANGED benchVars
  \/ /\ BenchInit /\ ArrayBegins /\ Init /\ SetupNext
     /\ UNCHANGED arrayVars /\ UNCHANGED vars /\ UNCHANGED benchVars
  \/ /\ SetupInit /\ ~disabled /\ ArrayBegins /\ Init /\ BenchNext
     /\ UNCHANGED arrayVars /\ UNCHANGED vars /\ UNCHANGED setupVars

MCSpec == MCInit /\ [][MCNext]_<<arrayVars, vars, setupVars, benchVars>>

\* The users and shards of the array; the other parts have few enough states.
Symmetry == Permutations(Users) \cup Permutations(Shards)
=============================================================================
