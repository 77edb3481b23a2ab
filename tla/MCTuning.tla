------------------------------ MODULE MCTuning ------------------------------
(***************************************************************************)
(* A session over four tests of two files, one of which may be divided:    *)
(* two execution units, or three with sharding.  One warmup and two        *)
(* rounds, with pytest.                                                    *)
(***************************************************************************)
EXTENDS Tuning

MCTests == 1 .. 4
MCPathOf == <<1, 1, 2, 2>>
MCTimed == {}
MCShardable == {1}

\* Quarters of a millisecond.  With sharding, more workers are better; without, so
\* little better that it is within the tolerance.
Lasting(d) == [t \in MCTests |-> d]
MCTimes ==
  [ sharding |-> [probe |-> Lasting(2400),
                  samples |-> <<<<9600, 10000>>, <<5000, 6000>>, <<5990, 4990>>>>],
    modules  |-> [probe |-> Lasting(24),
                  samples |-> <<<<1000, 1020>>, <<1000, 1000>>>>] ]

\* The file asks for sharding; it may be edited to anything else.
MCInitialFile == [profile |-> "sharding", workers |-> 1, rest |-> 0]
MCFiles == { MCInitialFile,
             [profile |-> "modules", workers |-> 1, rest |-> 0],
             [profile |-> "sharding", workers |-> 2, rest |-> 1] }

\* With --write; without, and with another profile; with both, which is refused.
MCCommandLines == { [override |-> "none", write |-> TRUE],
                    [override |-> "modules", write |-> FALSE],
                    [override |-> "modules", write |-> TRUE] }
=============================================================================
