------------------------------ MODULE MCSamples ------------------------------
(***************************************************************************)
(* A small instance of Samples for TLC.                                    *)
(***************************************************************************)
EXTENDS Samples, TLC

\* The credentials every file needs.
Complete == [Host |-> "h", Node |-> "n", TokenID |-> "t", TokenSecret |-> "s",
             DownscaleConsecutiveSamples |-> 2, BoostDuration |-> 1]

With(settings) == settings @@ Complete

\* Files that are accepted, with short and long histories, and files that are
\* refused: without credentials, or with a downscale threshold that is too high.
MCFiles ==
    {With([ConsecutiveSamples |-> n, HistorySamples |-> h]) :
        n \in {1, 2}, h \in {1, 3}}
    \cup {With([ConsecutiveSamples |-> 2, DownscaleThreshold |-> d]) :
              d \in {94, 95, 96}}
    \cup {With([ConsecutiveSamples |-> 0]), With([Host |-> ""])}
===============================================================================
