---------------------------- MODULE MCBenchmark ----------------------------
(* Cases with a live provider each, and floats of two binary digits.        *)
EXTENDS Benchmark
MCProviders == {"live"}
MCLatencies == { 1, 4 }

\* To the nearest; of two that are as near, to the one whose last digit is 0.
MCFloats == LET up == { 0, 1, 2, 3, 4, 6, 8, 12, 16 } IN up \cup { -f : f \in up }
MCRounded(n) ==
    LET Distance(f) == IF f > n THEN f - n ELSE n - f
        nearest == { f \in MCFloats : \A g \in MCFloats : Distance(f) <= Distance(g) }
    IN  CHOOSE f \in nearest : Cardinality(nearest) = 1 \/ f \in { -16, -8, -4, 4, 8, 16 }
=============================================================================
