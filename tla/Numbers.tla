------------------------------- MODULE Numbers -------------------------------
(* Powers and positional notation, as recursive functions: what the shifts,  *)
(* the byte conversions and the big integers of the code compute.            *)
EXTENDS Integers, Sequences

\* The powers of b.
Power(b) == LET p[n \in Nat] == IF n = 0 THEN 1 ELSE b * p[n - 1] IN p

\* The number whose first k digits in base b are the first k of d, the most
\* significant one first.
Leading(b, d) ==
    LET v[k \in 0 .. Len(d)] == IF k = 0 THEN 0 ELSE v[k - 1] * b + d[k] IN v

FromDigits(b, d) == Leading(b, d)[Len(d)]

=============================================================================
