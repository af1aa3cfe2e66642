------------------------------ MODULE Doubles -------------------------------
(***************************************************************************)
(* The arithmetic of Redis' Lua and of Python's float, as far as the token *)
(* bucket uses it: non-negative IEEE 754 doubles, every result rounded to  *)
(* the nearest number of Precision binary digits, ties to even.  Exponents *)
(* never leave their range here.                                           *)
(*                                                                         *)
(* A number is the tuple of its digits in base Base, the last one being    *)
(* the units.  The 60 binary places of the others hold every double that   *)
(* occurs, and two more, if refill rates are at least 2^-6.                *)
(***************************************************************************)
EXTENDS Integers, FiniteSetsExt

Precision == 53
Bits == 15
Base == 2^Bits
Places == 1..5  \* bound: numbers are below Base and multiples of 2^-60
Units == 5

Each(Digit(_)) == <<Digit(1), Digit(2), Digit(3), Digit(4), Digit(5)>>

\* The number whose digits are d once the carries, or borrows, are made.
Carried(d) ==
    LET c2 == d[1] \div Base
        c3 == (d[2] + c2) \div Base
        c4 == (d[3] + c3) \div Base
        c5 == (d[4] + c4) \div Base
    IN  <<d[1] % Base, (d[2] + c2) % Base, (d[3] + c3) % Base, (d[4] + c4) % Base, d[5] + c5>>

Natural(n) == <<0, 0, 0, 0, n>>

Sum(a, b) == Carried(Each(LAMBDA i : a[i] + b[i]))

Difference(a, b) == Carried(Each(LAMBDA i : a[i] - b[i]))

Multiple(n, a) == Carried(Each(LAMBDA i : n * a[i]))

Below(a, b) ==
    \E i \in Places : a[i] < b[i] /\ \A j \in Places : j > i => a[j] = b[j]

\* The digit that holds binary place e, counted from the lowest, and the value
\* of e in it.
Place(e) == 1 + e \div Bits

Value(e) == 2^(e % Bits)

Power(e) == Each(LAMBDA i : IF i = Place(e) THEN Value(e) ELSE 0)

\* The highest binary place of a natural number, of a number.
TopOf(n) == Max({0} \cup {e \in 1..(Bits - 1) : 2^e <= n})

Top(a) == LET i == Max({1} \cup {j \in Places : a[j] # 0}) IN Bits * (i - 1) + TopOf(a[i])

\* a divided by 2^k, as far as there are places.
Halved(a, k) ==
    LET At(i) == IF i \in Places THEN a[i] ELSE 0
        by == k \div Bits
    IN  Each(LAMBDA i : At(i + by) \div Value(k)
                        + (At(i + by + 1) % Value(k)) * (Base \div Value(k)))

\* The double nearest to a; of two, the one whose last digit is even.
Rounded(a) ==
    LET e == Top(a) - Precision + 1  \* the last binary place that is kept
        cut == Each(LAMBDA i : IF i < Place(e) THEN 0
                               ELSE IF i = Place(e) THEN a[i] - (a[i] % Value(e))
                               ELSE a[i])
        rest == Difference(a, cut)
        odd == (a[Place(e)] \div Value(e)) % 2 = 1
    IN  IF e <= 0 THEN a
        ELSE IF Below(Power(e - 1), rest) \/ (rest = Power(e - 1) /\ odd)
             THEN Sum(cut, Power(e))
             ELSE cut

Plus(a, b) == Rounded(Sum(a, b))

Minus(a, b) == Rounded(Difference(a, b))

Times(n, a) == Rounded(Multiple(n, a))

\* The quotient of two natural numbers.  What remains after the last place only
\* decides that there is no tie.
Quotient(n, m) ==
    LET r4 == n % m
        r3 == (r4 * Base) % m
        r2 == (r3 * Base) % m
        r1 == (r2 * Base) % m
        low == (r1 * Base) \div m
        more == IF (r1 * Base) % m # 0 /\ low % 2 = 0 THEN 1 ELSE 0
    IN  Rounded(<<low + more, (r2 * Base) \div m, (r3 * Base) \div m, (r4 * Base) \div m,
                  n \div m>>)

\* Whether the quotient a / b is at most the natural number n > 0: exactly, or
\* by being rounded to n, from at most half way to the next double.
QuotientAtMost(a, b, n) ==
    LET product == Multiple(n, b)
    IN  \/ ~Below(product, a)
        \/ ~Below(Halved(b, Precision - TopOf(n)), Difference(a, product))
=============================================================================
