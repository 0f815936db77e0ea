------------------------------- MODULE Markov -------------------------------
(***************************************************************************)
(* markov/main.cpp: text in which every character follows the K before it as *)
(* it does somewhere in the sample.  The sample is a sequence of characters  *)
(* 1, 2, ... with 0 for the terminating null; its suffixes are sorted and    *)
(* searched.  Indices are those of the program, from 0.                      *)
(***************************************************************************)
EXTENDS Integers, Sequences, SequencesExt

CONSTANTS
    K,             \* order; the samples have at least K characters
    OutputChars,   \* N: the output buffer has 2 * N bytes
    IntMax,        \* largest int
    RandMax,       \* RAND_MAX; with the GNU library the same
    Newline        \* a character

MarkovSizes ==
    /\ K \in Nat \ {0} /\ OutputChars \in Nat /\ K <= 2 * OutputChars
    /\ RandMax \in Nat /\ IntMax \in Nat /\ RandMax <= IntMax

VARIABLES
    text,          \* the sample
    output,        \* what was generated
    status         \* "seed", "loop", "done", "crashed", "outside"
markovVars == <<text, output, status>>

MarkovInit(samples) ==
    /\ text \in {s \in samples : Len(s) >= K}
    /\ output = <<>>
    /\ status = "seed"

-----------------------------------------------------------------------------
N == Len(text)
CharAt(p) == IF p < N THEN text[p + 1] ELSE 0
Less(p, q) == \E i \in 0..N : /\ \A j \in 0..(i - 1) : CharAt(p + j) = CharAt(q + j)
                              /\ CharAt(p + i) < CharAt(q + i)

\* The sorted array of pointers into the sample.
SuffixArray == SetToSortSeq(0..(N - 1), Less)

\* strncmp of a suffix and the last K characters of the output.
Prefix(i) == output[Len(output) - K + 1 + i]
Below(p) == \E i \in 0..(K - 1) : /\ \A j \in 0..(i - 1) : CharAt(p + j) = Prefix(j)
                                  /\ CharAt(p + i) < Prefix(i)
Matches(p) == \A i \in 0..(K - 1) : CharAt(p + i) = Prefix(i)

\* Mutant: the search stops one short.
SearchShort(suffixes) ==
    LET bisect[l \in -1..N, u \in 0..N] ==
            IF l + 1 >= u - 1 THEN u
            ELSE LET m == (l + u) \div 2
                 IN IF Below(suffixes[m + 1]) THEN bisect[m, u] ELSE bisect[l, m]
    IN bisect[-1, N]

\* The first suffix that is not below the prefix.
SearchFirst(suffixes) ==
    LET bisect[l \in -1..N, u \in 0..N] ==
            IF l + 1 = u THEN u
            ELSE LET m == (l + u) \div 2
                 IN IF Below(suffixes[m + 1]) THEN bisect[m, u] ELSE bisect[l, m]
    IN bisect[-1, N]

\* int arithmetic wraps (bytesRead / 2 * rand() does for a sample of more than
\* a few bytes); the quotient is a double, cut towards 0.
Wrap(x) == ((x + IntMax + 1) % (2 * (IntMax + 1))) - (IntMax + 1)
SeedStart(r) == LET x == Wrap((N \div 2) * r)
                IN IF x >= 0 THEN x \div (RandMax + 1) ELSE -((-x) \div (RandMax + 1))

-----------------------------------------------------------------------------
\* A product that wraps to the least int starts in front of the sample; what
\* is there is not modelled further.
Seed ==
    /\ status = "seed"
    /\ \E r \in 0..RandMax :
          LET start == SeedStart(r)
          IN IF start < 0 THEN status' = "outside" /\ UNCHANGED output
             ELSE /\ output' = [i \in 1..K |-> CharAt(start + i - 1)]
                  /\ status' = "loop"
    /\ UNCHANGED text

\* One turn of the loop for the drawn choice, the first suffix found if none
\* matches: the character behind the suffix.
Append1(c) ==
    /\ output' = Append(output, c)
    /\ status' = IF c = Newline /\ Len(output) >= OutputChars THEN "done" ELSE status

\* The array behind the sample is fresh memory, a null pointer: it ends the loop
\* over the matches, but not the comparison for the last suffix of all.
AtEnd(suffixes, u, choice) ==
    /\ status' = CASE choice > 0 -> status
                   [] choice = 0 /\ u + 1 = N -> "crashed"
                   [] OTHER -> IF Matches(suffixes[u + 2]) THEN status ELSE "done"
    /\ UNCHANGED output

Extend ==
    /\ status = "loop" /\ Len(output) < 2 * OutputChars
    /\ LET suffixes == SuffixArray
           u == SearchFirst(suffixes)
       IN \E choice \in 0..(N - 1 - u) :
             /\ choice = 0 \/ \A i \in 0..choice : Matches(suffixes[u + i + 1])
             /\ LET c == CharAt(suffixes[u + choice + 1] + K)
                IN IF c = 0 THEN AtEnd(suffixes, u, choice) ELSE Append1(c)
    /\ UNCHANGED text

Full ==
    /\ status = "loop" /\ Len(output) = 2 * OutputChars
    /\ status' = "done"
    /\ UNCHANGED <<text, output>>

MarkovNext == Seed \/ Extend \/ Full

-----------------------------------------------------------------------------
\* Every K + 1 characters of the output occur in the sample, so the search
\* never comes back empty-handed; generation ends with a newline after N
\* characters, with a full buffer, or at the end of the sample when its last K
\* characters occur nowhere else (and a crash is possible nowhere else).
Occurs(s) == \E p \in 0..(N - Len(s)) : \A i \in DOMAIN s : CharAt(p + i - 1) = s[i]
MarkovText ==
    /\ \A i \in 1..(Len(output) - K) : Occurs(SubSeq(output, i, i + K))
    /\ status \notin {"seed", "outside"} => Occurs(SubSeq(output, 1, K))
    /\ status \in {"done", "crashed"} =>
          \/ Len(output) > OutputChars /\ Last(output) = Newline
          \/ Len(output) = 2 * OutputChars
          \/ \A p \in 0..(N - 1) : Matches(p) <=> p = N - K
=============================================================================
