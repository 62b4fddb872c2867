--------------------------------- MODULE Str ---------------------------------
(***************************************************************************)
(* Strings, and split of base/str.cc. A string is a sequence of            *)
(* characters, its positions count from 0 as in the code.                  *)
(***************************************************************************)
EXTENDS Integers, SequencesExt

At(s, i) == s[i + 1]
Part(s, from, to) == SubSeq(s, from + 1, to)

Newline == "\n"

\* str::split without a limit, from position i on: the pieces between the
\* separators, but for an empty last one.
SplitFrom(s, c) ==
  LET from[i \in 0..Len(s)] ==
        LET ends == {k \in i..Len(s) - 1 : At(s, k) = c}
        IN  IF ends # {} THEN <<Part(s, i, Min(ends))>> \o from[Min(ends) + 1]
            ELSE IF i < Len(s) THEN <<Part(s, i, Len(s))>> ELSE <<>>
  IN  from

Split(s, c) == SplitFrom(s, c)[0]
=============================================================================
