-------------------------------- MODULE Flags --------------------------------
(***************************************************************************)
(* How base/flag.cc reads flags: an argument of the command line, a line   *)
(* of a config file, with comments, quotes and lines that go on, and how   *)
(* mkconf writes the value of a string flag to such a file.                *)
(*                                                                         *)
(* Some user types the value of a flag, or an argument; the characters are *)
(* chosen at the beginning. The table of flags, which is a map of names,   *)
(* and the conversions of numbers are left out.                            *)
(***************************************************************************)
EXTENDS Str

CONSTANTS
  Alphabets,   \* the sets of characters that are typed together
  MaxTyped     \* bound: how many are typed

ASSUME FlagsAssumption == MaxTyped \in Nat

VARIABLES alphabet, typed

flagVars == <<alphabet, typed>>

FlagsInit == alphabet \in Alphabets /\ typed = <<>>

FlagsNext ==
  /\ Len(typed) < MaxTyped
  /\ \E c \in alphabet : typed' = Append(typed, c)
  /\ UNCHANGED alphabet

FlagsSpec == FlagsInit /\ [][FlagsNext]_flagVars

Absence == -1
Char(s, i) == s[i + 1]
Slice(s, from, to) == SubSeq(s, from + 1, to)

Nth(s, sub) == {i \in 0..Len(s) - Len(sub) : Slice(s, i, i + Len(sub)) = sub}
Least(places) == IF places = {} THEN Absence ELSE Min(places)

Double == "\""
Single == "'"
Quotes == {Double, Single}
Space == " "
Tab == "\t"
Return == "\r"
Backslash == "\\"

\* What parse_config strips, and what getline does.
Blanks == {Space, Tab}
White == {Space, Tab, Return, Newline}

\* str::strip at the left and at the right.
StripLeft(s, cs) ==
  Slice(s, Min({i \in 0..Len(s) : i = Len(s) \/ Char(s, i) \notin cs}), Len(s))
StripRight(s, cs) ==
  Slice(s, 0, Max({i \in 0..Len(s) : i = 0 \/ Char(s, i - 1) \notin cs}))

-----------------------------------------------------------------------------
\* The quotation marks that are open behind character c: x, and y inside of it.
MarksOpen(q, c) ==
  IF c \notin Quotes THEN q
  ELSE IF c = q.x THEN [x |-> "", y |-> ""]
  ELSE IF c = q.y THEN [x |-> q.x, y |-> ""]
  ELSE IF q.x = "" THEN [x |-> c, y |-> q.y] ELSE [x |-> q.x, y |-> c]

\* The marks that are open at position k, if none is at position i.
MarksFrom(s, i) ==
  LET open[k \in i..Len(s)] ==
        IF k = i THEN [x |-> "", y |-> ""] ELSE MarksOpen(open[k - 1], Char(s, k - 1))
  IN  open

\* find_not_in_qm, from position i on: where sub is outside of quotes. It goes
\* on behind the mark that closes the quotes sub is in; marks that nothing closes
\* do not count.
FindFrom(s, sub) ==
  LET from[i \in 0..Len(s)] ==
        LET p == Least({j \in Nth(s, sub) : j >= i})
            q == MarksFrom(s, i)[p + 1]
            closing == {j \in p + Len(sub)..Len(s) - 1 : Char(s, j) \in Quotes \cap {q.x, q.y}}
        IN  IF p = Absence \/ q.x = "" \/ closing = {} THEN p ELSE from[Min(closing) + 1]
  IN  from

FindNotInQm(s, sub) == FindFrom(s, sub)[0]

\* fastring::replace of two spaces by one, which does not look at its result.
HalfSpaces(s) ==
  LET from[i \in 0..Len(s)] ==
        IF i = Len(s) THEN <<>>
        ELSE IF i \in Nth(s, <<Space, Space>>) THEN <<Space>> \o from[i + 2]
        ELSE <<Char(s, i)>> \o from[i + 1]
  IN  from[0]

\* getline: a line that ends in a backslash goes on.
Getline(lines) ==
  LET join[n \in 0..Len(lines)] ==
        IF n = Len(lines) THEN <<>>
        ELSE LET s == StripRight(StripLeft(HalfSpaces(lines[n + 1]), White), White)
             IN  IF s = <<>> \/ Last(s) # Backslash THEN s
                 ELSE StripRight(s, White \cup {Backslash}) \o join[n + 1]
  IN  join[0]

Hash == <<"#">>
Slashes == <<"/", "/">>
CommentMarks == {Hash, Slashes}

\* parse_config's treatment of a line: comments off, cut at =, and the quotation
\* marks off the value. <<>>: nothing to set.
ParseLine(line) ==
  LET comments == {FindNotInQm(line, sign) : sign \in CommentMarks} \ {Absence}
      s == IF comments = {} THEN line ELSE StripRight(Slice(line, 0, Min(comments)), Blanks)
      p == FindNotInQm(s, <<"=">>)
      val == StripLeft(Slice(s, p + 1, Len(s)), Blanks)
      bare == IF Len(val) > 1 /\ val[1] \in Quotes /\ val[1] = Last(val)
              THEN StripRight(StripLeft(val, {val[1]}), {val[1]}) ELSE val
  IN  IF line = <<>> \/ \E sign \in CommentMarks : IsPrefix(sign, line) THEN <<>>
      ELSE IF p \in {0, Absence} THEN <<"invalid">>
      ELSE <<"set", StripRight(Slice(s, 0, p), Blanks), bare>>

\* A backslash in front of each single quotation mark.
Escaped(s) ==
  LET to[n \in 0..Len(s)] ==
        IF n = 0 THEN <<>>
        ELSE to[n - 1] \o (IF s[n] = Single THEN <<Backslash, Single>> ELSE <<s[n]>>)
  IN  to[Len(s)]

\* Mutant: one kind of quotation marks is used whatever is in the value.
FormatStr_double(s) ==
  IF Quotes \cap ToSet(s) = {} THEN s ELSE <<Double>> \o s \o <<Double>>

\* format_str.
FormatStr(s) ==
  IF Quotes \cap ToSet(s) = {} THEN s
  ELSE IF Double \notin ToSet(s) THEN <<Double>> \o s \o <<Double>>
  ELSE IF Single \notin ToSet(s) THEN <<Single>> \o s \o <<Single>>
  ELSE <<Single>> \o Escaped(s) \o <<Single>>

\* What mkconf writes for flag f, up to the end of its line.
LineOf(v) == <<"f", Space, "=", Space>> \o FormatStr(v)

\* The lines parse_config finds of it: an empty one is behind, and a value with
\* line ends, which are not escaped, is cut at each.
Written(v) == Split(LineOf(v) \o <<Newline, Newline>>, Newline)

\* An argument: bp is behind its dashes, ep at its =.
ParseArg(s) ==
  LET bp == Least({i \in 0..Len(s) - 1 : Char(s, i) # "-"})
      ep == Least(Nth(s, <<"=">>))
  IN  IF bp = Absence \/ ep \in 0..bp THEN <<"invalid">>
      ELSE IF ep # Absence THEN <<"set", Slice(s, bp, ep), Slice(s, ep + 1, Len(s))>>
      ELSE IF bp = 0 THEN <<"element", s>> ELSE <<"bools", Slice(s, bp, Len(s))>>

-----------------------------------------------------------------------------
\* The places between a quotation mark and the next one, all of one kind.
Between(s, c) ==
  LET marks == {i \in 0..Len(s) - 1 : Char(s, i) = c}
      before(k) == Cardinality({i \in marks : i < k})
  IN  {k \in 0..Len(s) - 1 : before(k) % 2 = 1 /\ \E i \in marks : i > k}

QuotesIn(s) == Quotes \cap ToSet(s)

\* The signs of a text that begin a comment where they are not quoted.
CommentSigns(s) == UNION {Nth(s, sign) : sign \in CommentMarks}

\* A value that comes back: no line ends, no two spaces side by side, one kind of
\* quotation marks at most; without these nothing at its ends that is stripped
\* and no sign of a comment, with these no more than one.
Tame(v) ==
  /\ Newline \notin ToSet(v)
  /\ Nth(v, <<Space, Space>>) = {}
  /\ Cardinality(QuotesIn(v)) <= 1
  /\ IF QuotesIn(v) = {}
     THEN /\ v = <<>> \/ (v[1] \notin Blanks /\ Last(v) \notin White \cup {Backslash})
          /\ CommentSigns(v) = {}
     ELSE Cardinality(CommentSigns(v)) <= 1

\* With one kind of quotation marks, = and the signs of comments are found where
\* they are not between two of them (flag.cc:311-349).
QuotesRight ==
  \A sign \in CommentMarks \cup {<<"=">>} :
    \A c \in Quotes :
      QuotesIn(typed) \subseteq {c} =>
        FindNotInQm(typed, sign) = Least(Nth(typed, sign) \ Between(typed, c))

\* What mkconf writes for a string flag is read back, if it is tame; and what it
\* writes for a value without line ends is always read as a line that sets that
\* flag (flag.cc:182-188, 224, 351-412). Of a value with line ends the first
\* line sets the flag to a part of it, and the others may be refused.
ConfigReadBack ==
  LET read == ParseLine(Getline(Written(typed)))
  IN  Newline \notin ToSet(typed) =>
        /\ Len(Written(typed)) = 2
        /\ read[1] = "set" /\ read[2] = <<"f">>
        /\ Tame(typed) => read[3] = typed

\* Dashes in front do not matter: an argument with = sets, and is refused when
\* there is no name in front of it; the value may contain anything.
ArgsRight ==
  \A n \in 0..Len(typed) :
    LET name == StripLeft(Slice(typed, 0, n), {"-"})
    IN  (n < Len(typed) /\ Char(typed, n) = "=" /\ "=" \notin ToSet(name)) =>
          ParseArg(typed) = IF name = <<>> THEN <<"invalid">>
                            ELSE <<"set", name, Slice(typed, n + 1, Len(typed))>>

\* What a line and an argument are taken for, and what comes back from a file:
\* the three above.
FlagsRight == QuotesRight /\ ConfigReadBack /\ ArgsRight
=============================================================================
