-------------------------------- MODULE Text --------------------------------
(***************************************************************************)
(* Functions on strings: match and rfind of base/fastring.cc, clean and     *)
(* base of base/path.cc and mkdir of base/unix/fs.cc, each beside a        *)
(* definition of what it should return. The two variables range over all   *)
(* strings up to a length: the steps type them.                            *)
(***************************************************************************)
EXTENDS Str

CONSTANTS
  Letters, Signs,     \* the characters of text and of pattern
  MaxText, MaxBoth    \* bounds: the length of a text alone, and of the two

ASSUME TextAssumption == MaxText \in Nat /\ MaxBoth \in Nat

VARIABLES text, pattern

textVars == <<text, pattern>>

npos == -1

TextInit == text = <<>> /\ pattern = <<>>

\* Some user types one more character.
TextNext ==
  \/ /\ Len(text) < MaxText
     /\ pattern = <<>>
     /\ \E c \in Letters : text' = Append(text, c)
     /\ UNCHANGED pattern
  \/ /\ Len(text) + Len(pattern) < MaxBoth
     /\ \E c \in Signs : pattern' = Append(pattern, c)
     /\ UNCHANGED text

TextSpec == TextInit /\ [][TextNext]_textVars

-----------------------------------------------------------------------------
\* fastring::match, from positions i of the text and j of the pattern.
MatchFrom(s, p) ==
  LET m[at \in (0..Len(s)) \X (0..Len(p))] ==
        LET i == at[1]
            j == at[2]
        IN  IF j + 1 = Len(p) /\ At(p, j) = "*" THEN TRUE
            ELSE IF i < Len(s) /\ j < Len(p)
                 THEN IF At(p, j) = "*" THEN m[<<i, j + 1>>] \/ m[<<i + 1, j>>]
                      ELSE At(p, j) \in {"?", At(s, i)} /\ m[<<i + 1, j + 1>>]
                 ELSE i = Len(s) /\ j = Len(p)
  IN  m

Match(s, p) == MatchFrom(s, p)[<<0, 0>>]

\* The pattern cuts the text in pieces: any one for a star, else one character.
Globs(s, p) ==
  \E cut \in [0..Len(p) -> 0..Len(s)] :
    /\ cut[0] = 0 /\ cut[Len(p)] = Len(s)
    /\ \A j \in 1..Len(p) :
         IF p[j] = "*" THEN cut[j] >= cut[j - 1]
         ELSE cut[j] = cut[j - 1] + 1 /\ p[j] \in {"?", s[cut[j]]}

\* The pattern, but two or more stars at its end want one more character at
\* least: at the end of the text match allows for one star only.
OneMore(p) ==
  LET plain == {i \in 1..Len(p) : p[i] # "*"}
      n == IF plain = {} THEN 0 ELSE Max(plain)
  IN  IF Len(p) < n + 2 THEN p ELSE SubSeq(p, 1, n) \o <<"?", "*">>

-----------------------------------------------------------------------------
\* How far rfind steps back over a character in front of the place it looked
\* at: to where sub has it first, or past it.
Skip(sub, c) ==
  IF c \in ToSet(sub)
  THEN CHOOSE i \in 1..Len(sub) : sub[i] = c /\ \A k \in 1..i - 1 : sub[k] # c
  ELSE Len(sub) + 1

\* rfind, from position j of the text on to the front.
RfindFrom(s, sub) ==
  LET m == Len(sub)
      from[j \in 0..Len(s) - m] ==
        IF Part(s, j, j + m) = sub THEN j
        ELSE IF j = 0 \/ j < Skip(sub, At(s, j - 1)) THEN npos
             ELSE from[j - Skip(sub, At(s, j - 1))]
  IN  from

Rfind(s, sub) ==
  IF Len(s) < Len(sub) THEN npos ELSE RfindFrom(s, sub)[Len(s) - Len(sub)]

\* The places where sub is in s.
Places(s, sub) == {j \in 0..Len(s) - Len(sub) : Part(s, j, j + Len(sub)) = sub}

-----------------------------------------------------------------------------
Rooted(s) == s # <<>> /\ s[1] = "/"

\* path::clean works on r[0..p-1], and d is where .. must stop.
CleanUp(r, d) ==
  Part(r, 0, CHOOSE q \in d..Len(r) - 1 :
               /\ q = d \/ At(r, q) = "/"
               /\ \A k \in q + 1..Len(r) - 1 : At(r, k) # "/")

\* Mutant: .. that cannot be taken back may be taken back by the next one.
CleanDots_open(st, rooted) ==
  IF Len(st.r) > st.d THEN [i |-> st.i + 2, r |-> CleanUp(st.r, st.d), d |-> st.d]
  ELSE IF rooted THEN [st EXCEPT !.i = @ + 2]
  ELSE LET r == (IF st.r = <<>> THEN <<>> ELSE Append(st.r, "/")) \o <<".", ".">>
       IN  [i |-> st.i + 2, r |-> r, d |-> st.d]

\* An element .. takes the last one back, or is kept if there is none.
CleanDots(st, rooted) ==
  IF Len(st.r) > st.d THEN [i |-> st.i + 2, r |-> CleanUp(st.r, st.d), d |-> st.d]
  ELSE IF rooted THEN [st EXCEPT !.i = @ + 2]
  ELSE LET r == (IF st.r = <<>> THEN <<>> ELSE Append(st.r, "/")) \o <<".", ".">>
       IN  [i |-> st.i + 2, r |-> r, d |-> Len(r)]

\* One turn of its loop, at position i.
CleanTurn(s, st) ==
  LET i == st.i
      rooted == At(s, 0) = "/"
      ends(k) == k = Len(s) \/ At(s, k) = "/"
      next == CHOOSE k \in i..Len(s) : ends(k) /\ \A l \in i..k - 1 : ~ends(l)
      slash == IF Len(st.r) = (IF rooted THEN 1 ELSE 0) THEN <<>> ELSE <<"/">>
  IN  CASE i >= Len(s) -> st
        [] i < Len(s) /\ (At(s, i) = "/" \/ (At(s, i) = "." /\ ends(i + 1))) ->
             [st EXCEPT !.i = @ + 1]
        [] i + 1 < Len(s) /\ At(s, i) = "." /\ At(s, i + 1) = "." /\ ends(i + 2) ->
             CleanDots(st, rooted)
        [] OTHER -> [i |-> next, r |-> st.r \o slash \o Part(s, i, next), d |-> st.d]

CleanFrom(s) ==
  LET p == IF Rooted(s) THEN 1 ELSE 0
      turn[k \in 0..Len(s)] ==
        IF k = 0 THEN [i |-> p, r |-> Part(s, 0, p), d |-> p] ELSE CleanTurn(s, turn[k - 1])
  IN  turn

Clean(s) ==
  LET r == CleanFrom(s)[Len(s)].r
  IN  IF s = <<>> \/ r = <<>> THEN <<".">> ELSE r

\* path::base.
Base(s) ==
  LET p == CHOOSE p \in 0..Len(s) : /\ \A k \in p..Len(s) - 1 : At(s, k) = "/"
                                    /\ p = 0 \/ At(s, p - 1) # "/"
      x == Part(s, 0, p)
  IN  IF s = <<>> THEN <<".">>
      ELSE IF p = 0 THEN <<"/">>
      ELSE Part(x, Rfind(x, <<"/">>) + 1, p)

-----------------------------------------------------------------------------
Dots == <<".", ".">>

\* A name is put on the stack of those a path leads through, and .. takes the
\* last one back that is not .. itself.
Walk(stack, name, rooted) ==
  IF name \in {<<>>, <<".">>} THEN stack
  ELSE IF name # Dots THEN Append(stack, name)
  ELSE IF stack # <<>> /\ Last(stack) # Dots THEN Front(stack)
  ELSE IF rooted THEN stack ELSE Append(stack, name)

\* What a path leads through up to position j, where its last name there ends.
WalkedTo(s) ==
  LET walked[j \in 0..Len(s)] ==
        LET b == CHOOSE b \in 0..j : /\ b = 0 \/ At(s, b - 1) = "/"
                                     /\ \A l \in b..j - 1 : At(s, l) # "/"
        IN  Walk(IF b = 0 THEN <<>> ELSE walked[b - 1], Part(s, b, j), Rooted(s))
  IN  walked

\* The kernel's lstat and mkdir: a path leads to the directory its names
\* stand for, and the empty path to none. The root directory is there.
DirNames(s) == WalkedTo(s)[Len(s)]
There(s, dirs) == s # <<>> /\ (DirNames(s) = <<>> \/ DirNames(s) \in dirs)
KernelMkdir(s, dirs) ==
  IF s # <<>> /\ ~There(s, dirs) /\ (Len(DirNames(s)) = 1 \/ Front(DirNames(s)) \in dirs)
  THEN dirs \cup {DirNames(s)} ELSE dirs

\* strrchr, in the first n characters.
LastSlash(s, n) ==
  IF "/" \in ToSet(Part(s, 0, n))
  THEN CHOOSE k \in 0..n - 1 : At(s, k) = "/" /\ \A l \in k + 1..n - 1 : At(s, l) # "/"
  ELSE npos

\* fs::mkdir with p of the first n characters: the parent first, unless that is
\* there. Whether it goes on depends on what it was told of the parent.
MkdirFrom(s, dirs) ==
  LET made[n \in 0..Len(s)] ==
        LET cut == LastSlash(s, n)
            alone == cut = npos \/ There(Part(s, 0, cut), dirs)
            before == IF alone THEN dirs ELSE made[cut].dirs
            go == alone \/ made[cut].ok
            after == IF go THEN KernelMkdir(Part(s, 0, n), before) ELSE before
        IN  [dirs |-> after, ok |-> go /\ after # before]
  IN  made

MkdirP(s, dirs) == MkdirFrom(s, dirs)[Len(s)]

-----------------------------------------------------------------------------
\* What LevelLogger::push makes of a full buffer: the mark, and what is behind
\* the first line end behind the middle. The mark of the code has six dots, and
\* the buffer is a megabyte at least. A zero byte in a message, at which strchr
\* would stop, is left out.
Mark == <<".", Newline>>

Middle(s) == Len(s) \div 2 + Len(Mark)
LineEnds(s) == {i \in Middle(s)..Len(s) - 1 : At(s, i) = Newline}

\* What is kept begins here, and is copied to the place behind the mark.
Rest(s) == Min(LineEnds(s)) + 1
Halved(s) == Mark \o Part(s, Rest(s), Len(s))

-----------------------------------------------------------------------------
\* The first k names with slashes between them.
JoinedTo(v) ==
  LET joined[k \in 0..Len(v)] ==
        IF k = 0 THEN <<>>
        ELSE IF k = 1 THEN v[1] ELSE joined[k - 1] \o <<"/">> \o v[k]
  IN  joined

Joined(v) == JoinedTo(v)[Len(v)]

Root(s) == IF Rooted(s) THEN <<"/">> ELSE <<>>

Canonical(s) ==
  LET path == Root(s) \o Joined(WalkedTo(s)[Len(s)])
  IN  IF path = <<>> THEN <<".">> ELSE path

\* What fastring.h:269 says of match: it takes what a cut of the text takes, with
\* "* matches everything". The code does not (fastring.cc:222): a** does not
\* match a.
MatchGlobs == Match(text, pattern) = Globs(text, pattern)

\* match takes nothing else than that, and all of it, but for a text that leaves
\* nothing to the two or more stars a pattern ends in; rfind, which skips places
\* by a table (fastring.cc:89-100), finds the last one.
SearchRight ==
  /\ Match(text, pattern) => Globs(text, pattern)
  /\ Globs(text, OneMore(pattern)) => Match(text, pattern)
  /\ LET at == Places(text, pattern)
     IN  Rfind(text, pattern) = IF at = {} THEN npos ELSE Max(at)

\* What base returns is the last name of a path.
BaseIs(s) ==
  \/ Base(s) = <<".">> /\ s = <<>>
  \/ Base(s) = <<"/">> /\ s # <<>> /\ \A l \in 1..Len(s) : s[l] = "/"
  \/ \E b \in 0..Len(s) : \E e \in b + 1..Len(s) :
       /\ Base(s) = Part(s, b, e)
       /\ b = 0 \/ At(s, b - 1) = "/"
       /\ \A l \in b..e - 1 : At(s, l) # "/"
       /\ \A l \in e..Len(s) - 1 : At(s, l) = "/"

\* clean, which edits a copy in place (path.cc:8-48), returns the shortest
\* equivalent path, and never writes where it has not read yet; base returns the
\* last name.
PathsRight ==
  /\ Clean(text) = Canonical(text)
  /\ \A k \in 0..Len(text) : Len(CleanFrom(text)[k].r) <= CleanFrom(text)[k].i
  /\ BaseIs(text)

\* A full buffer of whole lines has a line end to be cut at (log.cc:89), even if
\* it is one line, what is left is less than half of it and whole lines again,
\* and memcpy does not copy to a place that it copies from.
BufferRight ==
  LET len == Len(text) - Rest(text)
      lines == Split(text, Newline)
      cut == Split(Part(text, 0, Rest(text)), Newline)
  IN  (Len(text) > 2 * Len(Mark) /\ Last(text) = Newline) =>
        /\ LineEnds(text) # {}
        /\ 2 * len < Len(text) /\ Len(Mark) + len <= Rest(text)
        /\ Split(Halved(text), Newline) =
             <<<<".">>>> \o SubSeq(lines, Len(cut) + 1, Len(lines))

\* What fs.h:20 says, "p = true -> mkdir -p", and log.cc:15 of the log directory,
\* which path::clean has been at: mkdir with p makes all of a path. The code does
\* not (fs.cc:43-48): the parent of the first directory of a rooted path is the
\* empty path, which cannot be made.
MkdirMakesAll ==
  text = Clean(text) /\ "." \notin ToSet(text) => There(text, MkdirP(text, {}).dirs)

\* It does make all of a clean path that is not rooted, or whose first directory
\* is there; and it says of no path that it is made which is not there.
DirsRight ==
  LET names == DirNames(text)
      top == IF names = <<>> THEN <<>> ELSE <<names[1]>>
  IN  (text = Clean(text) /\ "." \notin ToSet(text)) =>
        \A dirs \in {{}, {top} \ {<<>>}} :
          LET made == MkdirP(text, dirs)
          IN  /\ made.ok => There(text, made.dirs)
              /\ names = <<>> \/ ~Rooted(text) \/ top \in dirs => There(text, made.dirs)

\* What the string functions return, and what mkdir with p, which relies on them,
\* leaves behind: the four above.
TextRight == SearchRight /\ PathsRight /\ BufferRight /\ DirsRight
=============================================================================
