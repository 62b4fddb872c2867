------------------------------- MODULE LogPipe -------------------------------
(***************************************************************************)
(* What base/log.h promises of a level log, without threads or buffers: a  *)
(* pipe of lines. Lines are numbered in the order in which they are        *)
(* accepted. They are written in that order, each at most once; an         *)
(* overflowing pipe forgets some that are not written yet and leaves a     *)
(* mark (the "......" line) in their place; lines handed to a file that    *)
(* cannot be opened, or to a thread that is killed, are lost.              *)
(***************************************************************************)
EXTENDS Integers, Sequences, SequencesExt

CONSTANT Mark

VARIABLES
  accepted,   \* how many lines were accepted
  pending,    \* the lines and marks not written yet
  out,        \* what was written
  lost        \* the lines that no file takes

pipeVars == <<accepted, pending, out, lost>>

Init == accepted = 0 /\ pending = <<>> /\ out = <<>> /\ lost = {}

Accept ==
  /\ accepted' = accepted + 1
  /\ pending' = Append(pending, accepted + 1)
  /\ UNCHANGED <<out, lost>>

\* The lines i+1..j make room for a mark.
AcceptFull ==
  /\ accepted' = accepted + 1
  /\ \E i \in 0..Len(pending) : \E j \in i..Len(pending) :
       pending' = SubSeq(pending, 1, i) \o <<Mark>>
                    \o SubSeq(pending, j + 1, Len(pending)) \o <<accepted + 1>>
  /\ UNCHANGED <<out, lost>>

Deliver ==
  /\ \E k \in 1..Len(pending) :
       /\ out' = out \o SubSeq(pending, 1, k)
       /\ pending' = SubSeq(pending, k + 1, Len(pending))
  /\ UNCHANGED <<accepted, lost>>

Lose ==
  /\ \E k \in 1..Len(pending) :
       /\ lost' = lost \cup (ToSet(SubSeq(pending, 1, k)) \ {Mark})
       /\ pending' = SubSeq(pending, k + 1, Len(pending))
  /\ UNCHANGED <<accepted, out>>

Next == Accept \/ AcceptFull \/ Deliver \/ Lose

Spec == Init /\ [][Next]_pipeVars
=============================================================================
