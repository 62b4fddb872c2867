------------------------------ MODULE MCParts -------------------------------
(***************************************************************************)
(* The parts of the repository that have nothing to do with each other,    *)
(* checked in one run: the first state chooses one of them, and no other   *)
(* one moves. The others stand still in one of their initial states.       *)
(***************************************************************************)
EXTENDS Firmware, LruMap, FastString, UtilLog, Text, AoutSpeech, LogFiles, LogTime, Flags

VARIABLE part

\* The order in which zw_encpack/main.cc asks for the images.
MCOrder == <<1, 2, 3, 4, 6, 5, 7>>

MCFewSizes == <<9, 9, 9, 9, 9, 9, 9>>
MCManySizes == <<257, 256, 8, 300, 255, 512, 9>>

\* Every set of images, with both kinds of sizes.
MCInputs ==
  {[k \in 1..7 |-> IF k \in given THEN s[k] ELSE 0] :
     given \in SUBSET (1..7), s \in {MCFewSizes, MCManySizes}}

\* What is typed: text, and for flags arguments and parts of config lines.
MCLetters == {"a", ".", "/", "\n"}
MCAlphabets ==
  {{}, {"a", "\"", "'", "#"}, {"\"", "'", "/"}, {"a", "\\", " ", "#", "\""}, {"-", "=", "a"},
   {"a", " ", "\t", "\r"}, {"a", "\t", "\n", "\\"}}

others == <<fwVars, lruVars, strVars, utilVars, textVars, speechVars, filesVars, timeVars, flagVars>>

PartsInit ==
  /\ part \in {"firmware", "lru", "string", "log", "text", "speech", "files", "time", "flags"}
  /\ part # "firmware" => size = [k \in Kinds |-> 0] /\ hisi = FALSE /\ names = 0
  /\ FwInit
  /\ part # "lru" => capacity = [m \in Map |-> DefaultCapacity]
  /\ LruInit
  /\ part # "string" => owner = [h \in Handle |-> CHOOSE t \in Thread : TRUE]
  /\ StrInit
  /\ UtilInit
  /\ TextInit
  /\ SpeechInit
  /\ FilesInit
  /\ part # "time" => now = 0
  /\ TimeInit
  /\ part # "flags" => alphabet = {}
  /\ FlagsInit

PartsNext ==
  \/ /\ part = "firmware"
     /\ FwNext
     /\ UNCHANGED <<part, lruVars, strVars, utilVars, textVars, speechVars, filesVars, timeVars, flagVars>>
  \/ /\ part = "lru"
     /\ LruNext
     /\ UNCHANGED <<part, fwVars, strVars, utilVars, textVars, speechVars, filesVars, timeVars, flagVars>>
  \/ /\ part = "string"
     /\ StrNext
     /\ UNCHANGED <<part, fwVars, lruVars, utilVars, textVars, speechVars, filesVars, timeVars, flagVars>>
  \/ /\ part = "log"
     /\ UtilNext
     /\ UNCHANGED <<part, fwVars, lruVars, strVars, textVars, speechVars, filesVars, timeVars, flagVars>>
  \/ /\ part = "text"
     /\ TextNext
     /\ UNCHANGED <<part, fwVars, lruVars, strVars, utilVars, speechVars, filesVars, timeVars, flagVars>>
  \/ /\ part = "speech"
     /\ SpeechNext
     /\ UNCHANGED <<part, fwVars, lruVars, strVars, utilVars, textVars, filesVars, timeVars, flagVars>>
  \/ /\ part = "files"
     /\ FilesNext
     /\ UNCHANGED <<part, fwVars, lruVars, strVars, utilVars, textVars, speechVars, timeVars, flagVars>>
  \/ /\ part = "time"
     /\ TimeNext
     /\ UNCHANGED <<part, fwVars, lruVars, strVars, utilVars, textVars, speechVars, filesVars, flagVars>>
  \/ /\ part = "flags"
     /\ FlagsNext
     /\ UNCHANGED <<part, fwVars, lruVars, strVars, utilVars, textVars, speechVars, filesVars, timeVars>>

PartsSpec == PartsInit /\ [][PartsNext]_<<part, others>>
=============================================================================
