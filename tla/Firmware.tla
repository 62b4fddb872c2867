------------------------------ MODULE Firmware ------------------------------
(***************************************************************************)
(* The tool that packs up to seven images into one firmware file           *)
(* (zw_encpack/main.cc, its variant zw_encpack_hisi/main.cc) and the one   *)
(* that takes them out again (zw_decpack/main.cc).                         *)
(*                                                                         *)
(* The packer looks at every file first and notes its offset in the        *)
(* firmware, computed from the sizes alone; then it writes the header and  *)
(* the images one behind the other. The unpacker trusts the noted offsets. *)
(* Bytes are left out: a file is its length, the firmware is its length    *)
(* and where each image really begins. The first 8 bytes of two different  *)
(* places may be equal or not. A size fits an int.                         *)
(***************************************************************************)
EXTENDS Naturals, Sequences

CONSTANTS
  Order,    \* the kinds of images, in the order in which main asks for them
  Align,    \* PACK_ALIGN
  Inputs,   \* the sizes of the files, per kind; 0: option not given, no file
  Names     \* the lengths of the board types, brackets included, 0: no type

Kinds == {Order[i] : i \in 1..Len(Order)}

ASSUME FirmwareAssumption ==
  /\ Order \in Seq(Nat)
  /\ Kinds = 1..Len(Order)
  /\ Align \in Nat \ {0}
  /\ Inputs \subseteq [Kinds -> Nat]
  /\ Names \subseteq Nat

VARIABLES
  size, names, hisi,  \* what the packer is called with, and which packer it is
  phase,    \* where the packer, then the unpacker, is
  asked,    \* how many kinds the packer has looked at
  info,     \* image_info
  length,   \* the length of the firmware file
  at,       \* history: where the images are in it
  filed,     \* header.img_inf of the unpacker, by kind; <<>>: not initialized
  done,     \* how many slots it has dealt with
  out,      \* per kind, its output: "none", the "whole" image, or "garbage"
  cut       \* history: the firmware was truncated on its way

fwVars == <<size, names, hisi, phase, asked, info, length, at, filed, done, out, cut>>
inputVars == <<size, names, hisi>>
packVars == <<asked, info, at>>
unpackVars == <<filed, done, out, cut>>

FwInit ==
  /\ size \in Inputs
  /\ hisi \in BOOLEAN
  /\ names \in Names
  /\ hisi => names \in 2..65
  /\ phase = "look"
  /\ asked = 0
  /\ info = <<>>
  /\ length = 0
  /\ at = <<>>
  /\ filed = [k \in Kinds |-> <<>>]
  /\ done = 0
  /\ out = [k \in Kinds |-> "none"]
  /\ cut = FALSE

\* Mutant: a length that is a multiple already is padded by a whole unit.
Padded_always(n) == n + (Align - (n % Align))

\* A length with its padding.
Padded(n) == IF n % Align = 0 THEN n ELSE n + (Align - (n % Align))

\* The next image's offset: the first one is at Align whatever the header is.
NextOffset ==
  IF info = <<>> THEN Align
  ELSE info[Len(info)].offset + Padded(info[Len(info)].len)

\* parse_imageinfo_byfile for the next kind; files of 8 bytes and less are
\* left out silently.
Look ==
  LET k == Order[asked + 1]
  IN  /\ phase = "look"
      /\ asked < Len(Order)
      /\ asked' = asked + 1
      /\ info' = IF size[k] > 8
                 THEN Append(info, [kind |-> k, offset |-> NextOffset, len |-> size[k]])
                 ELSE info
      /\ UNCHANGED <<inputVars, phase, length, at, unpackVars>>

\* The header as text, and as it is written: 20 bytes more, or, by the hisi
\* variant, a buffer of 209 bytes it was copied to.
HeaderText == 8 + 8 + names + 8 + 4 + 20 * Len(info)
HeaderLen == IF hisi THEN 209 ELSE HeaderText + 20

\* The header is as short as the offset of the first image takes for granted.
HeaderFits ==
  /\ HeaderLen <= Align
  /\ hisi => HeaderText <= 209

\* Without images it prints the usage; the board type is looked at when the
\* output is open. What the hisi variant does when the text overruns its buffer
\* is undefined.
WriteHeader ==
  /\ phase = "look"
  /\ asked = Len(Order)
  /\ IF info = <<>> \/ (~hisi /\ names = 0) \/ (hisi /\ HeaderText > 209)
     THEN phase' = "failed" /\ UNCHANGED length
     ELSE phase' = "write" /\ length' = Padded(HeaderLen)
  /\ UNCHANGED <<inputVars, packVars, unpackVars>>

WriteImage ==
  /\ phase = "write"
  /\ Len(at) < Len(info)
  /\ at' = Append(at, length)
  /\ length' = length + Padded(info[Len(at) + 1].len)
  /\ UNCHANGED <<inputVars, phase, asked, info, unpackVars>>

\* The firmware is complete, and may get shorter on its way to the unpacker.
Ship ==
  /\ phase = "write"
  /\ Len(at) = Len(info)
  /\ phase' = "shipped"
  /\ \E n \in {length, at[Len(at)] + 8} :
       length' = n /\ cut' = (n < length)
  /\ UNCHANGED <<inputVars, packVars, filed, done, out>>

-----------------------------------------------------------------------------
\* The unpacker reads the header, the magic codes unchecked, and files every
\* entry by its kind.
ReadHeader ==
  /\ phase = "shipped"
  /\ phase' = "unpack"
  /\ filed' = [k \in Kinds |->
                IF \E i \in 1..Len(info) : info[i].kind = k
                THEN info[CHOOSE i \in 1..Len(info) : info[i].kind = k] ELSE <<>>]
  /\ UNCHANGED <<inputVars, packVars, length, done, out, cut>>

\* Is that image at that offset?
Stored(e) == \E i \in 1..Len(info) : info[i] = e /\ at[i] = e.offset

\* It goes through as many slots, from the first, as there are images. An image
\* of which the file holds the first 8 bytes but not the rest is read for ever.
Extract ==
  LET k == done + 1
  IN  /\ phase = "unpack"
      /\ done < Len(info)
      /\ done' = k
      /\ IF filed[k] # <<>> /\ Stored(filed[k])
         THEN IF filed[k].offset + filed[k].len <= length
              THEN out' = [out EXCEPT ![k] = "whole"] /\ UNCHANGED phase
              ELSE out' = [out EXCEPT ![k] = "garbage"] /\ phase' = "spin"
         ELSE \/ UNCHANGED <<out, phase>>
              \/ /\ out' = [out EXCEPT ![k] = "garbage"]
                 /\ phase' \in {"unpack", "spin"}
      /\ UNCHANGED <<inputVars, packVars, length, filed, cut>>

FwNext == Look \/ WriteHeader \/ WriteImage \/ Ship \/ ReadHeader \/ Extract

FwSpec == FwInit /\ [][FwNext]_fwVars

-----------------------------------------------------------------------------
\* The offsets that the packer notes before it writes anything are where the
\* images begin, as long as the header keeps within one unit: the padding is
\* computed twice, from the sizes (zw_encpack/main.cc:83-91) and while writing
\* (226-231, 272-276), and the two must agree for every mix of images.
OffsetsRight ==
  HeaderFits => \A i \in 1..Len(at) : at[i] = info[i].offset

\* What comes out again: an image whose kind is not above the number of images,
\* whole; the others are never looked for, because the slots are filled by kind
\* and read by number (zw_decpack/main.cc:134 and 147). And the unpacker comes
\* to its end, if no kind is missing below and the file was not truncated.
Unpacked ==
  /\ (HeaderFits /\ ~cut /\ phase \in {"unpack", "spin"}) =>
       \A i \in 1..Len(info) :
         out[info[i].kind] = IF info[i].kind <= done THEN "whole" ELSE "none"
  /\ (HeaderFits /\ ~cut /\ \A k \in 1..Len(info) : filed[k] # <<>>) => phase # "spin"
=============================================================================
