------------------------------ MODULE MssOption ------------------------------
(***************************************************************************)
(* set_mms of the tunnel example: it writes its own maximum segment size   *)
(* over the first MSS option of a TCP header, whose place in the raw bytes *)
(* it finds by adding up the lengths of the options before it.             *)
(*                                                                         *)
(* A frame is a record: type and proto; options, what pnet's iterator      *)
(* shows of its TCP options, one after the other; raw, their bytes, which  *)
(* are the frame's and the only thing written; and fresh, whether its      *)
(* checksums are those of its contents.                                    *)
(*                                                                         *)
(* An operator named ...Faulty is a bug one could put in its place; it is  *)
(* used by no specification, only to see that a property would notice.     *)
(***************************************************************************)
EXTENDS Integers, Sequences, FiniteSetsExt

CONSTANT Mms     \* the size the tunnel allows, as two bytes

Byte == 0..255
ASSUME MmsAssumption == Mms \in Byte \X Byte

Eol == 0   Nop == 1   Mss == 2

\* An option: its kind, the length of the whole, and data; or a kind alone.
Option ==
  {o \in Seq(Byte) : /\ o # <<>>
                     /\ IF o[1] \in {Eol, Nop} THEN Len(o) = 1
                        ELSE Len(o) >= 2 /\ o[2] = Len(o)
                     /\ o[1] = Mss => Len(o) = 4}

\* The option at which the loop over the options ends, 0 if there is none.
FirstMss(options) ==
  LET found == {k \in DOMAIN options : options[k][1] = Mss}
  IN  IF found = {} THEN 0 ELSE Min(found)

\* What an option before it adds to the index: one without length byte takes
\* one byte.
Advance(o) == IF o[1] \in {Eol, Nop} THEN 1 ELSE o[2]

\* The index when the loop reaches option k.
IndexOf(options, k) ==
  LET Index[j \in 1..Len(options)] ==
        IF j = 1 THEN 0 ELSE Index[j - 1] + Advance(options[j - 1])
  IN  Index[k]

WriteAt(raw, i) == [raw EXCEPT ![i + 1] = Mms[1], ![i + 2] = Mms[2]]

ClampedFaulty(raw, options) ==
  LET k == FirstMss(options)
  IN  IF k = 0 THEN raw ELSE WriteAt(raw, IndexOf(options, k))
Clamped(raw, options) ==
  LET k == FirstMss(options)
  IN  IF k = 0 THEN raw ELSE WriteAt(raw, IndexOf(options, k) + 2)

SetMms(f) ==
  IF f.type = "ipv4" /\ f.proto = "tcp"
  THEN [f EXCEPT !.raw = Clamped(f.raw, f.options), !.fresh = TRUE]
  ELSE f
=============================================================================
