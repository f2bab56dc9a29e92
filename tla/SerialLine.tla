------------------------------ MODULE SerialLine ------------------------------
(***************************************************************************)
(* What the board server promises to the panel on its serial line, with no *)
(* buffer in sight: of the bytes that it hears, in the order in which they *)
(* come, it carries out every package that a reader of the whole line      *)
(* finds, and nothing else, however the bytes are cut into reads.          *)
(***************************************************************************)
EXTENDS Integers, SequencesExt

CONSTANTS PackLen,   \* COM_PACKAGE_LEN
          Mark,      \* 0xFF
          IdMax,     \* 0x03
          Check(_)   \* the exclusive or of a sequence of bytes

VARIABLES heard,     \* the bytes heard so far
          done       \* the packages carried out so far

\* A package starts with the mark and a small number; its last byte is the
\* exclusive or of those between.
IsPackage(p) ==
    /\ p[1] = Mark /\ p[2] <= IdMax
    /\ p[PackLen] = Check(SubSeq(p, 3, PackLen - 1))

\* The packages of s from each place on: the first one that starts there or
\* behind it, and those behind its end.
PackagesFrom(s) ==
    LET From[i \in 1 .. Len(s) + 1] ==
          LET p == SubSeq(s, i, i + PackLen - 1)
          IN  IF i + PackLen - 1 > Len(s) THEN << >>
              ELSE IF IsPackage(p) THEN <<p>> \o From[i + PackLen]
              ELSE From[i + 1]
    IN From

Packages(s) == PackagesFrom(s)[1]

lineVars == <<heard, done>>

Init == heard = << >> /\ done = << >>

Hear == IsPrefix(heard, heard') /\ done' = Packages(heard')

Spec == Init /\ [][Hear]_lineVars
=============================================================================
