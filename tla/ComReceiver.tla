------------------------------ MODULE ComReceiver ------------------------------
(***************************************************************************)
(* The board server's receiver of the serial line (com_receiver_func of    *)
(* selfserver.c): a ring with indices of eight bits, one place of which    *)
(* stays empty, filled by reads that take what has come so far, and the    *)
(* search for packages in it.  What a package does is in OverlayFeed.      *)
(***************************************************************************)
EXTENDS Bytes, SequencesExt

CONSTANTS Byte,      \* the values of bytes that matter
          Mark,      \* 0xFF, starts a package
          IdMax,     \* 0x03, the largest second byte
          PackLen,   \* COM_PACKAGE_LEN
          Size,      \* sizeof com_rcv_buf, and of the buffer of a read
          MaxBytes   \* bound: the bytes that come

ASSUME SerialAssumption ==
    /\ Byte \subseteq Nat /\ Mark \in Byte /\ IdMax \in Nat
    /\ PackLen \in Nat /\ PackLen > 3
    /\ Size \in Nat /\ Size > PackLen
    /\ MaxBytes \in Nat

VARIABLES tty,       \* the bytes that have come and are not read
          buf,       \* com_rcv_buf
          start,     \* com_rcv_start
          end,       \* com_rcv_end
          heard,     \* history: the bytes that found a place in the ring
          done,      \* history: the packages carried out
          came       \* counts for the bound

vars == <<tty, buf, start, end, heard, done, came>>

Index == 0 .. Size - 1

\* the indices are unsigned char
Plus(i, k) == (i + k) % Size

\* uch: what the ring holds
Held(b, e) == (e - b) % Size

\* NoPlaceEmpty: a mutant that fills the ring to its last place
NoPlaceEmpty(n) == IF n > Size - Held(start, end) THEN Size - Held(start, end) ELSE n

\* How many of n bytes read find a place; the first that would fill the ring
\* is taken back, and it and the rest of the read are dropped.
Stored(n) == IF n > Size - 1 - Held(start, end) THEN Size - 1 - Held(start, end) ELSE n

\* the package that would start at i, and the check of its bytes
PackageAt(ring, i) == [k \in 1 .. PackLen |-> ring[Plus(i, k - 1)]]

CheckByte(s) == FoldLeft(Xor, 0, s)

Valid(p) == p[1] = Mark /\ p[2] <= IdMax /\ p[PackLen] = CheckByte(SubSeq(p, 3, PackLen - 1))

\* how far the search goes on from a place: past a package, or one byte
Advance(p) == IF Valid(p) THEN PackLen ELSE 1

\* OneMore: a mutant that waits for a byte more than a package
OneMore(n) == n <= PackLen

\* what is left in the ring is no package yet
Incomplete(n) == n < PackLen

\* The loop over the ring: it ends where less than a package is left.  With n
\* bytes before e it leaves so many and finds these packages.
Loop(ring, e) ==
    LET From[n \in Index] ==
          LET p == PackageAt(ring, e - n)
              rest == From[n - Advance(p)]
          IN  IF Incomplete(n) THEN [left |-> n, found |-> << >>]
              ELSE [left |-> rest.left,
                    found |-> (IF Valid(p) THEN <<p>> ELSE << >>) \o rest.found]
    IN From

Search(ring, b, e) == Loop(ring, e)[Held(b, e)]

-----------------------------------------------------------------------------
\* The panel, and whatever else is on the line.
Comes(b) ==
    /\ came < MaxBytes /\ came' = came + 1
    /\ tty' = Append(tty, b)
    /\ UNCHANGED <<buf, start, end, heard, done>>

\* com_receiver_func: one read, and the search
com_receiver_func ==
    /\ tty # << >>
    /\ LET nread == IF Len(tty) < Size THEN Len(tty) ELSE Size
           k     == Stored(nread)
           ring  == [i \in Index |-> IF Held(end, i) < k THEN tty[Held(end, i) + 1] ELSE buf[i]]
           e     == Plus(end, k)
           s     == Search(ring, start, e)
       IN /\ tty' = SubSeq(tty, nread + 1, Len(tty))
          /\ buf' = ring /\ end' = e /\ start' = (e - s.left) % Size
          /\ heard' = heard \o SubSeq(tty, 1, k)
          /\ done' = done \o s.found
    /\ UNCHANGED came

Init ==
    /\ tty = << >> /\ buf = [i \in Index |-> 0] /\ start = 0 /\ end = 0
    /\ heard = << >> /\ done = << >> /\ came = 0

Next == (\E b \in Byte : Comes(b)) \/ com_receiver_func

Spec == Init /\ [][Next]_vars

-----------------------------------------------------------------------------
(* Properties.                                                             *)

\* What is carried out are the packages of the bytes heard, however the reads
\* cut them, wherever the ring wraps round and whatever came between them.
Line == INSTANCE SerialLine WITH Check <- CheckByte
LineSpec == Line!Spec

\* A byte is dropped only by a read that brings more than the ring has left
\* of its size when less than a package waits in it: a line that is read
\* before so many bytes have come loses nothing.
OnlyBurstsLose ==
    [][ Len(heard') - Len(heard) < Len(tty) - Len(tty')
          => Len(tty) - Len(tty') >= Size - (PackLen - 1) ]_vars
=============================================================================
