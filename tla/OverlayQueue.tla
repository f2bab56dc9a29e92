----------------------------- MODULE OverlayQueue -----------------------------
(***************************************************************************)
(* What the path from the board server to the picture promises for the    *)
(* texts that it carries: a queue that may lose messages from its head,    *)
(* but never changes their order, shows one twice, or shows a mixture.     *)
(***************************************************************************)
EXTENDS Sequences, SequencesExt

VARIABLES queue,     \* the messages on their way
          shown      \* the pieces of the message drawn last

queueVars == <<queue, shown>>

\* A message is known by its header; the text follows, unless it clears a row.
Pieces(m) == IF m.text THEN <<m, [m EXCEPT !.part = "text"]>> ELSE <<m>>

Init == queue = << >> /\ shown = << >>

Send == IsPrefix(queue, queue') /\ UNCHANGED shown

Lose == IsSuffix(queue', queue) /\ UNCHANGED shown

Show ==
    /\ queue # << >> /\ shown' = Pieces(Head(queue))
    /\ queue' = Tail(queue)

Next == Send \/ Lose \/ Show

Spec == Init /\ [][Next]_queueVars
=============================================================================
