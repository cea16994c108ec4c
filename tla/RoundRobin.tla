----------------------------- MODULE RoundRobin -----------------------------
(***************************************************************************)
(* What the active circuits of an OR connection are to its outbuf: a line  *)
(* in which every circuit with cells to send stands once, is served one    *)
(* cell at its turn and goes to the back of the line while it has more.    *)
(***************************************************************************)
EXTENDS Integers, Sequences, SequencesExt

CONSTANTS Lines, Members

VARIABLES turns,    \* turns[k]: the line of connection k, first at 1
          pending   \* pending[c]: cells circuit c has to send

Enter(line, c) == IF Contains(line, c) THEN line ELSE Append(line, c)
Leave(line, c) == SelectSeq(line, LAMBDA d : d # c)

(* The line and the cells left after n cells have been served.              *)
ServedAfter(line, pend, n) ==
    LET after[i \in 0 .. n] ==
          IF i = 0 THEN [line |-> line, pend |-> pend]
          ELSE LET q == after[i - 1] IN
               IF q.line = <<>> THEN q
               ELSE LET c == Head(q.line) IN
                    [line |-> IF q.pend[c] = 1 THEN Tail(q.line)
                              ELSE Append(Tail(q.line), c),
                     pend |-> [q.pend EXCEPT ![c] = @ - 1]]
    IN  after[n]

Init == turns = [k \in Lines |-> <<>>] /\ pending = [c \in Members |-> 0]

(* A cell comes for c; when the line was idle its first may be served.      *)
Arrive(k, c, n) ==
    LET q == ServedAfter(Enter(turns[k], c), [pending EXCEPT ![c] = @ + 1], n)
    IN  turns' = [turns EXCEPT ![k] = q.line] /\ pending' = q.pend

Serve(k, n) ==
    LET q == ServedAfter(turns[k], pending, n)
    IN  turns' = [turns EXCEPT ![k] = q.line] /\ pending' = q.pend

(* c leaves its line, alone or with all others of a line that closes, and   *)
(* gives up the cells it had.                                               *)
Depart(k, gone) ==
    /\ turns' = [turns EXCEPT ![k] = SelectSeq(@, LAMBDA d : d \notin gone)]
    /\ pending' = [c \in Members |-> IF c \in gone THEN 0 ELSE pending[c]]

Next == \E k \in Lines :
          \/ \E c \in Members, n \in 0 .. 1 : Arrive(k, c, n)
          \/ \E n \in 1 .. 4 : Serve(k, n)
          \/ \E gone \in SUBSET Members : Depart(k, gone)

Spec == Init /\ [][Next]_<<turns, pending>>
=============================================================================
