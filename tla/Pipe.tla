-------------------------------- MODULE Pipe --------------------------------
(***************************************************************************)
(* What a relay promises for each direction (lane) of each connection: the *)
(* receiver gets a prefix of what the sender sent, in order and once, and  *)
(* is told of a regular end only when it has everything, unless the lane   *)
(* was broken.  Lanes are independent: in a step each does something or    *)
(* nothing.  tcpProxy implements this specification (TcpRelay).            *)
(***************************************************************************)
EXTENDS Naturals, Sequences

CONSTANT Lanes

VARIABLES
    sent,    \* what the sender of a lane has sent
    rcvd,    \* what its receiver has got
    fin,     \* whether the sender has ended its side
    eof,     \* whether the receiver was told of a regular end
    broken   \* whether the lane was aborted

pipe == <<sent, rcvd, fin, eof, broken>>

Init ==
    /\ sent = [l \in Lanes |-> <<>>]
    /\ rcvd = [l \in Lanes |-> <<>>]
    /\ fin = [l \in Lanes |-> FALSE]
    /\ eof = [l \in Lanes |-> FALSE]
    /\ broken = [l \in Lanes |-> FALSE]

Keeps(l, f) == f'[l] = f[l]

Send(l) ==
    /\ ~fin[l]
    /\ Len(sent'[l]) = Len(sent[l]) + 1
    /\ SubSeq(sent'[l], 1, Len(sent[l])) = sent[l]
    /\ Keeps(l, rcvd) /\ Keeps(l, fin) /\ Keeps(l, eof) /\ Keeps(l, broken)

Deliver(l) ==
    /\ ~eof[l]
    /\ Len(rcvd[l]) < Len(sent[l])
    /\ rcvd'[l] = Append(rcvd[l], sent[l][Len(rcvd[l]) + 1])
    /\ Keeps(l, sent) /\ Keeps(l, fin) /\ Keeps(l, eof) /\ Keeps(l, broken)

Finish(l) ==
    /\ fin'[l]
    /\ Keeps(l, sent) /\ Keeps(l, rcvd) /\ Keeps(l, eof) /\ Keeps(l, broken)

Eof(l) ==
    /\ (fin[l] /\ rcvd[l] = sent[l]) \/ broken[l]
    /\ eof'[l]
    /\ Keeps(l, sent) /\ Keeps(l, rcvd) /\ Keeps(l, fin) /\ Keeps(l, broken)

\* A reset, or the end of the relay or of the receiver; each may also end
\* the sender's side or look like a regular end to the receiver.
Break(l) ==
    /\ broken'[l]
    /\ fin[l] => fin'[l]
    /\ eof[l] => eof'[l]
    /\ Keeps(l, sent) /\ Keeps(l, rcvd)

Nothing(l) ==
    /\ Keeps(l, sent) /\ Keeps(l, rcvd)
    /\ Keeps(l, fin) /\ Keeps(l, eof) /\ Keeps(l, broken)

Next ==
    \A l \in Lanes :
      Send(l) \/ Deliver(l) \/ Finish(l) \/ Eof(l) \/ Break(l) \/ Nothing(l)

Spec == Init /\ [][Next]_pipe
=============================================================================
