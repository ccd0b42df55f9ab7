------------------------------ MODULE MCRelay ------------------------------
EXTENDS Relay, TLC

CONSTANTS alice, bob, ca, cb, cc, m1, m2, m3, w1, w2

\* ca lives at alice; cb and its successor cc share the address bob.
MCAddressOf == [c \in Conn |-> IF c = ca THEN alice ELSE bob]

AnySender == {[sender |-> None, replyTo |-> None]}
FromAlice == AnySender \cup {[sender |-> alice, replyTo |-> None]}
Replies == AnySender \cup {[sender |-> None, replyTo |-> m1]}

Symmetry == Permutations(Message) \cup Permutations(Wait)

NoReply == {None}
ReplyToM1 == {None, m1}
=============================================================================
