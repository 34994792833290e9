--------------------------- MODULE OrderedDelivery ---------------------------
(***************************************************************************)
(* What a signal connection between two nodes promises in one direction:   *)
(* the receiver is handed the messages that were accepted for sending, in  *)
(* that order, each once, from the first one up to some point.  A          *)
(* connection may break at any time; if it ends by a close of the sender,  *)
(* everything accepted has been handed over.                               *)
(*                                                                         *)
(* The i-th accepted message is the number i.                              *)
(***************************************************************************)
EXTENDS Naturals, Sequences

CONSTANT MaxMsgs        \* bound on the number of accepted messages

VARIABLES
    sent,       \* number of messages accepted for sending
    closing,    \* the sender has asked for the end
    got,        \* the messages handed to the receiver
    end         \* "no", "complete" or "broken"

Init ==
    /\ sent = 0
    /\ closing = FALSE
    /\ got = <<>>
    /\ end = "no"

Send ==
    /\ ~closing
    /\ sent < MaxMsgs
    /\ sent' = sent + 1
    /\ UNCHANGED <<closing, got, end>>

Close ==
    /\ closing' = TRUE
    /\ UNCHANGED <<sent, got, end>>

Receive ==
    /\ end = "no"
    /\ Len(got) < sent
    /\ got' = Append(got, Len(got) + 1)
    /\ UNCHANGED <<sent, closing, end>>

Complete ==
    /\ end = "no"
    /\ closing
    /\ Len(got) = sent
    /\ end' = "complete"
    /\ UNCHANGED <<sent, closing, got>>

Break ==
    /\ end = "no"
    /\ end' = "broken"
    /\ UNCHANGED <<sent, closing, got>>

Next == Send \/ Close \/ Receive \/ Complete \/ Break

Spec == Init /\ [][Next]_<<sent, closing, got, end>>

=============================================================================
