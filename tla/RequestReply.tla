---------------------------- MODULE RequestReply ----------------------------
(* What a connection of the daemon promises its client: the lines are      *)
(* answered one by one, in the order in which they were written, each by a *)
(* response that is allowed for it.  A refusal is the last response.       *)
EXTENDS Naturals, Sequences

CONSTANTS
    Lines,          \* the lines a client may write
    Allowed,        \* line -> the responses it may get
    Refusal         \* the response that ends the connection

VARIABLES
    sent,           \* lines written so far
    written,        \* responses written so far
    open            \* the daemon still reads

vars == <<sent, written, open>>

Init == sent = <<>> /\ written = <<>> /\ open = TRUE

Send(l) ==
    /\ sent' = Append(sent, l)
    /\ UNCHANGED <<written, open>>

Answer ==
    /\ open
    /\ Len(written) < Len(sent)
    /\ \E response \in Allowed[sent[Len(written) + 1]] :
          /\ written' = Append(written, response)
          /\ open' = (response # Refusal)
    /\ UNCHANGED sent

Close == open' = FALSE /\ UNCHANGED <<sent, written>>

Next == (\E l \in Lines : Send(l)) \/ Answer \/ Close

Spec == Init /\ [][Next]_vars
=============================================================================
