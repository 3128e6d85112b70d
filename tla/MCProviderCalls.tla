--------------------------- MODULE MCProviderCalls ---------------------------
(* Three slots per window for two tasks that need two or three each: they  *)
(* take slots from each other, retries meet first attempts, and with every *)
(* second request rotating two rotations can be under way at once.         *)
EXTENDS ProviderCalls, TLC

CONSTANTS t1, t2

MCSlots == "brave" :> 3

MCPage == [kind |-> "page", code |-> 200, items |-> <<>>]

(* An answer, a refusal, a 429 with a time, silence. *)
MCExchanges ==
    {[sent |-> "answered", status |-> 200, hint |-> NoHint, body |-> MCPage],
     [sent |-> "answered", status |-> 403, hint |-> NoHint, body |-> MCPage],
     [sent |-> "answered", status |-> 429, hint |-> 2,      body |-> MCPage],
     [sent |-> "timed out", status |-> 0,  hint |-> NoHint, body |-> MCPage]}
=============================================================================
