---------------------------- MODULE RequestQueue ----------------------------
(***************************************************************************)
(* What a client of one IPC connection may rely on, with no bytes, reads   *)
(* or loops: its requests are served one at a time in the order it wrote   *)
(* them, each is answered once, and the one in hand is always answered.    *)
(* The server may give the connection up, between two requests only; it    *)
(* then answers no more.                                                   *)
(*                                                                         *)
(* IpcReader implements this (the mapping is in IpcReaderQueue.tla).       *)
(***************************************************************************)
EXTENDS Naturals, Sequences

VARIABLES
  asked,    \* how many requests the client has written
  serving,  \* the request after the last answered one is in hand
  answers,  \* the requests answered, in that order
  open      \* the server has not given the connection up

queueVars == <<asked, serving, answers, open>>

Init == asked = 0 /\ serving = FALSE /\ answers = <<>> /\ open = TRUE

Ask ==
  /\ asked' = asked + 1
  /\ UNCHANGED <<serving, answers, open>>

Begin ==
  /\ open /\ ~serving
  /\ Len(answers) < asked
  /\ serving' = TRUE
  /\ UNCHANGED <<asked, answers, open>>

Answer ==
  /\ serving
  /\ answers' = Append(answers, Len(answers) + 1)
  /\ serving' = FALSE
  /\ UNCHANGED <<asked, open>>

GiveUp ==
  /\ open /\ ~serving
  /\ open' = FALSE
  /\ UNCHANGED <<asked, serving, answers>>

Next == Ask \/ Begin \/ Answer \/ GiveUp

Spec == Init /\ [][Next]_queueVars

=============================================================================
