----------------------------- MODULE MCCanPoll -----------------------------
(* Module-checking instance of CanPoll: answers that are missing, shorter  *)
(* than a record, as long, and longer, with a space to skip.               *)
EXTENDS CanPoll

MCAnswers == { <<>>, <<"char">>, <<"char", "space", "char">>,
               <<"char", "char", "char">> }
=============================================================================
