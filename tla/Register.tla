------------------------------ MODULE Register ------------------------------
(***************************************************************************)
(* What the rewritable storage of the device promises its callers: each    *)
(* slot keeps the value last written to it.  One write at a time is        *)
(* called; it takes effect in one step, before it returns DCD_SUCCESS.  An *)
(* error or a loss of power may end it before or after that step and       *)
(* changes nothing.  The promise ends ("broken") when the implementation   *)
(* has gone on after an error of the flash which it did not report.        *)
(***************************************************************************)
CONSTANTS Slots, Values, Unset

VARIABLES content,   \* what a read of each slot returns, Unset for any bytes
          call,      \* the write in progress
          reply,     \* what the last write has returned
          broken

registerVars == <<content, call, reply, broken>>

NoCall == [slot |-> Unset, value |-> Unset, done |-> FALSE]

RegisterInit == /\ content \in [Slots -> Values \cup {Unset}]
                /\ call = NoCall
                /\ reply = "none"
                /\ broken = FALSE

Invoke(s, v) == /\ call = NoCall
                /\ call' = [slot |-> s, value |-> v, done |-> FALSE]
                /\ reply' = "none"
                /\ UNCHANGED content

TakeEffect == /\ call # NoCall /\ ~call.done
              /\ content' = [content EXCEPT ![call.slot] = call.value]
              /\ call' = [call EXCEPT !.done = TRUE]
              /\ UNCHANGED reply

Succeed == /\ call.done
           /\ call' = NoCall
           /\ reply' = "ok"
           /\ UNCHANGED content

Fail == /\ call' = NoCall
        /\ reply' \in {"error", "none"}
        /\ UNCHANGED content

RegisterNext == \/ /\ \/ \E s \in Slots, v \in Values : Invoke(s, v)
                      \/ TakeEffect
                      \/ Succeed
                      \/ Fail
                   /\ UNCHANGED broken
                \/ broken'

RegisterSpec == RegisterInit /\ [][RegisterNext]_registerVars
=============================================================================
