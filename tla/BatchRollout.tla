------------------------------ MODULE BatchRollout ------------------------------
(***************************************************************************)
(* What a generate_sequences call promises its caller, without servers,    *)
(* requests, tools or tasks: between the call and its return each          *)
(* conversation of the batch only grows; one that has ended never changes  *)
(* again; and the call returns when all of them have ended, not before.    *)
(* ChatScheduler implements it.                                            *)
(***************************************************************************)
EXTENDS Naturals, Sequences

CONSTANTS
    Convs,      \* the conversations of all batches
    BatchOf,    \* BatchOf[c]: the batch conversation c belongs to
    Prompt      \* the messages a conversation begins with

VARIABLES
    rolling,    \* is a call in progress
    batch,      \* how many calls have been made
    transcript, \* transcript[c]: its messages so far
    ended       \* ended[c]

vars == <<rolling, batch, transcript, ended>>

Init ==
    /\ rolling = FALSE
    /\ batch = 0
    /\ transcript = [c \in Convs |-> Prompt]
    /\ ended = [c \in Convs |-> FALSE]

Call ==
    /\ ~rolling
    /\ rolling' = TRUE
    /\ batch' = batch + 1
    /\ UNCHANGED <<transcript, ended>>

\* t continues s.
Continues(s, t) == Len(s) <= Len(t) /\ SubSeq(t, 1, Len(s)) = s

\* Conversation c gets more messages, or ends, or both.
Proceed(c) ==
    /\ rolling
    /\ BatchOf[c] = batch
    /\ ~ended[c]
    /\ Continues(transcript[c], transcript'[c])
    /\ transcript' = [transcript EXCEPT ![c] = transcript'[c]]
    /\ \E e \in BOOLEAN : ended' = [ended EXCEPT ![c] = e]
    /\ UNCHANGED <<rolling, batch>>

Return ==
    /\ rolling
    /\ \A c \in Convs : BatchOf[c] = batch => ended[c]
    /\ rolling' = FALSE
    /\ UNCHANGED <<batch, transcript, ended>>

Next == Call \/ Return \/ \E c \in Convs : Proceed(c)

Spec == Init /\ [][Next]_vars

================================================================================
