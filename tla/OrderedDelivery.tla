-------------------------- MODULE OrderedDelivery --------------------------
(***************************************************************************)
(* What the transport promises to the readers that are attached to a       *)
(* stream: events are numbered as they are sent, and while readers are     *)
(* attached a frontier moves over the numbers, never back.  Every number   *)
(* it passes is either handed over, then, and not before or afterwards, or *)
(* excused: it was replayed to the reader by other means, or given up.     *)
(* What is handed over is a sequence, so that twice is not once.           *)
(***************************************************************************)
EXTENDS Naturals, Sequences, SequencesExt

VARIABLES
    sent,      \* events numbered so far: 0, 1, ..., sent - 1
    attached,  \* there are readers
    frontier,  \* the number the readers expect next
    got,       \* the numbers handed over to them, in order
    excused    \* numbers passed that may not be handed over

readerVars == <<attached, frontier, got, excused>>
vars == <<sent, readerVars>>

Init ==
    /\ sent = 0 /\ attached = FALSE
    /\ frontier = 0 /\ got = <<>> /\ excused = {}

Send ==
    /\ sent' \in Nat /\ sent < sent'
    /\ UNCHANGED readerVars

Fresh == frontier' = 0 /\ got' = <<>> /\ excused' = {}

Attach ==
    /\ ~attached /\ attached' = TRUE
    /\ Fresh
    /\ UNCHANGED sent

Detach ==
    /\ attached /\ attached' = FALSE
    /\ Fresh
    /\ UNCHANGED sent

\* The frontier passes some numbers that were sent, or none.
Advance ==
    /\ attached
    /\ frontier' \in frontier..sent
    /\ IsPrefix(got, got')
    /\ \A i \in DOMAIN got' \ DOMAIN got : got'[i] \in frontier..(frontier' - 1)
    /\ \A i, j \in DOMAIN got' : i < j => got'[i] < got'[j]
    /\ excused \subseteq excused'
    /\ Range(got') \cup excused' = 0..(frontier' - 1)
    /\ UNCHANGED <<sent, attached>>

Next == Send \/ Attach \/ Detach \/ Advance

Spec == Init /\ [][Next]_vars

=============================================================================
